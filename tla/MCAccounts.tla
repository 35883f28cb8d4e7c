------------------------------ MODULE MCAccounts ------------------------------
(* Two users, two default roles, two permissions and one other of each. *)
EXTENDS Accounts, TLC

CONSTANTS a, b, r1, r2

Op(kind, email, name, code) == [kind |-> kind, email |-> email, name |-> name, code |-> code]

TwoEmails == {a, b}
OnlyA == {a}
Names == {"ADMIN", "USER", "Other"}
Codes == {"MANAGE_ROLES", "DELETE_USER"}
OtherCodes == {"Other"}
\* The role USER has a permission too, one that lets it do something.
Defaults == [n \in {"ADMIN", "USER"} |-> IF n = "ADMIN" THEN Codes ELSE {"DELETE_USER"}]
TwoRequests == {r1, r2}
AdminOps == {Op("assign", b, "ADMIN", None), Op("assign", b, "USER", None),
             Op("revoke", b, "USER", None), Op("revoke", b, "ADMIN", None),
             Op("create role", None, "Other", None), Op("rename role", None, "Other", None),
             Op("create permission", None, None, "Other"),
             Op("rename permission", None, None, "Other"),
             Op("delete user", b, None, None)}
===============================================================================
