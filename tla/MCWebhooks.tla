------------------------------ MODULE MCWebhooks ------------------------------
(* Two events, one of them without an endpoint, for Webhooks. *)
EXTENDS Webhooks, TLC

CONSTANTS e1, e2, a, b, r1, r2, j1, j2, u1

Msg(e, body, fresh, signature) ==
    [event |-> e, body |-> body, fresh |-> fresh, signature |-> signature]

TwoEvents == {e1, e2}
WithEndpoint == {e1}
Bodies == {a, b}
\* One message for each event that any receiver may get again, and others
\* that are refused.
Messages == {Msg(e1, a, TRUE, "as sent"), Msg(e1, b, FALSE, "as sent"),
             Msg(e2, a, TRUE, "normalised"), Msg(e2, b, TRUE, "wrong")}
TwoReceivers == {r1, r2}
TwoJobs == {j1, j2}
OneClerk == {u1}
===============================================================================
