----------------------------- MODULE AccountsProofs -----------------------------
(***************************************************************************)
(* Theorems about Accounts: its types, that only a registration that fails *)
(* or is disturbed leaves a user without a role, that nobody may manage    *)
(* roles before an administrator is bootstrapped, and that a registration  *)
(* finds the default roles, permissions and links.                         *)
(*                                                                         *)
(* Before the bootstrap no request edits roles or permissions, so every    *)
(* row keeps the name it was created under, and everything that            *)
(* registrations grant and link is plain: a role USER, and a link that     *)
(* does not give USER the permission to manage roles.  The defaults:       *)
(* rows and links are only added, and none under a name that is taken, so  *)
(* what one registration has found or added outlasts the others.           *)
(***************************************************************************)
EXTENDS Accounts, TLAPS

Starting == {"insert user", "read roles", "add roles"}
Ensuring == {"read codes", "add codes", "read links", "add links", "find role"}
Editing == {"save role", "save permission", "remove grant", "delete user"}

\* What a request knows at each of its steps.
Knows(r) ==
    /\ pc[r] = "idle" => req[r].kind = "none"
    /\ pc[r] \in Starting \cup Ensuring => req[r].kind \in {"register", "bootstrap"}
    /\ pc[r] \in Editing => req[r].kind = "admin"
    /\ req[r].kind \in {"register", "bootstrap"} => req[r].email \in Email
    /\ req[r].kind = "bootstrap" =>
        /\ pc[r] \in Ensuring => req[r].row \in RoleId
        /\ pc[r] \in Starting \cup {"read codes", "add codes", "read links"} => req[r].todo # {}
        /\ pc[r] = "add roles" => req[r].names = {"ADMIN"}
    /\ pc[r] = "add grant" =>
        /\ req[r].grant \in Email \X RoleId
        /\ req[r].kind = "register" => req[r].grant[1] = req[r].email
    /\ pc[r] = "save role" => req[r].names # {}
    /\ pc[r] = "save permission" => req[r].codes # {}
    /\ pc[r] = "delete user" => req[r].email \in Email /\ user[req[r].email] # "none"

\* Why a user has no role.
Reason(e) ==
    \/ \E r \in Request : Registering(r) /\ req[r].email = e
    \/ e \in excused \cup superuser

Reasons == \A e \in Email : user[e] # "none" /\ RolesOf(e) = {} => Reason(e)

PlainGrant(g) == g[2][1] = "USER"
PlainLink(l) == l[1][1] = "USER" => l[2][1] # "MANAGE_ROLES"

PlainTables ==
    superuser = {} =>
        /\ \A i \in RoleId : role[i] \in {i[1], None}
        /\ \A p \in PermissionId : permission[p] \in {p[1], None}
        /\ \A g \in grant : PlainGrant(g)
        /\ \A l \in link : PlainLink(l)

Plain(r) ==
    superuser = {} =>
        /\ \/ pc[r] = "idle" \/ req[r].kind = "register"
           \/ req[r].kind = "bootstrap" /\ pc[r] = "insert user"
           \/ pc[r] = "delete user"
        /\ pc[r] = "add grant" => PlainGrant(req[r].grant)
        /\ \A l \in req[r].links : PlainLink(l)

IInv ==
    /\ TypeOK /\ Reasons /\ PlainTables
    /\ \A r \in Request : Knows(r) /\ Plain(r)

-------------------------------------------------------------------------------
(* Lemmas. *)

Others(r) == \A s \in Request \ {r} : pc'[s] = pc[s] /\ req'[s] = req[s]

\* Users and their rows are not removed, and superusers stay what they are.
Grows ==
    /\ \A e \in Email : user[e] # "none" => user'[e] # "none"
    /\ superuser \subseteq superuser' /\ excused \subseteq excused'

\* The other requests know what they knew.
LEMMA OthersKeep ==
    ASSUME IInv, NEW s \in Request, pc'[s] = pc[s], req'[s] = req[s], Grows
    PROVE  Knows(s)' /\ Plain(s)'
<1>1. Knows(s) /\ Plain(s)
  BY DEF IInv
<1>2. Knows(s)'
  BY <1>1 DEF Knows, Grows
<1>3. Plain(s)'
  BY <1>1 DEF Plain, Grows, PlainGrant, PlainLink
<1> QED BY <1>2, <1>3

\* Whoever had a reason to be without a role has one, if the request that moves
\* goes on registering or its user has a role or another reason.
LEMMA ReasonsKept ==
    ASSUME IInv, NEW r \in Request, Others(r), Grows, grant \subseteq grant',
           \A e \in Email : user'[e] # "none" /\ user[e] = "none" => Reason(e)',
           Registering(r) => \/ Registering(r)' /\ req'[r].email = req[r].email
                             \/ req[r].email \in excused' \cup superuser'
                             \/ \E i \in RoleId : <<req[r].email, i>> \in grant'
    PROVE  Reasons'
<1> SUFFICES ASSUME NEW e \in Email, user'[e] # "none", RolesOf(e)' = {}
             PROVE  Reason(e)'
  BY DEF Reasons
<1>1. CASE user[e] = "none"
  BY <1>1
<1>2. CASE user[e] # "none"
  <2>1. RolesOf(e) = {}
    BY DEF RolesOf
  <2>2. Reason(e)
    BY <1>2, <2>1 DEF IInv, Reasons
  <2>3. CASE e \in excused \cup superuser
    BY <2>3 DEF Reason, Grows
  <2>4. ASSUME NEW s \in Request, Registering(s), req[s].email = e
        PROVE  Reason(e)'
    <3>1. CASE s # r
      BY <2>4, <3>1 DEF Others, Registering, Reason
    <3>2. CASE s = r
      <4>1. ~ \E i \in RoleId : <<e, i>> \in grant'
        BY DEF RolesOf
      <4> QED BY <2>4, <3>2, <4>1 DEF Reason
    <3> QED BY <3>1, <3>2
  <2> QED BY <2>2, <2>3, <2>4 DEF Reason
<1> QED BY <1>1, <1>2

\* A step of one request, put together.
LEMMA OneRequestMoves ==
    ASSUME IInv, NEW r \in Request, Others(r), Grows,
           TypeOK', Reasons', PlainTables', Knows(r)', Plain(r)'
    PROVE  IInv'
<1>1. \A s \in Request \ {r} : Knows(s)' /\ Plain(s)'
  BY OthersKeep DEF Others
<1> QED BY <1>1 DEF IInv

LEMMA BlankIsTyped ==
    /\ Blank \in Body /\ Blank.kind = "none"
    /\ Blank.links = {} /\ Blank.grant = None
BY DEF Blank, Body

\* A request that ends knows nothing.
LEMMA ClosedKnowsNothing ==
    ASSUME IInv, NEW r \in Request, Close(r)
    PROVE  /\ pc' \in [Request -> Label]
           /\ req' \in [Request -> Body]
           /\ Others(r) /\ Knows(r)' /\ Plain(r)'
<1>1. pc' = [pc EXCEPT ![r] = "idle"] /\ req' = [req EXCEPT ![r] = Blank]
  BY DEF Close, Goto
<1>2. pc'[r] = "idle" /\ req'[r] = Blank /\ Others(r)
  BY <1>1 DEF Others, IInv, TypeOK
<1>3. Knows(r)'
  BY <1>2, BlankIsTyped DEF Knows, Starting, Ensuring, Editing
<1>4. Plain(r)'
  BY <1>2, BlankIsTyped DEF Plain
<1>5. req' \in [Request -> Body]
  BY <1>1, BlankIsTyped DEF IInv, TypeOK
<1>6. pc' \in [Request -> Label]
  BY <1>1 DEF IInv, TypeOK, Label
<1> QED BY <1>2, <1>3, <1>4, <1>5, <1>6

LEMMA PlainTablesKept ==
    ASSUME IInv, UNCHANGED <<role, permission, link, grant>>, superuser \subseteq superuser'
    PROVE  PlainTables'
BY DEF IInv, PlainTables, PlainGrant, PlainLink

\* A registration that fails, or dies, is a reason.
LEMMA EndKeeps ==
    ASSUME IInv, NEW r \in Request, Close(r), UNCHANGED <<tables, edits>>,
           crashes' \in 0 .. MaxCrashes,
           excused' = IF Registering(r) THEN excused \cup {req[r].email} ELSE excused
    PROVE  IInv'
<1>1. Knows(r)
  BY DEF IInv
<1>2. Grows
  BY DEF Grows, tables
<1>3. excused' \subseteq Email
  BY <1>1 DEF Knows, Registering, IInv, TypeOK
<1>4. TypeOK'
  BY <1>3, ClosedKnowsNothing DEF tables, IInv, TypeOK
<1>5. Reasons'
  <2>1. Registering(r) => req[r].email \in excused' \cup superuser'
    OBVIOUS
  <2> QED BY <1>2, <2>1, ClosedKnowsNothing, ReasonsKept DEF tables
<1>6. PlainTables'
  BY PlainTablesKept DEF tables
<1> QED BY <1>2, <1>4, <1>5, <1>6, ClosedKnowsNothing, OneRequestMoves

LEMMA FailKeeps == ASSUME IInv, NEW r \in Request, Fail(r) PROVE IInv'
<1>1. crashes' \in 0 .. MaxCrashes
  BY DEF Fail, IInv, TypeOK
<1> QED BY <1>1, EndKeeps DEF Fail

LEMMA DieKeeps == ASSUME IInv, NEW r \in Request, Die(r) PROVE IInv'
<1>1. crashes' \in 0 .. MaxCrashes
  <2>1. crashes \in 0 .. MaxCrashes /\ crashes < MaxCrashes /\ crashes' = crashes + 1
    BY DEF Die, IInv, TypeOK
  <2>2. MaxCrashes \in Nat
    BY AccountsAssumption
  <2> QED BY <2>1, <2>2
<1> QED BY <1>1, EndKeeps DEF Die

-------------------------------------------------------------------------------
(* Who may manage roles. *)

LEMMA Unmanaged == ASSUME IInv PROVE NoManagerBeforeBootstrap
<1> SUFFICES ASSUME superuser = {}, NEW e \in Email, Allowed(e, "MANAGE_ROLES")
             PROVE  FALSE
  BY DEF NoManagerBeforeBootstrap
<1>1. /\ \A i \in RoleId : role[i] \in {i[1], None}
      /\ \A p \in PermissionId : permission[p] \in {p[1], None}
      /\ \A g \in grant : PlainGrant(g)
      /\ \A l \in link : PlainLink(l)
  BY DEF IInv, PlainTables
<1>2. \A i \in RolesOf(e) : i \in RoleId /\ i[1] = "USER"
  BY <1>1 DEF RolesOf, PlainGrant
<1>3. None # "ADMIN" /\ None # "MANAGE_ROLES"
  BY AccountsAssumption
<1>4. ~ \E i \in RolesOf(e) : role[i] = "ADMIN"
  BY <1>1, <1>2, <1>3
<1>5. "MANAGE_ROLES" \in HeldCodes(e)
  BY DEF Allowed
<1>6. PICK q \in PermissionId : /\ permission[q] = "MANAGE_ROLES"
                               /\ \E i \in RolesOf(e) : <<i, q>> \in link
  BY <1>4, <1>5 DEF HeldCodes
<1>7. PICK i \in RolesOf(e) : <<i, q>> \in link
  BY <1>6
<1>8. q[1] = "MANAGE_ROLES"
  BY <1>1, <1>3, <1>6
<1> QED BY <1>1, <1>2, <1>7, <1>8 DEF PlainLink

-------------------------------------------------------------------------------
(* The steps that leave the tables alone. *)

LEMMA Moves ==
    ASSUME IInv, NEW r \in Request, Others(r),
           UNCHANGED <<tables, crashes, excused>>, edits' \in 0 .. MaxEdits,
           pc' \in [Request -> Label], req' \in [Request -> Body],
           Knows(r)', Plain(r)',
           Registering(r) => \/ Registering(r)' /\ req'[r].email = req[r].email
                             \/ \E i \in RoleId : <<req[r].email, i>> \in grant
    PROVE  IInv'
<1>1. Grows
  BY DEF Grows, tables
<1>2. TypeOK'
  BY DEF tables, IInv, TypeOK
<1>3. Reasons'
  BY <1>1, ReasonsKept DEF tables
<1>4. PlainTables'
  BY PlainTablesKept DEF tables
<1> QED BY <1>1, <1>2, <1>3, <1>4, OneRequestMoves

\* A request whose step and body are set.
LEMMA Proceeds ==
    ASSUME IInv, NEW r \in Request, NEW l \in Label, NEW b \in Body,
           Goto(r, l), req' = [req EXCEPT ![r] = b]
    PROVE  /\ pc' \in [Request -> Label] /\ req' \in [Request -> Body] /\ Others(r)
           /\ pc'[r] = l /\ req'[r] = b
BY DEF Goto, Others, IInv, TypeOK

LEMMA BeginRegisterKeeps == ASSUME IInv, NEW r \in Request, BeginRegister(r) PROVE IInv'
<1>1. PICK e \in Email :
        req' = [req EXCEPT ![r] = [Blank EXCEPT !.kind = "register", !.email = e, !.todo = Code]]
  BY DEF BeginRegister
<1> DEFINE b == [Blank EXCEPT !.kind = "register", !.email = e, !.todo = Code]
<1>2. b \in Body /\ b.kind = "register" /\ b.email = e /\ b.grant = None /\ b.links = {}
  BY DEF Blank, Body
<1>3. "insert user" \in Label /\ Goto(r, "insert user")
  BY DEF BeginRegister, Label
<1> HIDE DEF b
<1>4. /\ pc' \in [Request -> Label] /\ req' \in [Request -> Body] /\ Others(r)
      /\ pc'[r] = "insert user" /\ req'[r] = b
  BY <1>1, <1>2, <1>3, Proceeds DEF b
<1>5. Knows(r)' /\ Plain(r)'
  BY <1>2, <1>4 DEF Knows, Plain, Starting, Ensuring, Editing
<1>6. ~Registering(r)
  BY DEF BeginRegister, IInv, Knows, Registering
<1>7. UNCHANGED <<tables, crashes, excused>> /\ edits' \in 0 .. MaxEdits
  BY DEF BeginRegister, IInv, TypeOK
<1> QED BY <1>4, <1>5, <1>6, <1>7, Moves

\* What PlainTables says of the links that a registration is about to add.
LEMMA RegistrationLinksArePlain ==
    ASSUME IInv, superuser = {}, NEW r \in Request, req[r].kind = "register",
           NEW l \in WantedLinks(r)
    PROVE  PlainLink(l)
<1>1. PICK n \in Default :
        l \in Rows(role, n) \X UNION {Rows(permission, c) : c \in DefaultCodes[n]}
  BY DEF WantedLinks
<1>2. PICK c \in DefaultCodes[n] : l[1] \in Rows(role, n) /\ l[2] \in Rows(permission, c)
  BY <1>1
<1>3. role[l[1]] = n /\ l[1] \in RoleId /\ permission[l[2]] = c /\ l[2] \in PermissionId
  BY <1>2 DEF Rows, IInv, TypeOK
<1>4. n # None /\ c # None
  BY AccountsAssumption
<1>5. l[1][1] = n /\ l[2][1] = c
  BY <1>3, <1>4 DEF IInv, PlainTables
<1> QED BY <1>5, AccountsAssumption DEF PlainLink

LEMMA WantedCodesAreCodes ==
    ASSUME IInv, NEW r \in Request, req[r].kind \in {"register", "bootstrap"},
           req[r].kind = "bootstrap" => req[r].todo # {}
    PROVE  WantedCodes(r) \subseteq req[r].todo /\ WantedCodes(r) \subseteq Code
<1>1. req[r].todo \subseteq Code
  BY DEF IInv, TypeOK, Body
<1>2. WantedCodes(r) \subseteq req[r].todo
  BY DEF WantedCodes
<1> QED BY <1>1, <1>2

LEMMA AdminRowIsARow ==
    ASSUME NEW r \in Request, NEW table \in [RoleId -> Name \cup {None}],
           req[r].kind = "bootstrap", "ADMIN" \in Values(table)
    PROVE  AdminRow(r, table) \in RoleId
<1>1. Rows(table, "ADMIN") # {} /\ Rows(table, "ADMIN") \subseteq RoleId
  BY DEF Values, Rows
<1> QED BY <1>1 DEF AdminRow

LEMMA NoRowIsTyped ==
    ASSUME NEW r \in Request, NEW table, req[r].kind = "register"
    PROVE  AdminRow(r, table) = None
BY DEF AdminRow

LEMMA ReadRolesKeeps == ASSUME IInv, NEW r \in Request, ReadRoles(r) PROVE IInv'
<1> DEFINE missing == WantedRoles(r) \ Values(role)
           row == IF missing = {} THEN AdminRow(r, role) ELSE None
           b == [req[r] EXCEPT !.names = missing, !.row = row]
<1>1. /\ pc[r] = "read roles" /\ req' = [req EXCEPT ![r].names = missing, ![r].row = row]
      /\ Goto(r, AfterRoles(missing)) /\ UNCHANGED <<tables, edits, crashes, excused>>
  BY DEF ReadRoles
<1>2. req[r] \in Body /\ Knows(r) /\ Plain(r) /\ role \in [RoleId -> Name \cup {None}]
  BY DEF IInv, TypeOK
<1>3. req[r].kind \in {"register", "bootstrap"}
  BY <1>1, <1>2 DEF Knows, Starting
<1>4. missing \subseteq Name
  BY AccountsAssumption DEF WantedRoles
<1>5. /\ row \in RoleId \cup {None}
      /\ req[r].kind = "bootstrap" /\ missing = {} => row \in RoleId
  BY <1>2, <1>3, AdminRowIsARow, NoRowIsTyped DEF WantedRoles
<1>6. /\ req[r].kind = "bootstrap" => missing \subseteq {"ADMIN"}
      /\ AfterRoles(missing) \in Label
      /\ AfterRoles(missing) = IF missing = {} THEN "read codes" ELSE "add roles"
  BY DEF WantedRoles, AfterRoles, Label
<1> HIDE DEF missing, row
<1>7. /\ b \in Body /\ b.kind = req[r].kind /\ b.email = req[r].email /\ b.grant = req[r].grant
      /\ b.links = req[r].links /\ b.todo = req[r].todo /\ b.names = missing /\ b.row = row
  BY <1>2, <1>4, <1>5 DEF Body
<1>8. req' = [req EXCEPT ![r] = b]
  BY <1>1
<1> HIDE DEF b
<1>9. /\ pc' \in [Request -> Label] /\ req' \in [Request -> Body] /\ Others(r)
      /\ pc'[r] = AfterRoles(missing) /\ req'[r] = b
  BY <1>1, <1>6, <1>7, <1>8, Proceeds
<1>10. Knows(r)'
  <2>1. req[r].kind = "bootstrap" /\ missing # {} => missing = {"ADMIN"}
    BY <1>6
  <2>2. pc'[r] = IF missing = {} THEN "read codes" ELSE "add roles"
    BY <1>6, <1>9
  <2>3. /\ req[r].email \in Email
        /\ req[r].kind = "bootstrap" => req[r].todo # {}
    BY <1>1, <1>2, <1>3 DEF Knows, Starting
  <2> QED BY <1>3, <1>5, <1>7, <1>9, <2>1, <2>2, <2>3 DEF Knows, Starting, Ensuring, Editing
<1>11. Plain(r)'
  BY <1>1, <1>2, <1>6, <1>7, <1>9 DEF Plain, tables, PlainLink
<1>12. Registering(r) => Registering(r)' /\ req'[r].email = req[r].email
  BY <1>6, <1>7, <1>9 DEF Registering
<1>13. edits' \in 0 .. MaxEdits
  BY <1>1 DEF IInv, TypeOK
<1> QED BY <1>1, <1>9, <1>10, <1>11, <1>12, <1>13, Moves

LEMMA ReadCodesKeeps == ASSUME IInv, NEW r \in Request, ReadCodes(r) PROVE IInv'
<1> DEFINE missing == WantedCodes(r) \ Values(permission)
           b == [req[r] EXCEPT !.codes = missing]
           l == IF missing = {} THEN "read links" ELSE "add codes"
<1>1. /\ pc[r] = "read codes" /\ req' = [req EXCEPT ![r].codes = missing]
      /\ Goto(r, l) /\ UNCHANGED <<tables, edits, crashes, excused>>
  BY DEF ReadCodes
<1>2. req[r] \in Body /\ Knows(r) /\ Plain(r)
  BY DEF IInv, TypeOK
<1>3. /\ req[r].kind \in {"register", "bootstrap"}
      /\ req[r].kind = "bootstrap" => req[r].todo # {}
  BY <1>1, <1>2 DEF Knows, Ensuring
<1>4. missing \subseteq Code
  BY <1>3, WantedCodesAreCodes
<1>5. l \in Label
  BY DEF Label
<1> HIDE DEF missing
<1>6. /\ b \in Body /\ b.kind = req[r].kind /\ b.email = req[r].email /\ b.grant = req[r].grant
      /\ b.links = req[r].links /\ b.todo = req[r].todo /\ b.row = req[r].row
  BY <1>2, <1>4 DEF Body
<1>7. req' = [req EXCEPT ![r] = b]
  BY <1>1
<1> HIDE DEF b
<1>8. /\ pc' \in [Request -> Label] /\ req' \in [Request -> Body] /\ Others(r)
      /\ pc'[r] = l /\ req'[r] = b
  BY <1>1, <1>5, <1>6, <1>7, Proceeds
<1>9. Knows(r)'
  BY <1>1, <1>2, <1>3, <1>6, <1>8 DEF Knows, Starting, Ensuring, Editing
<1>10. Plain(r)'
  BY <1>1, <1>2, <1>6, <1>8 DEF Plain, tables, PlainGrant, PlainLink
<1>11. Registering(r) => Registering(r)' /\ req'[r].email = req[r].email
  BY <1>6, <1>8 DEF Registering
<1>12. edits' \in 0 .. MaxEdits
  BY <1>1 DEF IInv, TypeOK
<1> QED BY <1>1, <1>8, <1>9, <1>10, <1>11, <1>12, Moves

LEMMA ReadLinksKeeps == ASSUME IInv, NEW r \in Request, ReadLinks(r) PROVE IInv'
<1> DEFINE missing == WantedLinks(r) \ link
           rest == req[r].todo \ WantedCodes(r)
           b == [req[r] EXCEPT !.links = missing, !.todo = rest]
<1>1. /\ pc[r] = "read links"
      /\ req' = [req EXCEPT ![r].links = missing, ![r].todo = rest]
      /\ Goto(r, "add links") /\ UNCHANGED <<tables, edits, crashes, excused>>
  BY DEF ReadLinks, IInv, TypeOK
<1>2. req[r] \in Body /\ Knows(r) /\ Plain(r)
  BY DEF IInv, TypeOK
<1>3. /\ req[r].kind \in {"register", "bootstrap"}
      /\ req[r].kind = "bootstrap" => req[r].row \in RoleId
  BY <1>1, <1>2 DEF Knows, Ensuring
<1>4. missing \subseteq RoleId \X PermissionId
  <2>1. \A n : Rows(role, n) \subseteq RoleId
    BY DEF Rows, IInv, TypeOK
  <2>2. \A c : Rows(permission, c) \subseteq PermissionId
    BY DEF Rows, IInv, TypeOK
  <2>3. CASE req[r].kind = "register"
    BY <2>1, <2>2, <2>3 DEF WantedLinks
  <2>4. CASE req[r].kind = "bootstrap"
    BY <1>3, <2>2, <2>4 DEF WantedLinks
  <2> QED BY <1>3, <2>3, <2>4
<1>5. rest \subseteq Code
  BY <1>2 DEF Body
<1>6. superuser = {} /\ req[r].kind = "register" => \A l \in missing : PlainLink(l)
  BY RegistrationLinksArePlain
<1> HIDE DEF missing, rest
<1>7. /\ b \in Body /\ b.kind = req[r].kind /\ b.email = req[r].email /\ b.grant = req[r].grant
      /\ b.links = missing /\ b.row = req[r].row
  BY <1>2, <1>4, <1>5 DEF Body
<1>8. req' = [req EXCEPT ![r] = b] /\ "add links" \in Label
  BY <1>1 DEF Label
<1> HIDE DEF b
<1>9. /\ pc' \in [Request -> Label] /\ req' \in [Request -> Body] /\ Others(r)
      /\ pc'[r] = "add links" /\ req'[r] = b
  BY <1>1, <1>7, <1>8, Proceeds
<1>10. Knows(r)'
  BY <1>1, <1>2, <1>3, <1>7, <1>9 DEF Knows, Starting, Ensuring, Editing
<1>11. Plain(r)'
  BY <1>1, <1>2, <1>6, <1>7, <1>9 DEF Plain, tables, PlainGrant, PlainLink
<1>12. Registering(r) => Registering(r)' /\ req'[r].email = req[r].email
  BY <1>7, <1>9 DEF Registering
<1>13. edits' \in 0 .. MaxEdits
  BY <1>1 DEF IInv, TypeOK
<1> QED BY <1>1, <1>9, <1>10, <1>11, <1>12, <1>13, Moves

LEMMA FindRoleKeeps == ASSUME IInv, NEW r \in Request, FindRole(r) PROVE IInv'
<1> DEFINE rows == IF req[r].kind = "register" THEN Rows(role, "USER") ELSE {req[r].row}
<1>1. CASE NotFound(r)
  BY <1>1, FailKeeps DEF NotFound
<1>2. CASE ~NotFound(r)
  <2>1. pc[r] = "find role" /\ UNCHANGED <<tables, edits, crashes, excused>>
    BY <1>2 DEF FindRole
  <2>2. PICK i \in rows :
          IF <<req[r].email, i>> \in grant THEN Close(r)
          ELSE req' = [req EXCEPT ![r].grant = <<req[r].email, i>>] /\ Goto(r, "add grant")
    BY <1>2 DEF FindRole
  <2>3. req[r] \in Body /\ Knows(r) /\ Plain(r)
    BY DEF IInv, TypeOK
  <2>4. /\ req[r].kind \in {"register", "bootstrap"} /\ req[r].email \in Email
        /\ req[r].kind = "bootstrap" => req[r].row \in RoleId
    BY <2>1, <2>3 DEF Knows, Ensuring
  <2>5. i \in RoleId /\ (req[r].kind = "register" => role[i] = "USER")
    BY <2>2, <2>4 DEF Rows, IInv, TypeOK
  <2>6. edits' \in 0 .. MaxEdits
    BY <2>1 DEF IInv, TypeOK
  <2>7. CASE <<req[r].email, i>> \in grant
    BY <2>1, <2>2, <2>5, <2>6, <2>7, ClosedKnowsNothing, Moves
  <2>8. CASE <<req[r].email, i>> \notin grant
    <3> DEFINE b == [req[r] EXCEPT !.grant = <<req[r].email, i>>]
    <3>1. /\ b \in Body /\ b.kind = req[r].kind /\ b.email = req[r].email
          /\ b.grant \in Email \X RoleId /\ b.grant[1] = req[r].email /\ b.grant[2] = i
          /\ b.links = req[r].links
      BY <2>3, <2>4, <2>5 DEF Body
    <3>2. req' = [req EXCEPT ![r] = b] /\ Goto(r, "add grant") /\ "add grant" \in Label
      BY <2>2, <2>8 DEF Label
    <3> HIDE DEF b
    <3>3. /\ pc' \in [Request -> Label] /\ req' \in [Request -> Body] /\ Others(r)
          /\ pc'[r] = "add grant" /\ req'[r] = b
      BY <3>1, <3>2, Proceeds
    <3>4. Knows(r)'
      BY <2>4, <3>1, <3>3 DEF Knows, Starting, Ensuring, Editing
    <3>5. superuser = {} => req[r].kind = "register" /\ i[1] = "USER"
      <4>1. superuser = {} => req[r].kind = "register"
        BY <2>1, <2>3, <2>4 DEF Plain
      <4>2. superuser = {} => role[i] \in {i[1], None}
        BY <2>5 DEF IInv, PlainTables
      <4>3. None # "USER"
        BY AccountsAssumption
      <4> QED BY <2>5, <4>1, <4>2, <4>3
    <3>6. Plain(r)'
      <4>1. superuser' = superuser
        BY <2>1 DEF tables
      <4>2. superuser = {} => \A l \in req[r].links : PlainLink(l)
        BY <2>3 DEF Plain
      <4>3. superuser = {} => PlainGrant(b.grant)
        BY <3>1, <3>5 DEF PlainGrant
      <4> QED BY <3>1, <3>3, <3>5, <4>1, <4>2, <4>3 DEF Plain, PlainGrant, PlainLink
    <3>7. Registering(r) => Registering(r)' /\ req'[r].email = req[r].email
      BY <3>1, <3>3 DEF Registering
    <3> QED BY <2>1, <2>6, <3>3, <3>4, <3>6, <3>7, Moves
  <2> QED BY <2>7, <2>8
<1> QED BY <1>1, <1>2

-------------------------------------------------------------------------------
(* The steps that add rows. *)

LEMMA RowsAreAdded ==
    ASSUME IInv, NEW r \in Request, Others(r),
           UNCHANGED <<user, superuser, edits, crashes, excused>>,
           role' \in [RoleId -> Name \cup {None}],
           permission' \in [PermissionId -> Code \cup OtherCode \cup {None}],
           link' \subseteq RoleId \X PermissionId,
           grant' \subseteq Email \X RoleId, grant \subseteq grant',
           pc' \in [Request -> Label], req' \in [Request -> Body],
           PlainTables', Knows(r)', Plain(r)',
           Registering(r) => \/ Registering(r)' /\ req'[r].email = req[r].email
                             \/ \E i \in RoleId : <<req[r].email, i>> \in grant'
    PROVE  IInv'
<1>1. Grows
  BY DEF Grows
<1>2. TypeOK'
  BY DEF IInv, TypeOK
<1>3. Reasons'
  BY <1>1, ReasonsKept
<1> QED BY <1>1, <1>2, <1>3, OneRequestMoves

LEMMA RolesAreAdded ==
    ASSUME NEW table \in [RoleId -> Name \cup {None}], NEW values
    PROVE  /\ With(table, values) \in [RoleId -> Name \cup {None}]
           /\ \A i \in RoleId : With(table, values)[i] \in {table[i], i[1]}
BY DEF With, RoleId

LEMMA CodesAreAdded ==
    ASSUME NEW table \in [PermissionId -> Code \cup OtherCode \cup {None}], NEW values
    PROVE  /\ With(table, values) \in [PermissionId -> Code \cup OtherCode \cup {None}]
           /\ \A i \in PermissionId : With(table, values)[i] \in {table[i], i[1]}
BY DEF With, PermissionId

\* The row of ADMIN that the script has just added.
LEMMA AdminIsAdded ==
    ASSUME NEW table \in [RoleId -> Name \cup {None}], HaveNext(table, {"ADMIN"})
    PROVE  "ADMIN" \in Values(With(table, {"ADMIN"}))
<1>1. PICK i \in RoleId : IsNext(table, i, "ADMIN")
  BY DEF HaveNext, HasNext
<1>2. i[1] = "ADMIN"
  BY <1>1 DEF IsNext
<1>3. With(table, {"ADMIN"})[i] = "ADMIN"
  BY <1>1, <1>2 DEF With
<1>4. DOMAIN With(table, {"ADMIN"}) = RoleId
  BY DEF With
<1>5. "ADMIN" # None
  BY AccountsAssumption
<1> QED BY <1>3, <1>4, <1>5 DEF Values

LEMMA AddRolesKeeps == ASSUME IInv, NEW r \in Request, AddRoles(r) PROVE IInv'
<1>1. CASE Fail(r)
  BY <1>1, FailKeeps
<1>2. CASE ~Fail(r)
  <2> DEFINE table == With(role, req[r].names)
             b == [req[r] EXCEPT !.names = {}, !.row = AdminRow(r, table)]
  <2>1. /\ pc[r] = "add roles" /\ HaveNext(role, req[r].names) /\ role' = table
        /\ req' = [req EXCEPT ![r].names = {}, ![r].row = AdminRow(r, table)]
        /\ Goto(r, "read codes")
        /\ UNCHANGED <<user, superuser, permission, link, grant, edits, crashes, excused>>
    BY <1>2 DEF AddRoles
  <2>2. req[r] \in Body /\ Knows(r) /\ Plain(r) /\ role \in [RoleId -> Name \cup {None}]
    BY DEF IInv, TypeOK
  <2>3. /\ req[r].kind \in {"register", "bootstrap"} /\ req[r].email \in Email
        /\ req[r].kind = "bootstrap" => req[r].todo # {} /\ req[r].names = {"ADMIN"}
    BY <2>1, <2>2 DEF Knows, Starting
  <2>4. table \in [RoleId -> Name \cup {None}] /\ \A i \in RoleId : table[i] \in {role[i], i[1]}
    BY <2>2, RolesAreAdded
  <2>5. req[r].kind = "bootstrap" => "ADMIN" \in Values(table)
    BY <2>1, <2>2, <2>3, AdminIsAdded
  <2>6. /\ AdminRow(r, table) \in RoleId \cup {None}
        /\ req[r].kind = "bootstrap" => AdminRow(r, table) \in RoleId
    BY <2>3, <2>4, <2>5, AdminRowIsARow, NoRowIsTyped
  <2> HIDE DEF table
  <2>7. /\ b \in Body /\ b.kind = req[r].kind /\ b.email = req[r].email /\ b.grant = req[r].grant
        /\ b.links = req[r].links /\ b.todo = req[r].todo /\ b.row = AdminRow(r, table)
    BY <2>2, <2>6 DEF Body
  <2>8. req' = [req EXCEPT ![r] = b] /\ "read codes" \in Label
    BY <2>1 DEF Label
  <2> HIDE DEF b
  <2>9. /\ pc' \in [Request -> Label] /\ req' \in [Request -> Body] /\ Others(r)
        /\ pc'[r] = "read codes" /\ req'[r] = b
    BY <2>1, <2>7, <2>8, Proceeds
  <2>10. Knows(r)'
    BY <2>3, <2>6, <2>7, <2>9 DEF Knows, Starting, Ensuring, Editing
  <2>11. Plain(r)'
    BY <2>1, <2>2, <2>7, <2>9 DEF Plain, PlainGrant, PlainLink
  <2>12. PlainTables'
    BY <2>1, <2>4 DEF IInv, PlainTables, PlainGrant, PlainLink
  <2>13. Registering(r) => Registering(r)' /\ req'[r].email = req[r].email
    BY <2>7, <2>9 DEF Registering
  <2>14. /\ role' \in [RoleId -> Name \cup {None}]
         /\ permission' \in [PermissionId -> Code \cup OtherCode \cup {None}]
         /\ link' \subseteq RoleId \X PermissionId
         /\ grant' \subseteq Email \X RoleId /\ grant \subseteq grant'
    BY <2>1, <2>4 DEF IInv, TypeOK
  <2> QED BY <2>1, <2>9, <2>10, <2>11, <2>12, <2>13, <2>14, RowsAreAdded
<1> QED BY <1>1, <1>2

LEMMA AddCodesKeeps == ASSUME IInv, NEW r \in Request, AddCodes(r) PROVE IInv'
<1>1. CASE Fail(r)
  BY <1>1, FailKeeps
<1>2. CASE ~Fail(r)
  <2> DEFINE table == With(permission, req[r].codes)
             b == [req[r] EXCEPT !.codes = {}]
  <2>1. /\ pc[r] = "add codes" /\ permission' = table
        /\ req' = [req EXCEPT ![r].codes = {}] /\ Goto(r, "read links")
        /\ UNCHANGED <<user, superuser, role, link, grant, edits, crashes, excused>>
    BY <1>2 DEF AddCodes
  <2>2. /\ req[r] \in Body /\ Knows(r) /\ Plain(r)
        /\ permission \in [PermissionId -> Code \cup OtherCode \cup {None}]
    BY DEF IInv, TypeOK
  <2>3. /\ req[r].kind \in {"register", "bootstrap"} /\ req[r].email \in Email
        /\ req[r].kind = "bootstrap" => req[r].todo # {} /\ req[r].row \in RoleId
    BY <2>1, <2>2 DEF Knows, Ensuring, Starting
  <2>4. /\ table \in [PermissionId -> Code \cup OtherCode \cup {None}]
        /\ \A i \in PermissionId : table[i] \in {permission[i], i[1]}
    BY <2>2, CodesAreAdded
  <2> HIDE DEF table
  <2>5. /\ b \in Body /\ b.kind = req[r].kind /\ b.email = req[r].email /\ b.grant = req[r].grant
        /\ b.links = req[r].links /\ b.todo = req[r].todo /\ b.row = req[r].row
    BY <2>2 DEF Body
  <2>6. req' = [req EXCEPT ![r] = b] /\ "read links" \in Label
    BY <2>1 DEF Label
  <2> HIDE DEF b
  <2>7. /\ pc' \in [Request -> Label] /\ req' \in [Request -> Body] /\ Others(r)
        /\ pc'[r] = "read links" /\ req'[r] = b
    BY <2>1, <2>5, <2>6, Proceeds
  <2>8. Knows(r)'
    BY <2>3, <2>5, <2>7 DEF Knows, Starting, Ensuring, Editing
  <2>9. Plain(r)'
    BY <2>1, <2>2, <2>5, <2>7 DEF Plain, PlainGrant, PlainLink
  <2>10. PlainTables'
    BY <2>1, <2>4 DEF IInv, PlainTables, PlainGrant, PlainLink
  <2>11. Registering(r) => Registering(r)' /\ req'[r].email = req[r].email
    BY <2>5, <2>7 DEF Registering
  <2>12. /\ role' \in [RoleId -> Name \cup {None}]
         /\ permission' \in [PermissionId -> Code \cup OtherCode \cup {None}]
         /\ link' \subseteq RoleId \X PermissionId
         /\ grant' \subseteq Email \X RoleId /\ grant \subseteq grant'
    BY <2>1, <2>4 DEF IInv, TypeOK
  <2> QED BY <2>1, <2>7, <2>8, <2>9, <2>10, <2>11, <2>12, RowsAreAdded
<1> QED BY <1>1, <1>2

LEMMA AddLinksKeeps == ASSUME IInv, NEW r \in Request, AddLinks(r) PROVE IInv'
<1>1. CASE Fail(r)
  BY <1>1, FailKeeps
<1>2. CASE ~Fail(r)
  <2> DEFINE b == [req[r] EXCEPT !.links = {}]
             l == IF req[r].todo = {} THEN "find role" ELSE "read codes"
  <2>1. /\ pc[r] = "add links" /\ link' = link \cup req[r].links
        /\ req' = [req EXCEPT ![r].links = {}] /\ Goto(r, l)
        /\ UNCHANGED <<user, superuser, role, permission, grant, edits, crashes, excused>>
    BY <1>2 DEF AddLinks
  <2>2. req[r] \in Body /\ Knows(r) /\ Plain(r)
    BY DEF IInv, TypeOK
  <2>3. /\ req[r].kind \in {"register", "bootstrap"} /\ req[r].email \in Email
        /\ req[r].kind = "bootstrap" => req[r].row \in RoleId
    BY <2>1, <2>2 DEF Knows, Ensuring
  <2>4. /\ b \in Body /\ b.kind = req[r].kind /\ b.email = req[r].email /\ b.grant = req[r].grant
        /\ b.links = {} /\ b.todo = req[r].todo /\ b.row = req[r].row
    BY <2>2 DEF Body
  <2>5. req' = [req EXCEPT ![r] = b] /\ l \in Label
    BY <2>1 DEF Label
  <2> HIDE DEF b
  <2>6. /\ pc' \in [Request -> Label] /\ req' \in [Request -> Body] /\ Others(r)
        /\ pc'[r] = l /\ req'[r] = b
    BY <2>1, <2>4, <2>5, Proceeds
  <2>7. Knows(r)'
    BY <2>3, <2>4, <2>6 DEF Knows, Starting, Ensuring, Editing
  <2>8. Plain(r)'
    BY <2>1, <2>2, <2>4, <2>6 DEF Plain, PlainGrant
  <2>9. PlainTables'
    BY <2>1, <2>2 DEF IInv, PlainTables, Plain, PlainGrant, PlainLink
  <2>10. Registering(r) => Registering(r)' /\ req'[r].email = req[r].email
    BY <2>4, <2>6 DEF Registering
  <2>11. /\ role' \in [RoleId -> Name \cup {None}]
         /\ permission' \in [PermissionId -> Code \cup OtherCode \cup {None}]
         /\ link' \subseteq RoleId \X PermissionId
         /\ grant' \subseteq Email \X RoleId /\ grant \subseteq grant'
    BY <2>1, <2>2 DEF IInv, TypeOK, Body
  <2> QED BY <2>1, <2>6, <2>7, <2>8, <2>9, <2>10, <2>11, RowsAreAdded
<1> QED BY <1>1, <1>2

LEMMA AddGrantKeeps == ASSUME IInv, NEW r \in Request, AddGrant(r) PROVE IInv'
<1>1. CASE Fail(r)
  BY <1>1, FailKeeps
<1>2. CASE ~Fail(r)
  <2>1. /\ pc[r] = "add grant" /\ grant' = grant \cup {req[r].grant} /\ Close(r)
        /\ UNCHANGED <<user, superuser, role, permission, link, edits, crashes, excused>>
    BY <1>2 DEF AddGrant
  <2>2. Knows(r) /\ Plain(r)
    BY DEF IInv
  <2>3. /\ req[r].grant \in Email \X RoleId
        /\ req[r].kind = "register" => req[r].grant[1] = req[r].email
    BY <2>1, <2>2 DEF Knows
  <2>4. PlainTables'
    BY <2>1, <2>2 DEF IInv, PlainTables, Plain, PlainGrant, PlainLink
  <2>5. ASSUME Registering(r) PROVE \E i \in RoleId : <<req[r].email, i>> \in grant'
    <3>1. PICK e \in Email, i \in RoleId : req[r].grant = <<e, i>>
      BY <2>3
    <3>2. req[r].kind = "register"
      BY <2>5 DEF Registering
    <3>3. req[r].grant[1] = e
      BY <3>1
    <3> QED BY <2>1, <2>3, <3>1, <3>2, <3>3
  <2>6. /\ role' \in [RoleId -> Name \cup {None}]
        /\ permission' \in [PermissionId -> Code \cup OtherCode \cup {None}]
        /\ link' \subseteq RoleId \X PermissionId
        /\ grant' \subseteq Email \X RoleId /\ grant \subseteq grant'
    BY <2>1, <2>3 DEF IInv, TypeOK
  <2> QED BY <2>1, <2>4, <2>5, <2>6, ClosedKnowsNothing, RowsAreAdded
<1> QED BY <1>1, <1>2

-------------------------------------------------------------------------------
(* The steps that change users, and those of administrators. *)

LEMMA BeginBootstrapKeeps == ASSUME IInv, NEW r \in Request, BeginBootstrap(r) PROVE IInv'
<1>1. PICK e \in Email :
        /\ req' = [req EXCEPT ![r] = [Blank EXCEPT !.kind = "bootstrap", !.email = e, !.todo = Code]]
        /\ \/ Goto(r, "insert user") /\ UNCHANGED superuser
           \/ superuser' = superuser \cup {e} /\ Goto(r, "read roles")
  BY DEF BeginBootstrap
<1> DEFINE b == [Blank EXCEPT !.kind = "bootstrap", !.email = e, !.todo = Code]
<1>2. /\ b \in Body /\ b.kind = "bootstrap" /\ b.email = e /\ b.grant = None /\ b.links = {}
      /\ b.todo = Code
  BY DEF Blank, Body
<1>3. Code # {}
  BY AccountsAssumption
<1>4. UNCHANGED <<user, role, permission, link, grant, edits, crashes, excused>>
  BY DEF BeginBootstrap
<1> HIDE DEF b
<1>5. PICK l \in {"insert user", "read roles"} : Goto(r, l) /\ (l = "read roles" => e \in superuser')
  BY <1>1
<1>6. l \in Label
  BY DEF Label
<1>7. /\ pc' \in [Request -> Label] /\ req' \in [Request -> Body] /\ Others(r)
      /\ pc'[r] = l /\ req'[r] = b
  BY <1>1, <1>2, <1>5, <1>6, Proceeds DEF b
<1>8. superuser' \subseteq Email /\ superuser \subseteq superuser'
  BY <1>1 DEF IInv, TypeOK
<1>9. Knows(r)' /\ Plain(r)'
  BY <1>2, <1>3, <1>5, <1>7 DEF Knows, Plain, Starting, Ensuring, Editing
<1>10. ~Registering(r)
  BY DEF BeginBootstrap, IInv, Knows, Registering
<1>11. Grows
  BY <1>4, <1>8 DEF Grows
<1>12. TypeOK'
  BY <1>4, <1>7, <1>8 DEF IInv, TypeOK
<1>13. Reasons'
  BY <1>4, <1>7, <1>10, <1>11, ReasonsKept
<1>14. PlainTables'
  BY <1>4, <1>8, PlainTablesKept
<1> QED BY <1>7, <1>9, <1>11, <1>12, <1>13, <1>14, OneRequestMoves

LEMMA InsertUserKeeps == ASSUME IInv, NEW r \in Request, InsertUser(r) PROVE IInv'
<1>1. CASE Fail(r)
  BY <1>1, FailKeeps
<1>2. CASE ~Fail(r)
  <2> DEFINE e == req[r].email
  <2>1. /\ pc[r] = "insert user" /\ user' = [user EXCEPT ![e] = "live"]
        /\ superuser' = IF req[r].kind = "bootstrap" THEN superuser \cup {e} ELSE superuser
        /\ Goto(r, "read roles")
        /\ UNCHANGED <<role, permission, link, grant, req, edits, crashes, excused>>
    BY <1>2 DEF InsertUser
  <2>2. req[r] \in Body /\ Knows(r) /\ Plain(r)
    BY DEF IInv, TypeOK
  <2>3. /\ req[r].kind \in {"register", "bootstrap"} /\ e \in Email
        /\ req[r].kind = "bootstrap" => req[r].todo # {}
    BY <2>1, <2>2 DEF Knows, Starting
  <2>4. /\ pc' \in [Request -> Label] /\ pc'[r] = "read roles" /\ Others(r) /\ req' = req
    BY <2>1 DEF Goto, Others, Label, IInv, TypeOK
  <2>5. /\ \A f \in Email : user'[f] = IF f = e THEN "live" ELSE user[f]
        /\ user' \in [Email -> {"none", "live", "deleted"}]
        /\ superuser' \subseteq Email /\ superuser \subseteq superuser'
    BY <2>1, <2>3 DEF IInv, TypeOK
  <2>6. Knows(r)'
    BY <2>3, <2>4 DEF Knows, Starting, Ensuring, Editing
  <2>7. Plain(r)'
    BY <2>1, <2>2, <2>3, <2>4 DEF Plain, PlainLink
  <2>8. Grows
    BY <2>1, <2>5 DEF Grows
  <2>9. ~Registering(r)
    BY <2>1 DEF Registering
  <2>10. Reason(e)'
    BY <2>1, <2>3, <2>4 DEF Reason, Registering
  <2>11. Reasons'
    BY <2>1, <2>4, <2>5, <2>8, <2>9, <2>10, ReasonsKept
  <2>12. TypeOK'
    BY <2>1, <2>4, <2>5 DEF IInv, TypeOK
  <2>13. PlainTables'
    BY <2>1, <2>5, PlainTablesKept
  <2> QED BY <2>4, <2>6, <2>7, <2>8, <2>11, <2>12, <2>13, OneRequestMoves
<1> QED BY <1>1, <1>2

LEMMA ImportUsersKeeps == ASSUME IInv, ImportUsers PROVE IInv'
<1>1. PICK lines \in SUBSET Email :
        /\ user' = [e \in Email |-> IF e \in Imported(lines) THEN "live" ELSE user[e]]
        /\ excused' = excused \cup Imported(lines)
        /\ UNCHANGED <<superuser, role, permission, link, grant, pc, req, edits, crashes>>
  BY DEF ImportUsers
<1>2. Imported(lines) \subseteq Email
  BY DEF Imported
<1>3. Grows
  BY <1>1 DEF Grows, Imported
<1>4. \A s \in Request : Knows(s)' /\ Plain(s)'
  BY <1>1, <1>3, OthersKeep
<1>5. TypeOK'
  BY <1>1, <1>2 DEF IInv, TypeOK
<1>6. Reasons'
  <2> SUFFICES ASSUME NEW e \in Email, user'[e] # "none", RolesOf(e)' = {}
               PROVE  Reason(e)'
    BY DEF Reasons
  <2>1. CASE e \in Imported(lines)
    BY <1>1, <2>1 DEF Reason
  <2>2. CASE e \notin Imported(lines)
    <3>1. user[e] # "none" /\ RolesOf(e) = {}
      BY <1>1, <2>2 DEF RolesOf
    <3>2. Reason(e)
      BY <3>1 DEF IInv, Reasons
    <3> QED BY <1>1, <3>2 DEF Reason, Registering
  <2> QED BY <2>1, <2>2
<1>7. PlainTables'
  BY <1>1, PlainTablesKept
<1> QED BY <1>4, <1>5, <1>6, <1>7 DEF IInv

\* Administrators that write are not registering.
LEMMA EditorsDoNotRegister ==
    ASSUME IInv, NEW r \in Request, pc[r] \in Editing
    PROVE  /\ req[r].kind = "admin" /\ ~Registering(r)
           /\ pc[r] # "delete user" => superuser # {}
<1>1. Knows(r) /\ Plain(r)
  BY DEF IInv
<1> QED BY <1>1 DEF Knows, Plain, Registering, Editing

LEMMA SaveRoleKeeps == ASSUME IInv, NEW r \in Request, SaveRole(r) PROVE IInv'
<1>1. CASE Fail(r)
  BY <1>1, FailKeeps
<1>2. CASE ~Fail(r)
  <2>1. /\ pc[r] = "save role" /\ role' = Saved(role, req[r].row, req[r].names) /\ Close(r)
        /\ UNCHANGED <<user, superuser, permission, link, grant, edits, crashes, excused>>
    BY <1>2 DEF SaveRole
  <2>2. ~Registering(r) /\ superuser # {}
    BY <2>1, EditorsDoNotRegister DEF Editing
  <2>3. req[r].names \subseteq Name /\ req[r].names # {}
    BY <2>1 DEF IInv, TypeOK, Body, Knows
  <2>4. (CHOOSE v \in req[r].names : TRUE) \in Name
    BY <2>3
  <2>5. role \in [RoleId -> Name \cup {None}]
    BY DEF IInv, TypeOK
  <2>6. role' \in [RoleId -> Name \cup {None}]
    <3>1. With(role, req[r].names) \in [RoleId -> Name \cup {None}]
      BY <2>5, RolesAreAdded
    <3> QED BY <2>1, <2>4, <2>5, <3>1 DEF Saved
  <2>7. PlainTables'
    BY <2>1, <2>2 DEF PlainTables
  <2>8. /\ permission' \in [PermissionId -> Code \cup OtherCode \cup {None}]
        /\ link' \subseteq RoleId \X PermissionId
        /\ grant' \subseteq Email \X RoleId /\ grant \subseteq grant'
    BY <2>1 DEF IInv, TypeOK
  <2> QED BY <2>1, <2>2, <2>6, <2>7, <2>8, ClosedKnowsNothing, RowsAreAdded
<1> QED BY <1>1, <1>2

LEMMA SavePermissionKeeps == ASSUME IInv, NEW r \in Request, SavePermission(r) PROVE IInv'
<1>1. CASE Fail(r)
  BY <1>1, FailKeeps
<1>2. CASE ~Fail(r)
  <2>1. /\ pc[r] = "save permission" /\ Close(r)
        /\ permission' = Saved(permission, req[r].row, req[r].codes)
        /\ UNCHANGED <<user, superuser, role, link, grant, edits, crashes, excused>>
    BY <1>2 DEF SavePermission
  <2>2. ~Registering(r) /\ superuser # {}
    BY <2>1, EditorsDoNotRegister DEF Editing
  <2>3. req[r].codes \subseteq Code \cup OtherCode /\ req[r].codes # {}
    BY <2>1 DEF IInv, TypeOK, Body, Knows
  <2>4. (CHOOSE v \in req[r].codes : TRUE) \in Code \cup OtherCode
    BY <2>3
  <2>5. permission \in [PermissionId -> Code \cup OtherCode \cup {None}]
    BY DEF IInv, TypeOK
  <2>6. permission' \in [PermissionId -> Code \cup OtherCode \cup {None}]
    <3>1. With(permission, req[r].codes) \in [PermissionId -> Code \cup OtherCode \cup {None}]
      BY <2>5, CodesAreAdded
    <3> QED BY <2>1, <2>4, <2>5, <3>1 DEF Saved
  <2>7. PlainTables'
    BY <2>1, <2>2 DEF PlainTables
  <2>8. /\ role' \in [RoleId -> Name \cup {None}]
        /\ link' \subseteq RoleId \X PermissionId
        /\ grant' \subseteq Email \X RoleId /\ grant \subseteq grant'
    BY <2>1 DEF IInv, TypeOK
  <2> QED BY <2>1, <2>2, <2>6, <2>7, <2>8, ClosedKnowsNothing, RowsAreAdded
<1> QED BY <1>1, <1>2

LEMMA DeleteUserKeeps == ASSUME IInv, NEW r \in Request, DeleteUser(r) PROVE IInv'
<1>1. /\ pc[r] = "delete user" /\ Close(r)
      /\ user' = [user EXCEPT ![req[r].email] = "deleted"]
      /\ UNCHANGED <<superuser, role, permission, link, grant, edits, crashes, excused>>
  BY DEF DeleteUser
<1>2. req[r].email \in Email /\ user[req[r].email] # "none"
  BY <1>1 DEF IInv, Knows
<1>3. ~Registering(r)
  BY <1>1, EditorsDoNotRegister DEF Editing
<1>4. \A e \in Email : user'[e] = IF e = req[r].email THEN "deleted" ELSE user[e]
  BY <1>1 DEF IInv, TypeOK
<1>5. Grows
  <2>1. superuser' = superuser /\ excused' = excused
    BY <1>1
  <2>2. "deleted" # "none"
    OBVIOUS
  <2> QED BY <1>4, <2>1, <2>2 DEF Grows
<1>6. TypeOK'
  BY <1>1, ClosedKnowsNothing DEF IInv, TypeOK
<1>7. Reasons'
  BY <1>1, <1>2, <1>3, <1>4, <1>5, ClosedKnowsNothing, ReasonsKept
<1>8. PlainTables'
  BY <1>1, PlainTablesKept
<1> QED BY <1>1, <1>5, <1>6, <1>7, <1>8, ClosedKnowsNothing, OneRequestMoves

\* An administrator's request that begins with a body and a step.
LEMMA AdminBegins ==
    ASSUME IInv, NEW r \in Request, pc[r] = "idle", NEW b \in Body,
           NEW l \in {"add grant", "remove grant", "save role", "save permission", "delete user"},
           Begin(r, l, b), edits' \in 0 .. MaxEdits,
           b.kind = "admin", b.links = {},
           superuser = {} => l = "delete user",
           l = "add grant" => b.grant \in Email \X RoleId,
           l = "save role" => b.names # {},
           l = "save permission" => b.codes # {},
           l = "delete user" => b.email \in Email /\ user[b.email] # "none"
    PROVE  IInv'
<1>1. l \in Label
  BY DEF Label
<1>2. /\ pc' \in [Request -> Label] /\ req' \in [Request -> Body] /\ Others(r)
      /\ pc'[r] = l /\ req'[r] = b
  BY <1>1, Proceeds DEF Begin
<1>3. UNCHANGED <<tables, crashes, excused>>
  BY DEF Begin
<1>4. Knows(r)'
  BY <1>2, <1>3 DEF Knows, Starting, Ensuring, Editing, tables
<1>5. Plain(r)'
  BY <1>2, <1>3 DEF Plain, tables
<1>6. ~Registering(r)
  BY DEF IInv, Knows, Registering
<1> QED BY <1>2, <1>3, <1>4, <1>5, <1>6, Moves

LEMMA AdminBodyIsTyped ==
    /\ \A g \in Email \X RoleId : [AdminBody EXCEPT !.grant = g] \in Body
    /\ \A n \in Name, i \in RoleId \cup {None} :
          /\ [AdminBody EXCEPT !.names = {n}] \in Body
          /\ [AdminBody EXCEPT !.names = {n}, !.row = i] \in Body
    /\ \A c \in Code \cup OtherCode, i \in PermissionId \cup {None} :
          /\ [AdminBody EXCEPT !.codes = {c}] \in Body
          /\ [AdminBody EXCEPT !.codes = {c}, !.row = i] \in Body
    /\ \A e \in Email : [AdminBody EXCEPT !.email = e] \in Body
BY DEF AdminBody, Blank, Body

LEMMA BeginAdminKeeps == ASSUME IInv, NEW r \in Request, BeginAdmin(r) PROVE IInv'
<1>1. PICK actor \in Email, op \in AdminOp :
        /\ Allowed(actor, Needs(op.kind))
        /\ \/ /\ op.kind = "assign" /\ user[op.email] # "none"
              /\ \E i \in Rows(role, op.name) :
                   Begin(r, "add grant", [AdminBody EXCEPT !.grant = <<op.email, i>>])
              /\ UNCHANGED edits
           \/ /\ op.kind = "revoke"
              /\ \E i \in Rows(role, op.name) :
                   Begin(r, "remove grant", [AdminBody EXCEPT !.grant = <<op.email, i>>])
              /\ UNCHANGED edits
           \/ /\ op.kind = "create role" /\ edits < MaxEdits /\ edits' = edits + 1
              /\ Begin(r, "save role", [AdminBody EXCEPT !.names = {op.name}])
           \/ /\ op.kind = "rename role" /\ edits < MaxEdits /\ edits' = edits + 1
              /\ \E i \in RoleId :
                   Begin(r, "save role", [AdminBody EXCEPT !.names = {op.name}, !.row = i])
           \/ /\ op.kind = "create permission" /\ edits < MaxEdits /\ edits' = edits + 1
              /\ Begin(r, "save permission", [AdminBody EXCEPT !.codes = {op.code}])
           \/ /\ op.kind = "rename permission" /\ edits < MaxEdits /\ edits' = edits + 1
              /\ \E i \in PermissionId :
                   Begin(r, "save permission", [AdminBody EXCEPT !.codes = {op.code}, !.row = i])
           \/ /\ op.kind = "delete user" /\ user[op.email] = "live"
              /\ Begin(r, "delete user", [AdminBody EXCEPT !.email = op.email])
              /\ UNCHANGED edits
  BY DEF BeginAdmin
<1>2. /\ pc[r] = "idle"
      /\ op.kind \in {"assign", "revoke", "delete user"} => op.email \in Email
      /\ op.kind \in {"create role", "rename role"} => op.name \in Name
      /\ op.kind \in {"create permission", "rename permission"} => op.code \in Code \cup OtherCode
  BY AccountsAssumption DEF BeginAdmin
<1>3. superuser = {} => op.kind = "delete user"
  BY <1>1, Unmanaged DEF NoManagerBeforeBootstrap, Needs
<1>4. edits' \in 0 .. MaxEdits
  <2>1. edits \in 0 .. MaxEdits /\ MaxEdits \in Nat
    BY AccountsAssumption DEF IInv, TypeOK
  <2>2. edits' = edits \/ (edits < MaxEdits /\ edits' = edits + 1)
    BY <1>1
  <2> QED BY <2>1, <2>2
<1>5. \A n : Rows(role, n) \subseteq RoleId
  BY DEF Rows, IInv, TypeOK
<1>6. CASE op.kind \in {"assign", "revoke"}
  <2>1. PICK i \in RoleId, l \in {"add grant", "remove grant"} :
          Begin(r, l, [AdminBody EXCEPT !.grant = <<op.email, i>>])
    BY <1>1, <1>5, <1>6
  <2> DEFINE b == [AdminBody EXCEPT !.grant = <<op.email, i>>]
  <2>2. <<op.email, i>> \in Email \X RoleId
    BY <1>2, <1>6
  <2>3. b \in Body /\ b.kind = "admin" /\ b.links = {} /\ b.grant = <<op.email, i>>
    BY <2>2, AdminBodyIsTyped DEF AdminBody, Blank
  <2> HIDE DEF b
  <2>4. Begin(r, l, b)
    BY <2>1 DEF b
  <2>5. superuser # {}
    BY <1>3, <1>6
  <2> QED BY <1>2, <1>4, <2>2, <2>3, <2>4, <2>5, AdminBegins
<1>7. CASE op.kind \in {"create role", "rename role"}
  <2>1. PICK b \in {[AdminBody EXCEPT !.names = {op.name}]} \cup
                   {[AdminBody EXCEPT !.names = {op.name}, !.row = i] : i \in RoleId} :
          Begin(r, "save role", b)
    BY <1>1, <1>7
  <2>2. b \in Body /\ b.kind = "admin" /\ b.links = {} /\ b.names = {op.name}
    BY <1>2, <1>7, AdminBodyIsTyped DEF AdminBody, Blank
  <2>3. superuser # {}
    BY <1>3, <1>7
  <2>4. b.names # {}
    BY <2>2
  <2> QED BY <1>2, <1>4, <2>1, <2>2, <2>3, <2>4, AdminBegins
<1>8. CASE op.kind \in {"create permission", "rename permission"}
  <2>1. PICK b \in {[AdminBody EXCEPT !.codes = {op.code}]} \cup
                   {[AdminBody EXCEPT !.codes = {op.code}, !.row = i] : i \in PermissionId} :
          Begin(r, "save permission", b)
    BY <1>1, <1>8
  <2>2. b \in Body /\ b.kind = "admin" /\ b.links = {} /\ b.codes = {op.code}
    BY <1>2, <1>8, AdminBodyIsTyped DEF AdminBody, Blank
  <2>3. superuser # {}
    BY <1>3, <1>8
  <2>4. b.codes # {}
    BY <2>2
  <2> QED BY <1>2, <1>4, <2>1, <2>2, <2>3, <2>4, AdminBegins
<1>9. CASE op.kind = "delete user"
  <2> DEFINE b == [AdminBody EXCEPT !.email = op.email]
  <2>1. b \in Body /\ b.kind = "admin" /\ b.links = {} /\ b.email = op.email
    BY <1>2, <1>9, AdminBodyIsTyped DEF AdminBody, Blank
  <2>2. Begin(r, "delete user", b) /\ user[op.email] # "none"
    BY <1>1, <1>9
  <2> HIDE DEF b
  <2> QED BY <1>2, <1>4, <1>9, <2>1, <2>2, AdminBegins
<1> QED BY <1>1, <1>6, <1>7, <1>8, <1>9

\* Revoking a role is a reason; a request that was to revoke the same row finds
\* nothing to delete.
LEMMA RemoveGrantKeeps == ASSUME IInv, NEW r \in Request, RemoveGrant(r) PROVE IInv'
<1> DEFINE g == req[r].grant
<1>1. /\ pc[r] = "remove grant" /\ grant' = grant \ {g}
      /\ excused' = IF g = None THEN excused ELSE excused \cup {g[1]}
      /\ pc' = [pc EXCEPT ![r] = "idle"]
      /\ req' = [s \in Request |->
                   IF s = r THEN Blank
                   ELSE IF pc[s] = "remove grant" /\ req[s].grant = g
                   THEN [req[s] EXCEPT !.grant = None] ELSE req[s]]
      /\ UNCHANGED <<user, superuser, role, permission, link, edits, crashes>>
  BY DEF RemoveGrant, Goto
<1>2. ~Registering(r) /\ superuser # {}
  BY <1>1, EditorsDoNotRegister DEF Editing
<1>3. g \in (Email \X RoleId) \cup {None}
  BY DEF IInv, TypeOK, Body
<1>4. excused' \subseteq Email /\ excused \subseteq excused'
  BY <1>1, <1>3 DEF IInv, TypeOK
<1>5. ASSUME NEW s \in Request \ {r}
      PROVE  /\ req'[s] \in Body /\ req'[s].kind = req[s].kind /\ req'[s].email = req[s].email
             /\ pc'[s] = pc[s] /\ req'[s].names = req[s].names /\ req'[s].codes = req[s].codes
             /\ req'[s].todo = req[s].todo /\ req'[s].row = req[s].row
             /\ pc[s] # "remove grant" => req'[s] = req[s]
  <2>1. req[s] \in Body /\ pc'[s] = pc[s]
    BY <1>1 DEF IInv, TypeOK
  <2>2. req'[s] = IF pc[s] = "remove grant" /\ req[s].grant = g
                  THEN [req[s] EXCEPT !.grant = None] ELSE req[s]
    BY <1>1
  <2> QED BY <2>1, <2>2 DEF Body
<1>6. pc'[r] = "idle" /\ req'[r] = Blank
  BY <1>1 DEF IInv, TypeOK
<1>7. TypeOK'
  <2>1. req' \in [Request -> Body]
    <3>1. \A s \in Request : req'[s] \in Body
      BY <1>5, <1>6, BlankIsTyped
    <3>2. req' = [s \in Request |-> req'[s]]
      BY <1>1
    <3> QED BY <3>1, <3>2
  <2>2. pc' \in [Request -> Label]
    BY <1>1 DEF IInv, TypeOK, Label
  <2> QED BY <1>1, <1>4, <2>1, <2>2 DEF IInv, TypeOK
<1>8. PlainTables' /\ \A s \in Request : Plain(s)'
  BY <1>1, <1>2 DEF PlainTables, Plain
<1>9. ASSUME NEW s \in Request PROVE Knows(s)'
  <2>1. CASE s = r
    BY <1>6, <2>1, BlankIsTyped DEF Knows, Starting, Ensuring, Editing
  <2>2. CASE s # r
    <3>1. Knows(s)
      BY DEF IInv
    <3>2. pc[s] = "add grant" => req'[s] = req[s]
      BY <1>5, <2>2
    <3>3. user' = user
      BY <1>1
    <3> QED BY <1>5, <2>2, <3>1, <3>2, <3>3 DEF Knows
  <2> QED BY <2>1, <2>2
<1>10. Reasons'
  <2> SUFFICES ASSUME NEW e \in Email, user'[e] # "none", RolesOf(e)' = {}
               PROVE  Reason(e)'
    BY DEF Reasons
  <2>1. CASE RolesOf(e) # {}
    <3>1. PICK i \in RoleId : <<e, i>> \in grant
      BY <2>1 DEF RolesOf
    <3>2. <<e, i>> \notin grant'
      BY DEF RolesOf
    <3>3. g = <<e, i>>
      BY <1>1, <3>1, <3>2
    <3>4. g # None => e \in excused'
      <4> HAVE g # None
      <4>1. g[1] = e
        BY <3>3
      <4> QED BY <1>1, <4>1
    <3>5. g # None
      <4>1. <<e, i>> \in Email \X RoleId
        OBVIOUS
      <4>2. None \notin Email \X RoleId
        BY AccountsAssumption
      <4> QED BY <3>3, <4>1, <4>2
    <3>6. e \in (excused \cup superuser)'
      BY <3>4, <3>5
    <3> QED BY <3>6 DEF Reason
  <2>2. CASE RolesOf(e) = {}
    <3>1. Reason(e)
      BY <1>1, <2>2 DEF IInv, Reasons
    <3>2. ASSUME NEW s \in Request, Registering(s), req[s].email = e
          PROVE  Registering(s)' /\ req'[s].email = e
      <4>1. s # r
        BY <1>2, <3>2
      <4> QED BY <1>5, <3>2, <4>1 DEF Registering
    <3> QED BY <1>1, <1>4, <3>1, <3>2 DEF Reason
  <2> QED BY <2>1, <2>2
<1> QED BY <1>7, <1>8, <1>9, <1>10 DEF IInv

-------------------------------------------------------------------------------
(* The theorems. *)

LEMMA Initially == Init => IInv
<1> SUFFICES ASSUME Init PROVE IInv
  OBVIOUS
<1>1. /\ MaxEdits \in Nat /\ MaxCrashes \in Nat
  BY AccountsAssumption
<1>2. TypeOK
  BY <1>1, BlankIsTyped DEF Init, TypeOK, Label
<1>3. Reasons /\ PlainTables
  BY DEF Init, Reasons, PlainTables
<1>4. ASSUME NEW r \in Request PROVE Knows(r) /\ Plain(r)
  BY BlankIsTyped DEF Init, Knows, Plain, Starting, Ensuring, Editing
<1> QED BY <1>2, <1>3, <1>4 DEF IInv

LEMMA Step == ASSUME IInv, [Next]_vars PROVE IInv'
<1>1. ASSUME NEW r \in Request, BeginRegister(r) \/ BeginBootstrap(r) \/ BeginAdmin(r) PROVE IInv'
  BY <1>1, BeginRegisterKeeps, BeginBootstrapKeeps, BeginAdminKeeps
<1>2. ASSUME NEW r \in Request, Run(r) PROVE IInv'
  BY <1>2, InsertUserKeeps, ReadRolesKeeps, AddRolesKeeps, ReadCodesKeeps, AddCodesKeeps,
     ReadLinksKeeps, AddLinksKeeps, FindRoleKeeps, AddGrantKeeps, RemoveGrantKeeps,
     SaveRoleKeeps, SavePermissionKeeps, DeleteUserKeeps DEF Run
<1>3. ASSUME NEW r \in Request, Die(r) PROVE IInv'
  BY <1>3, DieKeeps
<1>4. CASE UNCHANGED vars
  <2>1. TypeOK'
    BY <1>4 DEF vars, tables, IInv, TypeOK
  <2>2. Reasons'
    BY <1>4 DEF vars, tables, IInv, Reasons, Reason, Registering, RolesOf
  <2>3. PlainTables'
    BY <1>4 DEF vars, tables, IInv, PlainTables, PlainGrant, PlainLink
  <2>4. ASSUME NEW r \in Request PROVE Knows(r)' /\ Plain(r)'
    BY <1>4, OthersKeep DEF vars, tables, Grows
  <2> QED BY <2>1, <2>2, <2>3, <2>4 DEF IInv
<1> QED BY <1>1, <1>2, <1>3, <1>4, ImportUsersKeeps DEF Next

LEMMA Invariance == Spec => []IInv
<1> QED BY Initially, Step, PTL DEF Spec

\* Tables, requests and the bodies they carry have their types: the row of ADMIN
\* the script keeps and the row a request grants exist.
THEOREM AccountsAreTyped == Spec => []TypeOK
<1>1. IInv => TypeOK
  BY DEF IInv
<1> QED BY <1>1, Invariance, PTL

\* Whatever the number of requests, roles and administrators: a user without a
\* role is being registered, or the registration failed or died after the
\* commit of the user, or a role was revoked, or the user was imported or is a
\* superuser (role_service.py:105-139).
THEOREM RolelessUsersHaveAReason == Spec => []RolelessOnlyAfterFailure
<1>1. IInv => RolelessOnlyAfterFailure
  BY DEF IInv, Reasons, Reason, Registering, RolelessOnlyAfterFailure
<1> QED BY <1>1, Invariance, PTL

\* No order of registrations, imports, failures and deaths lets anybody manage
\* roles before bootstrap_admin.py has made a superuser.
THEOREM RegistrationIsNoBootstrap == Spec => []NoManagerBeforeBootstrap
<1>1. IInv => NoManagerBeforeBootstrap
  BY Unmanaged
<1> QED BY <1>1, Invariance, PTL

-------------------------------------------------------------------------------
(* The defaults that a registration ensures. *)

Linked(n, c, links) == Rows(role, n) \X Rows(permission, c) \subseteq links
AllLinked(links) == \A n \in Default : \A c \in DefaultCodes[n] : Linked(n, c, links)

\* What a registration knows to exist, or is about to add itself.
Ensured(r) ==
    /\ pc[r] \in Starting \cup {"read codes", "add codes", "read links"} => req[r].todo = Code
    /\ pc[r] = "add links" => req[r].todo = {}
    /\ pc[r] = "add roles" => Default \subseteq Values(role) \cup req[r].names
    /\ pc[r] \in Ensuring \cup {"add grant"} => Default \subseteq Values(role)
    /\ pc[r] = "add codes" => Code \subseteq Values(permission) \cup req[r].codes
    /\ pc[r] \in {"read links", "add links", "find role", "add grant"} =>
          Code \subseteq Values(permission)
    /\ pc[r] = "add links" => AllLinked(link \cup req[r].links)
    /\ pc[r] \in {"find role", "add grant"} => AllLinked(link)

\* Nobody edits the catalogue, and each registration knows its defaults.
Unedited ==
    edits = 0 =>
        \A r \in Request :
            /\ pc[r] \notin {"save role", "save permission"}
            /\ req[r].kind = "register" => Ensured(r)

\* Rows are only added, and none under a name that is taken.
Extends(table, next) ==
    \A v \in Values(table) : v \in Values(next) /\ Rows(next, v) = Rows(table, v)
TablesGrow == Extends(role, role') /\ Extends(permission, permission') /\ link \subseteq link'

LEMMA RowsOfDefaults ==
    ASSUME TablesGrow, Default \subseteq Values(role), Code \subseteq Values(permission),
           NEW known, NEW more, known \subseteq more, AllLinked(known)
    PROVE  AllLinked(more)'
<1> SUFFICES ASSUME NEW n \in Default, NEW c \in DefaultCodes[n]
             PROVE  Rows(role', n) \X Rows(permission', c) \subseteq more
  BY DEF AllLinked, Linked
<1>1. c \in Code
  BY AccountsAssumption
<1>2. Rows(role', n) = Rows(role, n) /\ Rows(permission', c) = Rows(permission, c)
  BY <1>1 DEF TablesGrow, Extends
<1>3. Rows(role, n) \X Rows(permission, c) \subseteq known
  BY DEF AllLinked, Linked
<1> QED BY <1>2, <1>3

\* What one registration knows outlasts the steps of the others.
LEMMA EnsuredOutlasts ==
    ASSUME NEW s \in Request, Ensured(s), TablesGrow, pc'[s] = pc[s],
           req'[s].todo = req[s].todo, req'[s].names = req[s].names,
           req'[s].codes = req[s].codes, req'[s].links = req[s].links
    PROVE  Ensured(s)'
<1>1. /\ Values(role) \subseteq Values(role') /\ Values(permission) \subseteq Values(permission')
      /\ link \cup req[s].links \subseteq link' \cup req'[s].links /\ link \subseteq link'
  BY DEF TablesGrow, Extends
<1>2. pc[s] = "add links" => AllLinked(link \cup req[s].links)'
  BY <1>1, RowsOfDefaults DEF Ensured, Ensuring
<1>3. pc[s] \in {"find role", "add grant"} => AllLinked(link)'
  BY <1>1, RowsOfDefaults DEF Ensured, Ensuring
<1> QED BY <1>1, <1>2, <1>3 DEF Ensured, Starting, Ensuring

LEMMA SameExtends == ASSUME NEW table PROVE Extends(table, table)
BY DEF Extends

LEMMA RolesExtend ==
    ASSUME NEW table \in [RoleId -> Name \cup {None}], NEW values \in SUBSET Name,
           HaveNext(table, values), ~Conflict(table, values)
    PROVE  /\ Extends(table, With(table, values))
           /\ values \subseteq Values(With(table, values))
<1> DEFINE next == With(table, values)
<1>1. DOMAIN next = RoleId /\ DOMAIN table = RoleId /\ None \notin values
  BY AccountsAssumption DEF With
<1>2. \A i \in RoleId :
         next[i] = IF \E v \in values : IsNext(table, i, v) THEN i[1] ELSE table[i]
  BY DEF With
<1> HIDE DEF next
<1>3. ASSUME NEW v \in Values(table) PROVE Rows(next, v) = Rows(table, v)
  <2>1. v \notin values /\ v # None
    BY DEF Conflict, Values
  <2>2. ASSUME NEW i \in RoleId PROVE next[i] = v <=> table[i] = v
    BY <1>2, <2>1 DEF IsNext
  <2> QED BY <1>1, <2>2 DEF Rows
<1>4. ASSUME NEW v \in Values(table) PROVE v \in Values(next)
  <2>1. v # None /\ Rows(table, v) # {}
    BY DEF Values, Rows
  <2>2. \E i \in DOMAIN next : next[i] = v
    BY <1>3, <2>1 DEF Rows
  <2> QED BY <2>1, <2>2 DEF Values
<1>5. ASSUME NEW v \in values PROVE v \in Values(next)
  <2>1. PICK i \in RoleId : IsNext(table, i, v)
    BY <1>1 DEF HaveNext, HasNext
  <2>2. next[i] = v
    BY <1>2, <2>1 DEF IsNext
  <2> QED BY <1>1, <2>2 DEF Values
<1> QED BY <1>3, <1>4, <1>5 DEF Extends, next

LEMMA CodesExtend ==
    ASSUME NEW table \in [PermissionId -> Code \cup OtherCode \cup {None}],
           NEW values \in SUBSET (Code \cup OtherCode),
           HaveNext(table, values), ~Conflict(table, values)
    PROVE  /\ Extends(table, With(table, values))
           /\ values \subseteq Values(With(table, values))
<1> DEFINE next == With(table, values)
<1>1. DOMAIN next = PermissionId /\ DOMAIN table = PermissionId /\ None \notin values
  BY AccountsAssumption DEF With
<1>2. \A i \in PermissionId :
         next[i] = IF \E v \in values : IsNext(table, i, v) THEN i[1] ELSE table[i]
  BY DEF With
<1> HIDE DEF next
<1>3. ASSUME NEW v \in Values(table) PROVE Rows(next, v) = Rows(table, v)
  <2>1. v \notin values /\ v # None
    BY DEF Conflict, Values
  <2>2. ASSUME NEW i \in PermissionId PROVE next[i] = v <=> table[i] = v
    BY <1>2, <2>1 DEF IsNext
  <2> QED BY <1>1, <2>2 DEF Rows
<1>4. ASSUME NEW v \in Values(table) PROVE v \in Values(next)
  <2>1. v # None /\ Rows(table, v) # {}
    BY DEF Values, Rows
  <2>2. \E i \in DOMAIN next : next[i] = v
    BY <1>3, <2>1 DEF Rows
  <2> QED BY <2>1, <2>2 DEF Values
<1>5. ASSUME NEW v \in values PROVE v \in Values(next)
  <2>1. PICK i \in PermissionId : IsNext(table, i, v)
    BY <1>1 DEF HaveNext, HasNext
  <2>2. next[i] = v
    BY <1>2, <2>1 DEF IsNext
  <2> QED BY <1>1, <2>2 DEF Values
<1> QED BY <1>3, <1>4, <1>5 DEF Extends, next

\* A step of one request, put together.
LEMMA UneditedIf ==
    ASSUME IInv, Unedited, NEW r \in Request, Others(r), edits = 0, TablesGrow,
           pc'[r] \notin {"save role", "save permission"},
           req'[r].kind = "register" => Ensured(r)'
    PROVE  Unedited'
<1>1. ASSUME NEW s \in Request \ {r}
      PROVE  /\ pc'[s] \notin {"save role", "save permission"}
             /\ req'[s].kind = "register" => Ensured(s)'
  <2>1. pc'[s] = pc[s] /\ req'[s] = req[s]
    BY DEF Others
  <2> QED BY <2>1, EnsuredOutlasts DEF Unedited
<1> QED BY <1>1 DEF Unedited

LEMMA ClosedIsUnedited ==
    ASSUME IInv, Unedited, NEW r \in Request, Close(r), edits = 0, TablesGrow
    PROVE  Unedited'
<1>1. pc'[r] = "idle" /\ req'[r] = Blank /\ Others(r)
  <2>1. pc' = [pc EXCEPT ![r] = "idle"] /\ req' = [req EXCEPT ![r] = Blank]
    BY DEF Close, Goto
  <2> QED BY <2>1 DEF Others, IInv, TypeOK
<1>2. req'[r].kind # "register"
  BY <1>1, BlankIsTyped
<1> QED BY <1>1, <1>2, UneditedIf

LEMMA UneditedStep ==
    ASSUME IInv, Unedited, IInv', edits = 0, edits' = 0,
           NEW r \in Request, Run(r)
    PROVE  Unedited'
<1>1. /\ req[r] \in Body /\ Knows(r) /\ role \in [RoleId -> Name \cup {None}]
      /\ permission \in [PermissionId -> Code \cup OtherCode \cup {None}]
      /\ pc \in [Request -> Label] /\ req \in [Request -> Body]
  BY DEF IInv, TypeOK
<1>2. req[r].kind = "register" => Ensured(r)
  BY DEF Unedited
<1>3. UNCHANGED <<role, permission, link>> => TablesGrow
  BY SameExtends DEF TablesGrow
<1>4. CASE Fail(r)
  BY <1>3, <1>4, ClosedIsUnedited DEF Fail, tables
<1>5. CASE InsertUser(r) /\ ~Fail(r)
  <2>1. /\ pc[r] = "insert user" /\ pc' = [pc EXCEPT ![r] = "read roles"] /\ req' = req
        /\ UNCHANGED <<role, permission, link>>
    BY <1>5 DEF InsertUser, Goto
  <2>2. Others(r) /\ pc'[r] = "read roles" /\ req'[r] = req[r]
    BY <1>1, <2>1 DEF Others
  <2>3. req[r].kind = "register" => Ensured(r)'
    BY <1>2, <2>1, <2>2 DEF Ensured, Starting, Ensuring
  <2> QED BY <1>3, <2>1, <2>2, <2>3, UneditedIf
<1>6. CASE ReadRoles(r)
  <2> DEFINE missing == WantedRoles(r) \ Values(role)
             row == IF missing = {} THEN AdminRow(r, role) ELSE None
  <2>1. /\ pc[r] = "read roles" /\ req' = [req EXCEPT ![r].names = missing, ![r].row = row]
        /\ pc' = [pc EXCEPT ![r] = IF missing = {} THEN "read codes" ELSE "add roles"]
        /\ UNCHANGED <<role, permission, link>>
    BY <1>6 DEF ReadRoles, AfterRoles, Goto, tables
  <2>2. req[r].kind = "register" => Default \subseteq Values(role) \cup missing
    BY DEF WantedRoles
  <2> HIDE DEF missing, row
  <2>3. /\ Others(r) /\ pc'[r] = IF missing = {} THEN "read codes" ELSE "add roles"
        /\ req'[r].kind = req[r].kind /\ req'[r].todo = req[r].todo /\ req'[r].names = missing
    BY <1>1, <2>1 DEF Others, Body
  <2>4. req[r].kind = "register" => Ensured(r)'
    <3>1. req[r].kind = "register" => req[r].todo = Code
      BY <1>2, <2>1 DEF Ensured, Starting
    <3>2. Values(role)' = Values(role)
      BY <2>1
    <3>3. CASE missing = {}
      BY <2>2, <2>3, <3>1, <3>2, <3>3 DEF Ensured, Starting, Ensuring
    <3>4. CASE missing # {}
      BY <2>2, <2>3, <3>1, <3>2, <3>4 DEF Ensured, Starting, Ensuring
    <3> QED BY <3>3, <3>4
  <2>5. pc'[r] \in {"read codes", "add roles"}
    BY <2>3
  <2> QED BY <1>3, <2>1, <2>3, <2>4, <2>5, UneditedIf
<1>7. CASE AddRoles(r) /\ ~Fail(r)
  <2> DEFINE row == AdminRow(r, With(role, req[r].names))
  <2>1. /\ pc[r] = "add roles" /\ role' = With(role, req[r].names)
        /\ ~Conflict(role, req[r].names) /\ HaveNext(role, req[r].names)
        /\ req' = [req EXCEPT ![r].names = {}, ![r].row = row]
        /\ pc' = [pc EXCEPT ![r] = "read codes"]
        /\ UNCHANGED <<permission, link>>
    BY <1>7 DEF AddRoles, Goto
  <2>2. req[r].names \in SUBSET Name
    BY <1>1 DEF Body
  <2>3. Extends(role, role') /\ req[r].names \subseteq Values(role')
    BY <1>1, <2>1, <2>2, RolesExtend
  <2>4. TablesGrow
    BY <2>1, <2>3, SameExtends DEF TablesGrow
  <2> HIDE DEF row
  <2>5. /\ Others(r) /\ pc'[r] = "read codes"
        /\ req'[r].kind = req[r].kind /\ req'[r].todo = req[r].todo
    BY <1>1, <2>1 DEF Others, Body
  <2>6. req[r].kind = "register" => Ensured(r)'
    <3>1. req[r].kind = "register" =>
            Default \subseteq Values(role) \cup req[r].names /\ req[r].todo = Code
      BY <1>2, <2>1 DEF Ensured, Starting
    <3>2. req[r].kind = "register" => Default \subseteq Values(role')
      BY <2>3, <3>1 DEF Extends
    <3> QED BY <2>5, <3>1, <3>2 DEF Ensured, Starting, Ensuring
  <2> QED BY <2>4, <2>5, <2>6, UneditedIf
<1>8. CASE ReadCodes(r)
  <2> DEFINE missing == WantedCodes(r) \ Values(permission)
  <2>1. /\ pc[r] = "read codes" /\ req' = [req EXCEPT ![r].codes = missing]
        /\ pc' = [pc EXCEPT ![r] = IF missing = {} THEN "read links" ELSE "add codes"]
        /\ UNCHANGED <<role, permission, link>>
    BY <1>8 DEF ReadCodes, Goto, tables
  <2>2. req[r].kind = "register" =>
          /\ Default \subseteq Values(role) /\ req[r].todo = Code
          /\ Code \subseteq Values(permission) \cup missing
    BY <1>2, <2>1 DEF WantedCodes, Ensured, Ensuring
  <2> HIDE DEF missing
  <2>3. /\ Others(r) /\ pc'[r] = IF missing = {} THEN "read links" ELSE "add codes"
        /\ req'[r].kind = req[r].kind /\ req'[r].todo = req[r].todo /\ req'[r].codes = missing
    BY <1>1, <2>1 DEF Others, Body
  <2>4. req[r].kind = "register" => Ensured(r)'
    <3>1. Values(role)' = Values(role) /\ Values(permission)' = Values(permission)
      BY <2>1
    <3>2. CASE missing = {}
      BY <2>2, <2>3, <3>1, <3>2 DEF Ensured, Starting, Ensuring
    <3>3. CASE missing # {}
      BY <2>2, <2>3, <3>1, <3>3 DEF Ensured, Starting, Ensuring
    <3> QED BY <3>2, <3>3
  <2>5. pc'[r] \in {"read links", "add codes"}
    BY <2>3
  <2> QED BY <1>3, <2>1, <2>3, <2>4, <2>5, UneditedIf
<1>9. CASE AddCodes(r) /\ ~Fail(r)
  <2>1. /\ pc[r] = "add codes" /\ permission' = With(permission, req[r].codes)
        /\ ~Conflict(permission, req[r].codes) /\ HaveNext(permission, req[r].codes)
        /\ req' = [req EXCEPT ![r].codes = {}]
        /\ pc' = [pc EXCEPT ![r] = "read links"]
        /\ UNCHANGED <<role, link>>
    BY <1>9 DEF AddCodes, Goto
  <2>2. req[r].codes \in SUBSET (Code \cup OtherCode)
    BY <1>1 DEF Body
  <2>3. Extends(permission, permission') /\ req[r].codes \subseteq Values(permission')
    BY <1>1, <2>1, <2>2, CodesExtend
  <2>4. TablesGrow
    BY <2>1, <2>3, SameExtends DEF TablesGrow
  <2>5. /\ Others(r) /\ pc'[r] = "read links"
        /\ req'[r].kind = req[r].kind /\ req'[r].todo = req[r].todo
    BY <1>1, <2>1 DEF Others, Body
  <2>6. req[r].kind = "register" => Ensured(r)'
    <3>1. req[r].kind = "register" =>
            /\ Default \subseteq Values(role) /\ req[r].todo = Code
            /\ Code \subseteq Values(permission) \cup req[r].codes
      BY <1>2, <2>1 DEF Ensured, Ensuring
    <3>2. req[r].kind = "register" => Code \subseteq Values(permission')
      BY <2>3, <3>1 DEF Extends
    <3> QED BY <2>1, <2>5, <3>1, <3>2 DEF Ensured, Starting, Ensuring
  <2> QED BY <2>4, <2>5, <2>6, UneditedIf
<1>10. CASE ReadLinks(r)
  <2> DEFINE missing == WantedLinks(r) \ link
             rest == req[r].todo \ WantedCodes(r)
  <2>1. /\ pc[r] = "read links"
        /\ req' = [req EXCEPT ![r].links = missing, ![r].todo = rest]
        /\ pc' = [pc EXCEPT ![r] = "add links"]
        /\ UNCHANGED <<role, permission, link>>
    BY <1>1, <1>10 DEF ReadLinks, Goto, tables
  <2>2. req[r].kind = "register" =>
          /\ Default \subseteq Values(role) /\ Code \subseteq Values(permission)
          /\ rest = {}
    BY <1>2, <2>1 DEF WantedCodes, Ensured, Ensuring
  <2>3. req[r].kind = "register" => AllLinked(link \cup missing)
    <3> SUFFICES ASSUME req[r].kind = "register", NEW n \in Default, NEW c \in DefaultCodes[n]
                 PROVE  Rows(role, n) \X Rows(permission, c) \subseteq WantedLinks(r)
      BY DEF AllLinked, Linked
    <3>1. Rows(permission, c) \subseteq UNION {Rows(permission, d) : d \in DefaultCodes[n]}
      OBVIOUS
    <3>2. Rows(role, n) \X Rows(permission, c)
            \subseteq Rows(role, n) \X UNION {Rows(permission, d) : d \in DefaultCodes[n]}
      BY <3>1
    <3> QED BY <3>2 DEF WantedLinks
  <2> HIDE DEF missing, rest
  <2>4. /\ Others(r) /\ pc'[r] = "add links"
        /\ req'[r].kind = req[r].kind /\ req'[r].todo = rest /\ req'[r].links = missing
    BY <1>1, <2>1 DEF Others, Body
  <2>5. req[r].kind = "register" => AllLinked(link \cup req[r].links)'
    BY <2>1, <2>3, <2>4 DEF AllLinked, Linked
  <2>6. req[r].kind = "register" => Ensured(r)'
    BY <2>1, <2>2, <2>4, <2>5 DEF Ensured, Starting, Ensuring
  <2> QED BY <1>3, <2>1, <2>4, <2>6, UneditedIf
<1>11. CASE AddLinks(r) /\ ~Fail(r)
  <2> DEFINE l == IF req[r].todo = {} THEN "find role" ELSE "read codes"
  <2>1. /\ pc[r] = "add links" /\ link' = link \cup req[r].links
        /\ req' = [req EXCEPT ![r].links = {}]
        /\ pc' = [pc EXCEPT ![r] = l]
        /\ UNCHANGED <<role, permission>>
    BY <1>11 DEF AddLinks, Goto
  <2>2. TablesGrow
    BY <2>1, SameExtends DEF TablesGrow
  <2>3. Others(r) /\ pc'[r] = l /\ req'[r].kind = req[r].kind
    BY <1>1, <2>1 DEF Others, Body, Label
  <2>4. req[r].kind = "register" =>
          /\ l = "find role" /\ Default \subseteq Values(role) /\ Code \subseteq Values(permission)
          /\ AllLinked(link \cup req[r].links)
    BY <1>2, <2>1 DEF Ensured, Ensuring
  <2> HIDE DEF l
  <2>5. req[r].kind = "register" => AllLinked(link)'
    BY <2>1, <2>4 DEF AllLinked, Linked
  <2>6. req[r].kind = "register" => Ensured(r)'
    BY <2>1, <2>3, <2>4, <2>5 DEF Ensured, Starting, Ensuring
  <2>7. pc'[r] \in {"find role", "read codes"}
    BY <2>3 DEF l
  <2> QED BY <2>2, <2>3, <2>6, <2>7, UneditedIf
<1>12. CASE FindRole(r) /\ ~Fail(r)
  <2>1. pc[r] = "find role" /\ UNCHANGED <<role, permission, link>>
    BY <1>12 DEF FindRole, NotFound, tables
  <2>2. CASE Close(r)
    BY <1>3, <2>1, <2>2, ClosedIsUnedited
  <2>3. CASE ~Close(r)
    <3>1. PICK g : req' = [req EXCEPT ![r].grant = g] /\ pc' = [pc EXCEPT ![r] = "add grant"]
      BY <1>12, <2>3 DEF FindRole, NotFound, Goto
    <3>2. /\ Others(r) /\ pc'[r] = "add grant"
          /\ req'[r].kind = req[r].kind
      BY <1>1, <3>1 DEF Others, Body
    <3>3. req[r].kind = "register" => Ensured(r)'
      <4>1. req[r].kind = "register" =>
              /\ Default \subseteq Values(role) /\ Code \subseteq Values(permission)
              /\ AllLinked(link)
        BY <1>2, <2>1 DEF Ensured, Ensuring
      <4>2. AllLinked(link) => AllLinked(link)'
        BY <2>1 DEF AllLinked, Linked
      <4> QED BY <2>1, <3>2, <4>1, <4>2 DEF Ensured, Starting, Ensuring
    <3> QED BY <1>3, <2>1, <3>2, <3>3, UneditedIf
  <2> QED BY <2>2, <2>3
<1>13. CASE (AddGrant(r) \/ DeleteUser(r)) /\ ~Fail(r)
  <2>1. Close(r) /\ UNCHANGED <<role, permission, link>>
    BY <1>13 DEF AddGrant, DeleteUser
  <2> QED BY <1>3, <2>1, ClosedIsUnedited
<1>14. CASE RemoveGrant(r)
  <2>1. /\ pc' = [pc EXCEPT ![r] = "idle"] /\ UNCHANGED <<role, permission, link>>
        /\ req' = [s \in Request |->
                     IF s = r THEN Blank
                     ELSE IF pc[s] = "remove grant" /\ req[s].grant = req[r].grant
                     THEN [req[s] EXCEPT !.grant = None] ELSE req[s]]
    BY <1>14 DEF RemoveGrant, Goto
  <2>2. ASSUME NEW s \in Request
        PROVE  /\ pc'[s] \notin {"save role", "save permission"}
               /\ req'[s].kind = "register" => Ensured(s)'
    <3>1. CASE s = r
      BY <1>1, <2>1, <3>1, BlankIsTyped
    <3>2. CASE s # r
      <4>1. req[s] \in Body /\ pc'[s] = pc[s]
        BY <1>1, <2>1, <3>2
      <4>2. /\ req'[s].kind = req[s].kind
            /\ req'[s].todo = req[s].todo /\ req'[s].names = req[s].names
            /\ req'[s].codes = req[s].codes /\ req'[s].links = req[s].links
        BY <2>1, <3>2, <4>1 DEF Body
      <4> QED BY <1>3, <2>1, <4>1, <4>2, EnsuredOutlasts DEF Unedited
    <3> QED BY <3>1, <3>2
  <2> QED BY <2>2 DEF Unedited
<1>15. ~SaveRole(r) /\ ~SavePermission(r)
  BY DEF SaveRole, SavePermission, Unedited
<1> QED BY <1>4, <1>5, <1>6, <1>7, <1>8, <1>9, <1>10, <1>11, <1>12, <1>13, <1>14, <1>15
       DEF Run

LEMMA UneditedInvariance == Spec => []Unedited
<1>1. Init => Unedited
  BY BlankIsTyped DEF Init, Unedited
<1>2. IInv /\ Unedited /\ IInv' /\ [Next]_vars => Unedited'
  <2> SUFFICES ASSUME IInv, Unedited, IInv', [Next]_vars, edits' = 0 PROVE Unedited'
    BY DEF Unedited
  <2>1. UNCHANGED <<role, permission, link>> => TablesGrow
    BY SameExtends DEF TablesGrow
  <2>2. ASSUME NEW r \in Request, BeginAdmin(r) PROVE Unedited'
    <3>1. edits + 1 # 0
      <4>1. edits \in 0 .. MaxEdits /\ MaxEdits \in Nat
        BY AccountsAssumption DEF IInv, TypeOK
      <4> QED BY <4>1
    <3>2. PICK l \in {"add grant", "remove grant", "delete user"} :
            \E b : Begin(r, l, b) /\ edits' = edits /\ b.kind = "admin"
      <4>1. PICK op \in AdminOp :
              /\ UNCHANGED edits
              /\ \/ \E i \in Rows(role, op.name) :
                      \/ Begin(r, "add grant", [AdminBody EXCEPT !.grant = <<op.email, i>>])
                      \/ Begin(r, "remove grant", [AdminBody EXCEPT !.grant = <<op.email, i>>])
                 \/ Begin(r, "delete user", [AdminBody EXCEPT !.email = op.email])
        BY <2>2, <3>1 DEF BeginAdmin
      <4>2. \A v : [AdminBody EXCEPT !.grant = v].kind = "admin"
                   /\ [AdminBody EXCEPT !.email = v].kind = "admin"
        BY DEF AdminBody, Blank
      <4> HIDE DEF AdminBody
      <4> QED BY <4>1, <4>2
    <3>3. PICK b : Begin(r, l, b) /\ edits' = edits /\ b.kind = "admin"
      BY <3>2
    <3>4. Others(r) /\ pc'[r] = l /\ req'[r] = b /\ UNCHANGED <<role, permission, link>>
      BY <3>3 DEF Begin, Goto, Others, IInv, TypeOK, tables
    <3> QED BY <2>1, <3>1, <3>2, <3>3, <3>4, UneditedIf
  <2>3. ASSUME NEW r \in Request, BeginRegister(r) PROVE Unedited'
    <3>1. PICK e \in Email :
            /\ req' = [req EXCEPT ![r] =
                         [Blank EXCEPT !.kind = "register", !.email = e, !.todo = Code]]
            /\ pc' = [pc EXCEPT ![r] = "insert user"]
            /\ UNCHANGED <<role, permission, link, edits>>
      BY <2>3 DEF BeginRegister, Goto, tables
    <3>2. Others(r) /\ pc'[r] = "insert user" /\ req'[r].todo = Code
      BY <3>1 DEF Others, Blank, IInv, TypeOK
    <3>3. Ensured(r)'
      BY <3>2 DEF Ensured, Starting, Ensuring
    <3> QED BY <2>1, <3>1, <3>2, <3>3, UneditedIf DEF IInv, TypeOK
  <2>4. ASSUME NEW r \in Request, BeginBootstrap(r) PROVE Unedited'
    <3>1. PICK e \in Email, l \in {"insert user", "read roles"} :
            /\ req' = [req EXCEPT ![r] =
                         [Blank EXCEPT !.kind = "bootstrap", !.email = e, !.todo = Code]]
            /\ pc' = [pc EXCEPT ![r] = l]
            /\ UNCHANGED <<role, permission, link, edits>>
      BY <2>4, AccountsAssumption DEF BeginBootstrap, Goto
    <3>2. Others(r) /\ pc'[r] = l /\ req'[r].kind = "bootstrap"
      BY <3>1 DEF Others, Blank, IInv, TypeOK
    <3> QED BY <2>1, <3>1, <3>2, UneditedIf DEF IInv, TypeOK
  <2>5. ASSUME NEW r \in Request, Run(r) PROVE Unedited'
    <3>1. edits' = edits
      BY <2>5 DEF Run, InsertUser, ReadRoles, AddRoles, ReadCodes, AddCodes, ReadLinks,
         AddLinks, FindRole, NotFound, AddGrant, RemoveGrant, SaveRole, SavePermission,
         DeleteUser, Fail
    <3> QED BY <2>5, <3>1, UneditedStep
  <2>6. ASSUME NEW r \in Request, Die(r) PROVE Unedited'
    BY <2>1, <2>6, ClosedIsUnedited DEF Die, tables, IInv, TypeOK
  <2>7. CASE UNCHANGED <<role, permission, link, pc, req, edits>>
    <3>1. TablesGrow /\ edits = 0
      BY <2>1, <2>7 DEF IInv, TypeOK
    <3>2. ASSUME NEW s \in Request
          PROVE  /\ pc'[s] \notin {"save role", "save permission"}
                 /\ req'[s].kind = "register" => Ensured(s)'
      BY <2>7, <3>1, EnsuredOutlasts DEF Unedited
    <3> QED BY <3>2 DEF Unedited
  <2> QED BY <2>2, <2>3, <2>4, <2>5, <2>6, <2>7 DEF Next, ImportUsers, vars, tables
<1> QED BY <1>1, <1>2, Invariance, PTL DEF Spec

\* As long as nobody edits the catalogue, a registration that is about to grant
\* its role finds every default role, permission and link, also when others
\* created them, failed or died meanwhile (role_service.py:35-103).
THEOREM RegistrationFindsDefaults == Spec => []CatalogueComplete
<1>1. Unedited => CatalogueComplete
  BY DEF Unedited, Ensured, Ensuring, AllLinked, Linked, CatalogueComplete
<1> QED BY <1>1, UneditedInvariance, PTL
===============================================================================
