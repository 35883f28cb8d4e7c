------------------------------- MODULE Accounts -------------------------------
(***************************************************************************)
(* Registration and role-based access: AuthService.register, RoleService,  *)
(* PermissionAdminService, the permission check of PermissionService, and  *)
(* the script bootstrap_admin.py, as requests over one database.           *)
(*                                                                         *)
(* A request is a series of transactions; each reads what is missing and   *)
(* then inserts it, and the unique indexes decide at the commit.  A row is *)
(* named by what it was created as and a number: <<"USER", 2>> is the      *)
(* second role that was created under the name USER.                       *)
(*                                                                         *)
(* excused only observes.  Operators named Op_Variant are faulty versions  *)
(* of Op.                                                                  *)
(***************************************************************************)
EXTENDS Integers, FiniteSets

CONSTANTS
    Email,
    Scripted,      \* the users bootstrap_admin.py is run for
    Name,          \* names of roles
    Code,          \* PermissionCodeEnum
    OtherCode,     \* codes an administrator may make up
    DefaultCodes,  \* the codes of each role of UserRoleEnum
    Request,
    AdminOp,       \* what administrators ask for: kind, email, name, code
    Copies,        \* bound on the rows ever created under one name
    MaxEdits,      \* bound on roles and permissions created or renamed
    MaxCrashes,
    None

Default == DOMAIN DefaultCodes
RoleId == Name \X (1 .. Copies)
PermissionId == (Code \cup OtherCode) \X (1 .. Copies)

ASSUME AccountsAssumption ==
    /\ Scripted \subseteq Email
    /\ {"ADMIN", "USER"} \subseteq Default /\ Default \subseteq Name
    /\ DefaultCodes \in [Default -> SUBSET Code]
    /\ {"MANAGE_ROLES", "DELETE_USER"} \subseteq Code
    /\ "MANAGE_ROLES" \notin DefaultCodes["USER"]
    /\ Code \cap OtherCode = {}
    /\ None \notin Name \cup Code \cup OtherCode \cup (Email \X RoleId)
    /\ Copies \in Nat /\ MaxEdits \in Nat /\ MaxCrashes \in Nat
    /\ \A op \in AdminOp :
        /\ op.kind \in {"assign", "revoke", "delete user"} => op.email \in Email
        /\ op.kind \in {"create role", "rename role"} => op.name \in Name
        /\ op.kind \in {"create permission", "rename permission"} => op.code \in Code \cup OtherCode

VARIABLES
    user,        \* rows of users: "none", "live" or "deleted"
    superuser,   \* users whose is_superuser is set
    role,        \* the name of each row of roles, None if it does not exist
    permission,  \* the code of each row of permissions
    link,        \* role_permissions
    grant,       \* user_roles
    pc, req,     \* what a request does next and what it has read
    edits, crashes,
    excused      \* users whose registration failed, that had a role revoked or
                 \* that were imported

tables == <<user, superuser, role, permission, link, grant>>
vars == <<tables, pc, req, edits, crashes, excused>>

Blank == [kind |-> "none", email |-> None, names |-> {}, todo |-> {}, codes |-> {},
          links |-> {}, grant |-> None, row |-> None]
Body == [kind : {"none", "register", "bootstrap", "admin"}, email : Email \cup {None},
         names : SUBSET Name, todo : SUBSET Code, codes : SUBSET (Code \cup OtherCode),
         links : SUBSET (RoleId \X PermissionId), grant : (Email \X RoleId) \cup {None},
         row : RoleId \cup PermissionId \cup {None}]
Label == {"idle", "insert user", "read roles", "add roles", "read codes", "add codes",
          "read links", "add links", "find role", "add grant", "remove grant",
          "save role", "save permission", "delete user"}

TypeOK ==
    /\ user \in [Email -> {"none", "live", "deleted"}]
    /\ superuser \subseteq Email
    /\ role \in [RoleId -> Name \cup {None}]
    /\ permission \in [PermissionId -> Code \cup OtherCode \cup {None}]
    /\ link \subseteq RoleId \X PermissionId
    /\ grant \subseteq Email \X RoleId
    /\ pc \in [Request -> Label]
    /\ req \in [Request -> Body]
    /\ edits \in 0 .. MaxEdits /\ crashes \in 0 .. MaxCrashes
    /\ excused \subseteq Email

Init ==
    /\ user = [e \in Email |-> "none"]
    /\ superuser = {}
    /\ role = [i \in RoleId |-> None]
    /\ permission = [i \in PermissionId |-> None]
    /\ link = {} /\ grant = {}
    /\ pc = [r \in Request |-> "idle"]
    /\ req = [r \in Request |-> Blank]
    /\ edits = 0 /\ crashes = 0
    /\ excused = {}

-------------------------------------------------------------------------------
(* Tables with a unique column. *)

Values(table) == {table[i] : i \in DOMAIN table} \ {None}
Rows(table, value) == {i \in DOMAIN table : table[i] = value}

\* The row that an INSERT of value creates.
IsNext(table, i, value) ==
    i[1] = value /\ table[i] = None /\ \A k \in 1 .. (i[2] - 1) : table[<<value, k>>] # None
HasNext(table, value) == \E i \in DOMAIN table : IsNext(table, i, value)
HaveNext(table, values) == \A v \in values : HasNext(table, v)
With(table, values) ==
    [i \in DOMAIN table |-> IF \E v \in values : IsNext(table, i, v) THEN i[1] ELSE table[i]]

\* The unique index refuses the transaction.
Conflict(table, values) == Values(table) \cap values # {}

-------------------------------------------------------------------------------
(* PermissionService.get_user_permission_codes and require_permission. *)

RolesOf(e) == {i \in RoleId : <<e, i>> \in grant}
HeldCodes(e) ==
    {permission[p] : p \in {q \in PermissionId : \E i \in RolesOf(e) : <<i, q>> \in link}}
        \cup IF \E i \in RolesOf(e) : role[i] = "ADMIN" THEN Code ELSE {}
Allowed(e, code) == user[e] = "live" /\ (e \in superuser \/ code \in HeldCodes(e))

-------------------------------------------------------------------------------
Goto(r, label) == pc' = [pc EXCEPT ![r] = label]
Close(r) == Goto(r, "idle") /\ req' = [req EXCEPT ![r] = Blank]

\* An exception: the transaction in progress is rolled back, those before it
\* stay committed.
Registering(r) == req[r].kind = "register" /\ pc[r] # "insert user"
Fail(r) ==
    /\ excused' = IF Registering(r) THEN excused \cup {req[r].email} ELSE excused
    /\ Close(r)
    /\ UNCHANGED <<tables, edits, crashes>>

\* Two transactions that insert the same rows in different orders deadlock
\* and one of them fails (role_names is a set, its order differs by process).
Contended(r) ==
    \E s \in Request \ {r} : /\ pc[s] = pc[r]
                             /\ \/ req[s].names \cap req[r].names # {}
                                \/ req[s].codes \cap req[r].codes # {}
                                \/ req[s].links \cap req[r].links # {}

\* POST /auth/register.  An address that is found is refused (409).
BeginRegister(r) ==
    /\ pc[r] = "idle"
    /\ \E e \in Email :
        /\ user[e] = "none"
        /\ req' = [req EXCEPT ![r] = [Blank EXCEPT !.kind = "register", !.email = e, !.todo = Code]]
    /\ Goto(r, "insert user")
    /\ UNCHANGED <<tables, edits, crashes, excused>>

\* bootstrap_admin.py, for a new or a registered user.
BeginBootstrap(r) ==
    /\ pc[r] = "idle"
    /\ \E e \in Email :
        /\ e \in Scripted \ superuser
        /\ req' = [req EXCEPT ![r] = [Blank EXCEPT !.kind = "bootstrap", !.email = e, !.todo = Code]]
        /\ IF user[e] = "none"
           THEN Goto(r, "insert user") /\ UNCHANGED superuser
           ELSE /\ superuser' = superuser \cup {e}
                /\ Goto(r, "read roles")
    /\ UNCHANGED <<user, role, permission, link, grant, edits, crashes, excused>>

\* The unique email refuses a second row: a registration answers 409, the
\* script ends with the exception.
InsertUser(r) ==
    LET e == req[r].email
    IN /\ pc[r] = "insert user"
       /\ \/ user[e] # "none" /\ Fail(r)
          \/ /\ user[e] = "none"
             /\ user' = [user EXCEPT ![e] = "live"]
             /\ superuser' = IF req[r].kind = "bootstrap" THEN superuser \cup {e} ELSE superuser
             /\ Goto(r, "read roles")
             /\ UNCHANGED <<role, permission, link, grant, req, edits, crashes, excused>>

\* import_users: each line in a savepoint of its own, so that an address that
\* is taken, also by a request that commits meanwhile, fails alone; all of the
\* others commit together.  Nobody assigns them a role.
Imported(lines) == {e \in lines : user[e] = "none"}

ImportUsers ==
    \E actor \in Email, lines \in SUBSET Email :
        /\ user[actor] = "live" /\ lines # {}
        /\ user' = [e \in Email |-> IF e \in Imported(lines) THEN "live" ELSE user[e]]
        /\ excused' = excused \cup Imported(lines)
        /\ UNCHANGED <<superuser, role, permission, link, grant, pc, req, edits, crashes>>

-------------------------------------------------------------------------------
(* ensure_default_roles_and_permissions: three transactions.  The script    *)
(* ensures only ADMIN, and each permission with its link before the next.   *)

WantedRoles(r) == IF req[r].kind = "register" THEN Default ELSE {"ADMIN"}
WantedCodes(r) ==
    IF req[r].kind = "register" THEN req[r].todo ELSE {CHOOSE c \in req[r].todo : TRUE}

\* The script keeps the row of ADMIN, a registration finds its roles again.
AdminRow(r, table) ==
    IF req[r].kind = "bootstrap" THEN CHOOSE i \in Rows(table, "ADMIN") : TRUE ELSE None

\* Roles may all exist while permissions or links are still missing.
AfterRoles_RolesSuffice(missing) == IF missing = {} THEN "find role" ELSE "add roles"
AfterRoles(missing) == IF missing = {} THEN "read codes" ELSE "add roles"

ReadRoles(r) ==
    LET missing == WantedRoles(r) \ Values(role)
    IN /\ pc[r] = "read roles"
       /\ HaveNext(role, missing)
       /\ req' = [req EXCEPT ![r].names = missing,
                             ![r].row = IF missing = {} THEN AdminRow(r, role) ELSE None]
       /\ Goto(r, AfterRoles(missing))
       /\ UNCHANGED <<tables, edits, crashes, excused>>

AddRoles(r) ==
    /\ pc[r] = "add roles"
    /\ \/ (Conflict(role, req[r].names) \/ Contended(r)) /\ Fail(r)
       \/ /\ ~Conflict(role, req[r].names) /\ HaveNext(role, req[r].names)
          /\ role' = With(role, req[r].names)
          /\ req' = [req EXCEPT ![r].names = {},
                                ![r].row = AdminRow(r, With(role, req[r].names))]
          /\ Goto(r, "read codes")
          /\ UNCHANGED <<user, superuser, permission, link, grant, edits, crashes, excused>>

ReadCodes(r) ==
    LET missing == WantedCodes(r) \ Values(permission)
    IN /\ pc[r] = "read codes"
       /\ HaveNext(permission, missing)
       /\ req' = [req EXCEPT ![r].codes = missing]
       /\ Goto(r, IF missing = {} THEN "read links" ELSE "add codes")
       /\ UNCHANGED <<tables, edits, crashes, excused>>

AddCodes(r) ==
    /\ pc[r] = "add codes"
    /\ \/ (Conflict(permission, req[r].codes) \/ Contended(r)) /\ Fail(r)
       \/ /\ ~Conflict(permission, req[r].codes) /\ HaveNext(permission, req[r].codes)
          /\ permission' = With(permission, req[r].codes)
          /\ req' = [req EXCEPT ![r].codes = {}]
          /\ Goto(r, "read links")
          /\ UNCHANGED <<user, superuser, role, link, grant, edits, crashes, excused>>

\* A role or permission that is not found by its name is skipped.
WantedLinks_Unchecked(r) ==
    UNION {Rows(role, n) \X UNION {IF Rows(permission, c) = {} THEN {None} ELSE Rows(permission, c) :
                                    c \in DefaultCodes[n]} : n \in Default}
WantedLinks_AllCodes(r) ==
    UNION {Rows(role, n) \X Rows(permission, c) : n \in WantedRoles(r), c \in WantedCodes(r)}
WantedLinks(r) ==
    IF req[r].kind = "register"
    THEN UNION {Rows(role, n) \X UNION {Rows(permission, c) : c \in DefaultCodes[n]} : n \in Default}
    ELSE {req[r].row} \X UNION {Rows(permission, c) : c \in WantedCodes(r)}

ReadLinks(r) ==
    /\ pc[r] = "read links"
    /\ req' = [req EXCEPT ![r].links = WantedLinks(r) \ link,
                          ![r].todo = @ \ WantedCodes(r)]
    /\ Goto(r, "add links")
    /\ UNCHANGED <<tables, edits, crashes, excused>>

AddLinks(r) ==
    /\ pc[r] = "add links"
    /\ \/ (link \cap req[r].links # {} \/ Contended(r)) /\ Fail(r)
       \/ /\ link \cap req[r].links = {}
          /\ link' = link \cup req[r].links
          /\ req' = [req EXCEPT ![r].links = {}]
          /\ Goto(r, IF req[r].todo = {} THEN "find role" ELSE "read codes")
          /\ UNCHANGED <<user, superuser, role, permission, grant, edits, crashes, excused>>

-------------------------------------------------------------------------------
(* assign_role and revoke_role. *)

\* The role a registration or the script gives; RoleNotFoundError if it has
\* been renamed in between.
NotFound_Ignored(r) == Close(r) /\ UNCHANGED <<tables, edits, crashes, excused>>
NotFound(r) == Fail(r)

FindRole(r) ==
    LET rows == IF req[r].kind = "register" THEN Rows(role, "USER") ELSE {req[r].row}
    IN /\ pc[r] = "find role"
       /\ \/ rows = {} /\ NotFound(r)
          \/ \E i \in rows :
                /\ IF <<req[r].email, i>> \in grant
                   THEN Close(r)
                   ELSE /\ req' = [req EXCEPT ![r].grant = <<req[r].email, i>>]
                        /\ Goto(r, "add grant")
                /\ UNCHANGED <<tables, edits, crashes, excused>>

\* uq_user_role refuses a second row.
AddGrant(r) ==
    /\ pc[r] = "add grant"
    /\ \/ req[r].grant \in grant /\ Fail(r)
       \/ /\ req[r].grant \notin grant
          /\ grant' = grant \cup {req[r].grant}
          /\ Close(r)
          /\ UNCHANGED <<user, superuser, role, permission, link, edits, crashes, excused>>

\* DELETE of the row that was read: nothing, if another request has deleted
\* it (the same role granted again is another row).
RemoveGrant(r) ==
    LET g == req[r].grant
    IN /\ pc[r] = "remove grant"
       /\ grant' = grant \ {g}
       /\ excused' = IF g = None THEN excused ELSE excused \cup {g[1]}
       /\ Goto(r, "idle")
       /\ req' = [s \in Request |->
                    IF s = r THEN Blank
                    ELSE IF pc[s] = "remove grant" /\ req[s].grant = g
                    THEN [req[s] EXCEPT !.grant = None] ELSE req[s]]
       /\ UNCHANGED <<user, superuser, role, permission, link, edits, crashes>>

-------------------------------------------------------------------------------
(* The endpoints of administrators: the permission and the first reads, in  *)
(* one transaction, then the write.                                         *)

Needs(kind) == IF kind = "delete user" THEN "DELETE_USER" ELSE "MANAGE_ROLES"

Begin(r, label, fields) ==
    /\ req' = [req EXCEPT ![r] = fields]
    /\ Goto(r, label)
    /\ UNCHANGED <<tables, crashes, excused>>

AdminBody == [Blank EXCEPT !.kind = "admin"]

\* What is answered without a write (404, or a role already held) is left out.
BeginAdmin(r) ==
    /\ pc[r] = "idle"
    /\ \E actor \in Email, op \in AdminOp :
        /\ Allowed(actor, Needs(op.kind))
        /\ \/ /\ op.kind = "assign" /\ user[op.email] # "none"
              /\ \E i \in Rows(role, op.name) :
                   /\ <<op.email, i>> \notin grant
                   /\ Begin(r, "add grant", [AdminBody EXCEPT !.grant = <<op.email, i>>])
              /\ UNCHANGED edits
           \/ /\ op.kind = "revoke"
              /\ \E i \in Rows(role, op.name) :
                   /\ <<op.email, i>> \in grant
                   /\ Begin(r, "remove grant", [AdminBody EXCEPT !.grant = <<op.email, i>>])
              /\ UNCHANGED edits
           \/ /\ op.kind = "create role" /\ edits < MaxEdits /\ HasNext(role, op.name)
              /\ Begin(r, "save role", [AdminBody EXCEPT !.names = {op.name}])
              /\ edits' = edits + 1
           \/ /\ op.kind = "rename role" /\ edits < MaxEdits
              /\ \E i \in RoleId :
                   /\ role[i] # None
                   /\ Begin(r, "save role", [AdminBody EXCEPT !.names = {op.name}, !.row = i])
              /\ edits' = edits + 1
           \/ /\ op.kind = "create permission" /\ edits < MaxEdits /\ HasNext(permission, op.code)
              /\ Begin(r, "save permission", [AdminBody EXCEPT !.codes = {op.code}])
              /\ edits' = edits + 1
           \/ /\ op.kind = "rename permission" /\ edits < MaxEdits
              /\ \E i \in PermissionId :
                   /\ permission[i] # None
                   /\ Begin(r, "save permission", [AdminBody EXCEPT !.codes = {op.code}, !.row = i])
              /\ edits' = edits + 1
           \/ /\ op.kind = "delete user" /\ user[op.email] = "live"
              /\ Begin(r, "delete user", [AdminBody EXCEPT !.email = op.email])
              /\ UNCHANGED edits

\* create_role and update_role: the unique name, of another row, refuses.
Saved(table, row, values) ==
    IF row = None THEN With(table, values)
    ELSE [table EXCEPT ![row] = CHOOSE v \in values : TRUE]
Without(table, row) == [i \in DOMAIN table |-> IF i = row THEN None ELSE table[i]]

SaveRole(r) ==
    /\ pc[r] = "save role"
    /\ \/ Conflict(Without(role, req[r].row), req[r].names) /\ Fail(r)
       \/ /\ ~Conflict(Without(role, req[r].row), req[r].names)
          /\ req[r].row # None \/ HaveNext(role, req[r].names)
          /\ role' = Saved(role, req[r].row, req[r].names)
          /\ Close(r)
          /\ UNCHANGED <<user, superuser, permission, link, grant, edits, crashes, excused>>

SavePermission(r) ==
    /\ pc[r] = "save permission"
    /\ \/ Conflict(Without(permission, req[r].row), req[r].codes) /\ Fail(r)
       \/ /\ ~Conflict(Without(permission, req[r].row), req[r].codes)
          /\ req[r].row # None \/ HaveNext(permission, req[r].codes)
          /\ permission' = Saved(permission, req[r].row, req[r].codes)
          /\ Close(r)
          /\ UNCHANGED <<user, superuser, role, link, grant, edits, crashes, excused>>

\* The address and the roles of a soft-deleted user stay.
DeleteUser(r) ==
    /\ pc[r] = "delete user"
    /\ user' = [user EXCEPT ![req[r].email] = "deleted"]
    /\ Close(r)
    /\ UNCHANGED <<superuser, role, permission, link, grant, edits, crashes, excused>>

-------------------------------------------------------------------------------
Die(r) ==
    /\ pc[r] # "idle" /\ crashes < MaxCrashes
    /\ crashes' = crashes + 1
    /\ excused' = IF Registering(r) THEN excused \cup {req[r].email} ELSE excused
    /\ Close(r)
    /\ UNCHANGED <<tables, edits>>

Run(r) ==
    \/ InsertUser(r) \/ ReadRoles(r) \/ AddRoles(r) \/ ReadCodes(r) \/ AddCodes(r)
    \/ ReadLinks(r) \/ AddLinks(r) \/ FindRole(r) \/ AddGrant(r) \/ RemoveGrant(r)
    \/ SaveRole(r) \/ SavePermission(r) \/ DeleteUser(r)

Next ==
    \/ \E r \in Request : \/ BeginRegister(r) \/ BeginBootstrap(r) \/ BeginAdmin(r)
                          \/ Run(r) \/ Die(r)
    \/ ImportUsers

Spec == Init /\ [][Next]_vars

-------------------------------------------------------------------------------
(* Properties. *)

\* "register assigns default user role" (tests/test_auth.py:65): a user without
\* any role is being registered, or the registration failed after the commit
\* of the user, or the role was revoked, or the user was imported.
RolelessOnlyAfterFailure ==
    \A e \in Email : user[e] # "none" /\ RolesOf(e) = {} =>
        \/ \E r \in Request : req[r].kind = "register" /\ req[r].email = e
        \/ e \in excused \cup superuser

\* A registration that has ensured the defaults finds all of them, also when
\* others created them, failed or died in between, as long as nobody edits
\* the catalogue.
CatalogueComplete ==
    edits = 0 =>
        \A r \in Request : pc[r] \in {"find role", "add grant"} /\ req[r].kind = "register" =>
            /\ Default \subseteq Values(role) /\ Code \subseteq Values(permission)
            /\ \A n \in Default : \A c \in DefaultCodes[n] :
                  Rows(role, n) \X Rows(permission, c) \subseteq link

\* Nobody may manage roles until an administrator is bootstrapped: no order of
\* registrations hands that permission out.
NoManagerBeforeBootstrap ==
    superuser = {} => \A e \in Email : ~Allowed(e, "MANAGE_ROLES")
===============================================================================
