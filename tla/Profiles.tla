------------------------------- MODULE Profiles -------------------------------
(***************************************************************************)
(* Customers, employees and users: rows that are edited one column at a    *)
(* time, soft-deleted and restored, and the snapshots of them that         *)
(* services/audit_service.py adds to record_history in the same            *)
(* transaction.  The three services and routers have the same shape; the   *)
(* registration of users is in Accounts.                                   *)
(*                                                                         *)
(* A request reads the row without a lock and writes the columns whose     *)
(* value it changed; what it records is the whole object in its memory.    *)
(*                                                                         *)
(* Operators named Op_Variant are faulty versions of Op.                   *)
(***************************************************************************)
CONSTANTS
    Profile,   \* a customer or employee is identified by its unique user_id
    Column,    \* the columns that a request may set
    Value,
    Patch,     \* the bodies of PATCH and PUT: functions on some of the columns
    Editor,    \* requests
    Absent

Columns == Column \cup {"is_deleted"}
Rows == {f \in [Columns -> Value \cup BOOLEAN] :
           f["is_deleted"] \in BOOLEAN /\ \A c \in Column : f[c] \in Value}

\* soft_delete() and restore() set one column; deleted_at follows it.
Deletion == [c \in {"is_deleted"} |-> TRUE]
Restoration == [c \in {"is_deleted"} |-> FALSE]
Body == Patch \cup {Deletion, Restoration}

ASSUME ProfilesAssumption ==
    /\ "is_deleted" \notin Column
    /\ \A b \in Patch : b \in [DOMAIN b -> Value] /\ DOMAIN b \subseteq Column
    /\ Absent \notin Rows

VARIABLES
    profile,   \* the committed rows
    history,   \* the newest snapshot of each row
    editing    \* the row a request has loaded and the body it will apply

profileVars == <<profile, history, editing>>

Edit == [of : Profile, loaded : Rows, body : Body]

ProfilesTyped ==
    /\ profile \in [Profile -> Rows \cup {Absent}]
    /\ history \in [Profile -> Rows \cup {Absent}]
    /\ editing \in [Editor -> Edit \cup {Absent}]

ProfilesInit ==
    /\ profile = [p \in Profile |-> Absent]
    /\ history = [p \in Profile |-> Absent]
    /\ editing = [e \in Editor |-> Absent]

-------------------------------------------------------------------------------
(* Requests. *)

\* A second profile of the same user meets the unique index, which also knows
\* the deleted ones: the request fails and nothing changes.
CreateProfile ==
    \E p \in Profile, f \in Rows :
        /\ profile[p] = Absent /\ ~f["is_deleted"]
        /\ profile' = [profile EXCEPT ![p] = f]
        /\ history' = [history EXCEPT ![p] = f]
        /\ UNCHANGED editing

\* get_by_id: a soft-deleted row is not found.
Live(p) == profile[p] # Absent /\ ~profile[p]["is_deleted"]

Load(e, p, body) ==
    /\ editing[e] = Absent
    /\ editing' = [editing EXCEPT ![e] = [of |-> p, loaded |-> profile[p], body |-> body]]
    /\ UNCHANGED <<profile, history>>

EditProfile(e) == \E p \in Profile, b \in Patch : Live(p) /\ Load(e, p, b)

DeleteProfile(e) == \E p \in Profile : Live(p) /\ Load(e, p, Deletion)

RestoreProfile(e) ==
    \E p \in Profile : profile[p] # Absent /\ ~Live(p) /\ Load(e, p, Restoration)

-------------------------------------------------------------------------------
(* The commit: UPDATE, then capture_mutations. *)

\* setattr for each field of the body: the object that is then in memory.
Applied(b, f) == [c \in Columns |-> IF c \in DOMAIN b THEN b[c] ELSE f[c]]
InMemory(e) == Applied(editing[e].body, editing[e].loaded)

\* The UPDATE names the columns that differ from what was loaded.
Written_WholeRow(e) == Columns
Written(e) == {c \in Columns : InMemory(e)[c] # editing[e].loaded[c]}

\* The snapshot is of the object, also where another request has changed the
\* row since; setting a column to the value it had counts as a change.
Snapshot(e) == InMemory(e)
Recorded(e) == DOMAIN editing[e].body # {}

Save(e) ==
    /\ editing[e] # Absent
    /\ LET p == editing[e].of IN
        /\ profile' = [profile EXCEPT ![p] =
             [c \in Columns |-> IF c \in Written(e) THEN InMemory(e)[c] ELSE profile[p][c]]]
        /\ history' = IF Recorded(e) THEN [history EXCEPT ![p] = Snapshot(e)] ELSE history
    /\ editing' = [editing EXCEPT ![e] = Absent]

\* The worker dies, the client is gone or the commit fails.
Abandon(e) ==
    /\ editing[e] # Absent
    /\ editing' = [editing EXCEPT ![e] = Absent]
    /\ UNCHANGED <<profile, history>>

-------------------------------------------------------------------------------
ProfilesNext ==
    \/ CreateProfile
    \/ \E e \in Editor : \/ EditProfile(e) \/ DeleteProfile(e) \/ RestoreProfile(e)
                         \/ Save(e) \/ Abandon(e)

ProfilesSpec == ProfilesInit /\ [][ProfilesNext]_profileVars

-------------------------------------------------------------------------------
(* Properties. *)

IsDeleted(p) == profile[p] # Absent /\ profile[p]["is_deleted"]

\* A deleted profile comes back only when a restoration that found it deleted
\* commits: not by a PATCH or PUT that had loaded it before the deletion and
\* commits after it (services/customer_service.py:42-47).
DeletionsStand ==
    [][\A p \in Profile : IsDeleted(p) /\ ~IsDeleted(p)' =>
          \E e \in Editor :
            /\ editing[e] # Absent /\ editing'[e] = Absent
            /\ editing[e].of = p /\ editing[e].body = Restoration
            /\ editing[e].loaded["is_deleted"]]_profileVars

\* The newest snapshot of a row is the row: "Full snapshot of the record's
\* state at this point in time" (models/record_history.py:34).  It is not when
\* two requests write different columns of one row: the second one's object
\* holds the value that the first one has replaced (audit_service.py:20-28).
HistoryTellsTheRow == \A p \in Profile : history[p] = profile[p]
===============================================================================
