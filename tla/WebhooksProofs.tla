---------------------------- MODULE WebhooksProofs ----------------------------
(***************************************************************************)
(* What the webhook queue guarantees for any number of events, senders,    *)
(* overlapping jobs and users at the retry endpoint, and for any budget.   *)
(***************************************************************************)
EXTENDS Webhooks, TLAPS

-------------------------------------------------------------------------------
(* The inductive invariant. *)

\* A row is locked by one claim at most, and stays retryable while it is.
Locks ==
    /\ \A c \in Caller : pc[c] # "claiming" => batch[c] = {}
    /\ \A c, d \in Caller : c # d => batch[c] \cap batch[d] = {}
    /\ \A c \in Caller : \A e \in batch[c] :
          event[e].status \in {"PENDING", "RETRYING"} /\ event[e].count < MAX_RETRIES

\* A coroutine belongs to a job that is delivering, and to a claim that the
\* row has counted; before its POST that claim has not been posted.
Tickets ==
    /\ \A j \in Job, e \in Event : task[j][e] # "none" =>
          /\ pc[j] = "delivering"
          /\ ticket[j][e] \in 1 .. event[e].count
          /\ task[j][e] = "queued" => ticket[j][e] \notin posted[e]
    /\ \A e \in Event : ~Stored(e) => event[e].count = 0

\* What a session has loaded is no newer than the row.
Sessions ==
    /\ \A j \in Job, e \in Event : loaded[j][e].count <= event[e].count
    /\ \A j \in Job, e \in Event : task[j][e] \in {"none", "queued"} => loaded[j][e] = Expired
    /\ \A j \in Job, e \in Event : task[j][e] = "failing" => loaded[j][e] # Expired
    /\ \A j \in Job, e, f \in Event :
          task[j][e] = "failing" /\ task[j][f] = "failing" => e = f

\* An event whose claims were neither abandoned nor overlapped has one
\* coroutine at most, which knows the row as it is.
Undisturbed ==
    \A e \in Event \ disturbed :
        /\ \A i, j \in Job : task[i][e] # "none" /\ task[j][e] # "none" => i = j
        /\ \A j \in Job : task[j][e] # "none" =>
              /\ event[e].status = "RETRYING"
              /\ loaded[j][e] \in {Expired, Row(e)}

IInv ==
    /\ TypeOK /\ Locks /\ Tickets /\ Sessions /\ Undisturbed
    /\ AttemptsWithinBudget /\ OneJobPerAttempt /\ FailedOnlyAfterBudget
    /\ StrandedOnlyIfDisturbed
-------------------------------------------------------------------------------
(* Type correctness. *)

LEMMA Bounds == MaxCrashes \in Nat /\ MAX_RETRIES \in Nat \ {0}
  BY WebhooksAssumption

LEMMA InitialTypes ==
    /\ NoMessage \in Message
    /\ NoRow \in WebhookEvent
    /\ Expired \in Columns
  <1>1. (CHOOSE m \in Message : TRUE) \in Message /\ (CHOOSE b \in Body : TRUE) \in Body
    BY WebhooksAssumption
  <1> QED
    BY <1>1 DEF NoMessage, NoRow, Expired, Columns, WebhookEvent, Status

LEMMA TypeInit == Init => TypeOK
  <1> SUFFICES ASSUME Init PROVE TypeOK
    OBVIOUS
  <1>1. crashes \in 0 .. MaxCrashes
    BY Bounds DEF Init
  <1>2. receiving \in [Receiver -> [busy : BOOLEAN, message : Message]]
    BY InitialTypes DEF Init
  <1>3. /\ event \in [Event -> WebhookEvent]
        /\ loaded \in [Job -> [Event -> Columns]]
    BY InitialTypes DEF Init
  <1> QED
    BY <1>1, <1>2, <1>3 DEF Init, TypeOK

LEMMA MessageBody == \A m \in Message : m.event \in Event /\ m.body \in Body
  BY WebhooksAssumption

LEMMA RowTypes ==
    ASSUME TypeOK, NEW e \in Event
    PROVE  /\ Row(e) \in Columns
           /\ Claimed(event[e]) \in WebhookEvent
           /\ \A s \in Status : [event[e] EXCEPT !.status = s] \in WebhookEvent
           /\ \A s \in Status, d \in BOOLEAN :
                 [event[e] EXCEPT !.status = s, !.due = d] \in WebhookEvent
           /\ [event[e] EXCEPT !.due = TRUE] \in WebhookEvent
  <1> DEFINE row == event[e]
  <1>1. row \in WebhookEvent
    BY DEF TypeOK
  <1>2. Row(e) \in Columns
    BY <1>1 DEF Row, Columns, WebhookEvent
  <1>3. /\ "RETRYING" \in Status
        /\ row.count + 1 \in Nat
    BY <1>1 DEF WebhookEvent, Status
  <1>4. Claimed(row) \in WebhookEvent
    BY <1>1, <1>3 DEF Claimed, WebhookEvent
  <1>5. /\ \A s \in Status : [row EXCEPT !.status = s] \in WebhookEvent
        /\ [row EXCEPT !.due = TRUE] \in WebhookEvent
    BY <1>1 DEF WebhookEvent
  <1>6. \A s \in Status, d \in BOOLEAN : [row EXCEPT !.status = s, !.due = d] \in WebhookEvent
    BY <1>1 DEF WebhookEvent
  <1> QED
    BY <1>2, <1>4, <1>5, <1>6

LEMMA WrittenTypes ==
    ASSUME TypeOK, NEW j \in Job, NEW e \in Event, NEW s \in Status
    PROVE  Written(j, e, s) \in Status
  <1>1. event[e].status \in Status
    BY DEF TypeOK, WebhookEvent
  <1> QED
    BY <1>1 DEF Written

LEMMA TypeStep == TypeOK /\ [Next]_vars => TypeOK'
  <1> SUFFICES ASSUME TypeOK, [Next]_vars PROVE TypeOK'
    OBVIOUS
  <1>1. ASSUME NEW r \in Receiver, LookUp(r) PROVE TypeOK'
    <2>1. PICK m \in Message : receiving' = [receiving EXCEPT ![r] = [busy |-> TRUE, message |-> m]]
      BY <1>1 DEF LookUp
    <2> QED
      BY <1>1, <2>1 DEF LookUp, TypeOK, claims, ghosts
  <1>2. ASSUME NEW r \in Receiver, Insert(r) PROVE TypeOK'
    <2> DEFINE m == receiving[r].message
               row == [status |-> "PENDING", count |-> 0, due |-> TRUE, body |-> m.body]
    <2>1. m \in Message
      BY DEF TypeOK
    <2>2. row \in WebhookEvent /\ m.event \in Event
      BY <2>1, MessageBody DEF WebhookEvent, Status
    <2>3. event' \in [Event -> WebhookEvent]
      BY <1>2, <2>2 DEF Insert, TypeOK
    <2>4. receiving' \in [Receiver -> [busy : BOOLEAN, message : Message]]
      BY <1>2, InitialTypes DEF Insert, TypeOK
    <2> QED
      BY <1>2, <2>3, <2>4 DEF Insert, TypeOK, claims, ghosts
  <1>3. ASSUME NEW c \in Caller, SelectBatch(c) PROVE TypeOK'
    BY <1>3 DEF SelectBatch, TypeOK, ghosts
  <1>4. ASSUME NEW c \in Caller, CommitClaim(c) PROVE TypeOK'
    <2>1. event' \in [Event -> WebhookEvent]
      BY <1>4, RowTypes DEF CommitClaim, TypeOK
    <2>2. \A e \in Event : event'[e].count \in Nat
      BY <2>1 DEF WebhookEvent
    <2>3. batch[c] \subseteq Event
      BY DEF TypeOK
    <2>4. CASE c \in Job
      <3>1. [e \in Event |-> IF e \in batch[c] THEN "queued" ELSE "none"]
               \in [Event -> {"none", "queued", "posted", "failing"}]
        OBVIOUS
      <3>2. [e \in Event |-> IF e \in batch[c] THEN event'[e].count ELSE 0] \in [Event -> Nat]
        BY <2>2
      <3>3. \/ UNCHANGED <<task, ticket>>
            \/ /\ task' = [task EXCEPT ![c] =
                             [e \in Event |-> IF e \in batch[c] THEN "queued" ELSE "none"]]
               /\ ticket' = [ticket EXCEPT ![c] =
                             [e \in Event |-> IF e \in batch[c] THEN event'[e].count ELSE 0]]
        BY <1>4 DEF CommitClaim
      <3>4. task' \in [Job -> [Event -> {"none", "queued", "posted", "failing"}]]
        BY <3>1, <3>3 DEF TypeOK
      <3>5. ticket' \in [Job -> [Event -> Nat]]
        BY <3>2, <3>3 DEF TypeOK
      <3> QED
        BY <1>4, <2>1, <2>3, <3>4, <3>5 DEF CommitClaim, TypeOK
    <2>5. CASE c \notin Job
      BY <1>4, <2>1, <2>3, <2>5 DEF CommitClaim, TypeOK
    <2> QED
      BY <2>4, <2>5
  <1>5. ASSUME NEW j \in Job, NEW e \in Event, Start(j, e) PROVE TypeOK'
    <2>1. loaded' \in [Job -> [Event -> Columns]]
      BY <1>5, RowTypes DEF Start, TypeOK
    <2>2. PICK at \in {"posted", "failing"} : task' = [task EXCEPT ![j][e] = at]
      BY <1>5 DEF Start
    <2>3. task' \in [Job -> [Event -> {"none", "queued", "posted", "failing"}]]
      BY <2>2 DEF TypeOK
    <2>4. ticket[j][e] \in Nat
      BY DEF TypeOK
    <2>5. posted' = posted \/ posted' = [posted EXCEPT ![e] = @ \cup {ticket[j][e]}]
      BY <1>5 DEF Start
    <2>6. posted' \in [Event -> SUBSET Nat]
      BY <2>4, <2>5 DEF TypeOK
    <2> QED
      BY <1>5, <2>1, <2>3, <2>6 DEF Start, TypeOK
  <1>6. ASSUME NEW j \in Job, NEW e \in Event, AfterCommit(j, e),
               event' \in [Event -> WebhookEvent]
        PROVE  TypeOK'
    <2>1. loaded' \in [Job -> [Event -> Columns]]
      BY <1>6, InitialTypes DEF AfterCommit, TypeOK
    <2> QED
      BY <1>6, <2>1 DEF AfterCommit, TypeOK
  <1>7. ASSUME NEW j \in Job, NEW e \in Event, Deliver(j, e) PROVE TypeOK'
    <2>1. event' = [event EXCEPT ![e] = [event[e] EXCEPT !.status = Written(j, e, "DELIVERED")]]
      BY <1>7 DEF Deliver
    <2>2. event' \in [Event -> WebhookEvent]
      BY <2>1, RowTypes, WrittenTypes DEF TypeOK, Status
    <2> QED
      BY <1>6, <1>7, <2>2 DEF Deliver
  <1>8. ASSUME NEW j \in Job, NEW e \in Event, Fail(j, e) PROVE TypeOK'
    <2>1. loaded' \in [Job -> [Event -> Columns]]
      BY <1>8, RowTypes DEF Fail, TypeOK
    <2> QED
      BY <1>8, <2>1 DEF Fail, TypeOK, ghosts
  <1>9. ASSUME NEW j \in Job, NEW e \in Event, RecordFailure(j, e) PROVE TypeOK'
    <2> DEFINE n == loaded[j][e].count
               s == Written(j, e, StatusAfterFailure(n))
               d == event[e].due /\ n >= MAX_RETRIES
    <2>1. event' = [event EXCEPT ![e] = [event[e] EXCEPT !.status = s, !.due = d]]
      BY <1>9 DEF RecordFailure
    <2>2. s \in Status
      BY WrittenTypes DEF StatusAfterFailure, Status
    <2>3. event' \in [Event -> WebhookEvent]
      BY <2>1, <2>2, RowTypes DEF TypeOK
    <2> QED
      BY <1>6, <1>9, <2>3 DEF RecordFailure
  <1>10. ASSUME NEW j \in Job, Finish(j) PROVE TypeOK'
    BY <1>10 DEF Finish, TypeOK, ghosts
  <1>11. ASSUME NEW e \in Event, BecomeDue(e) PROVE TypeOK'
    <2>1. event' = [event EXCEPT ![e] = [event[e] EXCEPT !.due = TRUE]]
      BY <1>11 DEF BecomeDue
    <2>2. event' \in [Event -> WebhookEvent]
      BY <2>1, RowTypes DEF TypeOK
    <2> QED
      BY <1>11, <2>2 DEF BecomeDue, TypeOK, claims, ghosts
  <1>12. ASSUME NEW c \in Caller, Die(c) PROVE TypeOK'
    <2>1. crashes' \in 0 .. MaxCrashes
      <3>1. crashes \in 0 .. MaxCrashes
        BY DEF TypeOK
      <3>2. crashes < MaxCrashes /\ crashes' = crashes + 1
        BY <1>12 DEF Die
      <3> QED
        BY <3>1, <3>2, Bounds
    <2>2. CASE c \in Job /\ c \notin Clerk
      <3>1. /\ task' = [task EXCEPT ![c] = [e \in Event |-> "none"]]
            /\ loaded' = [loaded EXCEPT ![c] = [e \in Event |-> Expired]]
            /\ ticket' = [ticket EXCEPT ![c] = [e \in Event |-> 0]]
        BY <1>12, <2>2 DEF Die
      <3>2. /\ [e \in Event |-> "none"] \in [Event -> {"none", "queued", "posted", "failing"}]
            /\ [e \in Event |-> Expired] \in [Event -> Columns]
            /\ [e \in Event |-> 0] \in [Event -> Nat]
        BY InitialTypes
      <3>3. loaded' \in [Job -> [Event -> Columns]]
        BY <3>1, <3>2 DEF TypeOK
      <3>4. task' \in [Job -> [Event -> {"none", "queued", "posted", "failing"}]]
        BY <3>1, <3>2 DEF TypeOK
      <3>5. ticket' \in [Job -> [Event -> Nat]]
        BY <3>1, <3>2 DEF TypeOK
      <3> QED
        BY <1>12, <2>1, <3>3, <3>4, <3>5 DEF Die, TypeOK
    <2>3. CASE c \notin Job
      <3>1. UNCHANGED <<task, loaded, ticket, disturbed>>
        BY <1>12, <2>3 DEF Die
      <3> QED
        BY <1>12, <2>1, <3>1 DEF Die, TypeOK
    <2>4. c \in Job => c \notin Clerk
      BY WebhooksAssumption
    <2> QED
      BY <2>2, <2>3, <2>4
  <1>13. CASE UNCHANGED vars
    BY <1>13 DEF TypeOK, vars, claims, ghosts
  <1> QED
    BY <1>1, <1>2, <1>3, <1>4, <1>5, <1>7, <1>8, <1>9, <1>10, <1>11, <1>12, <1>13
    DEF Next, Run, Caller

\* Every column and coroutine keeps its type: in particular a status is always
\* one of WebhookStatusEnum.
THEOREM TypeCorrect == Spec => []TypeOK
  BY TypeInit, TypeStep, PTL DEF Spec

-------------------------------------------------------------------------------
(* What each action does to a row, a coroutine and a session. *)

LEMMA RowFacts ==
    ASSUME TypeOK
    PROVE  /\ \A e \in Event : event[e].count \in Nat /\ event[e].status \in Status
           /\ \A j \in Job, e \in Event : loaded[j][e].count \in Nat /\ ticket[j][e] \in Nat
           /\ \A j \in Job, e \in Event : task[j][e] \in {"none", "queued", "posted", "failing"}
           /\ \A c \in Caller : batch[c] \subseteq Event
           /\ \A e \in Event : posted[e] \subseteq Nat
  BY DEF TypeOK, WebhookEvent, Columns

LEMMA CommitClaimEffect ==
    ASSUME TypeOK, NEW c \in Caller, CommitClaim(c)
    PROVE  /\ \A e \in Event \ batch[c] : event'[e] = event[e]
           /\ \A e \in batch[c] : /\ event'[e].count = event[e].count + 1
                                  /\ event'[e].status = "RETRYING"
           /\ \A d \in Caller : batch'[d] = IF d = c THEN {} ELSE batch[d]
           /\ \A d \in Caller : d # c => pc'[d] = pc[d]
           /\ \A j \in Job, e \in Event : j # c =>
                 task'[j][e] = task[j][e] /\ ticket'[j][e] = ticket[j][e]
           /\ disturbed \subseteq disturbed'
           /\ loaded' = loaded /\ posted' = posted
  <1>1. batch[c] \subseteq Event
    BY DEF TypeOK
  <1>2. \A e \in batch[c] : Claimed(event[e]).count = event[e].count + 1
                            /\ Claimed(event[e]).status = "RETRYING"
    BY <1>1 DEF Claimed, TypeOK, WebhookEvent
  <1>3. \A e \in Event : event'[e] = IF e \in batch[c] THEN Claimed(event[e]) ELSE event[e]
    BY DEF CommitClaim
  <1>4. \A j \in Job, e \in Event : j # c =>
           task'[j][e] = task[j][e] /\ ticket'[j][e] = ticket[j][e]
    BY DEF CommitClaim, TypeOK
  <1>5. \A d \in Caller : batch'[d] = IF d = c THEN {} ELSE batch[d]
    BY DEF CommitClaim, TypeOK
  <1>6. \A d \in Caller : d # c => pc'[d] = pc[d]
    BY DEF CommitClaim, TypeOK
  <1>7. disturbed \subseteq disturbed' /\ loaded' = loaded /\ posted' = posted
    BY DEF CommitClaim
  <1> QED
    BY <1>1, <1>2, <1>3, <1>4, <1>5, <1>6, <1>7

LEMMA JobClaimEffect ==
    ASSUME TypeOK, NEW c \in Job, CommitClaim(c)
    PROVE  /\ pc'[c] = "delivering"
           /\ \A e \in Event : task'[c][e] = IF e \in batch[c] THEN "queued" ELSE "none"
           /\ \A e \in batch[c] : ticket'[c][e] = event'[e].count
           /\ disturbed' = disturbed \cup {e \in batch[c] : Held(e) # {}}
  <1>1. c \in Caller /\ c \notin Clerk
    BY WebhooksAssumption DEF Caller
  <1>2. /\ pc' = [pc EXCEPT ![c] = "delivering"]
        /\ task' = [task EXCEPT ![c] =
                       [e \in Event |-> IF e \in batch[c] THEN "queued" ELSE "none"]]
        /\ ticket' = [ticket EXCEPT ![c] =
                         [e \in Event |-> IF e \in batch[c] THEN event'[e].count ELSE 0]]
        /\ disturbed' = disturbed \cup {e \in batch[c] : Held(e) # {}}
    BY <1>1 DEF CommitClaim
  <1>3. batch[c] \subseteq Event
    BY <1>1 DEF TypeOK
  <1> QED
    BY <1>1, <1>2, <1>3 DEF TypeOK

LEMMA ClerkClaimEffect ==
    ASSUME TypeOK, NEW c \in Caller, c \notin Job, CommitClaim(c)
    PROVE  /\ pc'[c] = "idle"
           /\ task' = task /\ ticket' = ticket
           /\ disturbed' = disturbed \cup batch[c]
  BY DEF CommitClaim, TypeOK

LEMMA StartEffect ==
    ASSUME TypeOK, NEW j \in Job, NEW e \in Event, Start(j, e)
    PROVE  /\ event' = event /\ pc' = pc /\ batch' = batch
           /\ ticket' = ticket /\ disturbed' = disturbed
           /\ loaded'[j][e] = Row(e)
           /\ \A i \in Job, f \in Event : (i # j \/ f # e) =>
                 task'[i][f] = task[i][f] /\ loaded'[i][f] = loaded[i][f]
           /\ \/ task'[j][e] = "failing" /\ posted' = posted
              \/ /\ task'[j][e] = "posted"
                 /\ \A f \in Event :
                       posted'[f] = IF f = e THEN posted[e] \cup {ticket[j][e]} ELSE posted[f]
  <1>1. loaded' = [loaded EXCEPT ![j][e] = Row(e)]
    BY DEF Start
  <1>2. \/ task' = [task EXCEPT ![j][e] = "failing"] /\ posted' = posted
        \/ /\ task' = [task EXCEPT ![j][e] = "posted"]
           /\ posted' = [posted EXCEPT ![e] = @ \cup {ticket[j][e]}]
    BY DEF Start
  <1>3. event' = event /\ pc' = pc /\ batch' = batch /\ ticket' = ticket /\ disturbed' = disturbed
    BY DEF Start
  <1>4. /\ loaded'[j][e] = Row(e)
        /\ \A i \in Job, f \in Event : (i # j \/ f # e) => loaded'[i][f] = loaded[i][f]
    BY <1>1 DEF TypeOK
  <1>5. CASE task' = [task EXCEPT ![j][e] = "failing"] /\ posted' = posted
    BY <1>3, <1>4, <1>5 DEF TypeOK
  <1>6. CASE /\ task' = [task EXCEPT ![j][e] = "posted"]
             /\ posted' = [posted EXCEPT ![e] = @ \cup {ticket[j][e]}]
    BY <1>3, <1>4, <1>6 DEF TypeOK
  <1> QED
    BY <1>2, <1>5, <1>6

\* Deliver and RecordFailure.
LEMMA ResultEffect ==
    ASSUME TypeOK, NEW j \in Job, NEW e \in Event, NEW s \in Status,
           AfterCommit(j, e),
           \E d \in BOOLEAN :
              event' = [event EXCEPT ![e].status = Written(j, e, s), ![e].due = d]
    PROVE  /\ \A f \in Event : event'[f].count = event[f].count
           /\ \A f \in Event \ {e} : event'[f] = event[f]
           /\ event'[e].status = Written(j, e, s)
           /\ pc' = pc /\ batch' = batch /\ posted' = posted /\ disturbed' = disturbed
           /\ task'[j][e] = "none"
           /\ \A f \in Event : loaded'[j][f] = Expired
           /\ \A i \in Job, f \in Event : (i # j \/ f # e) =>
                 task'[i][f] = task[i][f] /\ ticket'[i][f] = ticket[i][f]
           /\ \A i \in Job, f \in Event : i # j => loaded'[i][f] = loaded[i][f]
  <1>1. PICK d \in BOOLEAN :
          event' = [event EXCEPT ![e].status = Written(j, e, s), ![e].due = d]
    OBVIOUS
  <1>2. /\ \A f \in Event : event'[f].count = event[f].count
        /\ \A f \in Event \ {e} : event'[f] = event[f]
        /\ event'[e].status = Written(j, e, s)
    BY <1>1 DEF TypeOK, WebhookEvent
  <1>3. /\ loaded' = [loaded EXCEPT ![j] = [f \in Event |-> Expired]]
        /\ task' = [task EXCEPT ![j][e] = "none"]
        /\ ticket' = [ticket EXCEPT ![j][e] = 0]
    BY DEF AfterCommit
  <1>4. /\ task'[j][e] = "none"
        /\ \A i \in Job, f \in Event : (i # j \/ f # e) =>
              task'[i][f] = task[i][f] /\ ticket'[i][f] = ticket[i][f]
    BY <1>3 DEF TypeOK
  <1>5. /\ \A f \in Event : loaded'[j][f] = Expired
        /\ \A i \in Job, f \in Event : i # j => loaded'[i][f] = loaded[i][f]
    BY <1>3 DEF TypeOK
  <1> QED
    BY <1>2, <1>4, <1>5 DEF AfterCommit

-------------------------------------------------------------------------------
(* Every action preserves the invariant. *)

Budget == AttemptsWithinBudget /\ OneJobPerAttempt /\ FailedOnlyAfterBudget

LEMMA InvInit == Init => IInv
  <1> SUFFICES ASSUME Init PROVE IInv
    OBVIOUS
  <1>1. TypeOK
    BY TypeInit
  <1>2. \A e \in Event : event[e].count = 0 /\ event[e].status = "absent"
    BY DEF Init, NoRow
  <1>3. /\ \A j \in Job, e \in Event : task[j][e] = "none" /\ loaded[j][e] = Expired
        /\ \A c \in Caller : batch[c] = {}
        /\ \A e \in Event : posted[e] = {}
    BY DEF Init
  <1>4. Locks /\ Tickets
    BY <1>2, <1>3 DEF Locks, Tickets, Stored
  <1>5. Sessions /\ Undisturbed
    BY <1>2, <1>3 DEF Sessions, Undisturbed, Expired
  <1>6. Budget /\ StrandedOnlyIfDisturbed
    BY <1>2, <1>3, Bounds
    DEF Budget, AttemptsWithinBudget, OneJobPerAttempt, FailedOnlyAfterBudget, StrandedOnlyIfDisturbed
  <1> QED
    BY <1>1, <1>4, <1>5, <1>6 DEF IInv, Budget

\* A row that is locked, or has a coroutine, is stored.
LEMMA HeldIsStored ==
    ASSUME IInv, NEW e \in Event
    PROVE  /\ \A j \in Job : task[j][e] # "none" => Stored(e)
           /\ \A c \in Caller : e \in batch[c] => Stored(e)
  <1>1. \A j \in Job : task[j][e] # "none" => event[e].count >= 1
    BY RowFacts DEF IInv, Tickets
  <1>2. \A c \in Caller : e \in batch[c] => Stored(e)
    BY DEF IInv, Locks, Stored
  <1> QED
    BY <1>1, <1>2 DEF IInv, Tickets

\* The invariant says nothing of receiving, due, body, crashes.
LEMMA NothingToDo ==
    ASSUME IInv, TypeOK',
           \A e \in Event : event'[e].status = event[e].status /\ event'[e].count = event[e].count,
           UNCHANGED <<pc, batch, task, loaded, ticket, posted, disturbed>>
    PROVE  IInv'
  <1>1. Locks' /\ Tickets'
    BY DEF IInv, Locks, Tickets, Stored, TypeOK
  <1>2. Sessions' /\ Undisturbed'
    BY DEF IInv, Sessions, Undisturbed, Row
  <1>3. Budget' /\ StrandedOnlyIfDisturbed'
    BY DEF IInv, Budget, AttemptsWithinBudget, OneJobPerAttempt, FailedOnlyAfterBudget,
           StrandedOnlyIfDisturbed, Held
  <1> QED
    BY <1>1, <1>2, <1>3 DEF IInv, Budget

\* A new row has count 0, and nobody holds it yet.
LEMMA InsertStep ==
    ASSUME IInv, TypeOK', NEW r \in Receiver, Insert(r)
    PROVE  IInv'
  <1> DEFINE m == receiving[r].message
             new == m.event
  <1>1. UNCHANGED <<pc, batch, task, loaded, ticket, posted, disturbed>>
    BY DEF Insert, claims, ghosts
  <1>2. CASE Stored(new)
    <2>1. event' = event
      BY <1>2 DEF Insert, Overtaken
    <2> QED
      BY <1>1, <2>1, NothingToDo
  <1>3. CASE ~Stored(new)
    <2>1. new \in Event
      BY MessageBody DEF IInv, TypeOK
    <2>2. /\ event'[new].status = "PENDING" /\ event'[new].count = 0
          /\ \A e \in Event \ {new} : event'[e] = event[e]
      BY <1>3, <2>1 DEF Insert, Overtaken, IInv, TypeOK
    <2>3. event[new].count = 0 /\ event[new].status = "absent"
      BY <1>3, <2>1 DEF IInv, Tickets, Stored
    <2>4. \A j \in Job : task[j][new] = "none"
      BY <1>3, <2>1, HeldIsStored
    <2>5. \A c \in Caller : new \notin batch[c]
      BY <1>3, <2>1, HeldIsStored
    <2>6. \A e \in Event : event'[e].count = event[e].count
      BY <2>2, <2>3
    <2>7. Locks' /\ Tickets'
      BY <1>1, <2>1, <2>2, <2>3, <2>4, <2>5, <2>6, RowFacts DEF IInv, Locks, Tickets, Stored
    <2>8. Sessions'
      BY <1>1, <2>6 DEF IInv, Sessions
    <2>9. Undisturbed'
      BY <1>1, <2>2, <2>4 DEF IInv, Undisturbed, Row
    <2>10. Budget'
      BY <1>1, <2>2, <2>6 DEF IInv, Budget, AttemptsWithinBudget, OneJobPerAttempt, FailedOnlyAfterBudget
    <2>11. StrandedOnlyIfDisturbed'
      BY <1>1, <2>2 DEF IInv, StrandedOnlyIfDisturbed, Held
    <2> QED
      BY <2>7, <2>8, <2>9, <2>10, <2>11 DEF IInv, Budget
  <1> QED
    BY <1>2, <1>3

LEMMA SelectBatchStep ==
    ASSUME IInv, TypeOK', NEW c \in Caller, SelectBatch(c)
    PROVE  IInv'
  <1>1. PICK some \in SUBSET ({e \in Event : Retryable(e)} \ LockedFor(c)) :
          batch' = [batch EXCEPT ![c] = some]
    BY DEF SelectBatch
  <1>2. /\ pc[c] = "idle" /\ pc' = [pc EXCEPT ![c] = "claiming"]
        /\ UNCHANGED <<event, task, loaded, ticket, posted, disturbed>>
    BY DEF SelectBatch, ghosts
  <1>3. /\ \A d \in Caller : batch'[d] = IF d = c THEN some ELSE batch[d]
        /\ \A d \in Caller : pc'[d] = IF d = c THEN "claiming" ELSE pc[d]
    BY <1>1, <1>2 DEF IInv, TypeOK
  <1>4. \A d \in Caller \ {c} : some \cap batch[d] = {}
    BY DEF LockedFor
  <1>5. Locks'
    BY <1>2, <1>3, <1>4 DEF IInv, Locks, Retryable
  <1>6. Tickets'
    BY <1>2, <1>3 DEF IInv, Tickets, Stored, Caller
  <1>7. Sessions' /\ Undisturbed'
    BY <1>2 DEF IInv, Sessions, Undisturbed, Row
  <1>8. Budget' /\ StrandedOnlyIfDisturbed'
    BY <1>2 DEF IInv, Budget, AttemptsWithinBudget, OneJobPerAttempt, FailedOnlyAfterBudget,
           StrandedOnlyIfDisturbed, Held
  <1> QED
    BY <1>5, <1>6, <1>7, <1>8 DEF IInv, Budget

\* The counts of the locked rows go up; who claims them takes the new count
\* as its ticket.
LEMMA CommitClaimStep ==
    ASSUME IInv, TypeOK', NEW c \in Caller, CommitClaim(c)
    PROVE  IInv'
  <1> USE DEF IInv
  <1>1. /\ \A e \in batch[c] : /\ event[e].count < MAX_RETRIES
                                /\ event[e].status \in {"PENDING", "RETRYING"}
        /\ batch[c] \subseteq Event
        /\ pc[c] = "claiming"
    BY RowFacts DEF Locks, CommitClaim
  <1>2. \A e \in Event : task[c][e] = "none" \/ c \notin Job
    BY <1>1 DEF Tickets
  <1>3. \A e \in Event : event'[e].count \in Nat /\ event[e].count \in Nat /\ event'[e].count >= event[e].count
    BY <1>1, CommitClaimEffect, RowFacts
  <1>4. Locks'
    <2>1. \A d \in Caller : pc'[d] # "claiming" => batch'[d] = {}
      BY CommitClaimEffect DEF Locks
    <2>2. \A d, e \in Caller : d # e => batch'[d] \cap batch'[e] = {}
      BY CommitClaimEffect DEF Locks
    <2>3. \A d \in Caller : \A e \in batch'[d] : e \notin batch[c] /\ e \in batch[d] /\ e \in Event
      BY CommitClaimEffect, RowFacts DEF Locks
    <2> QED
      BY <2>1, <2>2, <2>3, CommitClaimEffect DEF Locks
  <1>5. ASSUME NEW j \in Job, NEW e \in Event, task'[j][e] # "none"
        PROVE  /\ pc'[j] = "delivering"
               /\ ticket'[j][e] \in 1 .. event'[e].count
               /\ task'[j][e] = "queued" => ticket'[j][e] \notin posted'[e]
               /\ j # c => ticket'[j][e] <= event[e].count
               /\ j = c => e \in batch[c] /\ task'[j][e] = "queued"
                              /\ ticket'[j][e] = event[e].count + 1
    <2>1. CASE j = c
      <3>1. e \in batch[c] /\ task'[j][e] = "queued" /\ ticket'[j][e] = event[e].count + 1
        BY <1>5, <2>1, JobClaimEffect, CommitClaimEffect
      <3>2. event[e].count + 1 \notin posted[e]
        BY <1>3 DEF AttemptsWithinBudget
      <3> QED
        BY <2>1, <3>1, <3>2, <1>3, JobClaimEffect, CommitClaimEffect
    <2>2. CASE j # c
      <3>1. task[j][e] # "none" /\ ticket'[j][e] = ticket[j][e] /\ task'[j][e] = task[j][e]
        BY <1>5, <2>2, CommitClaimEffect
      <3>2. /\ pc[j] = "delivering"
            /\ ticket[j][e] \in 1 .. event[e].count
            /\ task[j][e] = "queued" => ticket[j][e] \notin posted[e]
        BY <3>1 DEF Tickets
      <3>3. pc'[j] = pc[j]
        BY <2>2, CommitClaimEffect DEF Caller
      <3> QED
        BY <2>2, <3>1, <3>2, <3>3, <1>3, CommitClaimEffect
    <2> QED
      BY <2>1, <2>2
  <1>6. Tickets'
    <2>1. \A e \in Event : ~Stored(e)' => e \notin batch[c] /\ event'[e] = event[e]
      BY CommitClaimEffect DEF Stored
    <2>2. \A e \in Event : ~Stored(e)' => event'[e].count = 0
      BY <2>1 DEF Stored, Tickets
    <2> QED
      BY <1>5, <2>2 DEF Tickets
  <1>7. Sessions'
    <2>1. \A j \in Job, e \in Event : loaded'[j][e].count <= event'[e].count
      BY <1>3, CommitClaimEffect, RowFacts DEF Sessions
    <2>2. \A j \in Job, e \in Event :
             \/ task'[j][e] = task[j][e]
             \/ task'[j][e] \in {"queued", "none"} /\ task[j][e] = "none"
      BY <1>2, JobClaimEffect, CommitClaimEffect
    <2> QED
      BY <2>1, <2>2, CommitClaimEffect DEF Sessions
  <1>8. Undisturbed'
    <2> SUFFICES ASSUME NEW e \in Event, e \notin disturbed'
                 PROVE  /\ \A i, j \in Job :
                              task'[i][e] # "none" /\ task'[j][e] # "none" => i = j
                        /\ \A j \in Job : task'[j][e] # "none" =>
                              /\ event'[e].status = "RETRYING"
                              /\ loaded'[j][e] \in {Expired, Row(e)'}
      BY DEF Undisturbed
    <2>1. e \notin disturbed
      BY CommitClaimEffect
    <2>2. CASE e \in batch[c]
      <3>1. c \in Job /\ Held(e) = {}
        BY <2>2, JobClaimEffect, ClerkClaimEffect
      <3>2. \A j \in Job : task[j][e] = "none"
        BY <3>1 DEF Held
      <3>3. \A j \in Job : task'[j][e] # "none" => j = c
        BY <3>2, CommitClaimEffect
      <3>4. \A j \in Job : loaded'[j][e] = Expired
        BY <3>2, CommitClaimEffect DEF Sessions
      <3> QED
        BY <2>2, <3>3, <3>4, CommitClaimEffect
    <2>3. CASE e \notin batch[c]
      <3>1. event'[e] = event[e] /\ loaded' = loaded
        BY <2>3, CommitClaimEffect
      <3>2. \A j \in Job : task'[j][e] # "none" => task[j][e] # "none"
        BY <2>3, CommitClaimEffect, JobClaimEffect
      <3> QED
        BY <2>1, <3>1, <3>2 DEF Undisturbed, Row
    <2> QED
      BY <2>2, <2>3
  <1>9. Budget'
    <2>1. \A e \in Event : event'[e].count <= MAX_RETRIES
      BY <1>1, <1>3, Bounds, CommitClaimEffect DEF AttemptsWithinBudget
    <2>2. \A e \in Event : posted'[e] \subseteq 1 .. event'[e].count
      <3>1. posted' = posted
        BY CommitClaimEffect
      <3> QED
        BY <3>1, <1>3 DEF AttemptsWithinBudget
    <2>3. OneJobPerAttempt'
      <3> SUFFICES ASSUME NEW i \in Job, NEW j \in Job, NEW e \in Event, i # j,
                          task'[i][e] # "none", task'[j][e] # "none"
                   PROVE  ticket'[i][e] # ticket'[j][e]
        BY DEF OneJobPerAttempt
      <3>1. CASE i = c
        BY <3>1, <1>5, <1>3, RowFacts
      <3>2. CASE j = c
        BY <3>2, <1>5, <1>3, RowFacts
      <3>3. CASE i # c /\ j # c
        BY <3>3, CommitClaimEffect DEF OneJobPerAttempt
      <3> QED
        BY <3>1, <3>2, <3>3
    <2>4. FailedOnlyAfterBudget'
      BY CommitClaimEffect DEF FailedOnlyAfterBudget
    <2> QED
      BY <2>1, <2>2, <2>3, <2>4 DEF Budget, AttemptsWithinBudget
  <1>10. StrandedOnlyIfDisturbed'
    <2> SUFFICES ASSUME NEW e \in Event, event'[e].status = "RETRYING",
                        event'[e].count = MAX_RETRIES, e \notin disturbed'
                 PROVE  \E j \in Job : task'[j][e] # "none"
      BY DEF StrandedOnlyIfDisturbed, Held
    <2>1. CASE e \in batch[c]
      <3>1. c \in Job
        BY <2>1, ClerkClaimEffect
      <3> QED
        BY <2>1, <3>1, JobClaimEffect
    <2>2. CASE e \notin batch[c]
      <3>1. PICK j \in Job : task[j][e] # "none"
        BY <2>2, CommitClaimEffect DEF StrandedOnlyIfDisturbed, Held
      <3>2. j # c
        BY <3>1, <1>2
      <3> QED
        BY <3>1, <3>2, CommitClaimEffect
    <2> QED
      BY <2>1, <2>2
  <1> QED
    BY <1>4, <1>6, <1>7, <1>8, <1>9, <1>10 DEF Budget

LEMMA StartStep ==
    ASSUME IInv, TypeOK', NEW j \in Job, NEW e \in Event, Start(j, e)
    PROVE  IInv'
  <1> USE DEF IInv
  <1>a. /\ event' = event /\ pc' = pc /\ batch' = batch
        /\ ticket' = ticket /\ disturbed' = disturbed
    BY StartEffect
  <1>b. \A i \in Job, f \in Event : (i # j \/ f # e) =>
           task'[i][f] = task[i][f] /\ loaded'[i][f] = loaded[i][f]
    BY StartEffect
  <1>c. task'[j][e] \in {"posted", "failing"} /\ loaded'[j][e] = Row(e)
    BY StartEffect
  <1>d. \/ posted' = posted
        \/ \A f \in Event :
              posted'[f] = IF f = e THEN posted[e] \cup {ticket[j][e]} ELSE posted[f]
    BY StartEffect
  <1>1. task[j][e] = "queued" /\ \A f \in Event : task[j][f] # "failing"
    BY DEF Start, Running
  <1>2. /\ Stored(e) /\ ticket[j][e] \in 1 .. event[e].count
        /\ ticket[j][e] \notin posted[e]
    BY <1>1, HeldIsStored DEF Tickets
  <1>3. Row(e) # Expired /\ Row(e).count = event[e].count /\ Row(e)' = Row(e)
    BY <1>2, <1>a DEF Row, Expired, Stored
  <1>4. \A i \in Job, f \in Event : task'[i][f] # "none" => task[i][f] # "none"
    BY <1>1, <1>b, <1>c
  <1>5. Locks'
    BY <1>a DEF Locks
  <1>6. Tickets'
    <2> SUFFICES ASSUME NEW i \in Job, NEW f \in Event, task'[i][f] # "none"
                 PROVE  /\ pc'[i] = "delivering"
                        /\ ticket'[i][f] \in 1 .. event'[f].count
                        /\ task'[i][f] = "queued" => ticket'[i][f] \notin posted'[f]
      BY <1>a DEF Tickets, Stored
    <2>1. pc'[i] = "delivering" /\ ticket'[i][f] \in 1 .. event'[f].count
      BY <1>4, <1>a DEF Tickets
    <2>2. ASSUME task'[i][f] = "queued" PROVE ticket'[i][f] \notin posted'[f]
      <3>1. (i # j \/ f # e) /\ task[i][f] = "queued"
        BY <2>2, <1>b, <1>c
      <3>2. ticket[i][f] \notin posted[f]
        BY <3>1 DEF Tickets
      <3>3. f = e => ticket[i][f] # ticket[j][e]
        BY <1>1, <3>1 DEF OneJobPerAttempt
      <3> QED
        BY <3>2, <3>3, <1>a, <1>d
    <2> QED
      BY <2>1, <2>2
  <1>7. Sessions'
    <2>1. \A i \in Job, f \in Event : loaded'[i][f].count <= event'[f].count
      BY <1>3, <1>a, <1>b, <1>c, RowFacts DEF Sessions
    <2>2. \A i \in Job, f \in Event : task'[i][f] \in {"none", "queued"} => loaded'[i][f] = Expired
      BY <1>b, <1>c DEF Sessions
    <2>3. \A i \in Job, f \in Event : task'[i][f] = "failing" => loaded'[i][f] # Expired
      BY <1>3, <1>b, <1>c DEF Sessions
    <2>4. \A i \in Job, f, g \in Event :
             task'[i][f] = "failing" /\ task'[i][g] = "failing" => f = g
      BY <1>1, <1>b, <1>c DEF Sessions
    <2> QED
      BY <2>1, <2>2, <2>3, <2>4 DEF Sessions
  <1>8. Undisturbed'
    <2>1. \A i \in Job : loaded'[i][e] = IF i = j THEN Row(e) ELSE loaded[i][e]
      BY <1>b, <1>c
    <2>2. \A i \in Job, f \in Event : f # e => loaded'[i][f] = loaded[i][f]
      BY <1>b
    <2>3. event' = event /\ disturbed' = disturbed
      BY <1>a
    <2>4. \A f \in Event \ disturbed :
             \A i, k \in Job : task'[i][f] # "none" /\ task'[k][f] # "none" => i = k
      BY <1>4 DEF Undisturbed
    <2>5. \A f \in Event \ disturbed : \A i \in Job : task'[i][f] # "none" =>
              event[f].status = "RETRYING" /\ loaded[i][f] \in {Expired, Row(f)}
      BY <1>4 DEF Undisturbed
    <2> QED
      BY <2>1, <2>2, <2>3, <2>4, <2>5 DEF Undisturbed, Row
  <1>9. Budget'
    <2>1. AttemptsWithinBudget'
      BY <1>2, <1>a, <1>d DEF AttemptsWithinBudget
    <2>2. OneJobPerAttempt' /\ FailedOnlyAfterBudget'
      BY <1>4, <1>a DEF OneJobPerAttempt, FailedOnlyAfterBudget
    <2> QED
      BY <2>1, <2>2 DEF Budget
  <1>10. StrandedOnlyIfDisturbed'
    <2>1. \A i \in Job, f \in Event : task[i][f] # "none" => task'[i][f] # "none"
      BY <1>1, <1>b, <1>c
    <2> QED
      BY <2>1, <1>a DEF StrandedOnlyIfDisturbed, Held
  <1> QED
    BY <1>5, <1>6, <1>7, <1>8, <1>9, <1>10 DEF Budget

LEMMA FailStep ==
    ASSUME IInv, TypeOK', NEW j \in Job, NEW e \in Event, Fail(j, e)
    PROVE  IInv'
  <1> USE DEF IInv
  <1>1. task[j][e] = "posted" /\ \A f \in Event : task[j][f] # "failing"
    BY DEF Fail, Running
  <1>2. UNCHANGED <<event, pc, batch, ticket, posted, disturbed>>
    BY DEF Fail, ghosts
  <1>3. /\ task'[j][e] = "failing"
        /\ loaded'[j][e] = IF loaded[j][e] = Expired THEN Row(e) ELSE loaded[j][e]
        /\ \A i \in Job, f \in Event : (i # j \/ f # e) =>
              task'[i][f] = task[i][f] /\ loaded'[i][f] = loaded[i][f]
    BY DEF Fail, TypeOK
  <1>4. \A i \in Job, f \in Event : task'[i][f] # "none" <=> task[i][f] # "none"
    BY <1>1, <1>3
  <1>5. Row(e) # Expired /\ Row(e).count = event[e].count /\ Row(e)' = Row(e)
    BY <1>1, <1>2, HeldIsStored DEF Row, Expired, Stored
  <1>6. Locks' /\ Tickets'
    BY <1>2, <1>3, <1>4 DEF Locks, Tickets, Stored
  <1>7. Sessions'
    <2>1. \A i \in Job, f \in Event : loaded'[i][f].count <= event'[f].count
      BY <1>2, <1>3, <1>5, RowFacts DEF Sessions
    <2>2. \A i \in Job, f \in Event : task'[i][f] \in {"none", "queued"} => loaded'[i][f] = Expired
      BY <1>3 DEF Sessions
    <2>3. \A i \in Job, f \in Event : task'[i][f] = "failing" => loaded'[i][f] # Expired
      BY <1>3, <1>5 DEF Sessions
    <2>4. \A i \in Job, f, g \in Event :
             task'[i][f] = "failing" /\ task'[i][g] = "failing" => f = g
      BY <1>1, <1>3 DEF Sessions
    <2> QED
      BY <2>1, <2>2, <2>3, <2>4 DEF Sessions
  <1>8. Undisturbed'
    BY <1>2, <1>3, <1>4, <1>5 DEF Undisturbed, Row
  <1>9. Budget' /\ StrandedOnlyIfDisturbed'
    BY <1>2, <1>4 DEF Budget, AttemptsWithinBudget, OneJobPerAttempt, FailedOnlyAfterBudget,
                      StrandedOnlyIfDisturbed, Held
  <1> QED
    BY <1>6, <1>7, <1>8, <1>9 DEF Budget

\* A result is committed: DELIVERED, or what a failure makes of the count.
LEMMA ResultStep ==
    ASSUME IInv, TypeOK', NEW j \in Job, NEW e \in Event,
           NEW s \in {"DELIVERED", "FAILED", "RETRYING"},
           AfterCommit(j, e),
           \E d \in BOOLEAN :
              event' = [event EXCEPT ![e].status = Written(j, e, s), ![e].due = d],
           task[j][e] # "none", e \notin LockedFor(j),
           \A f \in Event : task[j][f] = "failing" => f = e,
           s = "FAILED" => loaded[j][e].count >= MAX_RETRIES,
           s = "RETRYING" => loaded[j][e].count < MAX_RETRIES /\ loaded[j][e] # Expired
    PROVE  IInv'
  <1> USE DEF IInv
  <1>1. s \in Status
    BY DEF Status
  <1>2. /\ pc' = pc /\ batch' = batch /\ posted' = posted /\ disturbed' = disturbed
        /\ \A f \in Event : event'[f].count = event[f].count
    BY <1>1, ResultEffect
  <1>a. /\ \A f \in Event \ {e} : event'[f] = event[f]
        /\ event'[e].status = Written(j, e, s)
    BY <1>1, ResultEffect
  <1>b. /\ task'[j][e] = "none"
        /\ \A i \in Job, f \in Event : (i # j \/ f # e) =>
              task'[i][f] = task[i][f] /\ ticket'[i][f] = ticket[i][f]
    BY DEF AfterCommit, TypeOK
  <1>c. /\ \A f \in Event : loaded'[j][f] = Expired
        /\ \A i \in Job, f \in Event : i # j => loaded'[i][f] = loaded[i][f]
    BY <1>1, ResultEffect
  <1>3. Stored(e) /\ pc[j] = "delivering" /\ j \in Caller
    BY HeldIsStored DEF Tickets, Caller
  <1>4. Stored(e)' /\ (event'[e].status = s \/ event'[e].status = event[e].status)
    BY <1>a, <1>3 DEF Written, Stored
  <1>5. \A i \in Job, f \in Event : task'[i][f] # "none" =>
            task[i][f] # "none" /\ (i # j \/ f # e) /\ task'[i][f] = task[i][f]
    BY <1>b
  <1>6. Locks'
    <2>1. \A c \in Caller : e \notin batch[c]
      BY <1>3 DEF Locks, LockedFor
    <2>2. \A c \in Caller : \A f \in batch[c] : f \in Event /\ f # e
      BY <2>1, RowFacts
    <2> QED
      BY <1>2, <1>a, <2>2 DEF Locks
  <1>7. Tickets'
    <2>1. \A f \in Event : ~Stored(f)' => ~Stored(f)
      BY <1>4, <1>a DEF Stored
    <2>2. \A i \in Job, f \in Event : task'[i][f] # "none" => ticket'[i][f] = ticket[i][f]
      BY <1>5, <1>b
    <2>3. \A f \in Event : ~Stored(f)' => event'[f].count = 0
      BY <1>2, <2>1 DEF Tickets
    <2>4. ASSUME NEW i \in Job, NEW f \in Event, task'[i][f] # "none"
          PROVE  /\ pc'[i] = "delivering"
                 /\ ticket'[i][f] \in 1 .. event'[f].count
                 /\ task'[i][f] = "queued" => ticket'[i][f] \notin posted'[f]
      <3>1. /\ task[i][f] # "none" /\ task'[i][f] = task[i][f] /\ ticket'[i][f] = ticket[i][f]
            /\ event'[f].count = event[f].count
        BY <2>4, <2>2, <1>5, <1>2
      <3>2. /\ pc[i] = "delivering"
            /\ ticket[i][f] \in 1 .. event[f].count
            /\ task[i][f] = "queued" => ticket[i][f] \notin posted[f]
        BY <3>1 DEF Tickets
      <3> QED
        BY <3>1, <3>2, <1>2
    <2> QED
      BY <2>3, <2>4 DEF Tickets
  <1>8. Sessions'
    <2>1. \A i \in Job, f \in Event : loaded'[i][f].count <= event'[f].count
      <3> SUFFICES ASSUME NEW i \in Job, NEW f \in Event
                   PROVE  loaded'[i][f].count <= event'[f].count
        OBVIOUS
      <3>1. event'[f].count = event[f].count /\ event[f].count \in Nat
        BY <1>2, RowFacts
      <3>2. loaded[i][f].count <= event[f].count
        BY DEF Sessions
      <3>3. loaded'[i][f] = Expired \/ loaded'[i][f] = loaded[i][f]
        BY <1>c
      <3>4. Expired.count = 0
        BY DEF Expired
      <3> QED
        BY <3>1, <3>2, <3>3, <3>4
    <2>2. \A i \in Job, f \in Event : task'[i][f] \in {"none", "queued"} => loaded'[i][f] = Expired
      <3>1. \A i \in Job, f \in Event : i # j =>
               task'[i][f] = task[i][f] /\ loaded'[i][f] = loaded[i][f]
        BY <1>b, <1>c
      <3> QED
        BY <3>1, <1>c DEF Sessions
    <2>3. \A i \in Job, f \in Event : task'[i][f] = "failing" => loaded'[i][f] # Expired
      <3>1. \A f \in Event : task'[j][f] # "failing"
        BY <1>b
      <3> QED
        BY <3>1, <1>b, <1>c DEF Sessions
    <2>4. \A i \in Job, f, g \in Event :
             task'[i][f] = "failing" /\ task'[i][g] = "failing" => f = g
      BY <1>5 DEF Sessions
    <2> QED
      BY <2>1, <2>2, <2>3, <2>4 DEF Sessions
  <1>9. Undisturbed'
    <2> SUFFICES ASSUME NEW f \in Event, f \notin disturbed
                 PROVE  /\ \A i, k \in Job :
                              task'[i][f] # "none" /\ task'[k][f] # "none" => i = k
                        /\ \A i \in Job : task'[i][f] # "none" =>
                              /\ event'[f].status = "RETRYING"
                              /\ loaded'[i][f] \in {Expired, Row(f)'}
      BY <1>2 DEF Undisturbed
    <2>1. CASE f = e
      BY <1>5, <2>1 DEF Undisturbed
    <2>2. CASE f # e
      <3>1. event'[f] = event[f] /\ Row(f)' = Row(f)
        BY <1>a, <2>2 DEF Row
      <3>2. \A i \in Job : loaded'[i][f] \in {Expired, loaded[i][f]}
        BY <1>c
      <3> QED
        BY <1>5, <3>1, <3>2 DEF Undisturbed
    <2> QED
      BY <2>1, <2>2
  <1>10. Budget'
    <2>1. AttemptsWithinBudget'
      BY <1>2 DEF AttemptsWithinBudget
    <2>2. OneJobPerAttempt'
      BY <1>b, <1>5 DEF OneJobPerAttempt
    <2>3. s = "FAILED" => event[e].count = MAX_RETRIES
      BY RowFacts, Bounds DEF Sessions, AttemptsWithinBudget
    <2>4. FailedOnlyAfterBudget'
      BY <1>2, <1>4, <1>a, <2>3 DEF FailedOnlyAfterBudget
    <2> QED
      BY <2>1, <2>2, <2>4 DEF Budget
  <1>11. StrandedOnlyIfDisturbed'
    <2> SUFFICES ASSUME NEW f \in Event, event'[f].status = "RETRYING",
                        event'[f].count = MAX_RETRIES, f \notin disturbed
                 PROVE  \E i \in Job : task'[i][f] # "none"
      BY <1>2 DEF StrandedOnlyIfDisturbed, Held
    <2>1. CASE f = e
      <3>1. event[e].status = "RETRYING" /\ loaded[j][e] \in {Expired, Row(e)}
        BY <2>1 DEF Undisturbed
      <3>2. event[e].count = MAX_RETRIES
        BY <1>2, <2>1
      <3>3. s # "RETRYING"
        BY <3>1, <3>2, RowFacts, Bounds DEF Row
      <3>4. loaded[j][e].status # s
        BY <3>1, <3>3 DEF Row, Expired
      <3>5. event'[e].status = s
        BY <1>a, <3>4 DEF Written
      <3> QED
        BY <2>1, <3>3, <3>5
    <2>2. CASE f # e
      <3>1. PICK i \in Job : task[i][f] # "none"
        BY <1>2, <1>a, <2>2 DEF StrandedOnlyIfDisturbed, Held
      <3> QED
        BY <1>b, <2>2, <3>1
    <2> QED
      BY <2>1, <2>2
  <1> QED
    BY <1>6, <1>7, <1>8, <1>9, <1>10, <1>11 DEF Budget

LEMMA DeliverStep ==
    ASSUME IInv, TypeOK', NEW j \in Job, NEW e \in Event, Deliver(j, e)
    PROVE  IInv'
  <1> DEFINE w == Written(j, e, "DELIVERED")
  <1>1. event[e].due \in BOOLEAN
    BY DEF IInv, TypeOK, WebhookEvent
  <1>2. [event EXCEPT ![e].status = w] = [event EXCEPT ![e].status = w, ![e].due = event[e].due]
    BY DEF IInv, TypeOK, WebhookEvent
  <1>3. event' = [event EXCEPT ![e].status = w, ![e].due = event[e].due]
    BY <1>2 DEF Deliver
  <1>4. /\ AfterCommit(j, e) /\ task[j][e] # "none" /\ e \notin LockedFor(j)
        /\ \A f \in Event : task[j][f] # "failing"
    BY DEF Deliver, Running
  <1> QED
    BY <1>1, <1>3, <1>4, ResultStep

LEMMA RecordFailureStep ==
    ASSUME IInv, TypeOK', NEW j \in Job, NEW e \in Event, RecordFailure(j, e)
    PROVE  IInv'
  <1> DEFINE n == loaded[j][e].count
             s == StatusAfterFailure(n)
             d == event[e].due /\ n >= MAX_RETRIES
  <1>1. n \in Nat /\ MAX_RETRIES \in Nat
    BY RowFacts, Bounds DEF IInv
  <1>2. /\ s \in {"DELIVERED", "FAILED", "RETRYING"}
        /\ s = "FAILED" => n >= MAX_RETRIES
        /\ s = "RETRYING" => n < MAX_RETRIES
    BY <1>1 DEF StatusAfterFailure
  <1>3. event' = [event EXCEPT ![e].status = Written(j, e, s), ![e].due = d]
    BY DEF RecordFailure
  <1>4. /\ AfterCommit(j, e) /\ task[j][e] = "failing" /\ e \notin LockedFor(j)
    BY DEF RecordFailure
  <1>5. /\ \A f \in Event : task[j][f] = "failing" => f = e
        /\ loaded[j][e] # Expired
    BY <1>4 DEF IInv, Sessions
  <1>6. d \in BOOLEAN
    OBVIOUS
  <1> HIDE DEF n, s, d
  <1>7. /\ \E x \in BOOLEAN : event' = [event EXCEPT ![e].status = Written(j, e, s), ![e].due = x]
        /\ s = "FAILED" => loaded[j][e].count >= MAX_RETRIES
        /\ s = "RETRYING" => loaded[j][e].count < MAX_RETRIES
    BY <1>2, <1>3, <1>6 DEF n
  <1> QED
    BY <1>2, <1>4, <1>5, <1>7, ResultStep

LEMMA DieStep ==
    ASSUME IInv, TypeOK', NEW c \in Caller, Die(c)
    PROVE  IInv'
  <1> USE DEF IInv
  <1>1. /\ event' = event /\ posted' = posted
        /\ pc' = [pc EXCEPT ![c] = "idle"] /\ batch' = [batch EXCEPT ![c] = {}]
    BY DEF Die
  <1>2. /\ \A d \in Caller : pc'[d] = IF d = c THEN "idle" ELSE pc[d]
        /\ \A d \in Caller : batch'[d] = IF d = c THEN {} ELSE batch[d]
    BY <1>1 DEF TypeOK
  <1>3. Locks'
    BY <1>1, <1>2 DEF Locks
  <1>4. CASE c \in Job
    <2>1. c \notin Clerk
      BY <1>4, WebhooksAssumption
    <2>2. /\ disturbed' = disturbed \cup {e \in Event : task[c][e] # "none"}
          /\ task' = [task EXCEPT ![c] = [e \in Event |-> "none"]]
          /\ loaded' = [loaded EXCEPT ![c] = [e \in Event |-> Expired]]
          /\ ticket' = [ticket EXCEPT ![c] = [e \in Event |-> 0]]
      BY <2>1 DEF Die
    <2>3. \A j \in Job, e \in Event :
             /\ task'[j][e] = IF j = c THEN "none" ELSE task[j][e]
             /\ loaded'[j][e] = IF j = c THEN Expired ELSE loaded[j][e]
             /\ j # c => ticket'[j][e] = ticket[j][e]
      BY <1>4, <2>2 DEF TypeOK
    <2>4. Tickets'
      BY <1>1, <1>2, <2>3 DEF Tickets, Stored, Caller
    <2>5. Sessions'
      BY <1>1, <2>3, RowFacts DEF Sessions, Expired
    <2>6. Undisturbed'
      BY <1>1, <2>2, <2>3 DEF Undisturbed, Row
    <2>7. Budget' /\ StrandedOnlyIfDisturbed'
      BY <1>1, <2>2, <2>3 DEF Budget, AttemptsWithinBudget, OneJobPerAttempt, FailedOnlyAfterBudget,
                              StrandedOnlyIfDisturbed, Held
    <2> QED
      BY <1>3, <2>4, <2>5, <2>6, <2>7 DEF Budget
  <1>5. CASE c \notin Job
    <2>1. UNCHANGED <<task, loaded, ticket, disturbed>>
      BY <1>5 DEF Die
    <2>2. Tickets'
      BY <1>1, <1>2, <1>5, <2>1 DEF Tickets, Stored, Caller
    <2>3. Sessions' /\ Undisturbed'
      BY <1>1, <2>1 DEF Sessions, Undisturbed, Row
    <2>4. Budget' /\ StrandedOnlyIfDisturbed'
      BY <1>1, <2>1 DEF Budget, AttemptsWithinBudget, OneJobPerAttempt, FailedOnlyAfterBudget,
                        StrandedOnlyIfDisturbed, Held
    <2> QED
      BY <1>3, <2>2, <2>3, <2>4 DEF Budget
  <1> QED
    BY <1>4, <1>5

LEMMA FinishStep ==
    ASSUME IInv, TypeOK', NEW j \in Job, Finish(j)
    PROVE  IInv'
  <1> USE DEF IInv
  <1>1. /\ UNCHANGED <<event, batch, task, loaded, ticket, posted, disturbed>>
        /\ pc[j] = "delivering" /\ pc' = [pc EXCEPT ![j] = "idle"]
        /\ \A e \in Event : task[j][e] = "none"
    BY DEF Finish, ghosts
  <1>2. \A d \in Caller : pc'[d] = IF d = j THEN "idle" ELSE pc[d]
    BY <1>1 DEF TypeOK, Caller
  <1>3. Locks' /\ Tickets'
    BY <1>1, <1>2 DEF Locks, Tickets, Stored, Caller
  <1>4. Sessions' /\ Undisturbed'
    BY <1>1 DEF Sessions, Undisturbed, Row
  <1>5. Budget' /\ StrandedOnlyIfDisturbed'
    BY <1>1 DEF Budget, AttemptsWithinBudget, OneJobPerAttempt, FailedOnlyAfterBudget,
                StrandedOnlyIfDisturbed, Held
  <1> QED
    BY <1>3, <1>4, <1>5 DEF Budget

LEMMA InvStep == IInv /\ [Next]_vars => IInv'
  <1> SUFFICES ASSUME IInv, [Next]_vars PROVE IInv'
    OBVIOUS
  <1>1. TypeOK'
    BY TypeStep DEF IInv
  <1>2. ASSUME NEW r \in Receiver, LookUp(r) PROVE IInv'
    BY <1>1, <1>2, NothingToDo DEF LookUp, claims, ghosts
  <1>3. ASSUME NEW e \in Event, BecomeDue(e) PROVE IInv'
    <2>1. event' = [event EXCEPT ![e].due = TRUE]
      BY <1>3 DEF BecomeDue
    <2>2. \A f \in Event : event'[f].status = event[f].status /\ event'[f].count = event[f].count
      BY <2>1 DEF IInv, TypeOK, WebhookEvent
    <2> QED
      BY <1>1, <1>3, <2>2, NothingToDo DEF BecomeDue, claims, ghosts
  <1>4. CASE UNCHANGED vars
    BY <1>1, <1>4, NothingToDo DEF vars, claims, ghosts
  <1> QED
    BY <1>1, <1>2, <1>3, <1>4, InsertStep, SelectBatchStep, CommitClaimStep, StartStep, DeliverStep,
       FailStep, RecordFailureStep, DieStep, FinishStep
    DEF Next, Run, Caller

LEMMA Invariance == Spec => []IInv
  BY InvInit, InvStep, PTL DEF Spec

-------------------------------------------------------------------------------
(* The results. *)

\* An event is posted at most WEBHOOK_MAX_RETRIES times, and once for each
\* attempt its row has counted, whoever claims it and whoever dies.
THEOREM AttemptsAreBounded == Spec => []AttemptsWithinBudget
  BY Invariance, PTL DEF IInv

\* SKIP LOCKED and the commit of the claim give every coroutine an attempt of
\* its own.
THEOREM OneJobForEachAttempt == Spec => []OneJobPerAttempt
  BY Invariance, PTL DEF IInv

\* No event is FAILED with an attempt left.
THEOREM FailureIsFinal == Spec => []FailedOnlyAfterBudget
  BY Invariance, PTL DEF IInv

\* Only an abandoned or an overlapping claim leaves an event RETRYING for ever.
THEOREM OnlyDisturbedEventsStrand == Spec => []StrandedOnlyIfDisturbed
  BY Invariance, PTL DEF IInv

\* A repeated delivery, however late, neither resets the attempts nor replaces
\* the payload.
THEOREM RepeatsAreIdempotent == Spec => RepeatChangesNothing
  <1> DEFINE Kept == \A e \in Event : Stored(e) =>
               /\ Stored(e)' /\ event'[e].body = event[e].body
               /\ event'[e].count >= event[e].count
  <1>1. ASSUME IInv, [Next]_vars PROVE Kept
    <2> SUFFICES ASSUME NEW e \in Event, Stored(e)
                 PROVE  /\ Stored(e)' /\ event'[e].body = event[e].body
                        /\ event'[e].count >= event[e].count
      OBVIOUS
    <2> USE <1>1
    <2>1. event[e].count \in Nat /\ event[e] \in WebhookEvent
      BY RowFacts DEF IInv, TypeOK
    <2>2. CASE event' = event
      BY <2>1, <2>2 DEF Stored
    <2>3. ASSUME NEW r \in Receiver, Insert(r) PROVE event'[e] = event[e]
      BY <2>3 DEF Insert, Overtaken, IInv, TypeOK
    <2>4. ASSUME NEW c \in Caller, CommitClaim(c)
          PROVE  event'[e] = event[e] \/ event'[e] = Claimed(event[e])
      BY <2>4 DEF CommitClaim
    <2>5. ASSUME NEW j \in Job, NEW f \in Event, NEW s \in {"DELIVERED", "FAILED", "RETRYING"},
                 NEW d \in BOOLEAN, task[j][f] # "none",
                 event' = [event EXCEPT ![f].status = Written(j, f, s), ![f].due = d]
          PROVE  /\ Stored(e)' /\ event'[e].body = event[e].body
                 /\ event'[e].count = event[e].count
      BY <2>1, <2>5 DEF IInv, TypeOK, WebhookEvent, Written, Stored
    <2>6. ASSUME NEW j \in Job, NEW f \in Event, Deliver(j, f)
          PROVE  /\ Stored(e)' /\ event'[e].body = event[e].body
                 /\ event'[e].count = event[e].count
      BY <2>1, <2>6 DEF Deliver, IInv, TypeOK, WebhookEvent, Written, Stored
    <2>7. ASSUME NEW j \in Job, NEW f \in Event, RecordFailure(j, f)
          PROVE  /\ Stored(e)' /\ event'[e].body = event[e].body
                 /\ event'[e].count = event[e].count
      <3>1. PICK s \in {"FAILED", "RETRYING"}, d \in BOOLEAN :
              event' = [event EXCEPT ![f].status = Written(j, f, s), ![f].due = d]
        BY <2>7 DEF RecordFailure, StatusAfterFailure
      <3> QED
        BY <2>5, <2>7, <3>1 DEF RecordFailure
    <2>8. ASSUME NEW f \in Event, BecomeDue(f)
          PROVE  /\ Stored(e)' /\ event'[e].body = event[e].body
                 /\ event'[e].count = event[e].count
      BY <2>1, <2>8 DEF BecomeDue, IInv, TypeOK, WebhookEvent, Stored
    <2>9. \/ event' = event
          \/ \E r \in Receiver : Insert(r)
          \/ \E c \in Caller : CommitClaim(c)
          \/ \E j \in Job, f \in Event : Deliver(j, f) \/ RecordFailure(j, f)
          \/ \E f \in Event : BecomeDue(f)
      BY DEF Next, Run, Caller, LookUp, SelectBatch, Start, Fail, Finish, Die, vars
    <2>10. /\ Claimed(event[e]).count = event[e].count + 1
           /\ Claimed(event[e]).body = event[e].body
           /\ Claimed(event[e]).status = "RETRYING"
      BY <2>1 DEF Claimed, WebhookEvent
    <2> QED
      BY <2>1, <2>2, <2>3, <2>4, <2>6, <2>7, <2>8, <2>9, <2>10 DEF Stored
  <1>2. IInv /\ [Next]_vars => [Kept]_vars
    BY <1>1
  <1> QED
    BY <1>2, Invariance, PTL DEF Spec, RepeatChangesNothing

===============================================================================
