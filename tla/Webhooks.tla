------------------------------- MODULE Webhooks -------------------------------
(***************************************************************************)
(* Inbound webhooks: their reception (EnterpriseService.receive_webhook),  *)
(* the claim of those to be delivered (claim_retryable_webhooks), and the  *)
(* delivery by the maintenance job (process_webhook_retries), as API       *)
(* processes and jobs that share one database.                             *)
(*                                                                         *)
(* A job delivers its batch as coroutines over one SQLAlchemy session: a   *)
(* coroutine runs until its POST, and any commit of the session expires    *)
(* the columns every coroutine has loaded.  An UPDATE writes the columns   *)
(* whose new value differs from the loaded one, or that were expired.      *)
(*                                                                         *)
(* ticket, posted and disturbed only observe; no guard reads them.         *)
(* Operators named Op_Variant are faulty versions of Op.                   *)
(***************************************************************************)
EXTENDS Integers, FiniteSets

CONSTANTS
    Event,      \* pairs (source, event_id)
    Endpoint,   \* those with a URL for their source and a payload that is JSON
    Message,    \* deliveries that senders repeat: event, body, fresh, signature
    Body,
    Receiver,   \* API processes, each receiving one delivery at a time
    Job,        \* runs of run_maintenance that may overlap
    Clerk,      \* users at POST /webhooks/retry, which claims and returns
    MAX_RETRIES,
    Limit,      \* of one claim, 100 in the code
    MaxCrashes  \* bound on the processes that die

Caller == Job \cup Clerk

ASSUME WebhooksAssumption ==
    /\ Endpoint \subseteq Event
    /\ Message \subseteq [event : Event, body : Body, fresh : BOOLEAN,
                          signature : {"as sent", "normalised", "wrong"}]
    /\ Job \cap Clerk = {}
    /\ Body # {} /\ Message # {}
    /\ MAX_RETRIES \in Nat \ {0}
    /\ Limit \in Nat \ {0}
    /\ MaxCrashes \in Nat

VARIABLES
    event,      \* committed rows of webhook_events
    receiving,  \* the delivery a receiver has looked up and not found, or None
    pc,         \* what a claiming process is doing
    batch,      \* rows a claim has locked
    task,       \* the coroutine of a job for an event
    loaded,     \* columns the session of a job holds for an event
    crashes,
    ticket,     \* the claim a coroutine belongs to
    posted,     \* claims of an event that led to a POST
    disturbed   \* events whose claim was abandoned or overlapped another

claims == <<pc, batch, task, loaded>>
ghosts == <<ticket, posted, disturbed>>
vars == <<event, receiving, claims, crashes, ghosts>>

Status == {"absent", "PENDING", "RETRYING", "DELIVERED", "FAILED"}
Expired == [status |-> "absent", count |-> 0]
Columns == [status : Status, count : Nat]
WebhookEvent == [status : Status, count : Nat, due : BOOLEAN, body : Body]
NoMessage == CHOOSE m \in Message : TRUE
NoRow == [status |-> "absent", count |-> 0, due |-> TRUE, body |-> CHOOSE b \in Body : TRUE]

TypeOK ==
    /\ event \in [Event -> WebhookEvent]
    /\ receiving \in [Receiver -> [busy : BOOLEAN, message : Message]]
    /\ pc \in [Caller -> {"idle", "claiming", "delivering"}]
    /\ batch \in [Caller -> SUBSET Event]
    /\ task \in [Job -> [Event -> {"none", "queued", "posted", "failing"}]]
    /\ loaded \in [Job -> [Event -> Columns]]
    /\ crashes \in 0 .. MaxCrashes
    /\ ticket \in [Job -> [Event -> Nat]]
    /\ posted \in [Event -> SUBSET Nat]
    /\ disturbed \subseteq Event

Init ==
    /\ event = [e \in Event |-> NoRow]
    /\ receiving = [r \in Receiver |-> [busy |-> FALSE, message |-> NoMessage]]
    /\ pc = [c \in Caller |-> "idle"]
    /\ batch = [c \in Caller |-> {}]
    /\ task = [j \in Job |-> [e \in Event |-> "none"]]
    /\ loaded = [j \in Job |-> [e \in Event |-> Expired]]
    /\ crashes = 0
    /\ ticket = [j \in Job |-> [e \in Event |-> 0]]
    /\ posted = [e \in Event |-> {}]
    /\ disturbed = {}

-------------------------------------------------------------------------------
(* POST /webhooks/{source}/{event_type}: receive_webhook. *)

Stored(e) == event[e].status # "absent"

\* The timestamp, of whatever unit, is within the tolerance and the HMAC is
\* that of the timestamp as sent or of its seconds.
Authentic(m) == m.fresh /\ m.signature \in {"as sent", "normalised"}

\* The checks and the lookup.  A message that is refused (401) or whose event
\* is found changes nothing, and is left out.
LookUp(r) ==
    /\ ~receiving[r].busy
    /\ \E m \in Message :
        /\ Authentic(m) /\ ~Stored(m.event)
        /\ receiving' = [receiving EXCEPT ![r] = [busy |-> TRUE, message |-> m]]
    /\ UNCHANGED <<event, claims, crashes, ghosts>>

\* db.add(event) and commit(); uq_webhook_source_event refuses the row of a
\* sender that was overtaken (IntegrityError, status 500).
Overtaken_NoUniqueIndex(e) == FALSE
Overtaken(e) == Stored(e)

Insert(r) ==
    LET m == receiving[r].message
    IN /\ receiving[r].busy
       /\ event' = IF Overtaken(m.event) THEN event
                   ELSE [event EXCEPT ![m.event] =
                            [status |-> "PENDING", count |-> 0, due |-> TRUE, body |-> m.body]]
       /\ receiving' = [receiving EXCEPT ![r] = [busy |-> FALSE, message |-> NoMessage]]
       /\ UNCHANGED <<claims, crashes, ghosts>>

-------------------------------------------------------------------------------
(* claim_retryable_webhooks *)

\* Rows locked by a claim other than that of c.
LockedFor_NoSkipLocked(c) == {}
LockedFor(c) == UNION {batch[d] : d \in Caller \ {c}}

Retryable_OnlyPending(e) ==
    event[e].status = "PENDING" /\ event[e].count < MAX_RETRIES /\ event[e].due
Retryable(e) ==
    /\ event[e].status \in {"PENDING", "RETRYING"}
    /\ event[e].count < MAX_RETRIES
    /\ event[e].due

\* SELECT ... LIMIT 100 FOR UPDATE SKIP LOCKED.  Which rows come first (the
\* order of id) is left open.  A claim that finds nothing changes nothing.
SelectBatch(c) ==
    LET free == {e \in Event : Retryable(e)} \ LockedFor(c)
    IN /\ pc[c] = "idle"
       /\ \E some \in SUBSET free :
            /\ some # {}
            /\ some = free \/ Cardinality(some) = Limit
            /\ Cardinality(some) <= Limit
            /\ batch' = [batch EXCEPT ![c] = some]
       /\ pc' = [pc EXCEPT ![c] = "claiming"]
       /\ UNCHANGED <<event, receiving, task, loaded, crashes, ghosts>>

Claimed_CountLater(row) == [row EXCEPT !.status = "RETRYING"]
Claimed(row) == [row EXCEPT !.status = "RETRYING", !.count = @ + 1]

Held(e) == {j \in Job : task[j][e] # "none"}

\* commit(): a job goes on to deliver the batch, the endpoint returns it.
CommitClaim(c) ==
    /\ pc[c] = "claiming"
    /\ event' = [e \in Event |-> IF e \in batch[c] THEN Claimed(event[e]) ELSE event[e]]
    /\ batch' = [batch EXCEPT ![c] = {}]
    /\ \/ /\ c \in Job
          /\ pc' = [pc EXCEPT ![c] = "delivering"]
          /\ task' = [task EXCEPT ![c] =
                         [e \in Event |-> IF e \in batch[c] THEN "queued" ELSE "none"]]
          /\ ticket' = [ticket EXCEPT ![c] =
                           [e \in Event |-> IF e \in batch[c] THEN event'[e].count ELSE 0]]
          /\ disturbed' = disturbed \cup {e \in batch[c] : Held(e) # {}}
       \/ /\ c \in Clerk
          /\ pc' = [pc EXCEPT ![c] = "idle"]
          /\ disturbed' = disturbed \cup batch[c]
          /\ UNCHANGED <<task, ticket>>
    /\ UNCHANGED <<receiving, loaded, crashes, posted>>

-------------------------------------------------------------------------------
(* process_webhook_retries and deliver_webhook *)

Row(e) == [status |-> event[e].status, count |-> event[e].count]

\* A coroutine that has an exception in hand runs to its commit.
Running(j) == \E e \in Event : task[j][e] = "failing"
AllStarted(j) == \A e \in Event : task[j][e] # "queued"

\* The first access refreshes the row; without a payload or an endpoint to
\* post it to the coroutine raises, else it suspends in the POST.
Start(j, e) ==
    /\ task[j][e] = "queued" /\ ~Running(j)
    /\ loaded' = [loaded EXCEPT ![j][e] = Row(e)]
    /\ \/ /\ e \in Endpoint
          /\ task' = [task EXCEPT ![j][e] = "posted"]
          /\ posted' = [posted EXCEPT ![e] = @ \cup {ticket[j][e]}]
       \/ /\ e \notin Endpoint
          /\ task' = [task EXCEPT ![j][e] = "failing"]
          /\ UNCHANGED posted
    /\ UNCHANGED <<event, receiving, pc, batch, crashes, ticket, disturbed>>

\* commit() expires what the session holds, for every coroutine of the job.
AfterCommit(j, e) ==
    /\ loaded' = [loaded EXCEPT ![j] = [f \in Event |-> Expired]]
    /\ task' = [task EXCEPT ![j][e] = "none"]
    /\ ticket' = [ticket EXCEPT ![j][e] = 0]
    /\ UNCHANGED <<receiving, pc, batch, crashes, posted, disturbed>>

\* The status as the UPDATE of j leaves it in the row.
Written(j, e, status) == IF loaded[j][e].status = status THEN event[e].status ELSE status

\* The endpoint answers with success.
Deliver(j, e) ==
    /\ task[j][e] = "posted" /\ AllStarted(j) /\ ~Running(j)
    /\ e \notin LockedFor(j)
    /\ event' = [event EXCEPT ![e].status = Written(j, e, "DELIVERED")]
    /\ AfterCommit(j, e)

\* It refuses, fails or times out: the handler reads retry_count, which
\* refreshes the row if another coroutine has committed ...
Fail(j, e) ==
    /\ task[j][e] = "posted" /\ AllStarted(j) /\ ~Running(j)
    /\ loaded' = [loaded EXCEPT ![j][e] = IF @ = Expired THEN Row(e) ELSE @]
    /\ task' = [task EXCEPT ![j][e] = "failing"]
    /\ UNCHANGED <<event, receiving, pc, batch, crashes, ghosts>>

StatusAfterFailure_OffByOne(count) == IF count + 1 >= MAX_RETRIES THEN "FAILED" ELSE "RETRYING"
StatusAfterFailure_Unlisted(count) == IF count >= MAX_RETRIES THEN "EXHAUSTED" ELSE "RETRYING"
StatusAfterFailure_NeverFailed(count) == "RETRYING"
StatusAfterFailure(count) == IF count >= MAX_RETRIES THEN "FAILED" ELSE "RETRYING"

\* ... and writes the status and, unless the budget is spent, next_attempt_at.
RecordFailure(j, e) ==
    LET count == loaded[j][e].count
    IN /\ task[j][e] = "failing"
       /\ e \notin LockedFor(j)
       /\ event' = [event EXCEPT
                      ![e].status = Written(j, e, StatusAfterFailure(count)),
                      ![e].due = @ /\ count >= MAX_RETRIES]
       /\ AfterCommit(j, e)

\* gather() returns when every coroutine has; one-shot jobs start again later.
Finish(j) ==
    /\ pc[j] = "delivering"
    /\ \A e \in Event : task[j][e] = "none"
    /\ pc' = [pc EXCEPT ![j] = "idle"]
    /\ UNCHANGED <<event, receiving, batch, task, loaded, crashes, ghosts>>

-------------------------------------------------------------------------------
\* The backoff of 60 * 2^(count - 1) seconds passes.
BecomeDue(e) ==
    /\ ~event[e].due
    /\ event' = [event EXCEPT ![e].due = TRUE]
    /\ UNCHANGED <<receiving, claims, crashes, ghosts>>

\* A process dies: its transaction is rolled back, its coroutines are gone.
Die(c) ==
    /\ pc[c] # "idle" /\ crashes < MaxCrashes
    /\ crashes' = crashes + 1
    /\ pc' = [pc EXCEPT ![c] = "idle"]
    /\ batch' = [batch EXCEPT ![c] = {}]
    /\ \/ /\ c \in Job
          /\ disturbed' = disturbed \cup {e \in Event : task[c][e] # "none"}
          /\ task' = [task EXCEPT ![c] = [e \in Event |-> "none"]]
          /\ loaded' = [loaded EXCEPT ![c] = [e \in Event |-> Expired]]
          /\ ticket' = [ticket EXCEPT ![c] = [e \in Event |-> 0]]
       \/ /\ c \in Clerk
          /\ UNCHANGED <<task, loaded, ticket, disturbed>>
    /\ UNCHANGED <<event, receiving, posted>>

Run(j) ==
    \/ SelectBatch(j) \/ CommitClaim(j) \/ Finish(j)
    \/ \E e \in Event : Start(j, e) \/ Deliver(j, e) \/ Fail(j, e) \/ RecordFailure(j, e)

Next ==
    \/ \E r \in Receiver : LookUp(r) \/ Insert(r)
    \/ \E j \in Job : Run(j) \/ Die(j)
    \/ \E c \in Clerk : SelectBatch(c) \/ CommitClaim(c) \/ Die(c)
    \/ \E e \in Event : BecomeDue(e)

Spec == Init /\ [][Next]_vars

\* run_maintenance is invoked "repeatedly from cron or a scheduler"
\* (jobs/worker.py:1) and its POSTs time out; a claim of the endpoint is one
\* handler that runs to its commit; time passes.
FairSpec ==
    /\ Spec
    /\ \A j \in Job : WF_vars(Run(j))
    /\ \A c \in Clerk : WF_vars(CommitClaim(c))
    /\ \A e \in Event : WF_vars(BecomeDue(e))

-------------------------------------------------------------------------------
(* Properties. *)

\* However many jobs and users claim an event, and whichever of them die, it
\* is posted at most once for each attempt that is counted in the row, and
\* never more than WEBHOOK_MAX_RETRIES times (webhook_service.py:15, 19-23).
AttemptsWithinBudget ==
    \A e \in Event : /\ event[e].count <= MAX_RETRIES
                     /\ posted[e] \subseteq 1 .. event[e].count

\* No two coroutines deliver an event for the same counted attempt.
OneJobPerAttempt ==
    \A i, j \in Job, e \in Event :
        i # j /\ task[i][e] # "none" /\ task[j][e] # "none" => ticket[i][e] # ticket[j][e]

\* An event is given up only when its attempts are used up, although the
\* count that decides was loaded earlier (webhook_retry.py:36-40, 50-54).
FailedOnlyAfterBudget ==
    \A e \in Event : event[e].status = "FAILED" => event[e].count = MAX_RETRIES

\* An event that has used up its attempts and still says RETRYING, which no
\* claim will ever take, is one a job is about to decide, or one whose claim
\* was abandoned by a crash or by POST /webhooks/retry, or overlapped another.
StrandedOnlyIfDisturbed ==
    \A e \in Event :
        event[e].status = "RETRYING" /\ event[e].count = MAX_RETRIES =>
            e \in disturbed \/ Held(e) # {}

\* A sender may repeat a message, at once or much later: the event keeps the
\* payload it was stored with, and no attempt is forgotten
\* (enterprise_service.py:221-225 and uq_webhook_source_event).
RepeatChangesNothing ==
    [][\A e \in Event : Stored(e) =>
          /\ Stored(e)' /\ event'[e].body = event[e].body
          /\ event'[e].count >= event[e].count]_vars

\* Every event that is stored ends up delivered or failed, or, if one of its
\* claims was abandoned or overlapped another, with its attempts used up.
EventSettles ==
    \A e \in Event : Stored(e) ~>
        [](\/ event[e].status \in {"DELIVERED", "FAILED"}
           \/ e \in disturbed /\ event[e].count = MAX_RETRIES)
===============================================================================
