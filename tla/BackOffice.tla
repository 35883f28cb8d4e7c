------------------------------ MODULE BackOffice ------------------------------
(***************************************************************************)
(* EnterpriseService and the handlers of routers/v1/enterprise.py that     *)
(* keep files, reports and tasks, and the reminders that                   *)
(* jobs/scheduled.py creates for tasks that are due.                       *)
(*                                                                         *)
(* A file is a row and bytes on the disk, written one after the other.  A  *)
(* reminder is looked for and then inserted, with no unique index, by jobs *)
(* that may overlap.                                                       *)
(*                                                                         *)
(* torn and overlapped only observe.  Operators named Op_Variant are       *)
(* faulty versions of Op.                                                  *)
(***************************************************************************)
EXTENDS Integers, FiniteSets

CONSTANTS
    File, Report,
    Task, Title, User,
    Request, Job,
    LastDay,       \* bound on the days that pass
    MaxCrashes,
    None

Day == 0 .. LastDay
Key == User \X Title   \* "Task due": who is notified of which title

ASSUME BackOfficeAssumption ==
    /\ LastDay \in Nat /\ MaxCrashes \in Nat
    /\ None \notin User \cup File \cup Report \cup Key
    /\ IsFiniteSet(Task) /\ IsFiniteSet(Job) /\ File \cap Report = {}

VARIABLES
    row,        \* rows of files and reports: "none", "live" or "deleted"
    disk,       \* the files under UPLOAD_DIR
    task,       \* rows of tasks
    reminder,   \* how often a user has been notified that a title is due
    today,
    pc, item,   \* what a request does next, to which file
    todo, made, \* the tasks a job has still to look at, the reminders it adds
    crashes,
    torn,       \* files that a deletion removed without having committed
    overlapped  \* reminders that two jobs have looked for at the same time

files == <<row, disk, pc, item, torn>>
jobs == <<reminder, todo, made, overlapped>>
vars == <<files, jobs, task, today, crashes>>

Row == [assignee : User \cup {None}, title : Title, open : BOOLEAN, due : Day]

TypeOK ==
    /\ row \in [File \cup Report -> {"none", "live", "deleted"}]
    /\ disk \subseteq File \cup Report
    /\ task \in [Task -> Row \cup {None}]
    /\ reminder \in [Key -> 0 .. Cardinality(Task) * Cardinality(Job)]
    /\ today \in Day
    /\ pc \in [Request -> {"idle", "write file", "insert", "look", "unlink", "delete", "rename"}]
    /\ item \in [Request -> File \cup Report \cup {None}]
    /\ todo \in [Job -> [Task -> Key \cup {None}]]
    /\ made \in [Job -> [Task -> Key \cup {None}]]
    /\ crashes \in 0 .. MaxCrashes
    /\ torn \subseteq File /\ overlapped \subseteq Key

Nothing == [t \in Task |-> None]

Init ==
    /\ row = [f \in File \cup Report |-> "none"] /\ disk = {}
    /\ task = [t \in Task |-> None]
    /\ reminder = [k \in Key |-> 0]
    /\ today = 0
    /\ pc = [r \in Request |-> "idle"] /\ item = [r \in Request |-> None]
    /\ todo = [j \in Job |-> Nothing] /\ made = [j \in Job |-> Nothing]
    /\ crashes = 0 /\ torn = {} /\ overlapped = {}

-------------------------------------------------------------------------------
(* Files and reports. *)

Goto(r, label, f) == pc' = [pc EXCEPT ![r] = label] /\ item' = [item EXCEPT ![r] = f]
Close(r) == Goto(r, "idle", None)

\* The bytes are written before the row is committed.
UploadSteps_RowFirst == <<"insert", "write file">>
UploadSteps == <<"write file", "insert">>
Advance(r) == IF pc[r] = UploadSteps[1] THEN Goto(r, UploadSteps[2], item[r]) ELSE Close(r)

Begin(r, kind) ==
    /\ pc[r] = "idle"
    /\ \E f \in kind :
        /\ row[f] = "none" /\ f \notin disk /\ \A s \in Request : item[s] # f
        /\ Goto(r, UploadSteps[1], f)
    /\ UNCHANGED <<row, disk, torn, jobs, task, today, crashes>>

\* A name of its own, so two uploads never share a file.
BeginUpload(r) == Begin(r, File)

\* The users are read and the row is flushed: its id names the file.
BeginReport(r) == Begin(r, Report)

WriteFile(r) ==
    /\ pc[r] = "write file"
    /\ disk' = disk \cup {item[r]}
    /\ Advance(r)
    /\ UNCHANGED <<row, torn, jobs, task, today, crashes>>

InsertRow(r) ==
    /\ pc[r] = "insert"
    /\ row' = [row EXCEPT ![item[r]] = "live"]
    /\ Advance(r)
    /\ UNCHANGED <<disk, torn, jobs, task, today, crashes>>

\* delete_file finds the row, looks whether the file is there, unlinks it and
\* then commits.
BeginDelete(r) ==
    /\ pc[r] = "idle"
    /\ \E f \in File : row[f] = "live" /\ Goto(r, "look", f)
    /\ UNCHANGED <<row, disk, torn, jobs, task, today, crashes>>

Look(r) ==
    /\ pc[r] = "look"
    /\ Goto(r, IF item[r] \in disk THEN "unlink" ELSE "delete", item[r])
    /\ UNCHANGED <<row, disk, torn, jobs, task, today, crashes>>

\* FileNotFoundError, if another request was faster.
Unlink(r) ==
    /\ pc[r] = "unlink"
    /\ disk' = disk \ {item[r]}
    /\ IF item[r] \in disk THEN Goto(r, "delete", item[r]) ELSE Close(r)
    /\ UNCHANGED <<row, torn, jobs, task, today, crashes>>

DeleteRow(r) ==
    /\ pc[r] = "delete"
    /\ row' = [row EXCEPT ![item[r]] = "deleted"]
    /\ Close(r)
    /\ UNCHANGED <<disk, torn, jobs, task, today, crashes>>

\* update_file finds the row, and writes the name and nothing else.
BeginRename(r) ==
    /\ pc[r] = "idle"
    /\ \E f \in File : row[f] = "live" /\ Goto(r, "rename", f)
    /\ UNCHANGED <<row, disk, torn, jobs, task, today, crashes>>

Renamed_WholeRow(r) == [row EXCEPT ![item[r]] = "live"]
Renamed(r) == row

SaveName(r) ==
    /\ pc[r] = "rename"
    /\ row' = Renamed(r)
    /\ Close(r)
    /\ UNCHANGED <<disk, torn, jobs, task, today, crashes>>

\* What download_file answers with bytes.
Downloadable(f) == row[f] = "live" /\ f \in disk

DieRequest(r) ==
    /\ pc[r] # "idle" /\ crashes < MaxCrashes
    /\ crashes' = crashes + 1
    /\ torn' = IF pc[r] = "delete" THEN torn \cup {item[r]} ELSE torn
    /\ Close(r)
    /\ UNCHANGED <<row, disk, jobs, task, today>>

-------------------------------------------------------------------------------
(* Tasks: create_task and update_task, which writes the fields it is given. *)

CreateTask ==
    /\ \E t \in Task, new \in Row :
        /\ task[t] = None /\ new.open
        /\ task' = [task EXCEPT ![t] = new]
    /\ UNCHANGED <<files, jobs, today, crashes>>

\* What a body may make of a task.  TODO and IN_PROGRESS are open, DONE and
\* CANCELLED are not, any other status is refused; a task may be opened again.
\* None cannot be given as an assignee: it means no change.
Edited(t) ==
    {[t EXCEPT !.assignee = u] : u \in User}
        \cup {[t EXCEPT !.title = title] : title \in Title}
        \cup {[t EXCEPT !.open = open] : open \in BOOLEAN}
        \cup {[t EXCEPT !.due = d] : d \in Day}

UpdateTask ==
    /\ \E t \in Task :
        /\ task[t] # None
        /\ \E edited \in Edited(task[t]) : task' = [task EXCEPT ![t] = edited]
    /\ UNCHANGED <<files, jobs, today, crashes>>

NewDay ==
    /\ today < LastDay /\ today' = today + 1
    /\ UNCHANGED <<files, jobs, task, crashes>>

-------------------------------------------------------------------------------
(* create_due_task_reminders. *)

IsDue_Today(t) ==
    task[t] # None /\ task[t].assignee # None /\ task[t].open /\ task[t].due = today
IsDue(t) ==
    task[t] # None /\ task[t].assignee # None /\ task[t].open /\ task[t].due <= today

Due == [t \in Task |-> IF IsDue(t) THEN <<task[t].assignee, task[t].title>> ELSE None]
Sought(batch) == {batch[t] : t \in Task} \ {None}

Busy(j) == todo[j] # Nothing \/ made[j] # Nothing

\* One query loads the tasks.
SelectDue(j) ==
    /\ ~Busy(j) /\ Due # Nothing
    /\ todo' = [todo EXCEPT ![j] = Due]
    /\ overlapped' = overlapped \cup
         (Sought(Due) \cap UNION {Sought(todo[i]) \cup Sought(made[i]) : i \in Job \ {j}})
    /\ UNCHANGED <<files, reminder, made, task, today, crashes>>

\* The reminder is looked for among those that are committed: the session
\* does not flush the ones it has added (autoflush is off).
Existing_Never(k) == FALSE
Existing(k) == reminder[k] > 0

Remind(j, t) ==
    /\ todo[j][t] # None
    /\ made' = IF Existing(todo[j][t]) THEN made
               ELSE [made EXCEPT ![j][t] = todo[j][t]]
    /\ todo' = [todo EXCEPT ![j][t] = None]
    /\ UNCHANGED <<files, reminder, overlapped, task, today, crashes>>

Added(j, k) == Cardinality({t \in Task : made[j][t] = k})

CommitReminders(j) ==
    /\ todo[j] = Nothing /\ made[j] # Nothing
    /\ reminder' = [k \in Key |-> reminder[k] + Added(j, k)]
    /\ made' = [made EXCEPT ![j] = Nothing]
    /\ UNCHANGED <<files, todo, overlapped, task, today, crashes>>

DieJob(j) ==
    /\ Busy(j) /\ crashes < MaxCrashes
    /\ crashes' = crashes + 1
    /\ todo' = [todo EXCEPT ![j] = Nothing]
    /\ made' = [made EXCEPT ![j] = Nothing]
    /\ UNCHANGED <<files, reminder, overlapped, task, today>>

-------------------------------------------------------------------------------
RunJob(j) == SelectDue(j) \/ CommitReminders(j) \/ \E t \in Task : Remind(j, t)

FileNext ==
    \E r \in Request : \/ BeginUpload(r) \/ BeginReport(r) \/ WriteFile(r) \/ InsertRow(r)
                       \/ BeginRename(r) \/ SaveName(r)
                       \/ BeginDelete(r) \/ Look(r) \/ Unlink(r) \/ DeleteRow(r)
                       \/ DieRequest(r)
TaskNext ==
    \/ CreateTask \/ UpdateTask \/ NewDay
    \/ \E j \in Job : RunJob(j) \/ DieJob(j)

Next == FileNext \/ TaskNext

Spec == Init /\ [][Next]_vars

\* "Invoke repeatedly from cron or a scheduler" (jobs/worker.py:1).
FairSpec == Spec /\ \A j \in Job : WF_vars(RunJob(j))

-------------------------------------------------------------------------------
(* Properties. *)

\* What can be downloaded is on the disk: a row is live only once its bytes
\* are written, and no deletion of a file, alone or with a renaming or another
\* deletion of it, leaves a live row behind unless it died between its steps.
LiveRowsHaveFiles ==
    \A f \in File \cup Report : row[f] = "live" /\ ~Downloadable(f) =>
        f \in torn \/ \E r \in Request : pc[r] = "delete" /\ item[r] = f

\* Who has been reminded of a title is not reminded of it again, however tasks
\* are edited and whichever job dies, as long as no two jobs look for that
\* reminder at the same time (jobs/scheduled.py:22-36).
RemindedOnce ==
    [][\A k \in Key \ overlapped : reminder[k] > 0 => reminder'[k] = reminder[k]]_vars

\* Task t is due, not finished, and k is the reminder that it calls for.
Awaited(t, k) ==
    task[t] # None /\ <<task[t].assignee, task[t].title>> = k /\ task[t].open /\ task[t].due <= today

\* A task that is due is reminded of, also when no job ran on the day it was
\* due, unless it is completed, postponed, renamed or given to somebody else
\* first.
DueTasksReminded ==
    \A t \in Task, k \in Key : Awaited(t, k) ~> reminder[k] > 0 \/ ~Awaited(t, k)
===============================================================================
