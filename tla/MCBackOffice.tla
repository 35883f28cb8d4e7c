----------------------------- MODULE MCBackOffice -----------------------------
(* Files, tasks, profiles and notifications share no variable, so the order   *)
(* of their steps shows nothing: a behaviour of the run is about files, about *)
(* two tasks of one user and title, about one task that is handed over or one *)
(* that is renamed, about one profile or about sockets.  The marks of one     *)
(* notification show what marks do; the socket of another user stays open.    *)
EXTENDS Office, TLC

CONSTANTS f1, f2, doc, t1, t2, u1, u2, r1, r2, r3, j1, j2,
          x, y, a, b, old, new, s1, s2, s3, n1, n2

VARIABLE part

TwoFiles == {f1, f2}
OneReport == {doc}
TwoTasks == {t1, t2}
TwoTitles == {x, y}
TwoUsers == {u1, u2}
ThreeRequests == {r1, r2, r3}
TwoJobs == {j1, j2}

OneProfile == {u1}
TwoColumns == {a, b}
TwoValues == {old, new}
Patches == {a :> old, a :> new, b :> new, (a :> new) @@ (b :> old), << >>}

ThreeSockets == {s1, s2, s3}
OwnerOf == [s \in ThreeSockets |-> IF s = s3 THEN u2 ELSE u1]
TwoNotices == {n1, n2}
ReaderOf == [n \in TwoNotices |-> u1]

MCInit ==
    /\ Init /\ ProfilesInit /\ NotificationsInit
    /\ part \in {"files", "two tasks", "handed over", "renamed", "profiles", "sockets"}

MCNext ==
    \/ /\ part = "files" /\ FileNext
       /\ UNCHANGED <<part, profileVars, noticeVars>>
    \/ /\ part \in {"two tasks", "handed over", "renamed"} /\ TaskNext
       /\ part # "two tasks" => task'[t2] = None
       /\ part # "handed over" => \A t \in Task : task'[t] # None => task'[t].assignee # u2
       /\ part # "renamed" => \A t \in Task : task'[t] # None => task'[t].title = x
       /\ UNCHANGED <<part, profileVars, noticeVars>>
    \/ part = "profiles" /\ ProfilesNext /\ UNCHANGED <<part, vars, noticeVars>>
    \/ /\ part = "sockets" /\ NotificationsNext
       /\ stored'[n2] # "read" /\ s3 \in alive'
       /\ UNCHANGED <<part, vars, profileVars>>

MCSpec ==
    /\ MCInit /\ [][MCNext]_<<vars, profileVars, noticeVars, part>>
    /\ \A j \in Job : WF_vars(RunJob(j))
===============================================================================
