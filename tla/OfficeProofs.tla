------------------------------ MODULE OfficeProofs ------------------------------
(***************************************************************************)
(* Theorems about the parts of Office, for any number of files, tasks,     *)
(* jobs, profiles, requests, sockets and broadcasts at once.               *)
(***************************************************************************)
EXTENDS Office, FiniteSetTheorems, TLAPS

(* Files: what a request knows of the file it works on.                    *)

Uploads == {"write file", "insert"}
Changes == {"look", "unlink", "delete", "rename"}

KnowsFile(r) ==
    /\ item[r] = None <=> pc[r] = "idle"
    /\ pc[r] \in Uploads =>
        row[item[r]] = "none" /\ \A s \in Request \ {r} : item[s] # item[r]
    /\ pc[r] = "insert" => item[r] \in disk
    /\ pc[r] \in Changes => item[r] \in File /\ row[item[r]] # "none"

FilesTyped ==
    /\ row \in [File \cup Report -> {"none", "live", "deleted"}]
    /\ disk \subseteq File \cup Report
    /\ pc \in [Request -> {"idle", "write file", "insert", "look", "unlink", "delete", "rename"}]
    /\ item \in [Request -> File \cup Report \cup {None}]
    /\ torn \subseteq File

FileInv == FilesTyped /\ LiveRowsHaveFiles /\ \A r \in Request : KnowsFile(r)

-------------------------------------------------------------------------------
(* Reminders: a key that two jobs have at once has been seen to overlap, one   *)
(* that a job adds alone is not there yet.                                     *)

Has(j) == Sought(todo[j]) \cup Sought(made[j])
OverlapsSeen == \A i, j \in Job : i # j => Has(i) \cap Has(j) \subseteq overlapped
AddedIsNew == \A j \in Job : \A k \in Sought(made[j]) \ overlapped : reminder[k] = 0

\* A job may add to what is there only as long as nothing is.
MayAdd(k) == {j \in Job : k \notin Sought(made[j])}
FewReminders == \A k \in Key : reminder[k] <= Cardinality(Task) * Cardinality(MayAdd(k))

JobsTyped ==
    /\ task \in [Task -> Row \cup {None}]
    /\ reminder \in [Key -> Nat]
    /\ today \in Day
    /\ todo \in [Job -> [Task -> Key \cup {None}]]
    /\ made \in [Job -> [Task -> Key \cup {None}]]
    /\ overlapped \subseteq Key

JobInv == JobsTyped /\ OverlapsSeen /\ AddedIsNew /\ FewReminders

OfficeInv == FileInv /\ JobInv /\ crashes \in 0 .. MaxCrashes

-------------------------------------------------------------------------------
(* Files: the steps of a request. *)

\* What the others know outlasts a step that leaves their files to them.
LEMMA OthersKnowFiles ==
    ASSUME FileInv, FilesTyped', NEW r \in Request, KnowsFile(r)',
           \A s \in Request \ {r} : pc'[s] = pc[s] /\ item'[s] = item[s],
           \A f \in File \cup Report : row[f] # "none" => row'[f] # "none",
           \A s \in Request \ {r} : pc[s] \in Uploads =>
               /\ row'[item[s]] = "none" /\ item'[r] # item[s]
               /\ pc[s] = "insert" => item[s] \in disk'
    PROVE  \A s \in Request : KnowsFile(s)'
<1> SUFFICES ASSUME NEW s \in Request \ {r} PROVE KnowsFile(s)'
  OBVIOUS
<1>1. KnowsFile(s) /\ item[s] \in File \cup Report \cup {None}
  BY DEF FileInv, FilesTyped
<1>2. pc'[s] = pc[s] /\ item'[s] = item[s]
  OBVIOUS
<1>3. pc[s] \in Uploads =>
        /\ row'[item[s]] = "none" /\ \A q \in Request \ {s} : item'[q] # item[s]
        /\ pc[s] = "insert" => item[s] \in disk'
  BY <1>1 DEF KnowsFile
<1>4. pc[s] \in Changes => item[s] \in File /\ row'[item[s]] # "none"
  BY <1>1 DEF KnowsFile
<1>5. "insert" \in Uploads
  BY DEF Uploads
<1> QED BY <1>1, <1>2, <1>3, <1>4, <1>5 DEF KnowsFile

\* A live row without its file was one before, or r has unlinked the file.
LEMMA LiveRowsKeepFiles ==
    ASSUME FileInv, NEW r \in Request, torn \subseteq torn',
           \A s \in Request \ {r} : pc'[s] = pc[s] /\ item'[s] = item[s],
           \A f \in File \cup Report : row'[f] = "live" /\ f \notin disk' =>
               \/ pc'[r] = "delete" /\ item'[r] = f
               \/ /\ row[f] = "live" /\ f \notin disk
                  /\ pc[r] = "delete" /\ item[r] = f => f \in torn'
    PROVE  LiveRowsHaveFiles'
<1> SUFFICES ASSUME NEW f \in File \cup Report, row'[f] = "live", f \notin disk',
                    f \notin torn', ~(pc'[r] = "delete" /\ item'[r] = f)
             PROVE  \E s \in Request : pc'[s] = "delete" /\ item'[s] = f
  BY DEF LiveRowsHaveFiles, Downloadable
<1>1. row[f] = "live" /\ f \notin disk /\ ~(pc[r] = "delete" /\ item[r] = f)
  OBVIOUS
<1>2. PICK s \in Request : pc[s] = "delete" /\ item[s] = f
  BY <1>1 DEF FileInv, LiveRowsHaveFiles, Downloadable
<1>3. s # r
  BY <1>1, <1>2
<1> QED BY <1>2, <1>3

\* A request goes to its next step.
LEMMA GoneTo ==
    ASSUME FileInv, NEW r \in Request, NEW f \in File \cup Report \cup {None},
           NEW l \in {"idle", "write file", "insert", "look", "unlink", "delete", "rename"},
           Goto(r, l, f)
    PROVE  /\ pc' \in [Request -> {"idle", "write file", "insert", "look", "unlink",
                                   "delete", "rename"}]
           /\ item' \in [Request -> File \cup Report \cup {None}]
           /\ pc'[r] = l /\ item'[r] = f
           /\ \A s \in Request \ {r} : pc'[s] = pc[s] /\ item'[s] = item[s]
BY DEF Goto, FileInv, FilesTyped

\* The file of a request is one, unless it is idle.
LEMMA ItsFile ==
    ASSUME FileInv, NEW r \in Request
    PROVE  /\ KnowsFile(r)
           /\ item[r] \in File \cup Report \cup {None}
           /\ pc[r] # "idle" => item[r] \in File \cup Report /\ item[r] # None
BY DEF FileInv, FilesTyped, KnowsFile

LEMMA BeginKeeps ==
    ASSUME FileInv, NEW r \in Request, NEW kind, kind \in {File, Report}, Begin(r, kind)
    PROVE  FileInv'
<1>1. PICK f \in File \cup Report :
        /\ row[f] = "none" /\ f \notin disk /\ \A s \in Request : item[s] # f
        /\ Goto(r, "write file", f)
  BY DEF Begin, UploadSteps
<1>2. /\ row' = row /\ disk' = disk /\ torn' = torn /\ f # None /\ pc[r] = "idle"
  BY BackOfficeAssumption DEF Begin
<1>3. /\ pc' \in [Request -> {"idle", "write file", "insert", "look", "unlink",
                              "delete", "rename"}]
      /\ item' \in [Request -> File \cup Report \cup {None}]
      /\ pc'[r] = "write file" /\ item'[r] = f
      /\ \A s \in Request \ {r} : pc'[s] = pc[s] /\ item'[s] = item[s]
  BY <1>1, GoneTo
<1>4. FilesTyped'
  BY <1>2, <1>3 DEF FileInv, FilesTyped
<1>5. KnowsFile(r)'
  BY <1>1, <1>2, <1>3 DEF KnowsFile, Uploads, Changes
<1>6. ASSUME NEW s \in Request \ {r}, pc[s] \in Uploads
      PROVE  /\ row'[item[s]] = "none" /\ item'[r] # item[s]
             /\ pc[s] = "insert" => item[s] \in disk'
  BY <1>1, <1>2, <1>3, <1>6, ItsFile DEF KnowsFile
<1>7. \A s \in Request : KnowsFile(s)'
  BY <1>2, <1>3, <1>4, <1>5, <1>6, OthersKnowFiles
<1>8. LiveRowsHaveFiles'
  BY <1>1, <1>2, <1>3, LiveRowsKeepFiles
<1> QED BY <1>4, <1>7, <1>8 DEF FileInv

LEMMA WriteFileKeeps == ASSUME FileInv, NEW r \in Request, WriteFile(r) PROVE FileInv'
<1>1. /\ pc[r] = "write file" /\ disk' = disk \cup {item[r]} /\ row' = row /\ torn' = torn
      /\ Goto(r, "insert", item[r])
  BY DEF WriteFile, Advance, UploadSteps
<1>2. KnowsFile(r) /\ item[r] \in File \cup Report /\ item[r] # None
  BY <1>1, ItsFile
<1>3. /\ pc' \in [Request -> {"idle", "write file", "insert", "look", "unlink",
                              "delete", "rename"}]
      /\ item' \in [Request -> File \cup Report \cup {None}]
      /\ pc'[r] = "insert" /\ item'[r] = item[r]
      /\ \A s \in Request \ {r} : pc'[s] = pc[s] /\ item'[s] = item[s]
  BY <1>1, <1>2, GoneTo
<1>4. FilesTyped'
  BY <1>1, <1>2, <1>3 DEF FileInv, FilesTyped
<1>5. KnowsFile(r)'
  BY <1>1, <1>2, <1>3 DEF KnowsFile, Uploads, Changes
<1>6. ASSUME NEW s \in Request \ {r}, pc[s] \in Uploads
      PROVE  /\ row'[item[s]] = "none" /\ item'[r] # item[s]
             /\ pc[s] = "insert" => item[s] \in disk'
  <2>1. KnowsFile(s) /\ KnowsFile(r) /\ pc[r] \in Uploads
    BY <1>1, ItsFile DEF Uploads
  <2> QED BY <1>1, <1>3, <1>6, <2>1 DEF KnowsFile
<1>7. \A s \in Request : KnowsFile(s)'
  BY <1>1, <1>3, <1>4, <1>5, <1>6, OthersKnowFiles
<1>8. LiveRowsHaveFiles'
  BY <1>1, <1>3, LiveRowsKeepFiles
<1> QED BY <1>4, <1>7, <1>8 DEF FileInv

LEMMA InsertRowKeeps == ASSUME FileInv, NEW r \in Request, InsertRow(r) PROVE FileInv'
<1> DEFINE f == item[r]
<1>1. /\ pc[r] = "insert" /\ row' = [row EXCEPT ![f] = "live"] /\ disk' = disk /\ torn' = torn
      /\ Goto(r, "idle", None)
  BY DEF InsertRow, Advance, UploadSteps, Close
<1>2. KnowsFile(r) /\ f \in File \cup Report /\ f # None /\ f \in disk
  BY <1>1, ItsFile DEF KnowsFile
<1>3. /\ pc' \in [Request -> {"idle", "write file", "insert", "look", "unlink",
                              "delete", "rename"}]
      /\ item' \in [Request -> File \cup Report \cup {None}]
      /\ pc'[r] = "idle" /\ item'[r] = None
      /\ \A s \in Request \ {r} : pc'[s] = pc[s] /\ item'[s] = item[s]
  BY <1>1, GoneTo
<1>4. FilesTyped'
  BY <1>1, <1>2, <1>3 DEF FileInv, FilesTyped
<1>5. KnowsFile(r)'
  BY <1>3 DEF KnowsFile, Uploads, Changes
<1>6. row'[f] = "live" /\ \A g \in (File \cup Report) \ {f} : row'[g] = row[g]
  BY <1>1, <1>2 DEF FileInv, FilesTyped
<1>7. ASSUME NEW s \in Request \ {r}, pc[s] \in Uploads
      PROVE  /\ row'[item[s]] = "none" /\ item'[r] # item[s]
             /\ pc[s] = "insert" => item[s] \in disk'
  <2>1. KnowsFile(s) /\ item[s] \in File \cup Report /\ item[s] # None
    BY <1>7, ItsFile DEF Uploads
  <2>2. item[s] # f
    BY <1>1, <1>2 DEF KnowsFile, Uploads
  <2> QED BY <1>1, <1>3, <1>6, <1>7, <2>1, <2>2 DEF KnowsFile
<1>8. \A s \in Request : KnowsFile(s)'
  BY <1>3, <1>4, <1>5, <1>6, <1>7, OthersKnowFiles
<1>9. LiveRowsHaveFiles'
  BY <1>1, <1>2, <1>3, <1>6, LiveRowsKeepFiles
<1> QED BY <1>4, <1>8, <1>9 DEF FileInv

\* The steps that leave rows and files alone, on a file whose row is there.
LEMMA ChangesKeep ==
    ASSUME FileInv, NEW r \in Request, NEW l \in Changes \cup {"idle"}, NEW f,
           Goto(r, l, f), UNCHANGED <<row, disk>>, torn' \subseteq File, torn \subseteq torn',
           IF l = "idle" THEN f = None ELSE f \in File /\ row[f] # "none",
           pc[r] = "delete" => item[r] \in torn'
    PROVE  FileInv'
<1>1. f \in File \cup Report \cup {None}
  OBVIOUS
<1>2. l \in {"idle", "write file", "insert", "look", "unlink", "delete", "rename"}
  BY DEF Changes
<1>3. /\ pc' \in [Request -> {"idle", "write file", "insert", "look", "unlink",
                              "delete", "rename"}]
      /\ item' \in [Request -> File \cup Report \cup {None}]
      /\ pc'[r] = l /\ item'[r] = f
      /\ \A s \in Request \ {r} : pc'[s] = pc[s] /\ item'[s] = item[s]
  BY <1>1, <1>2, GoneTo
<1>4. FilesTyped'
  BY <1>3 DEF FileInv, FilesTyped
<1>5. KnowsFile(r)'
  BY <1>3, BackOfficeAssumption DEF KnowsFile, Uploads, Changes
<1>6. ASSUME NEW s \in Request \ {r}, pc[s] \in Uploads
      PROVE  /\ row'[item[s]] = "none" /\ item'[r] # item[s]
             /\ pc[s] = "insert" => item[s] \in disk'
  <2>1. KnowsFile(s) /\ item[s] \in File \cup Report /\ item[s] # None
    BY <1>6, ItsFile DEF Uploads
  <2>2. row[item[s]] = "none"
    BY <1>6, <2>1 DEF KnowsFile
  <2>3. item'[r] # item[s]
    BY <1>3, <2>1, <2>2
  <2> QED BY <1>6, <2>1, <2>2, <2>3 DEF KnowsFile
<1>7. \A s \in Request : KnowsFile(s)'
  BY <1>3, <1>4, <1>5, <1>6, OthersKnowFiles
<1>8. LiveRowsHaveFiles'
  BY <1>3, LiveRowsKeepFiles
<1> QED BY <1>4, <1>7, <1>8 DEF FileInv

LEMMA UnlinkKeeps == ASSUME FileInv, NEW r \in Request, Unlink(r) PROVE FileInv'
<1> DEFINE f == item[r]
<1>1. /\ pc[r] = "unlink" /\ disk' = disk \ {f} /\ row' = row /\ torn' = torn
  BY DEF Unlink
<1>2. KnowsFile(r) /\ f \in File /\ row[f] # "none" /\ f # None
  BY <1>1, ItsFile DEF KnowsFile, Changes
<1>3. CASE f \notin disk
  <2>1. Goto(r, "idle", None) /\ disk' = disk
    BY <1>1, <1>3 DEF Unlink, Close
  <2>2. torn' \subseteq File
    BY <1>1 DEF FileInv, FilesTyped
  <2> QED BY <1>1, <2>1, <2>2, ChangesKeep
<1>4. CASE f \in disk
  <2>1. Goto(r, "delete", f)
    BY <1>4 DEF Unlink
  <2>2. /\ pc' \in [Request -> {"idle", "write file", "insert", "look", "unlink",
                                "delete", "rename"}]
        /\ item' \in [Request -> File \cup Report \cup {None}]
        /\ pc'[r] = "delete" /\ item'[r] = f
        /\ \A s \in Request \ {r} : pc'[s] = pc[s] /\ item'[s] = item[s]
    BY <1>2, <2>1, GoneTo
  <2>3. FilesTyped'
    BY <1>1, <2>2 DEF FileInv, FilesTyped
  <2>4. KnowsFile(r)'
    BY <1>1, <1>2, <2>2 DEF KnowsFile, Uploads, Changes
  <2>5. ASSUME NEW s \in Request \ {r}, pc[s] \in Uploads
        PROVE  /\ row'[item[s]] = "none" /\ item'[r] # item[s]
               /\ pc[s] = "insert" => item[s] \in disk'
    <3>1. KnowsFile(s)
      BY ItsFile
    <3>2. row[item[s]] = "none" /\ item[s] # f
      BY <1>2, <2>5, <3>1 DEF KnowsFile
    <3> QED BY <1>1, <2>2, <2>5, <3>1, <3>2 DEF KnowsFile
  <2>6. \A s \in Request : KnowsFile(s)'
    BY <1>1, <2>2, <2>3, <2>4, <2>5, OthersKnowFiles
  <2>7. LiveRowsHaveFiles'
    BY <1>1, <2>2, LiveRowsKeepFiles
  <2> QED BY <2>3, <2>6, <2>7 DEF FileInv
<1> QED BY <1>3, <1>4

LEMMA DeleteRowKeeps == ASSUME FileInv, NEW r \in Request, DeleteRow(r) PROVE FileInv'
<1> DEFINE f == item[r]
<1>1. /\ pc[r] = "delete" /\ row' = [row EXCEPT ![f] = "deleted"] /\ disk' = disk
      /\ torn' = torn /\ Goto(r, "idle", None)
  BY DEF DeleteRow, Close
<1>2. KnowsFile(r) /\ f \in File /\ row[f] # "none"
  BY <1>1, ItsFile DEF KnowsFile, Changes
<1>3. /\ pc' \in [Request -> {"idle", "write file", "insert", "look", "unlink",
                              "delete", "rename"}]
      /\ item' \in [Request -> File \cup Report \cup {None}]
      /\ pc'[r] = "idle" /\ item'[r] = None
      /\ \A s \in Request \ {r} : pc'[s] = pc[s] /\ item'[s] = item[s]
  BY <1>1, GoneTo
<1>4. FilesTyped'
  BY <1>1, <1>2, <1>3 DEF FileInv, FilesTyped
<1>5. KnowsFile(r)'
  BY <1>3 DEF KnowsFile, Uploads, Changes
<1>6. row'[f] = "deleted" /\ \A g \in (File \cup Report) \ {f} : row'[g] = row[g]
  BY <1>1, <1>2 DEF FileInv, FilesTyped
<1>7. ASSUME NEW s \in Request \ {r}, pc[s] \in Uploads
      PROVE  /\ row'[item[s]] = "none" /\ item'[r] # item[s]
             /\ pc[s] = "insert" => item[s] \in disk'
  <2>1. KnowsFile(s) /\ item[s] \in File \cup Report /\ item[s] # None
    BY <1>7, ItsFile DEF Uploads
  <2>2. row[item[s]] = "none" /\ item[s] # f
    BY <1>2, <1>7, <2>1 DEF KnowsFile
  <2> QED BY <1>1, <1>3, <1>6, <1>7, <2>1, <2>2 DEF KnowsFile
<1>8. \A s \in Request : KnowsFile(s)'
  BY <1>3, <1>4, <1>5, <1>6, <1>7, OthersKnowFiles
<1>9. LiveRowsHaveFiles'
  BY <1>1, <1>3, <1>6, LiveRowsKeepFiles
<1> QED BY <1>4, <1>8, <1>9 DEF FileInv

LEMMA FileStep == ASSUME FileInv, FileNext PROVE FileInv'
<1>0. torn \subseteq File
  BY DEF FileInv, FilesTyped
<1>1. ASSUME NEW r \in Request, BeginUpload(r) \/ BeginReport(r) PROVE FileInv'
  BY <1>1, BeginKeeps DEF BeginUpload, BeginReport
<1>2. ASSUME NEW r \in Request, WriteFile(r) \/ InsertRow(r) PROVE FileInv'
  BY <1>2, WriteFileKeeps, InsertRowKeeps
<1>3. ASSUME NEW r \in Request, BeginDelete(r) \/ BeginRename(r) PROVE FileInv'
  <2>1. PICK f \in File, l \in {"look", "rename"} :
          row[f] = "live" /\ Goto(r, l, f) /\ pc[r] = "idle" /\ UNCHANGED <<row, disk, torn>>
    BY <1>3 DEF BeginDelete, BeginRename
  <2> QED BY <1>0, <2>1, ChangesKeep DEF Changes
<1>4. ASSUME NEW r \in Request, Look(r) PROVE FileInv'
  <2>1. PICK l \in {"unlink", "delete"} :
          Goto(r, l, item[r]) /\ pc[r] = "look" /\ UNCHANGED <<row, disk, torn>>
    BY <1>4 DEF Look
  <2>2. item[r] \in File /\ row[item[r]] # "none"
    BY <2>1, ItsFile DEF KnowsFile, Changes
  <2> QED BY <1>0, <2>1, <2>2, ChangesKeep DEF Changes
<1>5. ASSUME NEW r \in Request, SaveName(r) PROVE FileInv'
  <2>1. Goto(r, "idle", None) /\ pc[r] = "rename" /\ UNCHANGED <<row, disk, torn>>
    BY <1>5 DEF SaveName, Renamed, Close
  <2> QED BY <1>0, <2>1, ChangesKeep
<1>6. ASSUME NEW r \in Request, DieRequest(r) PROVE FileInv'
  <2>1. /\ Goto(r, "idle", None) /\ UNCHANGED <<row, disk>>
        /\ torn' = IF pc[r] = "delete" THEN torn \cup {item[r]} ELSE torn
    BY <1>6 DEF DieRequest, Close
  <2>2. pc[r] = "delete" => item[r] \in File
    BY ItsFile DEF KnowsFile, Changes
  <2> QED BY <1>0, <2>1, <2>2, ChangesKeep
<1>7. ASSUME NEW r \in Request, Unlink(r) \/ DeleteRow(r) PROVE FileInv'
  BY <1>7, UnlinkKeeps, DeleteRowKeeps
<1> QED BY <1>1, <1>2, <1>3, <1>4, <1>5, <1>6, <1>7 DEF FileNext

-------------------------------------------------------------------------------
(* Tasks and reminders. *)

LEMMA Times ==
    ASSUME NEW n \in Nat, NEW i \in Nat, NEW j \in Nat
    PROVE  /\ n * i \in Nat
           /\ i <= j => n * i <= n * j
           /\ n * (i + 1) = n * i + n
OBVIOUS

\* A row of the table of tasks stays one.
LEMMA EditedIsRow ==
    ASSUME NEW t \in Row, NEW e \in Edited(t)
    PROVE  e \in Row
BY DEF Edited, Row

\* What a job finds due are keys.
LEMMA DueIsTyped == ASSUME JobsTyped PROVE Due \in [Task -> Key \cup {None}]
<1> SUFFICES ASSUME NEW t \in Task, IsDue(t)
             PROVE  <<task[t].assignee, task[t].title>> \in Key
  BY DEF Due
<1>1. task[t] \in Row /\ task[t].assignee # None
  BY DEF JobsTyped, IsDue
<1> QED BY <1>1 DEF Row, Key

LEMMA Typed ==
    ASSUME JobInv, NEW j \in Job
    PROVE  /\ todo[j] \in [Task -> Key \cup {None}] /\ made[j] \in [Task -> Key \cup {None}]
           /\ Sought(todo[j]) \subseteq Key /\ Sought(made[j]) \subseteq Key
           /\ Has(j) \subseteq Key
BY DEF JobInv, JobsTyped, Sought, Has

LEMMA NothingIsSought == Sought(Nothing) = {} /\ Nothing \in [Task -> Key \cup {None}]
BY DEF Sought, Nothing

LEMMA MayAddIsFinite ==
    ASSUME NEW k
    PROVE  IsFiniteSet(MayAdd(k)) /\ Cardinality(MayAdd(k)) \in Nat /\ Cardinality(Task) \in Nat
<1>1. MayAdd(k) \subseteq Job
  BY DEF MayAdd
<1>2. IsFiniteSet(MayAdd(k)) /\ IsFiniteSet(Task)
  BY <1>1, FS_Subset, BackOfficeAssumption
<1> QED BY <1>2, FS_CardinalityType

\* As long as no reminder is added, no fewer jobs may add one: the bound holds.
LEMMA FewStayFew ==
    ASSUME JobInv, NEW k \in Key, reminder'[k] = reminder[k],
           reminder[k] = 0 \/ MayAdd(k) \subseteq MayAdd(k)'
    PROVE  reminder'[k] <= Cardinality(Task) * Cardinality(MayAdd(k)')
<1>1. /\ IsFiniteSet(MayAdd(k)) /\ Cardinality(MayAdd(k)) \in Nat /\ Cardinality(Task) \in Nat
      /\ IsFiniteSet(MayAdd(k)') /\ Cardinality(MayAdd(k)') \in Nat
  <2>1. MayAdd(k)' \subseteq Job
    BY DEF MayAdd
  <2>2. IsFiniteSet(MayAdd(k)')
    BY <2>1, FS_Subset, BackOfficeAssumption
  <2> QED BY <2>2, MayAddIsFinite, FS_CardinalityType
<1>2. reminder[k] \in Nat /\ reminder[k] <= Cardinality(Task) * Cardinality(MayAdd(k))
  BY DEF JobInv, JobsTyped, FewReminders
<1>3. CASE reminder[k] = 0
  BY <1>1, <1>3, Times
<1>4. CASE MayAdd(k) \subseteq MayAdd(k)'
  <2>1. Cardinality(MayAdd(k)) <= Cardinality(MayAdd(k)')
    BY <1>1, <1>4, FS_Subset
  <2>2. Cardinality(Task) * Cardinality(MayAdd(k)) <= Cardinality(Task) * Cardinality(MayAdd(k)')
    BY <1>1, <2>1, Times
  <2>3. /\ Cardinality(Task) * Cardinality(MayAdd(k)) \in Nat
        /\ Cardinality(Task) * Cardinality(MayAdd(k)') \in Nat
    BY <1>1, Times
  <2> QED BY <1>2, <2>2, <2>3
<1> QED BY <1>3, <1>4

\* The steps of one job that add no reminder.
LEMMA JobMoves ==
    ASSUME JobInv, NEW j \in Job, UNCHANGED <<reminder, task, today>>,
           NEW b \in [Task -> Key \cup {None}], NEW m \in [Task -> Key \cup {None}],
           todo' = [todo EXCEPT ![j] = b], made' = [made EXCEPT ![j] = m],
           overlapped \subseteq overlapped', overlapped' \subseteq Key,
           \A i \in Job \ {j} : (Sought(b) \cup Sought(m)) \cap Has(i) \subseteq overlapped',
           \A k \in Sought(m) \ Sought(made[j]) : reminder[k] = 0
    PROVE  JobInv'
<1>1. JobsTyped'
  BY DEF JobInv, JobsTyped
<1>2. /\ todo'[j] = b /\ made'[j] = m
      /\ \A i \in Job \ {j} : todo'[i] = todo[i] /\ made'[i] = made[i]
  BY DEF JobInv, JobsTyped
<1>3. OverlapsSeen'
  <2> SUFFICES ASSUME NEW i \in Job, NEW h \in Job, i # h
               PROVE  Has(i)' \cap Has(h)' \subseteq overlapped'
    BY DEF OverlapsSeen
  <2>1. CASE i # j /\ h # j
    <3>1. Has(i)' = Has(i) /\ Has(h)' = Has(h)
      BY <1>2, <2>1 DEF Has, Sought
    <3> QED BY <3>1 DEF JobInv, OverlapsSeen
  <2>2. Has(j)' = Sought(b) \cup Sought(m)
    BY <1>2 DEF Has, Sought
  <2>3. CASE i = j
    <3>1. Has(h)' = Has(h)
      BY <1>2, <2>3 DEF Has, Sought
    <3> QED BY <2>2, <2>3, <3>1
  <2>4. CASE h = j
    <3>1. Has(i)' = Has(i)
      BY <1>2, <2>4 DEF Has, Sought
    <3> QED BY <2>2, <2>4, <3>1
  <2> QED BY <2>1, <2>3, <2>4
<1>4. AddedIsNew'
  <2> SUFFICES ASSUME NEW i \in Job, NEW k \in Sought(made[i])' \ overlapped'
               PROVE  reminder[k] = 0
    BY DEF AddedIsNew
  <2>1. CASE i # j
    <3>1. k \in Sought(made[i])
      BY <1>2, <2>1 DEF Sought
    <3> QED BY <3>1 DEF JobInv, AddedIsNew
  <2>2. CASE i = j
    <3>1. k \in Sought(m)
      BY <1>2, <2>2 DEF Sought
    <3> QED BY <2>2, <3>1 DEF JobInv, AddedIsNew
  <2> QED BY <2>1, <2>2
<1>5. FewReminders'
  <2> SUFFICES ASSUME NEW k \in Key
               PROVE  reminder'[k] <= Cardinality(Task) * Cardinality(MayAdd(k)')
    BY DEF FewReminders
  <2>1. ASSUME reminder[k] # 0, NEW i \in MayAdd(k) PROVE i \in MayAdd(k)'
    <3>1. i \in Job /\ k \notin Sought(made[i])
      BY DEF MayAdd
    <3>2. k \notin Sought(made'[i])
      BY <1>2, <2>1, <3>1 DEF Sought
    <3> QED BY <3>1, <3>2 DEF MayAdd, Sought
  <2> QED BY <2>1, FewStayFew
<1> QED BY <1>1, <1>3, <1>4, <1>5 DEF JobInv

LEMMA SelectKeeps == ASSUME JobInv, NEW j \in Job, SelectDue(j) PROVE JobInv'
<1>1. /\ todo[j] = Nothing /\ made[j] = Nothing
      /\ todo' = [todo EXCEPT ![j] = Due] /\ made' = made
      /\ overlapped' = overlapped \cup
            (Sought(Due) \cap UNION {Sought(todo[i]) \cup Sought(made[i]) : i \in Job \ {j}})
      /\ UNCHANGED <<reminder, task, today>>
  BY DEF SelectDue, Busy
<1>2. Due \in [Task -> Key \cup {None}] /\ Nothing \in [Task -> Key \cup {None}]
  BY DueIsTyped, NothingIsSought DEF JobInv
<1>3. made' = [made EXCEPT ![j] = Nothing]
  BY <1>1 DEF JobInv, JobsTyped
<1>4. overlapped' \subseteq Key
  <2>1. Sought(Due) \subseteq Key /\ overlapped \subseteq Key
    BY <1>2 DEF Sought, JobInv, JobsTyped
  <2> QED BY <1>1, <2>1
<1>5. ASSUME NEW i \in Job \ {j}
      PROVE  (Sought(Due) \cup Sought(Nothing)) \cap Has(i) \subseteq overlapped'
  BY <1>1, NothingIsSought DEF Has
<1> QED BY <1>1, <1>2, <1>3, <1>4, <1>5, NothingIsSought, JobMoves

LEMMA RemindKeeps ==
    ASSUME JobInv, NEW j \in Job, NEW t \in Task, Remind(j, t)
    PROVE  JobInv'
<1> DEFINE k == todo[j][t]
           b == [todo[j] EXCEPT ![t] = None]
           m == IF Existing(k) THEN made[j] ELSE [made[j] EXCEPT ![t] = k]
<1>1. /\ k # None /\ todo' = [todo EXCEPT ![j] = b] /\ made' = [made EXCEPT ![j] = m]
      /\ UNCHANGED <<reminder, task, today, overlapped>>
  BY DEF Remind, JobInv, JobsTyped
<1>2. k \in Key /\ k \in Sought(todo[j]) /\ todo[j] \in [Task -> Key \cup {None}]
      /\ made[j] \in [Task -> Key \cup {None}] /\ overlapped \subseteq Key
  BY <1>1 DEF JobInv, JobsTyped, Sought
<1>3. b \in [Task -> Key \cup {None}] /\ m \in [Task -> Key \cup {None}]
  BY <1>2
<1>4. Sought(b) \subseteq Sought(todo[j])
  BY <1>2 DEF Sought
<1>5. Sought(m) \subseteq Sought(made[j]) \cup {k} /\ (Existing(k) => m = made[j])
  BY <1>2 DEF Sought
<1>6. ASSUME NEW i \in Job \ {j}
      PROVE  (Sought(b) \cup Sought(m)) \cap Has(i) \subseteq overlapped'
  <2>1. Has(j) \cap Has(i) \subseteq overlapped
    BY DEF JobInv, OverlapsSeen
  <2> QED BY <1>1, <1>2, <1>4, <1>5, <2>1 DEF Has
<1>7. ASSUME NEW l \in Sought(m) \ Sought(made[j]) PROVE reminder[l] = 0
  <2>1. l = k /\ ~Existing(k)
    BY <1>5
  <2>2. reminder[k] \in Nat
    BY <1>2 DEF JobInv, JobsTyped
  <2> QED BY <2>1, <2>2 DEF Existing
<1> HIDE DEF b, m
<1> QED BY <1>1, <1>2, <1>3, <1>6, <1>7, JobMoves

LEMMA DieJobKeeps == ASSUME JobInv, NEW j \in Job, DieJob(j) PROVE JobInv'
<1>1. /\ todo' = [todo EXCEPT ![j] = Nothing] /\ made' = [made EXCEPT ![j] = Nothing]
      /\ UNCHANGED <<reminder, task, today, overlapped>>
  BY DEF DieJob
<1>2. overlapped \subseteq Key
  BY DEF JobInv, JobsTyped
<1> QED BY <1>1, <1>2, NothingIsSought, JobMoves

\* What a job adds: nothing of the keys it does not have, and of each at most one
\* reminder for each task.
LEMMA HowManyAreAdded ==
    ASSUME JobInv, NEW j \in Job, NEW k \in Key
    PROVE  /\ Added(j, k) \in Nat /\ Added(j, k) <= Cardinality(Task)
           /\ k \notin Sought(made[j]) => Added(j, k) = 0
<1> DEFINE Of == {t \in Task : made[j][t] = k}
<1>1. IsFiniteSet(Of) /\ Cardinality(Of) <= Cardinality(Task)
  BY BackOfficeAssumption, FS_Subset
<1>2. Cardinality(Of) \in Nat
  BY <1>1, FS_CardinalityType
<1>3. k # None
  BY BackOfficeAssumption
<1>4. k \notin Sought(made[j]) => Of = {}
  BY <1>3 DEF Sought
<1>5. Of = {} => Cardinality(Of) = 0
  BY FS_EmptySet
<1> QED BY <1>1, <1>2, <1>4, <1>5 DEF Added

LEMMA CommitKeeps == ASSUME JobInv, NEW j \in Job, CommitReminders(j) PROVE JobInv'
<1>1. /\ todo[j] = Nothing /\ reminder' = [k \in Key |-> reminder[k] + Added(j, k)]
      /\ made' = [made EXCEPT ![j] = Nothing]
      /\ UNCHANGED <<todo, overlapped, task, today>>
  BY DEF CommitReminders
<1>2. \A k \in Key : reminder[k] \in Nat /\ reminder'[k] = reminder[k] + Added(j, k)
  BY <1>1 DEF JobInv, JobsTyped
<1>3. /\ made'[j] = Nothing /\ \A i \in Job \ {j} : made'[i] = made[i]
  BY <1>1 DEF JobInv, JobsTyped
<1>4. JobsTyped'
  <2>1. reminder' \in [Key -> Nat]
    BY <1>1, HowManyAreAdded DEF JobInv, JobsTyped
  <2>2. made' \in [Job -> [Task -> Key \cup {None}]]
    BY <1>1, NothingIsSought DEF JobInv, JobsTyped
  <2> QED BY <1>1, <2>1, <2>2 DEF JobInv, JobsTyped
<1>5. \A i \in Job : Sought(made[i])' \subseteq Sought(made[i])
  BY <1>3, NothingIsSought DEF Sought
<1>6. OverlapsSeen'
  <2>1. \A i \in Job : Has(i)' \subseteq Has(i)
    BY <1>1, <1>5 DEF Has, Sought
  <2> QED BY <1>1, <2>1 DEF JobInv, OverlapsSeen
<1>7. AddedIsNew'
  <2> SUFFICES ASSUME NEW i \in Job, NEW k \in Sought(made[i])' \ overlapped
               PROVE  reminder'[k] = 0
    BY <1>1 DEF AddedIsNew
  <2>1. i # j /\ k \in Sought(made[i]) /\ k \in Key
    BY <1>3, <1>5, NothingIsSought, Typed DEF Sought
  <2>2. k \notin Sought(made[j])
    BY <2>1 DEF JobInv, OverlapsSeen, Has
  <2>3. reminder[k] = 0 /\ Added(j, k) = 0
    BY <2>1, <2>2, HowManyAreAdded DEF JobInv, AddedIsNew
  <2> QED BY <1>2, <2>1, <2>3
<1>8. FewReminders'
  <2> SUFFICES ASSUME NEW k \in Key
               PROVE  reminder'[k] <= Cardinality(Task) * Cardinality(MayAdd(k)')
    BY DEF FewReminders
  <2>1. \A i \in MayAdd(k) : i \in MayAdd(k)'
    BY <1>5 DEF MayAdd
  <2>2. CASE k \notin Sought(made[j])
    <3>1. reminder'[k] = reminder[k]
      BY <1>2, <2>2, HowManyAreAdded
    <3> QED BY <2>1, <3>1, FewStayFew
  <2>3. CASE k \in Sought(made[j])
    <3>1. MayAdd(k)' = MayAdd(k) \cup {j} /\ j \notin MayAdd(k)
      <4>1. j \in MayAdd(k)' /\ j \notin MayAdd(k)
        BY <1>3, <2>3, NothingIsSought DEF MayAdd, Sought
      <4>2. \A i \in MayAdd(k)' : i = j \/ i \in MayAdd(k)
        BY <1>3 DEF MayAdd, Sought
      <4> QED BY <2>1, <4>1, <4>2
    <3>2. /\ IsFiniteSet(MayAdd(k)) /\ Cardinality(MayAdd(k)) \in Nat
          /\ Cardinality(Task) \in Nat
      BY MayAddIsFinite
    <3>3. Cardinality(MayAdd(k)') = Cardinality(MayAdd(k)) + 1
      BY <3>1, <3>2, FS_AddElement
    <3>4. /\ Cardinality(Task) * (Cardinality(MayAdd(k)) + 1) =
                Cardinality(Task) * Cardinality(MayAdd(k)) + Cardinality(Task)
          /\ Cardinality(Task) * Cardinality(MayAdd(k)) \in Nat
      BY <3>2, Times
    <3>5. reminder[k] <= Cardinality(Task) * Cardinality(MayAdd(k))
      BY DEF JobInv, FewReminders
    <3>6. Added(j, k) \in Nat /\ Added(j, k) <= Cardinality(Task)
      BY HowManyAreAdded
    <3>7. reminder'[k] <= Cardinality(Task) * Cardinality(MayAdd(k)) + Cardinality(Task)
      BY <1>2, <3>2, <3>4, <3>5, <3>6
    <3> QED BY <3>3, <3>4, <3>7
  <2> QED BY <2>2, <2>3
<1> QED BY <1>4, <1>6, <1>7, <1>8 DEF JobInv

\* Tasks and days do not touch the reminders.
LEMMA TasksChange ==
    ASSUME JobInv, UNCHANGED jobs, task' \in [Task -> Row \cup {None}], today' \in Day
    PROVE  JobInv'
<1>1. UNCHANGED <<reminder, todo, made, overlapped>>
  BY DEF jobs
<1>2. JobsTyped'
  BY <1>1 DEF JobInv, JobsTyped
<1>3. OverlapsSeen' /\ AddedIsNew' /\ FewReminders'
  BY <1>1 DEF JobInv, OverlapsSeen, AddedIsNew, FewReminders, Has, Sought, MayAdd
<1> QED BY <1>2, <1>3 DEF JobInv

LEMMA TaskStep == ASSUME JobInv, TaskNext PROVE JobInv'
<1>0. task \in [Task -> Row \cup {None}] /\ today \in Day
  BY DEF JobInv, JobsTyped
<1>1. CASE CreateTask
  BY <1>0, <1>1, TasksChange DEF CreateTask
<1>2. CASE UpdateTask
  <2>1. PICK t \in Task : /\ task[t] # None
                          /\ \E e \in Edited(task[t]) : task' = [task EXCEPT ![t] = e]
    BY <1>2 DEF UpdateTask
  <2>2. task[t] \in Row
    BY <1>0, <2>1
  <2>3. task' \in [Task -> Row \cup {None}]
    BY <1>0, <2>1, <2>2, EditedIsRow
  <2> QED BY <1>0, <1>2, <2>3, TasksChange DEF UpdateTask
<1>3. CASE NewDay
  <2>1. today' \in Day
    BY <1>0, <1>3, BackOfficeAssumption DEF NewDay, Day
  <2> QED BY <1>0, <1>3, <2>1, TasksChange DEF NewDay
<1>4. ASSUME NEW j \in Job, RunJob(j) \/ DieJob(j) PROVE JobInv'
  BY <1>4, SelectKeeps, RemindKeeps, CommitKeeps, DieJobKeeps DEF RunJob
<1> QED BY <1>1, <1>2, <1>3, <1>4 DEF TaskNext

-------------------------------------------------------------------------------
(* Both together. *)

LEMMA OfficeInitially == Init => OfficeInv
<1> SUFFICES ASSUME Init PROVE OfficeInv
  OBVIOUS
<1>1. FileInv
  BY DEF Init, FileInv, FilesTyped, LiveRowsHaveFiles, KnowsFile, Uploads, Changes
<1>2. JobsTyped
  BY NothingIsSought, BackOfficeAssumption DEF Init, JobsTyped, Day
<1>3. \A j \in Job : Sought(todo[j]) = {} /\ Sought(made[j]) = {}
  BY NothingIsSought DEF Init
<1>4. OverlapsSeen /\ AddedIsNew
  BY <1>3 DEF OverlapsSeen, AddedIsNew, Has
<1>5. FewReminders
  BY MayAddIsFinite, Times DEF Init, FewReminders
<1>6. crashes \in 0 .. MaxCrashes
  BY BackOfficeAssumption DEF Init
<1> QED BY <1>1, <1>2, <1>4, <1>5, <1>6 DEF OfficeInv, JobInv

LEMMA OfficeStep == ASSUME OfficeInv, [Next]_vars PROVE OfficeInv'
<1>1. crashes' \in 0 .. MaxCrashes
  <2>1. crashes' = crashes \/ (crashes < MaxCrashes /\ crashes' = crashes + 1)
    BY DEF Next, FileNext, TaskNext, BeginUpload, BeginReport, Begin, WriteFile, InsertRow,
       BeginRename, SaveName, BeginDelete, Look, Unlink, DeleteRow, DieRequest, CreateTask,
       UpdateTask, NewDay, RunJob, SelectDue, CommitReminders, Remind, DieJob, vars
  <2>2. crashes \in 0 .. MaxCrashes /\ MaxCrashes \in Nat
    BY BackOfficeAssumption DEF OfficeInv
  <2> QED BY <2>1, <2>2
<1>2. UNCHANGED files => FileInv'
  <2> SUFFICES ASSUME UNCHANGED <<row, disk, pc, item, torn>> PROVE FileInv'
    BY DEF files
  <2>1. FilesTyped' /\ LiveRowsHaveFiles'
    BY DEF OfficeInv, FileInv, FilesTyped, LiveRowsHaveFiles, Downloadable
  <2>2. \A r \in Request : KnowsFile(r)'
    BY DEF OfficeInv, FileInv, KnowsFile
  <2> QED BY <2>1, <2>2 DEF FileInv
<1>3. UNCHANGED <<jobs, task, today>> => JobInv'
  BY TasksChange DEF OfficeInv, JobInv, JobsTyped
<1>4. FileNext => UNCHANGED <<jobs, task, today>>
  BY DEF FileNext, BeginUpload, BeginReport, Begin, WriteFile, InsertRow, BeginRename,
     SaveName, BeginDelete, Look, Unlink, DeleteRow, DieRequest
<1>5. TaskNext => UNCHANGED files
  BY DEF TaskNext, CreateTask, UpdateTask, NewDay, RunJob, SelectDue, CommitReminders,
     Remind, DieJob
<1>6. UNCHANGED vars => UNCHANGED files /\ UNCHANGED <<jobs, task, today>>
  BY DEF vars
<1> QED BY <1>1, <1>2, <1>3, <1>4, <1>5, <1>6, FileStep, TaskStep DEF Next, OfficeInv

LEMMA OfficeInvariance == Spec => []OfficeInv
<1>1. OfficeInv /\ [Next]_vars => OfficeInv'
  BY OfficeStep
<1> QED BY <1>1, OfficeInitially, PTL DEF Spec

\* A live row has its file, for any number of uploads, reports, renamings and
\* deletions at once, unless a deletion of it is under way or died.
THEOREM LiveRowsAreDownloadable == Spec => []LiveRowsHaveFiles
<1>1. OfficeInv => LiveRowsHaveFiles
  BY DEF OfficeInv, FileInv
<1> QED BY <1>1, OfficeInvariance, PTL

\* The bound on the reminders of a key follows from FewReminders.
LEMMA OfficeIsTyped == ASSUME OfficeInv PROVE TypeOK
<1>1. ASSUME NEW k \in Key
      PROVE  reminder[k] \in 0 .. Cardinality(Task) * Cardinality(Job)
  <2>1. MayAdd(k) \subseteq Job /\ IsFiniteSet(Job)
    BY BackOfficeAssumption DEF MayAdd
  <2>2. Cardinality(MayAdd(k)) <= Cardinality(Job) /\ Cardinality(Job) \in Nat
    BY <2>1, FS_Subset, FS_CardinalityType
  <2>3. Cardinality(MayAdd(k)) \in Nat /\ Cardinality(Task) \in Nat
    BY MayAddIsFinite
  <2>4. /\ Cardinality(Task) * Cardinality(MayAdd(k)) <= Cardinality(Task) * Cardinality(Job)
        /\ Cardinality(Task) * Cardinality(MayAdd(k)) \in Nat
        /\ Cardinality(Task) * Cardinality(Job) \in Nat
    BY <2>2, <2>3, Times
  <2>5. reminder[k] \in Nat /\ reminder[k] <= Cardinality(Task) * Cardinality(MayAdd(k))
    BY DEF OfficeInv, JobInv, JobsTyped, FewReminders
  <2> QED BY <2>4, <2>5
<1>2. reminder \in [Key -> 0 .. Cardinality(Task) * Cardinality(Job)]
  BY <1>1 DEF OfficeInv, JobInv, JobsTyped
<1> QED BY <1>2 DEF OfficeInv, FileInv, FilesTyped, JobInv, JobsTyped, TypeOK

\* However tasks are edited and whichever jobs die: a reminder that is there is
\* not added again, unless two jobs have looked for it at the same time.
THEOREM NobodyIsRemindedTwice == Spec => RemindedOnce
<1>1. OfficeInv /\ [Next]_vars =>
        [\A k \in Key \ overlapped : reminder[k] > 0 => reminder'[k] = reminder[k]]_vars
  <2> SUFFICES ASSUME OfficeInv, Next, NEW k \in Key \ overlapped, reminder[k] > 0
               PROVE  reminder'[k] = reminder[k]
    BY DEF vars
  <2>1. CASE reminder' = reminder
    BY <2>1
  <2>2. ASSUME NEW j \in Job, CommitReminders(j) PROVE reminder'[k] = reminder[k]
    <3>1. reminder[k] \in Nat /\ reminder'[k] = reminder[k] + Added(j, k)
      BY <2>2 DEF CommitReminders, OfficeInv, JobInv, JobsTyped
    <3>2. k \notin Sought(made[j])
      BY <3>1 DEF OfficeInv, JobInv, AddedIsNew
    <3>3. Added(j, k) = 0
      BY <3>2, HowManyAreAdded DEF OfficeInv
    <3> QED BY <3>1, <3>3
  <2> QED BY <2>1, <2>2 DEF Next, FileNext, TaskNext, BeginUpload, BeginReport, Begin,
     WriteFile, InsertRow, BeginRename, SaveName, BeginDelete, Look, Unlink, DeleteRow,
     DieRequest, CreateTask, UpdateTask, NewDay, RunJob, SelectDue, Remind, DieJob, jobs
<1> QED BY <1>1, OfficeInvariance, PTL DEF Spec, RemindedOnce

-------------------------------------------------------------------------------
(* Profiles.  The invariant says that what is loaded, saved and recorded is a *)
(* row, and relates a snapshot to the row.                                     *)

\* Rows are never removed: what a request has loaded is still there.
LoadedExists ==
    \A e \in Editor : editing[e] # Absent => profile[editing[e].of] # Absent

\* A request has loaded a deleted row exactly if it restores it.
LoadedAsFound ==
    \A e \in Editor : editing[e] # Absent =>
        (editing[e].loaded["is_deleted"] <=> editing[e].body = Restoration)

ProfileInv == ProfilesTyped /\ LoadedExists /\ LoadedAsFound

\* A body names columns of a row, and the object it is applied to is a row.
LEMMA AppliedIsRow ==
    ASSUME NEW f \in Rows, NEW b \in Body
    PROVE  Applied(b, f) \in Rows
<1>1. f \in [Columns -> Value \cup BOOLEAN] /\ f["is_deleted"] \in BOOLEAN
      /\ \A c \in Column : f[c] \in Value
  BY DEF Rows
<1>2. CASE b \in Patch
  <2>1. b \in [DOMAIN b -> Value] /\ DOMAIN b \subseteq Column
    BY <1>2, ProfilesAssumption
  <2>3. Applied(b, f) = [c \in Columns |-> IF c \in DOMAIN b THEN b[c] ELSE f[c]]
    BY DEF Applied
  <2>4. Applied(b, f)["is_deleted"] \in BOOLEAN
    BY <1>1, <2>1, <2>3, ProfilesAssumption DEF Columns
  <2>5. \A c \in Column : Applied(b, f)[c] \in Value
    BY <1>1, <2>1, <2>3 DEF Columns
  <2>6. Applied(b, f) \in [Columns -> Value \cup BOOLEAN]
    BY <1>1, <2>1, <2>3
  <2> QED BY <2>4, <2>5, <2>6 DEF Rows
<1>3. CASE b \in {Deletion, Restoration}
  <2>1. DOMAIN b = {"is_deleted"} /\ b["is_deleted"] \in BOOLEAN
    BY <1>3 DEF Deletion, Restoration
  <2>3. Applied(b, f) = [c \in Columns |-> IF c \in DOMAIN b THEN b[c] ELSE f[c]]
    BY DEF Applied
  <2>4. Applied(b, f)["is_deleted"] \in BOOLEAN
    BY <2>1, <2>3 DEF Columns
  <2>5. \A c \in Column : Applied(b, f)[c] \in Value
    BY <1>1, <2>1, <2>3, ProfilesAssumption DEF Columns
  <2>6. Applied(b, f) \in [Columns -> Value \cup BOOLEAN]
    BY <1>1, <2>1, <2>3 DEF Columns
  <2> QED BY <2>4, <2>5, <2>6 DEF Rows
<1> QED BY <1>2, <1>3 DEF Body

\* A request that runs has loaded a row and has a body.
LEMMA EditIsTyped ==
    ASSUME ProfilesTyped, NEW e \in Editor, editing[e] # Absent
    PROVE  /\ editing[e].of \in Profile
           /\ editing[e].loaded \in Rows
           /\ editing[e].body \in Body
           /\ InMemory(e) \in Rows
<1>1. editing[e] \in Edit
  BY DEF ProfilesTyped
<1>2. editing[e].of \in Profile /\ editing[e].loaded \in Rows /\ editing[e].body \in Body
  BY <1>1 DEF Edit
<1>3. Applied(editing[e].body, editing[e].loaded) \in Rows
  BY <1>2, AppliedIsRow
<1> QED BY <1>2, <1>3 DEF InMemory

\* Saving writes a row.
LEMMA SavedIsRow ==
    ASSUME NEW f \in Rows, NEW g \in Rows, NEW W \in SUBSET Columns
    PROVE  [c \in Columns |-> IF c \in W THEN g[c] ELSE f[c]] \in Rows
BY DEF Rows, Columns

LEMMA ProfilesInitially == ProfilesInit => ProfileInv
BY DEF ProfilesInit, ProfileInv, ProfilesTyped, LoadedExists, LoadedAsFound

\* Neither an edit nor a deletion is a restoration.
LEMMA NoRestoration ==
    /\ Deletion # Restoration
    /\ \A b \in Patch : b # Restoration
<1>1. DOMAIN Restoration = {"is_deleted"} /\ Restoration["is_deleted"] = FALSE
  BY DEF Restoration
<1>2. Deletion["is_deleted"] = TRUE
  BY DEF Deletion
<1>3. \A b \in Patch : "is_deleted" \notin DOMAIN b
  BY ProfilesAssumption
<1> QED BY <1>1, <1>2, <1>3

LEMMA LoadKeeps ==
    ASSUME ProfileInv, NEW e \in Editor, NEW p \in Profile, NEW b \in Body,
           profile[p] # Absent, Load(e, p, b),
           profile[p]["is_deleted"] <=> b = Restoration
    PROVE  ProfileInv'
<1>1. profile[p] \in Rows
  BY DEF ProfileInv, ProfilesTyped
<1>2. [of |-> p, loaded |-> profile[p], body |-> b] \in Edit
  BY <1>1 DEF Edit
<1>3. editing' \in [Editor -> Edit \cup {Absent}]
  BY <1>2 DEF Load, ProfileInv, ProfilesTyped
<1>4. ProfilesTyped'
  BY <1>3 DEF Load, ProfileInv, ProfilesTyped
<1>6. editing'[e].of = p /\ \A d \in Editor \ {e} : editing'[d] = editing[d]
  BY DEF Load, ProfileInv, ProfilesTyped
<1>7. LoadedExists'
  BY <1>6 DEF Load, ProfileInv, LoadedExists
<1>8. editing'[e].loaded = profile[p] /\ editing'[e].body = b
  BY DEF Load, ProfileInv, ProfilesTyped
<1>9. LoadedAsFound'
  BY <1>6, <1>8 DEF ProfileInv, LoadedAsFound
<1> QED BY <1>4, <1>7, <1>9 DEF ProfileInv

LEMMA CreateProfileKeeps ==
    ASSUME ProfileInv, CreateProfile
    PROVE  ProfileInv'
<1>1. PICK p \in Profile, f \in Rows :
        /\ profile' = [profile EXCEPT ![p] = f]
        /\ history' = [history EXCEPT ![p] = f]
        /\ editing' = editing
  BY DEF CreateProfile
<1>2. ProfilesTyped'
  BY <1>1 DEF ProfileInv, ProfilesTyped
<1>3. profile'[p] = f /\ f # Absent
  BY <1>1, ProfilesAssumption DEF ProfileInv, ProfilesTyped
<1>4. \A q \in Profile \ {p} : profile'[q] = profile[q]
  BY <1>1 DEF ProfileInv, ProfilesTyped
<1>6. LoadedExists'
  BY <1>1, <1>3, <1>4 DEF ProfileInv, LoadedExists, ProfilesTyped, Edit
<1>7. LoadedAsFound'
  BY <1>1 DEF ProfileInv, LoadedAsFound
<1> QED BY <1>2, <1>6, <1>7 DEF ProfileInv

LEMMA SaveProfileKeeps ==
    ASSUME ProfileInv, NEW e \in Editor, Save(e)
    PROVE  ProfileInv'
<1> DEFINE p == editing[e].of
           saved == [c \in Columns |->
                       IF c \in Written(e) THEN InMemory(e)[c] ELSE profile[p][c]]
<1>1. editing[e] # Absent /\ ProfilesTyped
  BY DEF Save, ProfileInv
<1>2. p \in Profile /\ editing[e].loaded \in Rows /\ editing[e].body \in Body
      /\ InMemory(e) \in Rows
  BY <1>1, EditIsTyped
<1>3. Written(e) \in SUBSET Columns
  BY DEF Written
<1>4. profile[p] # Absent /\ profile[p] \in Rows
  BY <1>1, <1>2 DEF ProfileInv, LoadedExists, ProfilesTyped
<1>5. saved \in Rows
  BY <1>2, <1>3, <1>4, SavedIsRow
<1>6. profile' = [profile EXCEPT ![p] = saved]
  BY DEF Save
<1>7. history' = IF Recorded(e) THEN [history EXCEPT ![p] = InMemory(e)] ELSE history
  BY DEF Save, Snapshot
<1>9. editing' = [editing EXCEPT ![e] = Absent]
  BY DEF Save
<1>11. profile' \in [Profile -> Rows \cup {Absent}]
  BY <1>1, <1>5, <1>6 DEF ProfilesTyped
<1>12. history' \in [Profile -> Rows \cup {Absent}]
  BY <1>1, <1>2, <1>7 DEF ProfilesTyped
<1>14. editing' \in [Editor -> Edit \cup {Absent}]
  BY <1>1, <1>9 DEF ProfilesTyped
<1>15. ProfilesTyped'
  BY <1>11, <1>12, <1>14 DEF ProfilesTyped
<1>16. profile'[p] = saved /\ \A q \in Profile \ {p} : profile'[q] = profile[q]
  BY <1>1, <1>2, <1>6 DEF ProfilesTyped
<1>17. saved # Absent
  BY <1>5, ProfilesAssumption
<1>20. \A q \in Profile : profile[q] # Absent => profile'[q] # Absent
  BY <1>16, <1>17
<1>21. editing'[e] = Absent /\ \A d \in Editor \ {e} : editing'[d] = editing[d]
  BY <1>1, <1>9 DEF ProfilesTyped
<1>22. LoadedExists'
  BY <1>1, <1>20, <1>21 DEF ProfileInv, LoadedExists, ProfilesTyped, Edit
<1>23. LoadedAsFound'
  BY <1>21 DEF ProfileInv, LoadedAsFound
<1> QED BY <1>15, <1>22, <1>23 DEF ProfileInv

LEMMA AbandonKeeps ==
    ASSUME ProfileInv, NEW e \in Editor, Abandon(e)
    PROVE  ProfileInv'
<1>1. ProfilesTyped'
  BY DEF Abandon, ProfileInv, ProfilesTyped
<1>3. editing'[e] = Absent /\ \A d \in Editor \ {e} : editing'[d] = editing[d]
  BY DEF Abandon, ProfileInv, ProfilesTyped
<1>4. LoadedExists'
  BY <1>3 DEF Abandon, ProfileInv, LoadedExists
<1>5. LoadedAsFound'
  BY <1>3 DEF ProfileInv, LoadedAsFound
<1> QED BY <1>1, <1>4, <1>5 DEF ProfileInv

LEMMA ProfileStep ==
    ASSUME ProfileInv, [ProfilesNext]_profileVars
    PROVE  ProfileInv'
<1>1. CASE CreateProfile
  BY <1>1, CreateProfileKeeps
<1>2. ASSUME NEW e \in Editor, EditProfile(e) PROVE ProfileInv'
  <2>1. PICK p \in Profile, b \in Patch : Live(p) /\ Load(e, p, b)
    BY <1>2 DEF EditProfile
  <2> QED BY <2>1, LoadKeeps, NoRestoration DEF Live, Body
<1>3. ASSUME NEW e \in Editor, DeleteProfile(e) PROVE ProfileInv'
  <2>1. PICK p \in Profile : Live(p) /\ Load(e, p, Deletion)
    BY <1>3 DEF DeleteProfile
  <2> QED BY <2>1, LoadKeeps, NoRestoration DEF Live, Body
<1>4. ASSUME NEW e \in Editor, RestoreProfile(e) PROVE ProfileInv'
  <2>1. PICK p \in Profile : profile[p] # Absent /\ ~Live(p) /\ Load(e, p, Restoration)
    BY <1>4 DEF RestoreProfile
  <2> QED BY <2>1, LoadKeeps DEF Body, Live
<1>5. ASSUME NEW e \in Editor, Save(e) PROVE ProfileInv'
  BY <1>5, SaveProfileKeeps
<1>6. ASSUME NEW e \in Editor, Abandon(e) PROVE ProfileInv'
  BY <1>6, AbandonKeeps
<1>7. CASE UNCHANGED profileVars
  BY <1>7 DEF profileVars, ProfileInv, ProfilesTyped, LoadedExists, LoadedAsFound
<1> QED BY <1>1, <1>2, <1>3, <1>4, <1>5, <1>6, <1>7 DEF ProfilesNext

\* What DeletionsStand says of a step.
Restores(p) ==
    IsDeleted(p) /\ ~IsDeleted(p)' =>
      \E e \in Editor :
        /\ editing[e] # Absent /\ editing'[e] = Absent
        /\ editing[e].of = p /\ editing[e].body = Restoration
        /\ editing[e].loaded["is_deleted"]

LEMMA SaveRestores ==
    ASSUME ProfileInv, NEW e \in Editor, Save(e), NEW p \in Profile,
           IsDeleted(p), ~IsDeleted(p)'
    PROVE  /\ editing[e] # Absent /\ editing'[e] = Absent
           /\ editing[e].of = p /\ editing[e].body = Restoration
           /\ editing[e].loaded["is_deleted"]
<1> DEFINE q == editing[e].of
           saved == [c \in Columns |->
                       IF c \in Written(e) THEN InMemory(e)[c] ELSE profile[q][c]]
<1>1. editing[e] # Absent /\ ProfilesTyped
  BY DEF Save, ProfileInv
<1>2. q \in Profile /\ editing[e].loaded \in Rows /\ InMemory(e) \in Rows
  BY <1>1, EditIsTyped
<1>3. profile' = [profile EXCEPT ![q] = saved]
  BY DEF Save
<1>4. profile'[q] = saved /\ \A o \in Profile \ {q} : profile'[o] = profile[o]
  BY <1>1, <1>2, <1>3 DEF ProfilesTyped
<1>5. p = q
  BY <1>4 DEF IsDeleted
<1>6. profile[q] # Absent /\ profile[q] \in Rows
  BY <1>1, <1>2 DEF ProfileInv, LoadedExists, ProfilesTyped
<1>7. Written(e) \in SUBSET Columns
  BY DEF Written
<1>8. saved \in Rows
  BY <1>2, <1>6, <1>7, SavedIsRow
<1>9. saved # Absent
  BY <1>8, ProfilesAssumption
<1>10. profile[q]["is_deleted"] = TRUE /\ saved["is_deleted"] = FALSE
  BY <1>4, <1>5, <1>6, <1>8, <1>9 DEF IsDeleted, Rows
<1>11. "is_deleted" \in Columns
  BY DEF Columns
<1>12. "is_deleted" \in Written(e) /\ InMemory(e)["is_deleted"] = FALSE
  BY <1>10, <1>11
<1>13. editing[e].loaded["is_deleted"] = TRUE
  BY <1>2, <1>12 DEF Written, Rows
<1>14. editing[e].body = Restoration
  BY <1>1, <1>13 DEF ProfileInv, LoadedAsFound
<1>15. editing'[e] = Absent
  BY <1>1 DEF Save, ProfilesTyped
<1> QED BY <1>1, <1>5, <1>13, <1>14, <1>15

LEMMA StepRestores ==
    ASSUME ProfileInv, [ProfilesNext]_profileVars, NEW p \in Profile
    PROVE  Restores(p)
<1>1. CASE CreateProfile
  <2>1. PICK q \in Profile, f \in Rows :
          profile[q] = Absent /\ profile' = [profile EXCEPT ![q] = f]
    BY <1>1 DEF CreateProfile
  <2>2. \A o \in Profile \ {q} : profile'[o] = profile[o]
    BY <2>1 DEF ProfileInv, ProfilesTyped
  <2> QED BY <2>1, <2>2 DEF Restores, IsDeleted
<1>2. CASE \E e \in Editor : EditProfile(e) \/ DeleteProfile(e) \/ RestoreProfile(e) \/ Abandon(e)
  BY <1>2 DEF EditProfile, DeleteProfile, RestoreProfile, Abandon, Load, Restores, IsDeleted
<1>3. ASSUME NEW e \in Editor, Save(e) PROVE Restores(p)
  BY <1>3, SaveRestores DEF Restores
<1>4. CASE UNCHANGED profileVars
  BY <1>4 DEF profileVars, Restores, IsDeleted
<1> QED BY <1>1, <1>2, <1>3, <1>4 DEF ProfilesNext

LEMMA ProfileInvariance == ProfilesSpec => []ProfileInv
<1>1. ProfilesInit => ProfileInv
  BY ProfilesInitially
<1>2. ProfileInv /\ [ProfilesNext]_profileVars => ProfileInv'
  BY ProfileStep
<1> QED BY <1>1, <1>2, PTL DEF ProfilesSpec

-------------------------------------------------------------------------------
(* One request at a time: the row that it has loaded is the row that it      *)
(* changes, so the object it records is the row it leaves.                   *)

OneEditor == \A d, e \in Editor : d = e

LoadedIsRow ==
    \A e \in Editor : editing[e] # Absent => editing[e].loaded = profile[editing[e].of]

SoloInv == HistoryTellsTheRow /\ LoadedIsRow

\* A body that is empty writes nothing.
LEMMA EmptyBody ==
    ASSUME NEW f \in Rows, NEW b \in Body, DOMAIN b = {}, NEW c \in Columns
    PROVE  Applied(b, f)[c] = f[c]
BY DEF Applied

\* Whoever saves, nobody else has loaded a row.
LEMMA SoloSave ==
    ASSUME ProfileInv, SoloInv, OneEditor, NEW e \in Editor, Save(e)
    PROVE  SoloInv'
<1> DEFINE p == editing[e].of
           saved == [c \in Columns |->
                       IF c \in Written(e) THEN InMemory(e)[c] ELSE profile[p][c]]
<1>1. editing[e] # Absent /\ ProfilesTyped
  BY DEF Save, ProfileInv
<1>2. p \in Profile /\ editing[e].loaded \in Rows /\ editing[e].body \in Body
      /\ InMemory(e) \in Rows
  BY <1>1, EditIsTyped
<1>3. editing[e].loaded = profile[p]
  BY <1>1 DEF SoloInv, LoadedIsRow
<1>4. profile' = [profile EXCEPT ![p] = saved]
  BY DEF Save
<1>5. history' = IF Recorded(e) THEN [history EXCEPT ![p] = InMemory(e)] ELSE history
  BY DEF Save, Snapshot
<1>6. \A c \in Columns : saved[c] = InMemory(e)[c]
  BY <1>3 DEF Written
<1>7. saved = InMemory(e)
  <2>1. InMemory(e) = [c \in Columns |-> InMemory(e)[c]]
    BY <1>2 DEF Rows
  <2>2. saved = [c \in Columns |-> InMemory(e)[c]]
    BY <1>6
  <2> QED BY <2>1, <2>2
<1>8. LoadedIsRow'
  <2>1. editing'[e] = Absent
    BY <1>1 DEF Save, ProfilesTyped
  <2>2. \A d \in Editor : d = e
    BY DEF OneEditor
  <2> QED BY <2>1, <2>2 DEF LoadedIsRow
<1>9. CASE Recorded(e)
  <2>1. HistoryTellsTheRow'
    BY <1>1, <1>2, <1>4, <1>5, <1>7, <1>9 DEF SoloInv, HistoryTellsTheRow, ProfilesTyped
  <2> QED BY <1>8, <2>1 DEF SoloInv
<1>10. CASE ~Recorded(e)
  <2>1. \A c \in Columns : InMemory(e)[c] = editing[e].loaded[c]
    BY <1>2, <1>10, EmptyBody DEF Recorded, InMemory
  <2>2. InMemory(e) = profile[p]
    <3>1. profile[p] = [c \in Columns |-> profile[p][c]]
      BY <1>2, <1>3 DEF Rows
    <3>2. InMemory(e) = [c \in Columns |-> InMemory(e)[c]]
      BY <1>2 DEF Rows
    <3> QED BY <1>3, <2>1, <3>1, <3>2
  <2>3. profile' = profile /\ history' = history
    BY <1>1, <1>2, <1>4, <1>5, <1>7, <1>10, <2>2 DEF ProfilesTyped
  <2>4. HistoryTellsTheRow'
    BY <2>3 DEF SoloInv, HistoryTellsTheRow
  <2> QED BY <1>8, <2>4 DEF SoloInv
<1> QED BY <1>9, <1>10

LEMMA SoloStep ==
    ASSUME OneEditor, ProfileInv, SoloInv, [ProfilesNext]_profileVars
    PROVE  SoloInv'
<1>1. CASE CreateProfile
  <2>1. PICK p \in Profile, f \in Rows :
          /\ profile[p] = Absent
          /\ profile' = [profile EXCEPT ![p] = f]
          /\ history' = [history EXCEPT ![p] = f]
          /\ editing' = editing
    BY <1>1 DEF CreateProfile
  <2>2. HistoryTellsTheRow'
    BY <2>1 DEF SoloInv, HistoryTellsTheRow, ProfileInv, ProfilesTyped
  <2>3. \A e \in Editor : editing[e] # Absent => editing[e].of # p
    BY <2>1 DEF ProfileInv, LoadedExists
  <2>4. \A e \in Editor : editing[e] # Absent => profile'[editing[e].of] = profile[editing[e].of]
    BY <2>1, <2>3 DEF ProfileInv, ProfilesTyped
  <2>5. LoadedIsRow'
    BY <2>1, <2>4 DEF SoloInv, LoadedIsRow
  <2> QED BY <2>2, <2>5 DEF SoloInv
<1>2. CASE \E e \in Editor : EditProfile(e) \/ DeleteProfile(e) \/ RestoreProfile(e)
  <2>1. PICK e \in Editor : EditProfile(e) \/ DeleteProfile(e) \/ RestoreProfile(e)
    BY <1>2
  <2>2. \E p \in Profile, b \in Body : Load(e, p, b)
    BY <2>1 DEF EditProfile, DeleteProfile, RestoreProfile, Body
  <2>3. PICK p \in Profile, b \in Body : Load(e, p, b)
    BY <2>2
  <2>4. /\ editing'[e].of = p /\ editing'[e].loaded = profile[p]
        /\ \A d \in Editor \ {e} : editing'[d] = editing[d]
        /\ profile' = profile /\ history' = history
    BY <2>3 DEF Load, ProfileInv, ProfilesTyped
  <2> QED BY <2>4 DEF SoloInv, LoadedIsRow, HistoryTellsTheRow
<1>3. ASSUME NEW e \in Editor, Save(e) PROVE SoloInv'
  BY <1>3, SoloSave
<1>4. ASSUME NEW e \in Editor, Abandon(e) PROVE SoloInv'
  <2>1. /\ editing'[e] = Absent /\ \A d \in Editor \ {e} : editing'[d] = editing[d]
        /\ profile' = profile /\ history' = history
    BY <1>4 DEF Abandon, ProfileInv, ProfilesTyped
  <2> QED BY <2>1 DEF SoloInv, LoadedIsRow, HistoryTellsTheRow
<1>5. CASE UNCHANGED profileVars
  BY <1>5 DEF profileVars, SoloInv, LoadedIsRow, HistoryTellsTheRow
<1> QED BY <1>1, <1>2, <1>3, <1>4, <1>5 DEF ProfilesNext

-------------------------------------------------------------------------------
\* Whatever is saved and recorded is a row.
THEOREM ProfilesAreTyped == ProfilesSpec => []ProfilesTyped
<1>1. ProfileInv => ProfilesTyped
  BY DEF ProfileInv
<1> QED BY <1>1, ProfileInvariance, PTL

\* Where requests come one at a time, the newest snapshot of every row is the
\* row, for any rows, columns and bodies.  OneEditor is necessary.
THEOREM HistoryIsTruthful == OneEditor => (ProfilesSpec => []HistoryTellsTheRow)
<1>1. ProfilesInit => SoloInv
  BY DEF ProfilesInit, SoloInv, HistoryTellsTheRow, LoadedIsRow
<1>2. OneEditor /\ ProfileInv /\ SoloInv /\ [ProfilesNext]_profileVars => SoloInv'
  BY SoloStep
<1>3. SoloInv => HistoryTellsTheRow
  BY DEF SoloInv
<1>4. SUFFICES ASSUME OneEditor PROVE ProfilesSpec => []HistoryTellsTheRow
  OBVIOUS
<1>5. ProfileInv /\ SoloInv /\ [ProfilesNext]_profileVars => SoloInv'
  BY <1>2, <1>4
<1> QED BY <1>1, <1>3, <1>5, ProfileInvariance, PTL DEF ProfilesSpec

\* For any number of rows, columns and requests, only a restoration brings a
\* deleted row back.
THEOREM DeletionsAreFinal == ProfilesSpec => DeletionsStand
<1>1. ProfileInv /\ [ProfilesNext]_profileVars => [\A p \in Profile : Restores(p)]_profileVars
  BY StepRestores
<1>2. ProfilesSpec => [][\A p \in Profile : Restores(p)]_profileVars
  BY <1>1, ProfileInvariance, PTL DEF ProfilesSpec
<1> QED BY <1>2 DEF DeletionsStand, Restores

-------------------------------------------------------------------------------
(* Notifications: what a broadcast has passed, and who is registered.          *)

\* A broadcast that went past an open socket reached it, one that is over went
\* past all of its sockets, and it gives up only on sockets that are closed.
PassedIsHeard == \A n \in Notice : \A s \in tried[n] \cap alive : <<s, n>> \in heard
DoneIsPassed == \A n \in Notice : pushing[n] = "done" => targets[n] \subseteq tried[n]
StaleIsClosed == \A n \in Notice : stale[n] \cap alive = {}
OpenIsRegistered ==
    \A s \in alive : handler[s] = "receiving" => s \in connections[Owner[s]]

NoticeInv == /\ NotificationsTyped
        /\ PassedIsHeard /\ DoneIsPassed /\ StaleIsClosed /\ OpenIsRegistered

\* The users that sockets and notifications belong to have a set of sockets.
LEMMA OwnersAreReaders ==
    /\ \A s \in Socket : Owner[s] \in Readers
    /\ \A n \in Notice : Reader[n] \in Readers
BY DEF Readers

LEMMA NoticesInitially == NotificationsInit => NoticeInv
BY DEF NotificationsInit, NoticeInv, NotificationsTyped, PassedIsHeard, DoneIsPassed,
       StaleIsClosed, OpenIsRegistered

LEMMA OpenStreamKeeps ==
    ASSUME NoticeInv, NEW s \in Socket, OpenStream(s)
    PROVE  NoticeInv'
<1>1. NotificationsTyped'
  BY DEF OpenStream, NoticeInv, NotificationsTyped
<1>2. OpenIsRegistered'
  BY DEF OpenStream, NoticeInv, NotificationsTyped, OpenIsRegistered
<1> QED BY <1>1, <1>2 DEF OpenStream, NoticeInv, PassedIsHeard, DoneIsPassed, StaleIsClosed

LEMMA ConnectKeeps ==
    ASSUME NoticeInv, NEW s \in Socket, Connect(s)
    PROVE  NoticeInv'
<1>1. Owner[s] \in Readers
  BY OwnersAreReaders
<1>2. connections' \in [Readers -> SUBSET Socket]
  BY <1>1 DEF Connect, NoticeInv, NotificationsTyped
<1>3. NotificationsTyped'
  BY <1>2 DEF Connect, NoticeInv, NotificationsTyped
<1>4. s \in connections'[Owner[s]] /\ \A u \in Readers : connections[u] \subseteq connections'[u]
  BY <1>1 DEF Connect, NoticeInv, NotificationsTyped
<1>5. \A r \in Socket \ {s} : handler'[r] = handler[r]
  BY DEF Connect, NoticeInv, NotificationsTyped
<1>6. OpenIsRegistered'
  BY <1>4, <1>5, OwnersAreReaders DEF Connect, NoticeInv, NotificationsTyped, OpenIsRegistered
<1> QED BY <1>3, <1>6 DEF Connect, NoticeInv, PassedIsHeard, DoneIsPassed, StaleIsClosed

LEMMA LeaveKeeps ==
    ASSUME NoticeInv, NEW s \in Socket, ClientLeaves(s)
    PROVE  NoticeInv'
<1>1. NotificationsTyped'
  BY DEF ClientLeaves, NoticeInv, NotificationsTyped
<1> QED BY <1>1 DEF ClientLeaves, NoticeInv, PassedIsHeard, DoneIsPassed, StaleIsClosed,
                    OpenIsRegistered

\* Taking sockets that are closed out of a set disturbs no open one.
LEMMA DisconnectKeeps ==
    ASSUME NoticeInv, NEW u \in Readers, NEW gone \in SUBSET Socket, gone \cap alive = {},
           connections' = Disconnected(u, gone), alive' = alive,
           \A r \in alive : handler'[r] = "receiving" => handler[r] = "receiving"
    PROVE  connections' \in [Readers -> SUBSET Socket] /\ OpenIsRegistered'
<1>1. connections' \in [Readers -> SUBSET Socket]
  BY DEF Disconnected, NoticeInv, NotificationsTyped
<1>2. \A v \in Readers : connections[v] \ gone \subseteq connections'[v]
  BY DEF Disconnected, NoticeInv, NotificationsTyped
<1>3. OpenIsRegistered'
  BY <1>2, OwnersAreReaders DEF NoticeInv, NotificationsTyped, OpenIsRegistered
<1> QED BY <1>1, <1>3

LEMMA EndStreamKeeps ==
    ASSUME NoticeInv, NEW s \in Socket, EndStream(s)
    PROVE  NoticeInv'
<1>1. {s} \in SUBSET Socket /\ {s} \cap alive = {}
  BY DEF EndStream
<1>2. connections' = Disconnected(Owner[s], {s}) /\ alive' = alive
  BY DEF EndStream
<1>3. \A r \in alive : handler'[r] = "receiving" => handler[r] = "receiving"
  BY DEF EndStream, NoticeInv, NotificationsTyped
<1>4. connections' \in [Readers -> SUBSET Socket] /\ OpenIsRegistered'
  BY <1>1, <1>2, <1>3, OwnersAreReaders, DisconnectKeeps
<1>5. NotificationsTyped'
  BY <1>4 DEF EndStream, NoticeInv, NotificationsTyped
<1> QED BY <1>4, <1>5 DEF EndStream, NoticeInv, PassedIsHeard, DoneIsPassed, StaleIsClosed

\* Creating and marking a notification leaves the sockets and sends alone.
LEMMA StoreKeeps ==
    ASSUME NoticeInv, NEW n \in Notice, CreateNotification(n) \/ MarkRead(n) \/ MarkUnread(n)
    PROVE  NoticeInv'
<1>1. NotificationsTyped'
  BY DEF CreateNotification, MarkRead, MarkUnread, socketVars, NoticeInv, NotificationsTyped
<1>2. DoneIsPassed'
  BY DEF CreateNotification, MarkRead, MarkUnread, NoticeInv, NotificationsTyped, DoneIsPassed
<1> QED BY <1>1, <1>2 DEF CreateNotification, MarkRead, MarkUnread, socketVars, NoticeInv,
                          PassedIsHeard, StaleIsClosed, OpenIsRegistered

LEMMA StartBroadcastKeeps ==
    ASSUME NoticeInv, NEW n \in Notice, StartBroadcast(n)
    PROVE  NoticeInv'
<1>1. connections[Reader[n]] \in SUBSET Socket
  BY OwnersAreReaders DEF NoticeInv, NotificationsTyped
<1>2. NotificationsTyped'
  BY <1>1 DEF StartBroadcast, socketVars, NoticeInv, NotificationsTyped
<1>3. DoneIsPassed'
  BY DEF StartBroadcast, NoticeInv, NotificationsTyped, DoneIsPassed
<1> QED BY <1>2, <1>3 DEF StartBroadcast, socketVars, NoticeInv, PassedIsHeard, StaleIsClosed,
                          OpenIsRegistered

LEMMA SendKeeps ==
    ASSUME NoticeInv, NEW n \in Notice, Send(n)
    PROVE  NoticeInv'
<1>1. PICK s \in Remaining(n) :
        /\ tried' = [tried EXCEPT ![n] = @ \cup {s}]
        /\ heard' = IF s \in alive THEN heard \cup {<<s, n>>} ELSE heard
        /\ stale' = IF s \in alive THEN stale ELSE [stale EXCEPT ![n] = @ \cup {s}]
  BY DEF Send
<1>2. s \in Socket
  BY DEF Remaining, NoticeInv, NotificationsTyped
<1>3. /\ handler' = handler /\ alive' = alive /\ connections' = connections
      /\ stored' = stored /\ pushing' = pushing /\ targets' = targets
  BY DEF Send, socketVars
<1>4. /\ tried' \in [Notice -> SUBSET Socket] /\ stale' \in [Notice -> SUBSET Socket]
      /\ heard' \subseteq Socket \X Notice
  BY <1>1, <1>2 DEF NoticeInv, NotificationsTyped
<1>5. NotificationsTyped'
  BY <1>3, <1>4 DEF NoticeInv, NotificationsTyped
<1>6. tried'[n] = tried[n] \cup {s} /\ \A m \in Notice \ {n} : tried'[m] = tried[m]
  BY <1>1 DEF NoticeInv, NotificationsTyped
<1>7. heard \subseteq heard' /\ (s \in alive => <<s, n>> \in heard')
  BY <1>1
<1>8. PassedIsHeard'
  BY <1>3, <1>6, <1>7 DEF NoticeInv, PassedIsHeard
<1>9. DoneIsPassed'
  BY <1>3, <1>6 DEF NoticeInv, DoneIsPassed
<1>10. \A m \in Notice : stale'[m] \cap alive = {}
  BY <1>1 DEF NoticeInv, NotificationsTyped, StaleIsClosed
<1> QED BY <1>3, <1>5, <1>8, <1>9, <1>10 DEF NoticeInv, StaleIsClosed, OpenIsRegistered

LEMMA EndBroadcastKeeps ==
    ASSUME NoticeInv, NEW n \in Notice, EndBroadcast(n)
    PROVE  NoticeInv'
<1>1. stale[n] \in SUBSET Socket /\ stale[n] \cap alive = {}
  BY DEF NoticeInv, NotificationsTyped, StaleIsClosed
<1>2. /\ connections' = Disconnected(Reader[n], stale[n]) /\ alive' = alive
      /\ handler' = handler
  BY DEF EndBroadcast
<1>3. connections' \in [Readers -> SUBSET Socket] /\ OpenIsRegistered'
  BY <1>1, <1>2, OwnersAreReaders, DisconnectKeeps
<1>4. NotificationsTyped'
  BY <1>3 DEF EndBroadcast, NoticeInv, NotificationsTyped
<1>5. targets[n] \subseteq tried[n]
  BY DEF EndBroadcast, Remaining
<1>6. DoneIsPassed'
  BY <1>5 DEF EndBroadcast, NoticeInv, NotificationsTyped, DoneIsPassed
<1> QED BY <1>3, <1>4, <1>6 DEF EndBroadcast, NoticeInv, PassedIsHeard, StaleIsClosed

LEMMA NoticeStep ==
    ASSUME NoticeInv, [NotificationsNext]_noticeVars
    PROVE  NoticeInv'
<1>1. CASE \E s \in Socket : OpenStream(s) \/ Connect(s) \/ ClientLeaves(s) \/ EndStream(s)
  BY <1>1, OpenStreamKeeps, ConnectKeeps, LeaveKeeps, EndStreamKeeps
<1>2. CASE \E n \in Notice : CreateNotification(n) \/ MarkRead(n) \/ MarkUnread(n)
  BY <1>2, StoreKeeps
<1>3. CASE \E n \in Notice : StartBroadcast(n) \/ Send(n) \/ EndBroadcast(n)
  BY <1>3, StartBroadcastKeeps, SendKeeps, EndBroadcastKeeps
<1>4. CASE UNCHANGED noticeVars
  BY <1>4 DEF noticeVars, socketVars, NoticeInv, NotificationsTyped, PassedIsHeard, DoneIsPassed,
              StaleIsClosed, OpenIsRegistered
<1> QED BY <1>1, <1>2, <1>3, <1>4 DEF NotificationsNext

LEMMA NoticeInvariance == NotificationsSpec => []NoticeInv
<1>1. NotificationsInit => NoticeInv
  BY NoticesInitially
<1>2. NoticeInv /\ [NotificationsNext]_noticeVars => NoticeInv'
  BY NoticeStep
<1> QED BY <1>1, <1>2, PTL DEF NotificationsSpec

-------------------------------------------------------------------------------
\* Every variable keeps its type.
THEOREM NotificationsAreTyped == NotificationsSpec => []NotificationsTyped
<1>1. NoticeInv => NotificationsTyped
  BY DEF NoticeInv
<1> QED BY <1>1, NoticeInvariance, PTL

\* However many sockets and broadcasts there are, an open stream hears what is
\* broadcast to it and stays registered.
THEOREM OpenStreamsAreServed == NotificationsSpec => []OpenStreamsHear
<1>1. NoticeInv => OpenStreamsHear
  BY DEF NoticeInv, OpenStreamsHear, PassedIsHeard, DoneIsPassed, OpenIsRegistered
<1> QED BY <1>1, NoticeInvariance, PTL

-------------------------------------------------------------------------------
(* The three together.                                                        *)

\* No variable of files, tasks, profiles or notifications ever holds a value of
\* another kind, however many requests, jobs, sockets and broadcasts there are.
THEOREM OfficeIsWellTyped == OfficeSpec => []AllTyped
<1>1. OfficeInv => TypeOK
  BY OfficeIsTyped
<1>2. Spec => []TypeOK
  BY <1>1, OfficeInvariance, PTL
<1> QED BY <1>2, ProfilesAreTyped, NotificationsAreTyped, PTL DEF OfficeSpec, AllTyped
===============================================================================
