--------------------------- MODULE OrderStockProofs ---------------------------
(***************************************************************************)
(* What the row locks of ProductService guarantee for any number of        *)
(* products, orders and concurrent requests, on either isolation level;    *)
(* that a cancellation gives back exactly what the order took, on the      *)
(* default isolation level; and that requests that run one at a time make  *)
(* an atomic shop, in which no unit is lost or created.                    *)
(***************************************************************************)
EXTENDS OrderLedger, Sums, SequenceTheorems, TLAPS

-------------------------------------------------------------------------------
(* Types.  TypeOK needs the shape of the requests in progress: which lines   *)
(* a handler can be at, and which bodies only hold quantities.               *)

\* An order that exists has items.
OrdersHaveItems == \A o \in Order : order[o].status # "absent" => Len(order[o].lines) > 0

\* A request is inside its body until it flushes; a cart, the items of a
\* cancelled order and the body of a PUT hold no Unset.
JobShape ==
    \A s \in Session :
        /\ pc[s] \in {"load", "lock"} => at[s] \in 1..Len(job[s].lines)
        /\ job[s].kind \in {"create", "status", "put"} =>
              \A i \in 1..Len(job[s].lines) : job[s].lines[i].value \in Nat
        /\ job[s].kind = "create" =>
              job[s].lines \in Seq(Item) /\ Len(job[s].lines) > 0
        /\ job[s].kind = "status" =>
              /\ job[s].order \in Order /\ job[s].wanted \in Status
              /\ Len(order[job[s].order].lines) > 0

TypeInv == TypeOK /\ OrdersHaveItems /\ JobShape

LEMMA BlankTypes ==
    /\ BlankRows \in [Product -> Row]
    /\ NoOrder \in OrderRow /\ Len(NoOrder.lines) = 0
    /\ NoJob \in Job /\ NoJob.kind = "none" /\ NoJob.lines = <<>>
  <1>1. BlankRows \in [Product -> Row]
    BY DEF BlankRows, Blank, Row
  <1>2. <<>> \in Seq(Item) /\ <<>> \in Seq(Line) /\ Len(<<>>) = 0
    BY EmptySeq
  <1> QED
    BY <1>1, <1>2 DEF NoOrder, OrderRow, NoJob, ProductJob, Job, Kind

\* The line a handler is at is a line of its body.
LEMMA CurrentType ==
    ASSUME TypeInv, NEW s \in Session, pc[s] \in {"load", "lock"}
    PROVE  /\ Current(s) \in Line
           /\ Current(s).product \in Product
           /\ job[s].kind \in {"create", "status", "put"} => Current(s).value \in Nat
           /\ at[s] \in 1..Len(job[s].lines)
  <1>1. at[s] \in 1..Len(job[s].lines)
    BY DEF TypeInv, JobShape
  <1>2. job[s].lines \in Seq(Line)
    BY DEF TypeInv, TypeOK, Job
  <1>3. Current(s) \in Line
    BY <1>1, <1>2, ElementOfSeq DEF Current
  <1>4. Current(s).product \in Product
    BY <1>3 DEF Line
  <1>5. job[s].kind \in {"create", "status", "put"} => Current(s).value \in Nat
    BY <1>1 DEF TypeInv, JobShape, Current
  <1> QED
    BY <1>1, <1>3, <1>4, <1>5

LEMMA FetchedTypes ==
    ASSUME TypeOK, NEW s \in Session, NEW p \in Product
    PROVE  Fetched(s, p) \in Row /\ FetchedForUpdate(s, p) \in Row
  BY DEF TypeOK, Fetched, FetchedForUpdate

LEMMA CloseTypes ==
    ASSUME TypeInv, NEW s \in Session, Close(s),
           product' \in [Product -> Row], order' \in [Order -> OrderRow], OrdersHaveItems',
           \A o \in Order : Len(order[o].lines) > 0 => Len(order'[o].lines) > 0
    PROVE  TypeInv'
  <1>1. TypeOK'
    BY BlankTypes DEF TypeInv, TypeOK, Close
  <1>2. pc'[s] = "idle" /\ job'[s] = NoJob
    BY DEF TypeInv, TypeOK, Close
  <1>3. \A t \in Session \ {s} : pc'[t] = pc[t] /\ job'[t] = job[t] /\ at'[t] = at[t]
    BY DEF TypeInv, TypeOK, Close
  <1>4. JobShape'
    BY <1>2, <1>3, BlankTypes DEF TypeInv, JobShape
  <1> QED
    BY <1>1, <1>4 DEF TypeInv

LEMMA RollbackTypes ==
    ASSUME TypeInv, NEW s \in Session, Rollback(s) PROVE TypeInv'
  <1>1. Close(s) /\ product' = product /\ order' = order
    BY DEF Rollback, db
  <1> QED
    BY <1>1, CloseTypes DEF TypeInv, TypeOK, OrdersHaveItems

\* A request begins with a body of the right shape.
LEMMA BeginTypes ==
    ASSUME TypeInv, NEW s \in Session, NEW j \in Job, NEW step \in {"load", "lock", "flush"},
           Begin(s, j, step),
           step # "flush" => Len(j.lines) > 0,
           j.kind \in {"create", "status", "put"} =>
               \A i \in 1..Len(j.lines) : j.lines[i].value \in Nat,
           j.kind = "create" => j.lines \in Seq(Item) /\ Len(j.lines) > 0,
           j.kind = "status" => /\ j.order \in Order /\ j.wanted \in Status
                                /\ Len(order[j.order].lines) > 0
    PROVE  TypeInv'
  <1>1. TypeOK'
    BY DEF TypeInv, TypeOK, Begin, db, identityMap
  <1>2. pc'[s] = step /\ job'[s] = j /\ at'[s] = 1
    BY DEF TypeInv, TypeOK, Begin
  <1>3. \A t \in Session \ {s} : pc'[t] = pc[t] /\ job'[t] = job[t] /\ at'[t] = at[t]
    BY DEF TypeInv, TypeOK, Begin
  <1>4. j.lines \in Seq(Line)
    BY DEF Job
  <1>5. Len(j.lines) \in Nat
    BY <1>4, LenProperties
  <1>6. JobShape'
    <2>1. order' = order
      BY DEF Begin, db
    <2> QED
      BY <1>2, <1>3, <1>5, <2>1 DEF TypeInv, JobShape
  <1>7. OrdersHaveItems'
    BY DEF TypeInv, OrdersHaveItems, Begin, db
  <1> QED
    BY <1>1, <1>6, <1>7 DEF TypeInv

LEMMA RememberTypes ==
    ASSUME TypeInv, NEW s \in Session, NEW p \in Product, NEW row \in Row, NEW new \in Row,
           Remember(s, p, row, new)
    PROVE  /\ known' \in [Session -> SUBSET Product]
           /\ loaded' \in [Session -> [Product -> Row]]
           /\ now' \in [Session -> [Product -> Row]]
  BY DEF TypeInv, TypeOK, Remember

LEMMA LockTypes ==
    ASSUME TypeInv, NEW s \in Session, NEW p \in Product, Lock(s, p)
    PROVE  rowLock' \in [Product -> Session \cup {None}]
  BY DEF TypeInv, TypeOK, Lock

\* The loop of a handler goes on with the next line.
LEMMA NextLineTypes ==
    ASSUME TypeInv, NEW s \in Session, pc[s] \in {"load", "lock"},
           NEW step \in {"load", "lock"}, NextLine(s, step),
           UNCHANGED <<product, order, view>>,
           rowLock' \in [Product -> Session \cup {None}],
           known' \in [Session -> SUBSET Product],
           loaded' \in [Session -> [Product -> Row]],
           now' \in [Session -> [Product -> Row]]
    PROVE  TypeInv'
  <1>1. at[s] \in 1..Len(job[s].lines) /\ Len(job[s].lines) \in Nat
    <2>1. job[s].lines \in Seq(Line)
      BY DEF TypeInv, TypeOK, Job
    <2> QED
      BY <2>1, CurrentType, LenProperties
  <1>2. /\ pc' = [pc EXCEPT ![s] = IF at[s] < Len(job[s].lines) THEN step ELSE "flush"]
        /\ at' = [at EXCEPT ![s] = @ + 1] /\ job' = job
    BY DEF NextLine
  <1>3. TypeOK'
    BY <1>2 DEF TypeInv, TypeOK
  <1>4. \A t \in Session \ {s} : pc'[t] = pc[t] /\ at'[t] = at[t]
    BY <1>2 DEF TypeInv, TypeOK
  <1>5. at'[s] = at[s] + 1 /\ pc'[s] = IF at[s] < Len(job[s].lines) THEN step ELSE "flush"
    BY <1>2 DEF TypeInv, TypeOK
  <1>6. pc'[s] \in {"load", "lock"} => at'[s] \in 1..Len(job[s].lines)
    BY <1>1, <1>5
  <1>7. JobShape'
    BY <1>2, <1>4, <1>6 DEF TypeInv, JobShape
  <1> QED
    BY <1>3, <1>7 DEF TypeInv, OrdersHaveItems

LEMMA ArriveTypes == ASSUME TypeInv, NEW s \in Session, Arrive(s) PROVE TypeInv'
  <1>1. CASE BeginCreate(s)
    <2>1. PICK cart \in Cart : Begin(s, ProductJob("create", cart), "load")
      BY <1>1 DEF BeginCreate
    <2>2. cart \in Seq(Item) /\ Len(cart) > 0
      BY OrderStockAssumption
    <2>3. cart \in Seq(Line) /\ \A i \in 1..Len(cart) : cart[i].value \in Nat
      <3>1. \A i \in 1..Len(cart) : cart[i] \in Item
        BY <2>2, ElementOfSeq
      <3>2. Item \subseteq Line
        BY DEF Item, Line
      <3> QED
        BY <2>2, <3>1, <3>2, SeqMonotonic DEF Item
    <2>4. ProductJob("create", cart) \in Job
      BY <2>3 DEF ProductJob, Job, Kind
    <2> QED
      BY <2>1, <2>2, <2>3, <2>4, BeginTypes DEF ProductJob
  <1>2. CASE BeginStatus(s)
    <2>1. PICK o \in Order, move \in StatusMove :
            LET releases == move[2] = "cancelled" /\ move[1] \in Reserving
            IN /\ order[o].status = move[1]
               /\ Begin(s, [kind |-> "status", order |-> o, seen |-> move[1],
                            wanted |-> move[2],
                            lines |-> IF releases THEN order[o].lines ELSE <<>>],
                        IF releases THEN "lock" ELSE "flush")
      BY <1>2 DEF BeginStatus
    <2> DEFINE releases == move[2] = "cancelled" /\ move[1] \in Reserving
               lines == IF releases THEN order[o].lines ELSE <<>>
               j == [kind |-> "status", order |-> o, seen |-> move[1], wanted |-> move[2],
                     lines |-> lines]
    <2>2. move[1] \in Status /\ move[2] \in Status
      BY OrderStockAssumption
    <2>3. order[o].lines \in Seq(Item) /\ Len(order[o].lines) > 0
      BY <2>1, <2>2 DEF TypeInv, TypeOK, OrderRow, OrdersHaveItems, Status
    <2>4. <<>> \in Seq(Item) /\ Len(<<>>) = 0
      BY EmptySeq
    <2>5. lines \in Seq(Item) /\ releases => Len(lines) > 0
      BY <2>3, <2>4
    <2>6. lines \in Seq(Item)
      BY <2>3, <2>4
    <2>7. lines \in Seq(Line) /\ \A i \in 1..Len(lines) : lines[i].value \in Nat
      <3>1. \A i \in 1..Len(lines) : lines[i] \in Item
        BY <2>6, ElementOfSeq
      <3>2. Item \subseteq Line
        BY DEF Item, Line
      <3> HIDE DEF lines
      <3> QED
        BY <2>6, <3>1, <3>2, SeqMonotonic DEF Item
    <2> HIDE DEF lines
    <2>8. j \in Job
      BY <2>2, <2>7 DEF Job, Kind
    <2>9. Begin(s, j, IF releases THEN "lock" ELSE "flush")
      BY <2>1 DEF lines
    <2> QED
      BY <2>2, <2>3, <2>5, <2>6, <2>7, <2>8, <2>9, BeginTypes
  <1>3. CASE BeginPatch(s)
    <2>1. PICK body \in Patch : Begin(s, ProductJob("patch", body), "lock")
      BY <1>3 DEF BeginPatch
    <2>2. body \in Seq(Line) /\ Len(body) > 0
      BY OrderStockAssumption
    <2>3. ProductJob("patch", body) \in Job
      BY <2>2 DEF ProductJob, Job, Kind
    <2> QED
      BY <2>1, <2>2, <2>3, BeginTypes DEF ProductJob
  <1>4. CASE BeginPut(s)
    <2>1. PICK body \in Put : Begin(s, ProductJob("put", <<body>>), "load")
      BY <1>4 DEF BeginPut
    <2>2. body \in Line /\ body.value \in Nat
      BY OrderStockAssumption DEF Line
    <2> DEFINE lines == <<body>>
    <2>3. lines \in Seq(Line) /\ Len(lines) > 0
      BY <2>2
    <2>4. \A i \in 1..Len(lines) : lines[i].value \in Nat
      BY <2>2
    <2> HIDE DEF lines
    <2>5. ProductJob("put", lines) \in Job
      BY <2>3 DEF ProductJob, Job, Kind
    <2>6. Begin(s, ProductJob("put", lines), "load")
      BY <2>1 DEF lines
    <2> QED
      BY <2>3, <2>4, <2>5, <2>6, BeginTypes DEF ProductJob
  <1>5. CASE BeginDelete(s)
    <2>1. PICK list \in DeleteList :
            Begin(s, ProductJob("delete", [i \in 1..Len(list) |->
                                            [product |-> list[i], value |-> Unset]]), "load")
      BY <1>5 DEF BeginDelete
    <2> DEFINE lines == [i \in 1..Len(list) |-> [product |-> list[i], value |-> Unset]]
    <2>2. list \in Seq(Product) /\ Len(list) > 0
      BY OrderStockAssumption
    <2>3. \A i \in 1..Len(list) : [product |-> list[i], value |-> Unset] \in Line
      BY <2>2, ElementOfSeq DEF Line
    <2>4. Len(list) \in Nat
      BY <2>2, LenProperties
    <2>5. lines \in [1..Len(list) -> Line]
      BY <2>3
    <2>6. lines \in Seq(Line) /\ Len(lines) = Len(list)
      BY <2>4, <2>5, SeqDef
    <2> HIDE DEF lines
    <2>7. ProductJob("delete", lines) \in Job
      BY <2>6 DEF ProductJob, Job, Kind
    <2>8. Begin(s, ProductJob("delete", lines), "load")
      BY <2>1 DEF lines
    <2> QED
      BY <2>2, <2>6, <2>7, <2>8, BeginTypes DEF ProductJob
  <1>6. CASE BeginRestore(s)
    <2>1. PICK p \in Restorable :
            Begin(s, ProductJob("restore", <<[product |-> p, value |-> Unset]>>), "load")
      BY <1>6 DEF BeginRestore
    <2>2. [product |-> p, value |-> Unset] \in Line
      BY OrderStockAssumption DEF Line
    <2> DEFINE lines == <<[product |-> p, value |-> Unset]>>
    <2>3. lines \in Seq(Line) /\ Len(lines) > 0
      BY <2>2
    <2> HIDE DEF lines
    <2>4. ProductJob("restore", lines) \in Job
      BY <2>3 DEF ProductJob, Job, Kind
    <2>5. Begin(s, ProductJob("restore", lines), "load")
      BY <2>1 DEF lines
    <2> QED
      BY <2>3, <2>4, <2>5, BeginTypes DEF ProductJob
  <1> QED
    BY <1>1, <1>2, <1>3, <1>4, <1>5, <1>6 DEF Arrive

\* One line of a body: the row that is read, what it is set to, the lock.
LEMMA HandleTypes == ASSUME TypeInv, NEW s \in Session, Handle(s) PROVE TypeInv'
  <1> DEFINE p == Current(s).product
             value == Current(s).value
             plain == Fetched(s, p)
             locked == FetchedForUpdate(s, p)
  <1>1. ASSUME pc[s] \in {"load", "lock"}
        PROVE  /\ p \in Product /\ value \in Nat \cup {Unset}
               /\ job[s].kind \in {"create", "status", "put"} => value \in Nat
               /\ plain \in Row /\ locked \in Row
    BY <1>1, CurrentType, FetchedTypes DEF TypeInv, Line
  <1>2. CASE LoadItem(s)
    <2>1. CASE Rollback(s)
      BY <2>1, RollbackTypes
    <2>2. CASE ~Rollback(s)
      <3>1. /\ pc[s] = "load" /\ Remember(s, p, plain, plain)
            /\ pc' = [pc EXCEPT ![s] = "lock"]
            /\ UNCHANGED <<product, order, rowLock, job, at, view>>
        BY <1>2, <2>2 DEF LoadItem, db
      <3>2. TypeOK'
        BY <1>1, <3>1, RememberTypes DEF TypeInv, TypeOK
      <3>3. JobShape'
        BY <3>1 DEF TypeInv, TypeOK, JobShape
      <3> QED
        BY <3>1, <3>2, <3>3 DEF TypeInv, OrdersHaveItems
    <2> QED
      BY <2>1, <2>2
  <1>3. CASE ReserveStock(s)
    <2>1. CASE Rollback(s)
      BY <2>1, RollbackTypes
    <2>2. CASE ~Rollback(s)
      <3>1. /\ pc[s] = "lock" /\ job[s].kind = "create" /\ Lock(s, p)
            /\ ~Insufficient(p, locked, value)
            /\ Remember(s, p, locked, [locked EXCEPT !.stock = @ - value])
            /\ NextLine(s, "load") /\ UNCHANGED <<product, order, view>>
        BY <1>3, <2>2 DEF ReserveStock, db
      <3>2. [locked EXCEPT !.stock = @ - value] \in Row
        BY <1>1, <3>1 DEF Row, Insufficient
      <3> QED
        BY <1>1, <3>1, <3>2, RememberTypes, LockTypes, NextLineTypes
    <2> QED
      BY <2>1, <2>2
  <1>4. CASE ReleaseStock(s)
    <2>1. /\ pc[s] = "lock" /\ job[s].kind = "status"
          /\ NextLine(s, "lock") /\ UNCHANGED <<product, order, view>>
      BY <1>4 DEF ReleaseStock, db
    <2>2. \/ (Lock(s, p) \/ UNCHANGED rowLock) /\ UNCHANGED <<known, loaded, now>>
          \/ Lock(s, p) /\ Remember(s, p, locked, [locked EXCEPT !.stock = @ + value])
      BY <1>4 DEF ReleaseStock, identityMap
    <2>3. rowLock' \in [Product -> Session \cup {None}]
      BY <1>1, <2>1, <2>2, LockTypes DEF TypeInv, TypeOK
    <2>4. [locked EXCEPT !.stock = @ + value] \in Row
      BY <1>1, <2>1 DEF Row
    <2>5. /\ known' \in [Session -> SUBSET Product]
          /\ loaded' \in [Session -> [Product -> Row]]
          /\ now' \in [Session -> [Product -> Row]]
      <3>1. CASE UNCHANGED <<known, loaded, now>>
        BY <3>1 DEF TypeInv, TypeOK
      <3>2. CASE Remember(s, p, locked, [locked EXCEPT !.stock = @ + value])
        BY <1>1, <2>1, <2>4, <3>2, RememberTypes
      <3> QED
        BY <2>2, <3>1, <3>2
    <2> QED
      BY <2>1, <2>3, <2>5, NextLineTypes
  <1>5. CASE PatchRow(s)
    <2>1. CASE Rollback(s)
      BY <2>1, RollbackTypes
    <2>2. CASE ~Rollback(s)
      <3> DEFINE new == [locked EXCEPT !.stock = IF value = Unset THEN @ ELSE value]
      <3>1. /\ pc[s] = "lock" /\ Lock(s, p) /\ Remember(s, p, locked, new)
            /\ NextLine(s, "lock") /\ UNCHANGED <<product, order, view>>
        BY <1>5, <2>2 DEF PatchRow, db
      <3>2. new \in Row
        BY <1>1, <3>1 DEF Row
      <3> HIDE DEF new
      <3> QED
        BY <1>1, <3>1, <3>2, RememberTypes, LockTypes, NextLineTypes
    <2> QED
      BY <2>1, <2>2
  <1>6. CASE ReplaceRow(s)
    <2>1. CASE Rollback(s)
      BY <2>1, RollbackTypes
    <2>2. CASE ~Rollback(s)
      <3>1. /\ pc[s] = "load" /\ job[s].kind = "put"
            /\ Remember(s, p, plain, [plain EXCEPT !.stock = value])
            /\ NextLine(s, "load") /\ UNCHANGED <<product, order, rowLock, view>>
        BY <1>6, <2>2 DEF ReplaceRow, db
      <3>2. [plain EXCEPT !.stock = value] \in Row
        BY <1>1, <3>1 DEF Row
      <3>3. rowLock' \in [Product -> Session \cup {None}]
        BY <3>1 DEF TypeInv, TypeOK
      <3> QED
        BY <1>1, <3>1, <3>2, <3>3, RememberTypes, NextLineTypes
    <2> QED
      BY <2>1, <2>2
  <1>7. CASE SoftDelete(s)
    <2>1. /\ pc[s] = "load" /\ NextLine(s, "load")
          /\ UNCHANGED <<product, order, rowLock, view>>
          /\ \/ UNCHANGED <<known, loaded, now>>
             \/ Remember(s, p, plain, [plain EXCEPT !.deleted = TRUE])
      BY <1>7 DEF SoftDelete, db, identityMap
    <2>2. [plain EXCEPT !.deleted = TRUE] \in Row
      BY <1>1, <2>1 DEF Row
    <2>3. /\ known' \in [Session -> SUBSET Product]
          /\ loaded' \in [Session -> [Product -> Row]]
          /\ now' \in [Session -> [Product -> Row]]
      BY <1>1, <2>1, <2>2, RememberTypes DEF TypeInv, TypeOK
    <2>4. rowLock' \in [Product -> Session \cup {None}]
      BY <2>1 DEF TypeInv, TypeOK
    <2> QED
      BY <2>1, <2>3, <2>4, NextLineTypes
  <1>8. CASE RestoreRow(s)
    <2>1. CASE Rollback(s)
      BY <2>1, RollbackTypes
    <2>2. CASE ~Rollback(s)
      <3>1. /\ pc[s] = "load" /\ Remember(s, p, plain, [plain EXCEPT !.deleted = FALSE])
            /\ NextLine(s, "load") /\ UNCHANGED <<product, order, rowLock, view>>
        BY <1>8, <2>2 DEF RestoreRow, db
      <3>2. [plain EXCEPT !.deleted = FALSE] \in Row
        BY <1>1, <3>1 DEF Row
      <3>3. rowLock' \in [Product -> Session \cup {None}]
        BY <3>1 DEF TypeInv, TypeOK
      <3> QED
        BY <1>1, <3>1, <3>2, <3>3, RememberTypes, NextLineTypes
    <2> QED
      BY <2>1, <2>2
  <1>9. CASE FlushRow(s)
    <2>1. PICK q \in ToFlush(s) : Lock(s, q)
      BY <1>9 DEF FlushRow, NextToFlush
    <2>2. q \in Product
      BY <2>1 DEF ToFlush, Dirty, TypeInv, TypeOK
    <2>3. UNCHANGED <<product, order, pc, job, at, view, known, loaded, now>>
      BY <1>9 DEF FlushRow, db, request, identityMap
    <2> QED
      BY <2>1, <2>2, <2>3, LockTypes DEF TypeInv, TypeOK, OrdersHaveItems, JobShape
  <1> QED
    BY <1>2, <1>3, <1>4, <1>5, <1>6, <1>7, <1>8, <1>9 DEF Handle

LEMMA CommitTypes == ASSUME TypeInv, NEW s \in Session, Commit(s) PROVE TypeInv'
  <1>1. product' \in [Product -> Row]
    <2>1. \A p \in Product : Written(s, p) \in Row
      BY DEF Written, TypeInv, TypeOK, Row
    <2> QED
      BY <2>1 DEF Commit, TypeInv, TypeOK
  <1>2. /\ order' \in [Order -> OrderRow] /\ OrdersHaveItems'
        /\ \A o \in Order : Len(order[o].lines) > 0 => Len(order'[o].lines) > 0
    <2>1. CASE job[s].kind = "create"
      <3>1. PICK o \in Unused :
              order' = [order EXCEPT ![o] = [status |-> "pending", lines |-> job[s].lines]]
        BY <2>1 DEF Commit, WriteOrder
      <3>2. job[s].lines \in Seq(Item) /\ Len(job[s].lines) > 0
        BY <2>1 DEF TypeInv, JobShape
      <3>3. [status |-> "pending", lines |-> job[s].lines] \in OrderRow
        BY <3>2 DEF OrderRow, Status
      <3> QED
        BY <3>1, <3>2, <3>3 DEF TypeInv, TypeOK, OrdersHaveItems
    <2>2. CASE job[s].kind = "status" /\ job[s].wanted # job[s].seen
      <3>1. order' = [order EXCEPT ![job[s].order].status = job[s].wanted]
        BY <2>2 DEF Commit, WriteOrder
      <3>2. job[s].order \in Order /\ job[s].wanted \in Status
        BY <2>2 DEF TypeInv, JobShape
      <3>3. order' \in [Order -> OrderRow]
        <4> DEFINE row == [order[job[s].order] EXCEPT !.status = job[s].wanted]
        <4>1. row \in OrderRow
          <5>1. order[job[s].order] \in OrderRow
            BY <3>2 DEF TypeInv, TypeOK
          <5> QED
            BY <3>2, <5>1 DEF OrderRow
        <4>2. order' = [order EXCEPT ![job[s].order] = row]
          BY <3>1
        <4> HIDE DEF row
        <4> QED
          BY <4>1, <4>2 DEF TypeInv, TypeOK
      <3>4. \A o \in Order : order'[o].lines = order[o].lines
        BY <3>1, <3>2 DEF TypeInv, TypeOK, OrderRow
      <3>5. \A o \in Order \ {job[s].order} : order'[o].status = order[o].status
        BY <3>1, <3>2 DEF TypeInv, TypeOK, OrderRow
      <3>6. Len(order[job[s].order].lines) > 0
        BY <2>2 DEF TypeInv, JobShape
      <3>7. OrdersHaveItems'
        BY <3>4, <3>5, <3>6 DEF TypeInv, OrdersHaveItems
      <3> QED
        BY <3>3, <3>4, <3>7
    <2>3. CASE ~(job[s].kind = "create") /\ ~(job[s].kind = "status" /\ job[s].wanted # job[s].seen)
      <3>1. order' = order
        BY <2>3 DEF Commit, WriteOrder
      <3> QED
        BY <3>1 DEF TypeInv, TypeOK, OrdersHaveItems
    <2> QED
      BY <2>1, <2>2, <2>3
  <1> QED
    BY <1>1, <1>2, CloseTypes DEF Commit

LEMMA TypeInvHolds == Spec => []TypeInv
  <1>1. Init => TypeInv
    <2> SUFFICES ASSUME Init PROVE TypeInv
      OBVIOUS
    <2>1. product \in [Product -> Row]
      BY OrderStockAssumption DEF Init, Row
    <2>2. order \in [Order -> OrderRow]
      BY BlankTypes DEF Init
    <2>3. /\ rowLock \in [Product -> Session \cup {None}]
          /\ pc \in [Session -> {"idle", "load", "lock", "flush"}]
          /\ at \in [Session -> Nat] /\ known \in [Session -> SUBSET Product]
      BY DEF Init
    <2>4. /\ job \in [Session -> Job] /\ view \in [Session -> [Product -> Row]]
          /\ loaded \in [Session -> [Product -> Row]]
          /\ now \in [Session -> [Product -> Row]]
      BY BlankTypes DEF Init
    <2>5. OrdersHaveItems
      BY DEF Init, OrdersHaveItems, NoOrder
    <2>6. JobShape
      BY BlankTypes DEF Init, JobShape
    <2> QED
      BY <2>1, <2>2, <2>3, <2>4, <2>5, <2>6 DEF TypeInv, TypeOK
  <1>2. TypeInv /\ [Next]_vars => TypeInv'
    <2>1. ASSUME TypeInv, UNCHANGED vars PROVE TypeInv'
      BY <2>1 DEF vars, db, request, identityMap, TypeInv, TypeOK, OrdersHaveItems, JobShape
    <2> QED
      BY <2>1, ArriveTypes, HandleTypes, CommitTypes, RollbackTypes
      DEF Next, Run, LockTimeout, WorkerDies
  <1> QED
    BY <1>1, <1>2, PTL DEF Spec

\* Every variable keeps its type; above all, no stock ever becomes negative,
\* not even when two orders read the same stock.
THEOREM TypeCorrect == Spec => []TypeOK
  BY TypeInvHolds, PTL DEF TypeInv

-------------------------------------------------------------------------------
(* What a request knows of the rows in its identity map.  The parts of the   *)
(* invariant speak of one request; a step of another one leaves them alone   *)
(* (Keeps), because it writes and unlocks only rows it has locked itself.    *)

IdleKnowsNothing(s) == pc[s] = "idle" => known[s] = {}

\* A row loaded by a locking read is locked and as committed.
FreshRows(s) ==
    job[s].kind \in {"status", "patch"} =>
        \A p \in known[s] : rowLock[p] = s /\ loaded[s][p] = product[p]

\* The products of the lines an order has reserved are locked and not deleted.
CartHeld(s) ==
    job[s].kind = "create" =>
        /\ \A i \in 1..Len(job[s].lines) : i < at[s] =>
              /\ rowLock[job[s].lines[i].product] = s
              /\ ~product[job[s].lines[i].product].deleted
        /\ pc[s] = "flush" => at[s] > Len(job[s].lines)

\* A column differs from the loaded one only if the request is about it.
NamesStock(s, p) ==
    \E i \in 1..Len(job[s].lines) :
        job[s].lines[i].product = p /\ job[s].lines[i].value # Unset
WritesExplained(s) ==
    \A p \in known[s] :
        /\ now[s][p].stock # loaded[s][p].stock => NamesStock(s, p)
        /\ now[s][p].deleted # loaded[s][p].deleted => job[s].kind \in {"delete", "restore"}

RequestInv(s) ==
    IdleKnowsNothing(s) /\ FreshRows(s) /\ CartHeld(s) /\ WritesExplained(s)

LockInv == TypeInv /\ \A s \in Session : RequestInv(s)

Keeps(s) ==
    /\ pc'[s] = pc[s] /\ job'[s] = job[s] /\ at'[s] = at[s]
    /\ known'[s] = known[s] /\ loaded'[s] = loaded[s] /\ now'[s] = now[s]
    /\ \A p \in Product : rowLock[p] = s => rowLock'[p] = s /\ product'[p] = product[p]

LEMMA KeptInv ==
    ASSUME TypeInv, NEW s \in Session, RequestInv(s), Keeps(s) PROVE RequestInv(s)'
  <1>1. /\ known[s] \subseteq Product /\ job[s].lines \in Seq(Line)
        /\ \A i \in 1..Len(job[s].lines) : job[s].lines[i].product \in Product
    <2>1. job[s].lines \in Seq(Line)
      BY DEF TypeInv, TypeOK, Job
    <2>2. \A i \in 1..Len(job[s].lines) : job[s].lines[i] \in Line
      BY <2>1, ElementOfSeq
    <2> QED
      BY <2>1, <2>2 DEF TypeInv, TypeOK, Line
  <1>2. IdleKnowsNothing(s)'
    BY DEF RequestInv, Keeps, IdleKnowsNothing
  <1>3. FreshRows(s)'
    BY <1>1 DEF RequestInv, Keeps, FreshRows
  <1>4. CartHeld(s)'
    BY <1>1 DEF RequestInv, Keeps, CartHeld
  <1>5. WritesExplained(s)'
    BY DEF RequestInv, Keeps, WritesExplained, NamesStock
  <1> QED
    BY <1>2, <1>3, <1>4, <1>5 DEF RequestInv

LEMMA LockKeeps ==
    ASSUME TypeInv, NEW t \in Session, NEW s \in Session \ {t}, NEW p \in Product,
           Lock(t, p), CanLock(t, p)
    PROVE  \A q \in Product : rowLock[q] = s => rowLock'[q] = s
  BY OrderStockAssumption DEF TypeInv, TypeOK, Lock, CanLock

LEMMA CloseKeeps ==
    ASSUME TypeInv, NEW t \in Session, NEW s \in Session \ {t}, Close(t),
           \A p \in Product : rowLock[p] = s => product'[p] = product[p]
    PROVE  Keeps(s)
  BY DEF TypeInv, TypeOK, Close, Keeps

LEMMA RollbackKeeps ==
    ASSUME TypeInv, NEW t \in Session, NEW s \in Session \ {t}, Rollback(t) PROVE Keeps(s)
  BY CloseKeeps DEF Rollback, db

LEMMA CommitKeeps ==
    ASSUME TypeInv, NEW t \in Session, NEW s \in Session \ {t}, Commit(t) PROVE Keeps(s)
  <1>1. \A p \in Dirty(t) : rowLock[p] = t
    BY DEF Commit, ToFlush
  <1>2. \A p \in Product : rowLock[p] = s => product'[p] = product[p]
    BY <1>1 DEF Commit
  <1> QED
    BY <1>2, CloseKeeps DEF Commit

LEMMA ArriveKeeps ==
    ASSUME TypeInv, NEW t \in Session, NEW s \in Session \ {t}, Arrive(t) PROVE Keeps(s)
  <1>1. \E j, step : Begin(t, j, step)
    BY DEF Arrive, BeginCreate, BeginStatus, BeginPatch, BeginPut, BeginDelete, BeginRestore
  <1> QED
    BY <1>1 DEF TypeInv, TypeOK, Begin, db, identityMap, Keeps

\* What every step of a handler has in common that does not roll back.
LEMMA HandleKeeps ==
    ASSUME TypeInv, NEW t \in Session, NEW s \in Session \ {t}, Handle(t) PROVE Keeps(s)
  <1> DEFINE p == Current(t).product
  <1>1. pc[t] \in {"load", "lock"} => p \in Product
    BY CurrentType
  <1>2. \A q, row, new : Remember(t, q, row, new) =>
            known'[s] = known[s] /\ loaded'[s] = loaded[s] /\ now'[s] = now[s]
    BY DEF TypeInv, TypeOK, Remember
  <1>3. \A step : NextLine(t, step) =>
            pc'[s] = pc[s] /\ job'[s] = job[s] /\ at'[s] = at[s]
    BY DEF TypeInv, TypeOK, NextLine
  <1>4. CASE LoadItem(t)
    BY <1>2, <1>4, RollbackKeeps DEF LoadItem, db, Keeps, TypeInv, TypeOK
  <1>5. CASE ReserveStock(t)
    BY <1>1, <1>2, <1>3, <1>5, RollbackKeeps, LockKeeps DEF ReserveStock, db, Keeps
  <1>6. CASE ReleaseStock(t)
    <2>1. product' = product /\ p \in Product /\ CanLock(t, p)
          /\ (Lock(t, p) \/ UNCHANGED rowLock)
      BY <1>1, <1>6 DEF ReleaseStock, db
    <2>2. \A q \in Product : rowLock[q] = s => rowLock'[q] = s
      BY <2>1, LockKeeps
    <2>3. pc'[s] = pc[s] /\ job'[s] = job[s] /\ at'[s] = at[s]
      BY <1>3, <1>6 DEF ReleaseStock
    <2>4. known'[s] = known[s] /\ loaded'[s] = loaded[s] /\ now'[s] = now[s]
      BY <1>2, <1>6 DEF ReleaseStock, identityMap
    <2> QED
      BY <2>1, <2>2, <2>3, <2>4 DEF Keeps
  <1>7. CASE PatchRow(t)
    BY <1>1, <1>2, <1>3, <1>7, RollbackKeeps, LockKeeps DEF PatchRow, db, Keeps
  <1>8. CASE ReplaceRow(t)
    BY <1>2, <1>3, <1>8, RollbackKeeps DEF ReplaceRow, db, Keeps
  <1>9. CASE SoftDelete(t)
    <2>1. product' = product /\ rowLock' = rowLock
      BY <1>9 DEF SoftDelete, db
    <2>2. pc'[s] = pc[s] /\ job'[s] = job[s] /\ at'[s] = at[s]
      BY <1>3, <1>9 DEF SoftDelete
    <2>3. known'[s] = known[s] /\ loaded'[s] = loaded[s] /\ now'[s] = now[s]
      BY <1>2, <1>9 DEF SoftDelete, identityMap
    <2> QED
      BY <2>1, <2>2, <2>3 DEF Keeps
  <1>10. CASE RestoreRow(t)
    BY <1>2, <1>3, <1>10, RollbackKeeps DEF RestoreRow, db, Keeps
  <1>11. CASE FlushRow(t)
    <2>1. PICK q \in ToFlush(t) : rowLock[q] = None /\ Lock(t, q)
      BY <1>11 DEF FlushRow, NextToFlush
    <2>2. q \in Product /\ CanLock(t, q)
      BY <2>1 DEF ToFlush, Dirty, TypeInv, TypeOK, CanLock
    <2>3. UNCHANGED <<product, pc, job, at, known, loaded, now>>
      BY <1>11 DEF FlushRow, db, request, identityMap
    <2> QED
      BY <2>1, <2>2, <2>3, LockKeeps DEF Keeps
  <1> QED
    BY <1>4, <1>5, <1>6, <1>7, <1>8, <1>9, <1>10, <1>11 DEF Handle

\* A request that ends, and one that begins, knows no row.
LEMMA CloseOwn ==
    ASSUME TypeInv, NEW s \in Session, Close(s) PROVE RequestInv(s)'
  <1>1. known'[s] = {} /\ job'[s] = NoJob
    BY DEF TypeInv, TypeOK, Close
  <1> QED
    BY <1>1, BlankTypes
    DEF RequestInv, IdleKnowsNothing, FreshRows, CartHeld, WritesExplained

LEMMA RollbackOwn ==
    ASSUME TypeInv, NEW s \in Session, Rollback(s) PROVE RequestInv(s)'
  BY CloseOwn DEF Rollback

LEMMA ArriveOwn ==
    ASSUME TypeInv, NEW s \in Session, RequestInv(s), Arrive(s) PROVE RequestInv(s)'
  <1>1. PICK j, step : /\ Begin(s, j, step) /\ step \in {"load", "lock", "flush"}
                       /\ j.kind = "create" => step # "flush"
    <2>1. CASE BeginStatus(s)
      BY <2>1 DEF BeginStatus
    <2>2. CASE BeginCreate(s)
      BY <2>2 DEF BeginCreate
    <2>3. CASE BeginPatch(s)
      BY <2>3 DEF BeginPatch, ProductJob
    <2>4. CASE BeginPut(s)
      BY <2>4 DEF BeginPut, ProductJob
    <2>5. CASE BeginDelete(s)
      <3>1. PICK lines : Begin(s, ProductJob("delete", lines), "load")
        BY <2>5 DEF BeginDelete
      <3> QED
        BY <3>1 DEF ProductJob
    <2>6. CASE BeginRestore(s)
      BY <2>6 DEF BeginRestore, ProductJob
    <2> QED
      BY <2>1, <2>2, <2>3, <2>4, <2>5, <2>6 DEF Arrive
  <1>2. pc'[s] = step /\ job'[s] = j /\ at'[s] = 1 /\ known'[s] = {}
    BY <1>1 DEF TypeInv, TypeOK, Begin, identityMap, RequestInv, IdleKnowsNothing
  <1> QED
    BY <1>1, <1>2
    DEF RequestInv, IdleKnowsNothing, FreshRows, CartHeld, WritesExplained

LEMMA RememberedRows ==
    ASSUME TypeInv, NEW s \in Session, NEW p \in Product, NEW row \in Row, NEW new \in Row,
           Remember(s, p, row, new)
    PROVE  /\ known'[s] = known[s] \cup {p} /\ now'[s][p] = new
           /\ loaded'[s][p] = IF p \in known[s] THEN loaded[s][p] ELSE row
           /\ \A q \in Product \ {p} :
                 loaded'[s][q] = loaded[s][q] /\ now'[s][q] = now[s][q]
  BY DEF TypeInv, TypeOK, Remember

\* A row fetched by a locking read, and locked, stays fresh.
LEMMA FreshAfterLock ==
    ASSUME TypeInv, NEW s \in Session, NEW p \in Product, NEW new \in Row,
           FreshRows(s), job[s].kind \in {"status", "patch"},
           Lock(s, p), Remember(s, p, FetchedForUpdate(s, p), new),
           product' = product, job' = job
    PROVE  FreshRows(s)'
  <1>1. FetchedForUpdate(s, p) \in Row /\ known[s] \subseteq Product
    BY FetchedTypes DEF TypeInv, TypeOK
  <1>2. rowLock'[p] = s /\ \A q \in Product \ {p} : rowLock'[q] = rowLock[q]
    BY DEF Lock, TypeInv, TypeOK
  <1>3. p \notin known[s] => FetchedForUpdate(s, p) = product[p]
    BY DEF FetchedForUpdate
  <1> QED
    BY <1>1, <1>2, <1>3, RememberedRows DEF FreshRows

\* The object that is remembered as new was row: it changes what the request
\* is about, if anything.
LEMMA ExplainedAfterRemember ==
    ASSUME TypeInv, NEW s \in Session, NEW p \in Product, NEW row \in Row, NEW new \in Row,
           WritesExplained(s), Remember(s, p, row, new), job' = job,
           p \in known[s] => row = now[s][p],
           new.stock # row.stock => NamesStock(s, p),
           new.deleted # row.deleted => job[s].kind \in {"delete", "restore"}
    PROVE  WritesExplained(s)'
  <1>1. known[s] \subseteq Product
    BY DEF TypeInv, TypeOK
  <1>2. \A q : NamesStock(s, q)' <=> NamesStock(s, q)
    BY DEF NamesStock
  <1>3. \A q \in known[s] \ {p} :
           /\ now'[s][q].stock # loaded'[s][q].stock => NamesStock(s, q)
           /\ now'[s][q].deleted # loaded'[s][q].deleted => job[s].kind \in {"delete", "restore"}
    BY <1>1, RememberedRows DEF WritesExplained
  <1>4. /\ now'[s][p].stock # loaded'[s][p].stock => NamesStock(s, p)
        /\ now'[s][p].deleted # loaded'[s][p].deleted => job[s].kind \in {"delete", "restore"}
    <2>1. CASE p \in known[s]
      BY <2>1, RememberedRows DEF WritesExplained
    <2>2. CASE p \notin known[s]
      BY <2>2, RememberedRows
    <2> QED
      BY <2>1, <2>2
  <1> QED
    BY <1>2, <1>3, <1>4, RememberedRows DEF WritesExplained

LEMMA NextLineOwn ==
    ASSUME TypeInv, NEW s \in Session, NEW step \in {"load", "lock"},
           NextLine(s, step), pc[s] \in {"load", "lock"}
    PROVE  /\ at'[s] = at[s] + 1 /\ job' = job /\ IdleKnowsNothing(s)'
           /\ pc'[s] = "flush" => at[s] = Len(job[s].lines)
  <1>1. at[s] \in 1..Len(job[s].lines) /\ Len(job[s].lines) \in Nat
    <2>1. job[s].lines \in Seq(Line)
      BY DEF TypeInv, TypeOK, Job
    <2> QED
      BY <2>1, CurrentType, LenProperties
  <1> QED
    BY <1>1 DEF TypeInv, TypeOK, NextLine, IdleKnowsNothing

LEMMA HandleOwn ==
    ASSUME TypeInv, NEW s \in Session, RequestInv(s), Handle(s) PROVE RequestInv(s)'
  <1> DEFINE p == Current(s).product
             value == Current(s).value
             plain == Fetched(s, p)
             locked == FetchedForUpdate(s, p)
  <1>1. ASSUME pc[s] \in {"load", "lock"}
        PROVE  /\ p \in Product /\ value \in Nat \cup {Unset}
               /\ job[s].kind \in {"create", "status", "put"} => value \in Nat
               /\ plain \in Row /\ locked \in Row
               /\ at[s] \in 1..Len(job[s].lines)
               /\ value # Unset => NamesStock(s, p)
    <2>1. at[s] \in 1..Len(job[s].lines) /\ job[s].lines[at[s]] = Current(s)
      BY <1>1, CurrentType DEF Current
    <2> QED
      BY <1>1, <2>1, CurrentType, FetchedTypes DEF TypeInv, Line, NamesStock
  <1>2. p \in known[s] => plain = now[s][p] /\ locked = now[s][p]
    BY DEF Fetched, FetchedForUpdate
  <1>3. \A n \in Nat : n # Unset
    BY DEF Unset
  <1> HIDE DEF p, value, plain, locked
  <1>4. CASE LoadItem(s) /\ ~Rollback(s)
    <2>1. /\ pc[s] = "load" /\ job[s].kind = "create" /\ Remember(s, p, plain, plain)
          /\ pc' = [pc EXCEPT ![s] = "lock"]
          /\ UNCHANGED <<product, rowLock, job, at>>
      BY <1>4 DEF LoadItem, db, p, plain
    <2>2. pc'[s] = "lock"
      BY <2>1 DEF TypeInv, TypeOK
    <2>3. WritesExplained(s)'
      BY <1>1, <1>2, <2>1, ExplainedAfterRemember DEF RequestInv
    <2> QED
      BY <2>1, <2>2, <2>3
      DEF RequestInv, IdleKnowsNothing, FreshRows, CartHeld
  <1>5. CASE ReserveStock(s) /\ ~Rollback(s)
    <2> DEFINE new == [locked EXCEPT !.stock = @ - value]
    <2>1. /\ pc[s] = "lock" /\ job[s].kind = "create" /\ Lock(s, p)
          /\ ~Insufficient(p, locked, value) /\ Remember(s, p, locked, new)
          /\ NextLine(s, "load") /\ product' = product
      BY <1>5 DEF ReserveStock, db, p, locked, value
    <2>2. new \in Row /\ new.deleted = locked.deleted
      BY <1>1, <2>1 DEF Row, Insufficient
    <2> HIDE DEF new
    <2>3. /\ at'[s] = at[s] + 1 /\ job' = job /\ IdleKnowsNothing(s)'
          /\ pc'[s] = "flush" => at[s] = Len(job[s].lines)
      BY <2>1, NextLineOwn
    <2>4. WritesExplained(s)'
      BY <1>1, <1>2, <1>3, <2>1, <2>2, <2>3, ExplainedAfterRemember DEF RequestInv
    <2>5. FreshRows(s)'
      BY <2>1, <2>3 DEF FreshRows
    <2>6. CartHeld(s)'
      <3>1. rowLock'[p] = s /\ ~product[p].deleted
        BY <1>1, <2>1 DEF Lock, Insufficient, TypeInv, TypeOK
      <3>2. \A q : rowLock[q] = s => rowLock'[q] = s
        BY <2>1 DEF Lock, TypeInv, TypeOK
      <3>3. job[s].lines[at[s]].product = p
        BY DEF p, Current
      <3>4. \A i \in 1..Len(job[s].lines) : i < at'[s] => i < at[s] \/ i = at[s]
        BY <1>1, <2>1, <2>3
      <3>5. \A i \in 1..Len(job[s].lines) : i < at'[s] =>
               rowLock'[job[s].lines[i].product] = s /\ ~product[job[s].lines[i].product].deleted
        BY <2>1, <3>1, <3>2, <3>3, <3>4 DEF RequestInv, CartHeld
      <3>6. pc'[s] = "flush" => at'[s] > Len(job[s].lines)
        BY <1>1, <2>1, <2>3
      <3> QED
        BY <2>1, <2>3, <3>5, <3>6 DEF CartHeld
    <2> QED
      BY <2>3, <2>4, <2>5, <2>6 DEF RequestInv
  <1>6. CASE ReleaseStock(s)
    <2> DEFINE new == [locked EXCEPT !.stock = @ + value]
    <2>1. /\ pc[s] = "lock" /\ job[s].kind = "status"
          /\ NextLine(s, "lock") /\ product' = product
          /\ \/ (Lock(s, p) \/ UNCHANGED rowLock) /\ UNCHANGED <<known, loaded, now>>
             \/ Lock(s, p) /\ Remember(s, p, locked, new)
      BY <1>6 DEF ReleaseStock, db, identityMap, p, locked, value
    <2>2. new \in Row /\ new.deleted = locked.deleted
      BY <1>1, <2>1 DEF Row
    <2> HIDE DEF new
    <2>3. job' = job /\ IdleKnowsNothing(s)' /\ CartHeld(s)'
      BY <2>1, NextLineOwn DEF CartHeld
    <2>4. CASE UNCHANGED <<known, loaded, now>>
      <3>1. \A q \in Product : rowLock[q] = s => rowLock'[q] = s
        BY <2>1 DEF Lock, TypeInv, TypeOK
      <3>2. known[s] \subseteq Product
        BY DEF TypeInv, TypeOK
      <3>3. FreshRows(s)' /\ WritesExplained(s)'
        BY <2>1, <2>3, <2>4, <3>1, <3>2
        DEF RequestInv, FreshRows, WritesExplained, NamesStock
      <3> QED
        BY <2>3, <3>3 DEF RequestInv
    <2>5. CASE Lock(s, p) /\ Remember(s, p, locked, new)
      <3>1. FreshRows(s)'
        BY <1>1, <2>1, <2>2, <2>3, <2>5, FreshAfterLock DEF RequestInv, locked
      <3>2. WritesExplained(s)'
        BY <1>1, <1>2, <1>3, <2>1, <2>2, <2>3, <2>5, ExplainedAfterRemember DEF RequestInv
      <3> QED
        BY <2>3, <3>1, <3>2 DEF RequestInv
    <2> QED
      BY <2>1, <2>4, <2>5
  <1>7. CASE PatchRow(s) /\ ~Rollback(s)
    <2> DEFINE new == [locked EXCEPT !.stock = IF value = Unset THEN @ ELSE value]
    <2>1. /\ pc[s] = "lock" /\ job[s].kind = "patch" /\ Lock(s, p)
          /\ Remember(s, p, locked, new)
          /\ NextLine(s, "lock") /\ product' = product
      BY <1>7 DEF PatchRow, db, p, locked, value
    <2>2. /\ new \in Row /\ new.deleted = locked.deleted
          /\ new.stock # locked.stock => NamesStock(s, p)
      BY <1>1, <2>1 DEF Row
    <2> HIDE DEF new
    <2>3. job' = job /\ IdleKnowsNothing(s)' /\ CartHeld(s)'
      BY <2>1, NextLineOwn DEF CartHeld
    <2>4. FreshRows(s)'
      BY <1>1, <2>1, <2>2, <2>3, FreshAfterLock DEF RequestInv, locked
    <2>5. WritesExplained(s)'
      BY <1>1, <1>2, <2>1, <2>2, <2>3, ExplainedAfterRemember DEF RequestInv
    <2> QED
      BY <2>3, <2>4, <2>5 DEF RequestInv
  <1>8. CASE ReplaceRow(s) /\ ~Rollback(s)
    <2> DEFINE new == [plain EXCEPT !.stock = value]
    <2>1. /\ pc[s] = "load" /\ job[s].kind = "put" /\ Remember(s, p, plain, new)
          /\ NextLine(s, "load")
      BY <1>8 DEF ReplaceRow, p, plain, value
    <2>2. new \in Row /\ new.deleted = plain.deleted
      BY <1>1, <2>1 DEF Row
    <2> HIDE DEF new
    <2>3. job' = job /\ IdleKnowsNothing(s)' /\ CartHeld(s)' /\ FreshRows(s)'
      BY <2>1, NextLineOwn DEF CartHeld, FreshRows
    <2>4. WritesExplained(s)'
      BY <1>1, <1>2, <1>3, <2>1, <2>2, <2>3, ExplainedAfterRemember DEF RequestInv
    <2> QED
      BY <2>3, <2>4 DEF RequestInv
  <1>9. CASE SoftDelete(s)
    <2> DEFINE new == [plain EXCEPT !.deleted = TRUE]
    <2>1. /\ pc[s] = "load" /\ job[s].kind = "delete" /\ NextLine(s, "load")
          /\ UNCHANGED <<known, loaded, now>> \/ Remember(s, p, plain, new)
      BY <1>9 DEF SoftDelete, identityMap, p, plain
    <2>2. new \in Row /\ new.stock = plain.stock
      BY <1>1, <2>1 DEF Row
    <2> HIDE DEF new
    <2>3. job' = job /\ IdleKnowsNothing(s)' /\ CartHeld(s)' /\ FreshRows(s)'
      BY <2>1, NextLineOwn DEF CartHeld, FreshRows
    <2>4. CASE UNCHANGED <<known, loaded, now>>
      BY <2>3, <2>4 DEF RequestInv, WritesExplained, NamesStock
    <2>5. CASE Remember(s, p, plain, new)
      <3>1. WritesExplained(s)'
        BY <1>1, <1>2, <2>1, <2>2, <2>3, <2>5, ExplainedAfterRemember DEF RequestInv
      <3> QED
        BY <2>3, <3>1 DEF RequestInv
    <2> QED
      BY <2>1, <2>4, <2>5
  <1>10. CASE RestoreRow(s) /\ ~Rollback(s)
    <2> DEFINE new == [plain EXCEPT !.deleted = FALSE]
    <2>1. /\ pc[s] = "load" /\ job[s].kind = "restore" /\ Remember(s, p, plain, new)
          /\ NextLine(s, "load")
      BY <1>10 DEF RestoreRow, p, plain
    <2>2. new \in Row /\ new.stock = plain.stock
      BY <1>1, <2>1 DEF Row
    <2> HIDE DEF new
    <2>3. job' = job /\ IdleKnowsNothing(s)' /\ CartHeld(s)' /\ FreshRows(s)'
      BY <2>1, NextLineOwn DEF CartHeld, FreshRows
    <2>4. WritesExplained(s)'
      BY <1>1, <1>2, <2>1, <2>2, <2>3, ExplainedAfterRemember DEF RequestInv
    <2> QED
      BY <2>3, <2>4 DEF RequestInv
  <1>11. CASE FlushRow(s)
    <2>1. PICK q \in ToFlush(s) : Lock(s, q)
      BY <1>11 DEF FlushRow, NextToFlush
    <2>2. \A r \in Product : rowLock[r] = s => rowLock'[r] = s
      BY <2>1 DEF Lock, TypeInv, TypeOK
    <2>3. Keeps(s)
      BY <1>11, <2>2 DEF FlushRow, db, request, identityMap, Keeps
    <2> QED
      BY <2>3, KeptInv
  <1> QED
    BY <1>4, <1>5, <1>6, <1>7, <1>8, <1>9, <1>10, <1>11, RollbackOwn DEF Handle

LEMMA LockInvHolds == Spec => []LockInv
  <1>1. Init /\ TypeInv => LockInv
    <2> SUFFICES ASSUME Init, NEW s \in Session PROVE RequestInv(s)
      BY DEF LockInv
    <2>1. known[s] = {} /\ job[s] = NoJob
      BY DEF Init
    <2> QED
      BY <2>1, BlankTypes
      DEF RequestInv, IdleKnowsNothing, FreshRows, CartHeld, WritesExplained
  <1>2. LockInv /\ TypeInv' /\ [Next]_vars => LockInv'
    <2> SUFFICES ASSUME LockInv, [Next]_vars, NEW s \in Session PROVE RequestInv(s)'
      BY DEF LockInv
    <2>1. TypeInv /\ RequestInv(s)
      BY DEF LockInv
    <2>2. CASE UNCHANGED vars
      BY <2>1, <2>2, KeptInv DEF vars, db, request, identityMap, Keeps
    <2>3. CASE Arrive(s) \/ Run(s) \/ WorkerDies(s)
      <3>1. CASE Arrive(s)
        BY <2>1, <3>1, ArriveOwn
      <3>2. CASE Handle(s)
        BY <2>1, <3>2, HandleOwn
      <3>3. CASE Commit(s) \/ Rollback(s)
        BY <2>1, <3>3, CloseOwn DEF Commit, Rollback
      <3> QED
        BY <2>3, <3>1, <3>2, <3>3 DEF Run, LockTimeout, WorkerDies
    <2>4. ASSUME NEW t \in Session \ {s}, Arrive(t) \/ Run(t) \/ WorkerDies(t)
          PROVE  RequestInv(s)'
      <3>1. Keeps(s)
        BY <2>1, <2>4, ArriveKeeps, HandleKeeps, CommitKeeps, RollbackKeeps
        DEF Run, LockTimeout, WorkerDies
      <3> QED
        BY <2>1, <3>1, KeptInv
    <2> QED
      BY <2>2, <2>3, <2>4 DEF Next
  <1> QED
    BY <1>1, <1>2, TypeInvHolds, PTL DEF Spec

\* Whatever a cancellation or a PATCH computes from a row it loaded under
\* FOR UPDATE, it computes from the row as it is when the request commits.
THEOREM LockedReadsAreFresh == Spec => []LockedReadsStayFresh
  <1>1. LockInv => LockedReadsStayFresh
    BY DEF LockInv, RequestInv, FreshRows, LockedReadsStayFresh
  <1> QED
    BY <1>1, LockInvHolds, PTL

\* No order is committed for a product that is deleted at that moment.
THEOREM SoldProductsAreLive == Spec => OnlyLiveProductsSold
  <1> DEFINE Live(s) == Commit(s) /\ job[s].kind = "create" =>
                 \A i \in DOMAIN job[s].lines : ~product[job[s].lines[i].product].deleted
  <1>1. ASSUME LockInv, NEW s \in Session PROVE Live(s)
    <2> SUFFICES ASSUME Commit(s), job[s].kind = "create", NEW i \in DOMAIN job[s].lines
                 PROVE  ~product[job[s].lines[i].product].deleted
      OBVIOUS
    <2>1. job[s].lines \in Seq(Line)
      BY <1>1 DEF LockInv, TypeInv, TypeOK, Job
    <2>2. i \in 1..Len(job[s].lines) /\ Len(job[s].lines) \in Nat
      BY <2>1, LenProperties
    <2>3. at[s] > Len(job[s].lines) /\ at[s] \in Nat
      BY <1>1 DEF LockInv, TypeInv, TypeOK, RequestInv, CartHeld, Commit
    <2>4. i < at[s]
      BY <2>2, <2>3
    <2> QED
      BY <1>1, <2>2, <2>4 DEF LockInv, RequestInv, CartHeld
  <1>2. LockInv => \A s \in Session : Live(s)
    BY <1>1
  <1>3. LockInv => [\A s \in Session : Live(s)]_vars
    BY <1>2
  <1> QED
    BY <1>3, LockInvHolds, PTL DEF OnlyLiveProductsSold

\* A commit moves a stock only in a request that names it, and is_deleted
\* only in a deletion or a restoration.
THEOREM WritesAreOwnColumns == Spec => NoCollateralWrites
  <1> DEFINE Own(s) == Commit(s) =>
          \A p \in Product :
             /\ product'[p].stock # product[p].stock =>
                   \E i \in DOMAIN job[s].lines :
                       job[s].lines[i].product = p /\ job[s].lines[i].value # Unset
             /\ product'[p].deleted # product[p].deleted =>
                   job[s].kind \in {"delete", "restore"}
  <1>1. ASSUME LockInv, NEW s \in Session PROVE Own(s)
    <2> SUFFICES ASSUME Commit(s), NEW p \in Product, product'[p] # product[p]
                 PROVE  /\ product'[p].stock # product[p].stock => NamesStock(s, p)
                        /\ product'[p].deleted # product[p].deleted =>
                              job[s].kind \in {"delete", "restore"}
      <3>1. job[s].lines \in Seq(Line)
        BY <1>1 DEF LockInv, TypeInv, TypeOK, Job
      <3>2. DOMAIN job[s].lines = 1..Len(job[s].lines)
        BY <3>1, LenProperties
      <3> QED
        BY <3>2 DEF NamesStock
    <2>1. p \in Dirty(s) /\ product'[p] = Written(s, p)
      BY DEF Commit
    <2>2. p \in known[s]
      BY <2>1 DEF Dirty
    <2>3. /\ product'[p].stock # product[p].stock => now[s][p].stock # loaded[s][p].stock
          /\ product'[p].deleted # product[p].deleted =>
                now[s][p].deleted # loaded[s][p].deleted
      BY <2>1 DEF Written
    <2> QED
      BY <1>1, <2>2, <2>3 DEF LockInv, RequestInv, WritesExplained
  <1>2. LockInv => \A s \in Session : Own(s)
    BY <1>1
  <1>3. LockInv => [\A s \in Session : Own(s)]_vars
    BY <1>2
  <1> QED
    BY <1>3, LockInvHolds, PTL DEF NoCollateralWrites
-------------------------------------------------------------------------------
(* Requests that lock rows only when they commit take them in the order of   *)
(* their primary keys, and requests that lock rows before have nothing left  *)
(* to lock when they commit: so no two commits wait for each other.          *)

AllLocked ==
    \A s \in Session :
        pc[s] = "flush" /\ job[s].kind \in {"create", "status", "patch"} => ToFlush(s) = {}

\* PUT, deletions and restore lock nothing before they commit.
NoEarlyLocks(s) ==
    pc[s] = "idle" \/ (pc[s] = "load" /\ job[s].kind # "create") =>
        \A p \in Product : rowLock[p] # s

FlushInOrder(s) ==
    pc[s] = "flush" => \A p \in Product, q \in ToFlush(s) : rowLock[p] = s => p < q

LocksInOrder == \A s \in Session : NoEarlyLocks(s) /\ FlushInOrder(s)

LEMMA ReservedRowsAreLocked == LockInv => AllLocked
  <1> SUFFICES ASSUME LockInv, NEW s \in Session, pc[s] = "flush",
                      job[s].kind \in {"create", "status", "patch"}, NEW p \in Dirty(s)
               PROVE  rowLock[p] = s
    BY DEF AllLocked, ToFlush
  <1>1. p \in known[s] /\ now[s][p] # loaded[s][p]
    BY DEF Dirty
  <1>2. CASE job[s].kind \in {"status", "patch"}
    BY <1>1, <1>2 DEF LockInv, RequestInv, FreshRows
  <1>3. CASE job[s].kind = "create"
    <2>1. now[s][p] \in Row /\ loaded[s][p] \in Row
      BY <1>1 DEF LockInv, TypeInv, TypeOK
    <2>2. now[s][p].stock # loaded[s][p].stock
      BY <1>1, <1>3, <2>1 DEF LockInv, RequestInv, WritesExplained, Row
    <2>3. PICK i \in 1..Len(job[s].lines) : job[s].lines[i].product = p
      BY <1>1, <2>2 DEF LockInv, RequestInv, WritesExplained, NamesStock
    <2>4. at[s] > Len(job[s].lines) /\ at[s] \in Nat /\ Len(job[s].lines) \in Nat
      BY <1>3, LenProperties DEF LockInv, TypeInv, TypeOK, Job, RequestInv, CartHeld
    <2>5. i < at[s]
      BY <2>4
    <2> QED
      BY <1>3, <2>3, <2>5 DEF LockInv, RequestInv, CartHeld
  <1> QED
    BY <1>2, <1>3

\* No step gives a lock to another request.
LEMMA LocksAreOwn ==
    ASSUME TypeInv, NEW t \in Session, NEW s \in Session \ {t},
           Arrive(t) \/ Run(t) \/ WorkerDies(t)
    PROVE  \A p \in Product : rowLock'[p] = s => rowLock[p] = s
  <1>1. CASE UNCHANGED rowLock
    BY <1>1
  <1>2. CASE Close(t)
    BY <1>2, OrderStockAssumption DEF Close
  <1>3. CASE \E p : Lock(t, p)
    BY <1>3 DEF Lock, TypeInv, TypeOK
  <1>4. Arrive(t) => UNCHANGED rowLock
    BY DEF Arrive, BeginCreate, BeginStatus, BeginPatch, BeginPut, BeginDelete, BeginRestore, Begin
  <1>5. LoadItem(t) \/ ReplaceRow(t) \/ SoftDelete(t) \/ RestoreRow(t) =>
            UNCHANGED rowLock \/ Close(t)
    BY DEF LoadItem, ReplaceRow, SoftDelete, RestoreRow, Rollback
  <1>6. ReserveStock(t) \/ ReleaseStock(t) \/ PatchRow(t) \/ FlushRow(t) =>
            UNCHANGED rowLock \/ Close(t) \/ \E p : Lock(t, p)
    BY DEF ReserveStock, ReleaseStock, PatchRow, FlushRow, Rollback
  <1>7. Commit(t) \/ LockTimeout(t) \/ WorkerDies(t) => Close(t)
    BY DEF Commit, LockTimeout, WorkerDies, Rollback
  <1> QED
    BY <1>1, <1>2, <1>3, <1>4, <1>5, <1>6, <1>7 DEF Run, Handle

\* A step of a request that is not its flush.
LEMMA NoEarlyLocksKept ==
    ASSUME TypeInv, NEW s \in Session, NoEarlyLocks(s), AllLocked',
           Arrive(s) \/ Run(s) \/ WorkerDies(s), ~FlushRow(s)
    PROVE  NoEarlyLocks(s)' /\ FlushInOrder(s)'
  <1>1. CASE Close(s)
    <2>1. pc'[s] = "idle" /\ \A p \in Product : rowLock'[p] # s
      BY <1>1, OrderStockAssumption DEF Close, TypeInv, TypeOK
    <2> QED
      BY <2>1 DEF NoEarlyLocks, FlushInOrder
  <1>2. CASE Arrive(s) \/ ReplaceRow(s) \/ SoftDelete(s) \/ RestoreRow(s)
    <2>1. CASE Rollback(s)
      BY <1>1, <2>1 DEF Rollback
    <2>2. CASE ~Rollback(s)
      <3>1. /\ UNCHANGED rowLock
            /\ pc[s] = "idle" \/ (pc[s] = "load" /\ job[s].kind # "create")
        BY <1>2, <2>2
        DEF Arrive, BeginCreate, BeginStatus, BeginPatch, BeginPut, BeginDelete, BeginRestore,
            Begin, ReplaceRow, SoftDelete, RestoreRow
      <3> QED
        BY <3>1 DEF NoEarlyLocks, FlushInOrder
    <2> QED
      BY <2>1, <2>2
  <1>3. CASE LoadItem(s) \/ ReserveStock(s) \/ ReleaseStock(s) \/ PatchRow(s)
    <2>1. CASE Rollback(s)
      BY <1>1, <2>1 DEF Rollback
    <2>2. CASE ~Rollback(s)
      <3>1. /\ job' = job /\ job[s].kind \in {"create", "status", "patch"}
            /\ pc'[s] # "idle"
            /\ pc'[s] = "load" => job[s].kind = "create"
        BY <1>3, <2>2
        DEF LoadItem, ReserveStock, ReleaseStock, PatchRow, NextLine, TypeInv, TypeOK
      <3>2. pc'[s] = "flush" => ToFlush(s)' = {}
        BY <3>1 DEF AllLocked
      <3> QED
        BY <3>1, <3>2 DEF NoEarlyLocks, FlushInOrder
    <2> QED
      BY <2>1, <2>2
  <1>4. Commit(s) \/ LockTimeout(s) \/ WorkerDies(s) => Close(s)
    BY DEF Commit, LockTimeout, WorkerDies, Rollback
  <1> QED
    BY <1>1, <1>2, <1>3, <1>4 DEF Run, Handle

\* The row that is locked next is the least that is left.
LEMMA FlushKeepsOrder ==
    ASSUME TypeInv, NEW s \in Session, FlushInOrder(s), FlushRow(s)
    PROVE  NoEarlyLocks(s)' /\ FlushInOrder(s)'
  <1>1. PICK p \in NextToFlush(s) : Lock(s, p)
    BY DEF FlushRow
  <1>2. /\ pc[s] = "flush"
        /\ UNCHANGED <<pc, job, known, loaded, now>>
    BY DEF FlushRow, request, identityMap
  <1>3. p \in Product /\ ToFlush(s) \subseteq Product /\ p \in ToFlush(s)
    BY DEF NextToFlush, ToFlush, Dirty, TypeInv, TypeOK
  <1>4. \A q \in Product : rowLock'[q] = IF q = p THEN s ELSE rowLock[q]
    BY <1>1, <1>3 DEF Lock, TypeInv, TypeOK
  <1>5. ToFlush(s)' = ToFlush(s) \ {p}
    BY <1>2, <1>3, <1>4 DEF ToFlush, Dirty, TypeInv, TypeOK
  <1>6. ASSUME NEW x \in Product, NEW q \in ToFlush(s) \ {p}, rowLock'[x] = s
        PROVE  x < q
    <2>1. CASE x = p
      <3>1. p <= q /\ p # q
        BY <1>6 DEF NextToFlush
      <3>2. p \in Nat /\ q \in Nat
        BY <1>3, OrderStockAssumption
      <3> QED
        BY <2>1, <3>1, <3>2
    <2>2. CASE x # p
      BY <1>2, <1>4, <1>6, <2>2 DEF FlushInOrder
    <2> QED
      BY <2>1, <2>2
  <1> QED
    BY <1>2, <1>5, <1>6 DEF NoEarlyLocks, FlushInOrder

\* Two bulk deletions, or one and a PUT or a restore, whatever the order of
\* their lists, never wait for each other's row locks in their commits.
THEOREM CommitsAreInOrder == Spec => []CommitsDoNotDeadlock
  <1>1. Init => LocksInOrder
    <2> SUFFICES ASSUME Init, NEW s \in Session PROVE NoEarlyLocks(s) /\ FlushInOrder(s)
      BY DEF LocksInOrder
    <2> QED
      BY OrderStockAssumption DEF Init, NoEarlyLocks, FlushInOrder
  <1>2. LockInv /\ AllLocked' /\ LocksInOrder /\ [Next]_vars => LocksInOrder'
    <2> SUFFICES ASSUME LockInv, AllLocked', LocksInOrder, [Next]_vars, NEW s \in Session
                 PROVE  NoEarlyLocks(s)' /\ FlushInOrder(s)'
      BY DEF LocksInOrder
    <2>1. TypeInv /\ NoEarlyLocks(s) /\ FlushInOrder(s)
      BY DEF LockInv, LocksInOrder
    <2>2. CASE UNCHANGED vars
      BY <2>1, <2>2
      DEF vars, db, request, identityMap, NoEarlyLocks, FlushInOrder, ToFlush, Dirty
    <2>3. CASE Arrive(s) \/ Run(s) \/ WorkerDies(s)
      BY <2>1, <2>3, NoEarlyLocksKept, FlushKeepsOrder
    <2>4. ASSUME NEW t \in Session \ {s}, Arrive(t) \/ Run(t) \/ WorkerDies(t)
          PROVE  NoEarlyLocks(s)' /\ FlushInOrder(s)'
      <3>1. Keeps(s)
        BY <2>1, <2>4, ArriveKeeps, HandleKeeps, CommitKeeps, RollbackKeeps
        DEF Run, LockTimeout, WorkerDies
      <3>2. \A p \in Product : rowLock'[p] = s => rowLock[p] = s
        BY <2>1, <2>4, LocksAreOwn
      <3>3. ToFlush(s)' \subseteq ToFlush(s)
        BY <2>1, <3>1 DEF Keeps, ToFlush, Dirty, TypeInv, TypeOK
      <3> QED
        BY <2>1, <3>1, <3>2, <3>3 DEF Keeps, NoEarlyLocks, FlushInOrder
    <2> QED
      BY <2>2, <2>3, <2>4 DEF Next
  <1>3. LockInv /\ LocksInOrder => CommitsDoNotDeadlock
    <2> SUFFICES ASSUME LockInv, LocksInOrder, NEW s \in Session, NEW t \in Session,
                        s # t, WaitsFor(s, t), WaitsFor(t, s)
                 PROVE  FALSE
      BY DEF CommitsDoNotDeadlock
    <2>1. PICK p \in NextToFlush(s) : rowLock[p] = t
      BY DEF WaitsFor
    <2>2. PICK q \in NextToFlush(t) : rowLock[q] = s
      BY DEF WaitsFor
    <2>3. p \in ToFlush(s) /\ q \in ToFlush(t) /\ p \in Nat /\ q \in Nat
          /\ p \in Product /\ q \in Product
      BY OrderStockAssumption DEF NextToFlush, ToFlush, Dirty, LockInv, TypeInv, TypeOK
    <2>4. q < p
      BY <2>2, <2>3 DEF LocksInOrder, FlushInOrder, WaitsFor
    <2>5. p < q
      BY <2>1, <2>3 DEF LocksInOrder, FlushInOrder, WaitsFor
    <2> QED
      BY <2>3, <2>4, <2>5
  <1> QED
    BY <1>1, <1>2, <1>3, LockInvHolds, ReservedRowsAreLocked, PTL DEF Spec

-------------------------------------------------------------------------------
(* What a cancellation gives back.  The units of the lines that the handler  *)
(* has been through are a sum that grows by one line at a time.              *)

\* The lines for p that a handler has been through, and their units.
Handled(s, p) == {i \in LinesOf(job[s].lines, p) : i < at[s]}
HandledUnits(s, p) == SumFunctionOnSet(Values(job[s].lines), Handled(s, p))

\* What a cancellation has been at is deleted, or in memory with the units back.
Released(s) ==
    job[s].kind = "status" =>
        /\ pc[s] = "flush" => at[s] > Len(job[s].lines)
        /\ \A p \in Product :
              /\ p \in known[s] =>
                    /\ ~product[p].deleted
                    /\ now[s][p].stock = product[p].stock + HandledUnits(s, p)
              /\ p \notin known[s] =>
                    Handled(s, p) = {} \/ (product[p].deleted /\ rowLock[p] = s)

LEMMA LinesAreFinite ==
    ASSUME TypeInv, NEW s \in Session, NEW p
    PROVE  /\ DOMAIN job[s].lines = 1..Len(job[s].lines) /\ Len(job[s].lines) \in Nat
           /\ LinesOf(job[s].lines, p) \subseteq 1..Len(job[s].lines)
           /\ IsFiniteSet(LinesOf(job[s].lines, p)) /\ IsFiniteSet(Handled(s, p))
  <1>1. job[s].lines \in Seq(Line)
    BY DEF TypeInv, TypeOK, Job
  <1>2. DOMAIN job[s].lines = 1..Len(job[s].lines) /\ Len(job[s].lines) \in Nat
    BY <1>1, LenProperties
  <1>3. LinesOf(job[s].lines, p) \subseteq 1..Len(job[s].lines)
    BY <1>2 DEF LinesOf
  <1>4. IsFiniteSet(1..Len(job[s].lines))
    BY <1>2, FS_Interval
  <1>5. Handled(s, p) \subseteq LinesOf(job[s].lines, p)
    BY DEF Handled
  <1> QED
    BY <1>2, <1>3, <1>4, <1>5, FS_Subset

\* The units of a line of an order are a number.
LEMMA LineValues ==
    ASSUME TypeInv, NEW s \in Session, job[s].kind \in {"create", "status"}, NEW p
    PROVE  /\ \A i \in LinesOf(job[s].lines, p) : Values(job[s].lines)[i] \in Nat
           /\ HandledUnits(s, p) \in Nat
  <1>1. \A i \in 1..Len(job[s].lines) : job[s].lines[i].value \in Nat
    BY DEF TypeInv, JobShape
  <1>2. \A i \in LinesOf(job[s].lines, p) : Values(job[s].lines)[i] \in Nat
    BY <1>1, LinesAreFinite DEF Values
  <1>3. \A i \in Handled(s, p) : Values(job[s].lines)[i] \in Nat
    BY <1>2 DEF Handled
  <1>4. IsFiniteSet(Handled(s, p))
    BY LinesAreFinite
  <1> QED
    BY <1>2, <1>3, <1>4, SumNat DEF HandledUnits

\* The next line adds its units to those of its product.
LEMMA HandledNext ==
    ASSUME TypeInv, NEW s \in Session, job[s].kind \in {"create", "status"},
           pc[s] \in {"load", "lock"}, job'[s] = job[s], at'[s] = at[s] + 1, NEW p
    PROVE  /\ p # Current(s).product =>
                 Handled(s, p)' = Handled(s, p) /\ HandledUnits(s, p)' = HandledUnits(s, p)
           /\ p = Current(s).product =>
                 /\ Handled(s, p)' # {}
                 /\ HandledUnits(s, p)' = HandledUnits(s, p) + Current(s).value
  <1>1. at[s] \in 1..Len(job[s].lines)
    BY CurrentType
  <1>2. /\ DOMAIN job[s].lines = 1..Len(job[s].lines) /\ Len(job[s].lines) \in Nat
        /\ \A i \in LinesOf(job[s].lines, p) : i \in Int
    BY LinesAreFinite
  <1>3. Handled(s, p)' = {i \in LinesOf(job[s].lines, p) : i < at[s] + 1}
    BY DEF Handled
  <1>4. HandledUnits(s, p)' = SumFunctionOnSet(Values(job[s].lines), Handled(s, p)')
    BY DEF HandledUnits
  <1>5. ASSUME p # Current(s).product PROVE Handled(s, p)' = Handled(s, p)
    <2>1. at[s] \notin LinesOf(job[s].lines, p)
      BY <1>5 DEF LinesOf, Current
    <2>2. \A i \in LinesOf(job[s].lines, p) : i < at[s] + 1 <=> i < at[s]
      BY <1>1, <1>2, <2>1
    <2> QED
      BY <1>3, <2>2 DEF Handled
  <1>6. ASSUME p = Current(s).product
        PROVE  /\ Handled(s, p)' # {}
               /\ HandledUnits(s, p)' = HandledUnits(s, p) + Current(s).value
    <2>1. at[s] \in LinesOf(job[s].lines, p)
      BY <1>1, <1>2, <1>6 DEF LinesOf, Current
    <2>2. \A i \in LinesOf(job[s].lines, p) : i < at[s] + 1 <=> (i < at[s] \/ i = at[s])
      BY <1>1, <1>2
    <2>3. Handled(s, p)' = Handled(s, p) \cup {at[s]} /\ at[s] \notin Handled(s, p)
      BY <1>1, <1>3, <2>1, <2>2 DEF Handled
    <2>4. \A i \in Handled(s, p) : Values(job[s].lines)[i] \in Int
      BY LineValues DEF Handled
    <2>5. Values(job[s].lines)[at[s]] = Current(s).value /\ Current(s).value \in Int
      BY <1>1, <1>2, CurrentType DEF Values, Current
    <2>6. IsFiniteSet(Handled(s, p)) /\ HandledUnits(s, p) \in Nat
      BY LinesAreFinite, LineValues
    <2>7. SumFunctionOnSet(Values(job[s].lines), Handled(s, p) \cup {at[s]}) =
            Current(s).value + SumFunctionOnSet(Values(job[s].lines), Handled(s, p))
      BY <2>3, <2>4, <2>5, <2>6, SumAdd
    <2> QED
      BY <1>4, <2>3, <2>5, <2>6, <2>7 DEF HandledUnits
  <1> QED
    BY <1>4, <1>5, <1>6 DEF HandledUnits

\* Before the first line nothing has been handled, after the last one the body.
LEMMA HandledEnds ==
    ASSUME TypeInv, NEW s \in Session, NEW p
    PROVE  /\ at[s] = 1 => Handled(s, p) = {}
           /\ Handled(s, p) = {} => HandledUnits(s, p) = 0
           /\ at[s] > Len(job[s].lines) =>
                 /\ Handled(s, p) = LinesOf(job[s].lines, p)
                 /\ HandledUnits(s, p) = Quantity(job[s].lines, p)
  <1>1. \A i \in LinesOf(job[s].lines, p) : i \in 1..Len(job[s].lines)
    BY LinesAreFinite
  <1>2. at[s] \in Nat /\ Len(job[s].lines) \in Nat
    BY LinesAreFinite DEF TypeInv, TypeOK
  <1>3. at[s] = 1 => Handled(s, p) = {}
    BY <1>1 DEF Handled
  <1>4. at[s] > Len(job[s].lines) => Handled(s, p) = LinesOf(job[s].lines, p)
    BY <1>1, <1>2 DEF Handled
  <1> QED
    BY <1>3, <1>4, SumEmpty DEF HandledUnits, Quantity

LEMMA ReleasedKept ==
    ASSUME TypeInv, NEW s \in Session, RequestInv(s), Released(s), Keeps(s)
    PROVE  Released(s)'
  <1>1. job'[s] = job[s] /\ at'[s] = at[s] /\ pc'[s] = pc[s] /\ known'[s] = known[s]
        /\ now'[s] = now[s]
    BY DEF Keeps
  <1>2. \A p \in Product : Handled(s, p)' = Handled(s, p) /\ HandledUnits(s, p)' = HandledUnits(s, p)
    BY <1>1 DEF Handled, HandledUnits
  <1>3. job[s].kind = "status" => \A p \in known[s] : rowLock[p] = s
    BY DEF RequestInv, FreshRows
  <1>4. \A p \in Product : rowLock[p] = s => rowLock'[p] = s /\ product'[p] = product[p]
    BY DEF Keeps
  <1> QED
    BY <1>1, <1>2, <1>3, <1>4 DEF Released

\* A request that has just begun, or that is over, has been at nothing.
LEMMA ReleasedAnew ==
    ASSUME TypeInv', NEW s \in Session, known'[s] = {}, at'[s] = 1,
           job'[s].kind = "status" /\ pc'[s] = "flush" => job'[s].lines = <<>>
    PROVE  Released(s)'
  <1>1. job'[s].lines \in Seq(Line)
    BY DEF TypeInv, TypeOK, Job
  <1>2. \A p \in Product : Handled(s, p)' = {}
    BY <1>1, LenProperties DEF Handled, LinesOf
  <1>3. Len(<<>>) = 0
    BY EmptySeq
  <1> QED
    BY <1>2, <1>3 DEF Released

LEMMA CloseReleased ==
    ASSUME TypeInv, NEW s \in Session, Close(s) PROVE Released(s)'
  <1>1. job'[s] = NoJob
    BY DEF TypeInv, TypeOK, Close
  <1> QED
    BY <1>1, BlankTypes DEF Released

LEMMA ArriveReleased ==
    ASSUME TypeInv, TypeInv', NEW s \in Session, RequestInv(s), Arrive(s)
    PROVE  Released(s)'
  <1>1. CASE BeginStatus(s)
    <2>1. PICK j, step : /\ Begin(s, j, step)
                         /\ step = "flush" => j.lines = <<>>
      BY <1>1 DEF BeginStatus
    <2>2. pc'[s] = step /\ job'[s] = j /\ at'[s] = 1 /\ known'[s] = {}
      BY <2>1 DEF TypeInv, TypeOK, Begin, identityMap, RequestInv, IdleKnowsNothing
    <2> QED
      BY <2>1, <2>2, ReleasedAnew
  <1>2. CASE ~BeginStatus(s)
    <2>1. \E kind \in Kind \ {"status"} :
              \E lines, step : Begin(s, ProductJob(kind, lines), step)
      BY <1>2 DEF Arrive, BeginCreate, BeginPatch, BeginPut, BeginDelete, BeginRestore, Kind
    <2>2. job'[s].kind # "status"
      BY <2>1 DEF TypeInv, TypeOK, Begin, ProductJob
    <2> QED
      BY <2>2 DEF Released
  <1> QED
    BY <1>1, <1>2

\* Under REPEATABLE READ a row that is passed over as deleted is locked.
LocksAll == Isolation = "REPEATABLE READ" \/ \A p \in Product : ~product[p].deleted

LEMMA LineReleased ==
    ASSUME TypeInv, NEW s \in Session, RequestInv(s), Released(s), ReleaseStock(s), LocksAll
    PROVE  Released(s)'
  <1>0. PICK p \in Product : p = Current(s).product
    BY CurrentType DEF ReleaseStock
  <1> DEFINE value == Current(s).value
             locked == FetchedForUpdate(s, p)
             new == [locked EXCEPT !.stock = @ + value]
  <1>1. /\ pc[s] = "lock" /\ job[s].kind = "status" /\ NextLine(s, "lock")
        /\ product' = product
        /\ \/ product[p].deleted /\ Lock(s, p) /\ UNCHANGED <<known, now>>
           \/ ~product[p].deleted /\ Lock(s, p) /\ Remember(s, p, locked, new)
    BY <1>0 DEF LocksAll, ReleaseStock, db, identityMap
  <1>2. /\ value \in Nat /\ locked \in Row /\ at[s] \in 1..Len(job[s].lines)
        /\ Len(job[s].lines) \in Nat
    BY <1>1, CurrentType, FetchedTypes, LinesAreFinite DEF TypeInv
  <1> HIDE DEF value, locked
  <1>3. new \in Row /\ new.stock = locked.stock + value
    BY <1>2 DEF Row
  <1> HIDE DEF new
  <1>4. /\ at'[s] = at[s] + 1 /\ job' = job
        /\ pc'[s] = "flush" => at[s] = Len(job[s].lines)
    BY <1>1, NextLineOwn
  <1>5. pc'[s] = "flush" => at'[s] > Len(job'[s].lines)
    BY <1>2, <1>4
  <1>6. /\ rowLock'[p] = s
        /\ \A q \in Product : rowLock[q] = s => rowLock'[q] = s
    BY <1>1, <1>2 DEF Lock, TypeInv, TypeOK
  <1>7. \A q \in Product \ {p} :
          Handled(s, q)' = Handled(s, q) /\ HandledUnits(s, q)' = HandledUnits(s, q)
    BY <1>0, <1>1, <1>4, HandledNext
  <1>8. HandledUnits(s, p)' = HandledUnits(s, p) + value
    BY <1>0, <1>1, <1>4, HandledNext DEF value
  <1>9. \A q \in Product :
          /\ q \in known[s] => /\ ~product[q].deleted
                               /\ now[s][q].stock = product[q].stock + HandledUnits(s, q)
          /\ q \notin known[s] =>
                Handled(s, q) = {} \/ (product[q].deleted /\ rowLock[q] = s)
    BY <1>1 DEF Released
  <1>10. CASE product[p].deleted
    <2>1. known' = known /\ now' = now
      BY <1>1, <1>10
    <2> QED
      BY <1>1, <1>4, <1>5, <1>6, <1>7, <1>9, <1>10, <2>1 DEF Released
  <1>11. CASE ~product[p].deleted
    <2>1. /\ known'[s] = known[s] \cup {p} /\ now'[s][p] = new
          /\ \A q \in Product \ {p} : now'[s][q] = now[s][q]
      BY <1>1, <1>2, <1>3, <1>11, RememberedRows
    <2>2. locked.stock = product[p].stock + HandledUnits(s, p)
      <3>1. CASE p \in known[s]
        BY <1>2, <1>9, <3>1 DEF FetchedForUpdate, locked
      <3>2. CASE p \notin known[s]
        <4>1. Handled(s, p) = {}
          BY <1>2, <1>9, <1>11, <3>2
        <4>2. HandledUnits(s, p) = 0
          BY <4>1, HandledEnds
        <4>3. locked = product[p] /\ product[p].stock \in Nat
          BY <1>2, <3>2 DEF FetchedForUpdate, locked, TypeInv, TypeOK, Row
        <4> QED
          BY <4>2, <4>3
      <3> QED
        BY <3>1, <3>2
    <2>3. now'[s][p].stock = product[p].stock + HandledUnits(s, p)'
      <3>1. product[p].stock \in Int /\ HandledUnits(s, p) \in Int /\ value \in Int
        BY <1>1, <1>2, LineValues DEF TypeInv, TypeOK, Row
      <3> QED
        BY <1>3, <1>8, <2>1, <2>2, <3>1
    <2> QED
      BY <1>1, <1>4, <1>5, <1>6, <1>7, <1>9, <1>11, <2>1, <2>3 DEF Released
  <1> QED
    BY <1>10, <1>11

LEMMA HandleReleased ==
    ASSUME TypeInv, NEW s \in Session, RequestInv(s), Released(s), Handle(s), LocksAll
    PROVE  Released(s)'
  <1>1. CASE ReleaseStock(s)
    BY <1>1, LineReleased
  <1>2. CASE FlushRow(s)
    <2>1. PICK q \in ToFlush(s) : Lock(s, q)
      BY <1>2 DEF FlushRow, NextToFlush
    <2>2. \A r \in Product : rowLock[r] = s => rowLock'[r] = s
      BY <2>1 DEF Lock, TypeInv, TypeOK
    <2>3. Keeps(s)
      BY <1>2, <2>2 DEF FlushRow, db, request, identityMap, Keeps
    <2> QED
      BY <2>3, ReleasedKept
  <1>3. CASE Rollback(s)
    BY <1>3, CloseReleased DEF Rollback
  <1>4. CASE ~ReleaseStock(s) /\ ~FlushRow(s) /\ ~Rollback(s)
    <2>1. job' = job /\ job[s].kind # "status"
      BY <1>4 DEF Handle, LoadItem, ReserveStock, PatchRow, ReplaceRow, SoftDelete,
                  RestoreRow, NextLine
    <2> QED
      BY <2>1 DEF Released
  <1> QED
    BY <1>1, <1>2, <1>3, <1>4

\* The commit of a cancellation whose rows are as Released says.
LEMMA ReleaseCommitted ==
    ASSUME TypeInv, NEW s \in Session, RequestInv(s), Released(s), Commit(s),
           job[s].kind = "status", NEW p \in Product
    PROVE  product'[p].stock = product[p].stock
                 + IF product[p].deleted THEN 0 ELSE Quantity(job[s].lines, p)
  <1>1. HandledUnits(s, p) = Quantity(job[s].lines, p) /\ HandledUnits(s, p) \in Nat
    BY HandledEnds, LineValues DEF Released, Commit
  <1>2. Handled(s, p) = {} => HandledUnits(s, p) = 0
    BY HandledEnds
  <1>3. product[p].stock \in Nat
    BY DEF TypeInv, TypeOK, Row
  <1>4. product'[p] = IF p \in Dirty(s) THEN Written(s, p) ELSE product[p]
    BY DEF Commit
  <1>5. CASE p \in known[s]
    <2>1. loaded[s][p] = product[p]
      BY <1>5 DEF RequestInv, FreshRows
    <2>2. ~product[p].deleted /\ now[s][p].stock = product[p].stock + HandledUnits(s, p)
      BY <1>5 DEF Released
    <2>3. product'[p].stock = now[s][p].stock
      BY <1>4, <1>5, <2>1 DEF Dirty, Written
    <2> QED
      BY <1>1, <2>2, <2>3
  <1>6. CASE p \notin known[s]
    <2>1. product'[p] = product[p]
      BY <1>4, <1>6 DEF Dirty
    <2>2. Handled(s, p) = {} \/ product[p].deleted
      BY <1>6 DEF Released
    <2> QED
      BY <1>1, <1>2, <1>3, <2>1, <2>2
  <1> QED
    BY <1>5, <1>6

ReleaseInv == LockInv /\ \A s \in Session : Released(s)

LEMMA ReleaseInvHolds == ASSUME Isolation = "REPEATABLE READ" PROVE Spec => []ReleaseInv
  <1>1. Init /\ LockInv => ReleaseInv
    BY BlankTypes DEF Init, Released, ReleaseInv
  <1>2. ReleaseInv /\ LockInv' /\ [Next]_vars => ReleaseInv'
    <2> SUFFICES ASSUME LockInv, LockInv', [Next]_vars, NEW s \in Session, Released(s)
                 PROVE  Released(s)'
      BY DEF ReleaseInv
    <2>1. TypeInv /\ TypeInv' /\ RequestInv(s)
      BY DEF LockInv
    <2>2. CASE UNCHANGED vars
      BY <2>1, <2>2, ReleasedKept DEF vars, db, request, identityMap, Keeps
    <2>3. CASE Arrive(s) \/ Run(s) \/ WorkerDies(s)
      BY <2>1, <2>3, ArriveReleased, HandleReleased, CloseReleased
      DEF Run, LockTimeout, WorkerDies, Commit, Rollback, LocksAll
    <2>4. ASSUME NEW t \in Session \ {s}, Arrive(t) \/ Run(t) \/ WorkerDies(t)
          PROVE  Released(s)'
      <3>1. Keeps(s)
        BY <2>1, <2>4, ArriveKeeps, HandleKeeps, CommitKeeps, RollbackKeeps
        DEF Run, LockTimeout, WorkerDies
      <3> QED
        BY <2>1, <3>1, ReleasedKept
    <2> QED
      BY <2>2, <2>3, <2>4 DEF Next
  <1> QED
    BY <1>1, <1>2, LockInvHolds, PTL DEF Spec

\* On MySQL's isolation, whatever commits, times out or dies next to it: a
\* cancellation adds what the order had to the stock as it is when it commits,
\* and nothing to a product that is deleted then.
THEOREM ReleasesAreExact ==
    ASSUME Isolation = "REPEATABLE READ"
    PROVE  Spec => ReleaseIsExact
  <1> DEFINE Exact(s) == Commit(s) /\ job[s].kind = "status" =>
                \A p \in Product : product'[p].stock = product[p].stock
                    + IF product[p].deleted THEN 0 ELSE Quantity(job[s].lines, p)
  <1>1. ASSUME ReleaseInv, NEW s \in Session PROVE Exact(s)
    BY <1>1, ReleaseCommitted DEF ReleaseInv, LockInv
  <1>2. ReleaseInv => \A s \in Session : Exact(s)
    BY <1>1
  <1>3. ReleaseInv => [\A s \in Session : Exact(s)]_vars
    BY <1>2
  <1> QED
    BY <1>3, ReleaseInvHolds, PTL DEF ReleaseIsExact

-------------------------------------------------------------------------------
(* The accounts of the shop, one request at a time.                          *)

\* The hypotheses of the theorems below: one request at a time, no deletions,
\* and no move that returns an order to a status in which it holds stock.
OneAtATime == \A s, t \in Session : s = t
NoDeletions == DeleteList = {}
NoReturns == \A move \in StatusMove : move[2] \in Reserving => move[1] \in Reserving

NothingDeleted == \A p \in Product : ~product[p].deleted

\* The request works on the rows as they are: it is the only one.
Alone(s) ==
    /\ pc[s] # "idle" => /\ view[s] = product
                         /\ job[s].kind \in {"create", "status", "patch", "put", "restore"}
    /\ pc[s] = "flush" => job[s].kind # "restore"
    /\ \A p \in known[s] : loaded[s][p] = product[p] /\ ~now[s][p].deleted

\* What an order has been at is in memory without the units it takes.
Reserved(s) ==
    job[s].kind = "create" =>
        /\ job[s].lines \in Cart
        /\ \A p \in Product :
              /\ p \in known[s] => now[s][p].stock = product[p].stock - HandledUnits(s, p)
              /\ p \notin known[s] => Handled(s, p) = {}

\* The order is as the request has read it.
Asked(s) ==
    job[s].kind = "status" =>
        /\ <<job[s].seen, job[s].wanted>> \in StatusMove
        /\ order[job[s].order].status = job[s].seen
        /\ job[s].lines # <<>> =>
              /\ job[s].seen \in Reserving /\ job[s].wanted \notin Reserving
              /\ job[s].lines = order[job[s].order].lines

\* The orders that a cancellation would release hold their units.
HoldingKnown ==
    /\ holding \in [Order -> BOOLEAN] /\ IsFiniteSet(Holders)
    /\ \A o \in Order : /\ order[o].status = "absent" => ~holding[o]
                        /\ order[o].status \in Reserving => holding[o]

SoloRequest(s) == Released(s) /\ Alone(s) /\ Reserved(s) /\ Asked(s)
SoloInv == NothingDeleted /\ HoldingKnown /\ \A s \in Session : SoloRequest(s)

\* A read finds the row as it is, and not deleted.
LEMMA SoloReads ==
    ASSUME TypeInv, NothingDeleted, NEW s \in Session, Alone(s), pc[s] # "idle",
           NEW p \in Product
    PROVE  /\ Fetched(s, p) = FetchedForUpdate(s, p)
           /\ ~FetchedForUpdate(s, p).deleted
           /\ p \notin known[s] => FetchedForUpdate(s, p) = product[p]
           /\ p \in known[s] => FetchedForUpdate(s, p) = now[s][p]
  BY DEF Alone, NothingDeleted, Fetched, FetchedForUpdate

\* What is remembered is the row as it is.
LEMMA SoloRemembers ==
    ASSUME TypeInv, NothingDeleted, NEW s \in Session, Alone(s), pc[s] # "idle",
           NEW p \in Product, NEW new \in Row, ~new.deleted,
           Remember(s, p, FetchedForUpdate(s, p), new), product' = product
    PROVE  \A q \in known'[s] : loaded'[s][q] = product'[q] /\ ~now'[s][q].deleted
  <1>1. FetchedForUpdate(s, p) \in Row /\ known[s] \subseteq Product
    BY FetchedTypes DEF TypeInv, TypeOK
  <1>2. p \notin known[s] => FetchedForUpdate(s, p) = product[p]
    BY SoloReads
  <1>3. \A q \in known[s] : loaded[s][q] = product[q] /\ ~now[s][q].deleted
    BY DEF Alone
  <1>4. /\ known'[s] = known[s] \cup {p} /\ now'[s][p] = new
        /\ loaded'[s][p] = IF p \in known[s] THEN loaded[s][p] ELSE FetchedForUpdate(s, p)
        /\ \A q \in Product \ {p} : loaded'[s][q] = loaded[s][q] /\ now'[s][q] = now[s][q]
    BY <1>1, RememberedRows
  <1> QED
    BY <1>1, <1>2, <1>3, <1>4

\* A request that begins: a body of its kind, the rows as they are.
LEMMA ArriveSolo ==
    ASSUME NoDeletions, TypeInv, TypeInv', NEW s \in Session, RequestInv(s), Arrive(s)
    PROVE  /\ UNCHANGED <<product, order>> /\ Released(s)'
           /\ Alone(s)' /\ Reserved(s)' /\ Asked(s)'
  <1>1. PICK j, step :
          /\ Begin(s, j, step) /\ step \in {"load", "lock", "flush"}
          /\ j.kind \in {"create", "status", "patch", "put", "restore"}
          /\ step = "flush" => j.kind = "status"
          /\ j.kind = "create" => j.lines \in Cart
          /\ j.kind = "status" =>
                /\ <<j.seen, j.wanted>> \in StatusMove
                /\ order[j.order].status = j.seen
                /\ j.lines # <<>> => /\ j.seen \in Reserving /\ j.wanted \notin Reserving
                                     /\ j.lines = order[j.order].lines
    <2>1. CASE BeginCreate(s)
      BY <2>1 DEF BeginCreate, ProductJob
    <2>2. CASE BeginStatus(s)
      <3>1. PICK o \in Order, move \in StatusMove :
              LET releases == move[2] = "cancelled" /\ move[1] \in Reserving
              IN /\ order[o].status = move[1]
                 /\ Begin(s, [kind |-> "status", order |-> o, seen |-> move[1],
                              wanted |-> move[2],
                              lines |-> IF releases THEN order[o].lines ELSE <<>>],
                          IF releases THEN "lock" ELSE "flush")
        BY <2>2 DEF BeginStatus
      <3>2. move \in Status \X Status
        BY OrderStockAssumption
      <3>3. move = <<move[1], move[2]>>
        BY <3>2
      <3> QED
        BY <3>1, <3>3 DEF Reserving
    <2>3. CASE BeginPatch(s)
      BY <2>3 DEF BeginPatch, ProductJob
    <2>4. CASE BeginPut(s)
      BY <2>4 DEF BeginPut, ProductJob
    <2>5. CASE BeginDelete(s)
      BY <2>5 DEF BeginDelete, NoDeletions
    <2>6. CASE BeginRestore(s)
      BY <2>6 DEF BeginRestore, ProductJob
    <2> QED
      BY <2>1, <2>2, <2>3, <2>4, <2>5, <2>6 DEF Arrive
  <1>2. /\ pc'[s] = step /\ job'[s] = j /\ at'[s] = 1 /\ view'[s] = product
        /\ product' = product /\ order' = order /\ known'[s] = {}
    BY <1>1 DEF TypeInv, TypeOK, Begin, db, identityMap, RequestInv, IdleKnowsNothing
  <1>3. \A p \in Product : Handled(s, p)' = {}
    <2>1. job'[s].lines \in Seq(Line)
      BY DEF TypeInv, TypeOK, Job
    <2> QED
      BY <1>2, <2>1, LenProperties DEF Handled, LinesOf
  <1>4. Alone(s)'
    BY <1>1, <1>2 DEF Alone
  <1>5. Reserved(s)' /\ Asked(s)'
    BY <1>1, <1>2, <1>3 DEF Reserved, Asked
  <1> QED
    BY <1>2, <1>4, <1>5, ArriveReleased

\* A request that is over.
LEMMA CloseSolo ==
    ASSUME TypeInv, NEW s \in Session, Close(s)
    PROVE  Released(s)' /\ Alone(s)' /\ Reserved(s)' /\ Asked(s)'
  <1>1. job'[s] = NoJob /\ pc'[s] = "idle" /\ known'[s] = {}
    BY DEF TypeInv, TypeOK, Close
  <1> QED
    BY <1>1, CloseReleased, BlankTypes DEF Alone, Reserved, Asked

\* Reserving a line takes its units from the row as it is in memory.
LEMMA LineReserved ==
    ASSUME TypeInv, NothingDeleted, NEW s \in Session, Alone(s), Reserved(s),
           ReserveStock(s), ~Rollback(s)
    PROVE  Reserved(s)'
  <1>0. PICK p \in Product : p = Current(s).product
    BY CurrentType DEF ReserveStock
  <1> DEFINE value == Current(s).value
             locked == FetchedForUpdate(s, p)
             new == [locked EXCEPT !.stock = @ - value]
  <1>1. /\ pc[s] = "lock" /\ job[s].kind = "create" /\ NextLine(s, "load")
        /\ ~Insufficient(p, locked, value) /\ Remember(s, p, locked, new)
        /\ product' = product
    BY <1>0 DEF ReserveStock, db
  <1>2. value \in Nat /\ locked \in Row
    BY <1>1, CurrentType, FetchedTypes DEF TypeInv
  <1> HIDE DEF value, locked
  <1>3. new \in Row /\ new.stock = locked.stock - value
    BY <1>1, <1>2 DEF Row, Insufficient
  <1> HIDE DEF new
  <1>4. at'[s] = at[s] + 1 /\ job' = job
    BY <1>1, NextLineOwn
  <1>5. \A q \in Product \ {p} :
          Handled(s, q)' = Handled(s, q) /\ HandledUnits(s, q)' = HandledUnits(s, q)
    BY <1>0, <1>1, <1>4, HandledNext
  <1>6. HandledUnits(s, p)' = HandledUnits(s, p) + value
    BY <1>0, <1>1, <1>4, HandledNext DEF value
  <1>7. /\ known'[s] = known[s] \cup {p} /\ now'[s][p] = new
        /\ \A q \in Product \ {p} : now'[s][q] = now[s][q]
    BY <1>1, <1>2, <1>3, RememberedRows
  <1>8. product[p].stock \in Int /\ HandledUnits(s, p) \in Int /\ locked.stock \in Int
    BY <1>1, <1>2, LineValues DEF TypeInv, TypeOK, Row
  <1>9. locked.stock = product[p].stock - HandledUnits(s, p)
    <2>1. CASE p \in known[s]
      BY <1>1, <2>1 DEF Reserved, FetchedForUpdate, locked
    <2>2. CASE p \notin known[s]
      <3>1. HandledUnits(s, p) = 0
        BY <1>1, <2>2, HandledEnds DEF Reserved
      <3>2. locked = product[p]
        BY <2>2 DEF FetchedForUpdate, locked
      <3> QED
        BY <1>8, <3>1, <3>2
    <2> QED
      BY <2>1, <2>2
  <1>10. now'[s][p].stock = product[p].stock - HandledUnits(s, p)'
    BY <1>2, <1>3, <1>6, <1>7, <1>8, <1>9
  <1> QED
    BY <1>1, <1>4, <1>5, <1>7, <1>10 DEF Reserved

\* Loading a row changes nothing in it.
LEMMA ItemLoaded ==
    ASSUME TypeInv, NothingDeleted, NEW s \in Session, Alone(s), Reserved(s),
           LoadItem(s), ~Rollback(s)
    PROVE  Reserved(s)'
  <1>0. PICK p \in Product : p = Current(s).product
    BY CurrentType DEF LoadItem
  <1>1. /\ pc[s] = "load" /\ job[s].kind = "create"
        /\ Remember(s, p, Fetched(s, p), Fetched(s, p))
        /\ product' = product /\ job' = job /\ at' = at
    BY <1>0 DEF LoadItem, db
  <1>2. /\ Fetched(s, p) \in Row
        /\ Fetched(s, p) = IF p \in known[s] THEN now[s][p] ELSE product[p]
    BY <1>1, FetchedTypes, SoloReads DEF TypeInv
  <1>3. /\ known'[s] = known[s] \cup {p} /\ now'[s][p] = Fetched(s, p)
        /\ \A q \in Product \ {p} : now'[s][q] = now[s][q]
    BY <1>1, <1>2, RememberedRows
  <1>4. \A q \in Product :
          Handled(s, q)' = Handled(s, q) /\ HandledUnits(s, q)' = HandledUnits(s, q)
    BY <1>1 DEF Handled, HandledUnits
  <1>5. now'[s][p].stock = product[p].stock - HandledUnits(s, p)
    <2>1. CASE p \in known[s]
      BY <1>1, <1>2, <1>3, <2>1 DEF Reserved
    <2>2. CASE p \notin known[s]
      <3>1. HandledUnits(s, p) = 0
        BY <1>1, <2>2, HandledEnds DEF Reserved
      <3>2. product[p].stock \in Nat
        BY DEF TypeInv, TypeOK, Row
      <3> QED
        BY <1>2, <1>3, <2>2, <3>1, <3>2
    <2> QED
      BY <2>1, <2>2
  <1> QED
    BY <1>1, <1>3, <1>4, <1>5 DEF Reserved

\* What a handler remembers is not deleted, and no restoration gets on: there is
\* nothing to restore.
LEMMA HandleAlone ==
    ASSUME TypeInv, NothingDeleted, NEW s \in Session, Alone(s), Handle(s), ~Rollback(s)
    PROVE  Alone(s)' /\ UNCHANGED <<product, order, job>>
  <1> DEFINE p == Current(s).product
             value == Current(s).value
             plain == Fetched(s, p)
             locked == FetchedForUpdate(s, p)
  <1>1. UNCHANGED <<product, order, job, view>> /\ pc[s] # "idle"
    BY DEF Handle, LoadItem, ReserveStock, ReleaseStock, PatchRow, ReplaceRow, SoftDelete,
           RestoreRow, FlushRow, NextLine, db, request
  <1>2. job[s].kind \in {"create", "status", "patch", "put", "restore"}
    BY <1>1 DEF Alone
  <1>3. ASSUME pc[s] \in {"load", "lock"}
        PROVE  /\ p \in Product /\ locked \in Row /\ plain = locked /\ ~locked.deleted
               /\ value \in Nat \cup {Unset}
               /\ job[s].kind \in {"create", "status", "put"} => value \in Nat
    BY <1>3, CurrentType, FetchedTypes, SoloReads DEF TypeInv, Line
  <1> HIDE DEF p, value, plain, locked
  <1>4. ~RestoreRow(s) /\ ~SoftDelete(s)
    BY <1>2, <1>3 DEF RestoreRow, SoftDelete, p, plain
  <1>5. \/ known' = known /\ loaded' = loaded /\ now' = now
        \/ \E new \in Row : /\ pc[s] \in {"load", "lock"} /\ ~new.deleted
                            /\ Remember(s, p, locked, new)
    <2>1. CASE LoadItem(s)
      BY <1>3, <2>1 DEF LoadItem, p, plain
    <2>2. CASE ReserveStock(s)
      <3> DEFINE new == [locked EXCEPT !.stock = @ - value]
      <3>1. /\ pc[s] = "lock" /\ job[s].kind = "create" /\ ~Insufficient(p, locked, value)
            /\ Remember(s, p, locked, new)
        BY <2>2 DEF ReserveStock, p, value, locked
      <3>2. new \in Row /\ ~new.deleted
        BY <1>3, <3>1 DEF Row, Insufficient
      <3> HIDE DEF new
      <3> QED
        BY <3>1, <3>2
    <2>3. CASE ReleaseStock(s)
      <3> DEFINE new == [locked EXCEPT !.stock = @ + value]
      <3>1. /\ pc[s] = "lock" /\ job[s].kind = "status"
            /\ UNCHANGED <<known, loaded, now>> \/ Remember(s, p, locked, new)
        BY <2>3 DEF ReleaseStock, identityMap, p, value, locked
      <3>2. new \in Row /\ ~new.deleted
        BY <1>3, <3>1 DEF Row
      <3> HIDE DEF new
      <3> QED
        BY <3>1, <3>2
    <2>4. CASE PatchRow(s)
      <3> DEFINE new == [locked EXCEPT !.stock = IF value = Unset THEN @ ELSE value]
      <3>1. pc[s] = "lock" /\ Remember(s, p, locked, new)
        BY <2>4 DEF PatchRow, p, value, locked
      <3>2. new \in Row /\ ~new.deleted
        BY <1>3, <3>1 DEF Row
      <3> HIDE DEF new
      <3> QED
        BY <3>1, <3>2
    <2>5. CASE ReplaceRow(s)
      <3> DEFINE new == [locked EXCEPT !.stock = value]
      <3>1. pc[s] = "load" /\ job[s].kind = "put"
            /\ Remember(s, p, plain, [plain EXCEPT !.stock = value])
        BY <2>5 DEF ReplaceRow, p, value, plain
      <3>2. new \in Row /\ ~new.deleted /\ Remember(s, p, locked, new)
        BY <1>3, <3>1 DEF Row
      <3> HIDE DEF new
      <3> QED
        BY <3>1, <3>2
    <2>6. CASE FlushRow(s)
      BY <2>6 DEF FlushRow, identityMap
    <2> QED
      BY <1>4, <2>1, <2>2, <2>3, <2>4, <2>5, <2>6 DEF Handle
  <1>6. \A q \in known'[s] : loaded'[s][q] = product'[q] /\ ~now'[s][q].deleted
    <2>1. CASE UNCHANGED <<known, loaded, now>>
      BY <1>1, <2>1 DEF Alone
    <2>2. CASE \E new \in Row : /\ pc[s] \in {"load", "lock"} /\ ~new.deleted
                                /\ Remember(s, p, locked, new)
      BY <1>1, <1>3, <2>2, SoloRemembers DEF locked
    <2> QED
      BY <1>5, <2>1, <2>2
  <1>7. pc'[s] = "flush" => job[s].kind # "restore"
    <2>1. CASE FlushRow(s)
      BY <2>1 DEF FlushRow, request, Alone
    <2>2. CASE ~FlushRow(s)
      BY <1>4, <2>2 DEF Handle, LoadItem, ReserveStock, ReleaseStock, PatchRow, ReplaceRow
    <2> QED
      BY <2>1, <2>2
  <1> QED
    BY <1>1, <1>2, <1>6, <1>7 DEF Alone

LEMMA HandleSolo ==
    ASSUME TypeInv, NothingDeleted, NEW s \in Session, RequestInv(s), SoloRequest(s), Handle(s)
    PROVE  UNCHANGED <<product, order>> /\ SoloRequest(s)'
  <1>1. Released(s)'
    BY HandleReleased DEF LocksAll, NothingDeleted, SoloRequest
  <1>2. CASE Rollback(s)
    BY <1>2, CloseSolo DEF Rollback, db, SoloRequest
  <1>3. CASE ~Rollback(s)
    <2>1. Alone(s)' /\ UNCHANGED <<product, order, job>>
      BY <1>3, HandleAlone DEF SoloRequest
    <2>2. Asked(s)'
      BY <2>1 DEF SoloRequest, Asked
    <2>3. Reserved(s)'
      <3>1. CASE LoadItem(s) \/ ReserveStock(s)
        BY <1>3, <3>1, ItemLoaded, LineReserved DEF SoloRequest
      <3>2. CASE FlushRow(s)
        BY <2>1, <3>2 DEF FlushRow, request, identityMap, SoloRequest, Reserved, Handled, HandledUnits
      <3>3. CASE ~LoadItem(s) /\ ~ReserveStock(s) /\ ~FlushRow(s)
        BY <2>1, <3>3 DEF Handle, ReleaseStock, PatchRow, ReplaceRow, SoftDelete, RestoreRow, Reserved
      <3> QED
        BY <3>1, <3>2, <3>3
    <2> QED
      BY <1>1, <2>1, <2>2, <2>3 DEF SoloRequest
  <1> QED
    BY <1>2, <1>3

\* What a commit does to the rows, when they are still as they were read.
LEMMA SoloCommits ==
    ASSUME TypeInv, NothingDeleted, NEW s \in Session, RequestInv(s), SoloRequest(s), Commit(s)
    PROVE  /\ NothingDeleted'
           /\ job[s].kind \in {"create", "status", "patch", "put"}
           /\ job[s].kind = "create" => \A p \in Product :
                 product'[p].stock = product[p].stock - Quantity(job[s].lines, p)
           /\ job[s].kind = "status" => \A p \in Product :
                 product'[p].stock = product[p].stock + Quantity(job[s].lines, p)
  <1>1. /\ pc[s] = "flush"
        /\ product' = [p \in Product |-> IF p \in Dirty(s) THEN Written(s, p) ELSE product[p]]
    BY DEF Commit
  <1>2. job[s].kind \in {"create", "status", "patch", "put"}
    BY <1>1 DEF SoloRequest, Alone
  <1>3. \A p \in known[s] : /\ loaded[s][p] = product[p]
                            /\ ~now[s][p].deleted
    BY DEF SoloRequest, Alone
  <1>4. ASSUME NEW p \in Product PROVE ~product'[p].deleted
    <2>1. p \in Dirty(s) => now[s][p].deleted = loaded[s][p].deleted
      BY <1>2 DEF Dirty, RequestInv, WritesExplained
    <2> QED
      BY <1>1, <2>1 DEF Written, NothingDeleted
  <1>5. ASSUME job[s].kind = "create", NEW p \in Product
        PROVE  product'[p].stock = product[p].stock - Quantity(job[s].lines, p)
    <2>1. HandledUnits(s, p) = Quantity(job[s].lines, p)
      BY <1>1, <1>5, HandledEnds DEF RequestInv, CartHeld
    <2>2. product[p].stock \in Nat
      BY DEF TypeInv, TypeOK, Row
    <2>3. CASE p \in known[s]
      <3>1. now[s][p].stock = product[p].stock - HandledUnits(s, p)
        BY <1>5, <2>3 DEF SoloRequest, Reserved
      <3>2. product'[p].stock = now[s][p].stock
        BY <1>1, <1>3, <2>3 DEF Dirty, Written
      <3> QED
        BY <2>1, <3>1, <3>2
    <2>4. CASE p \notin known[s]
      <3>1. HandledUnits(s, p) = 0
        BY <1>5, <2>4, HandledEnds DEF SoloRequest, Reserved
      <3>2. product'[p] = product[p]
        BY <1>1, <2>4 DEF Dirty
      <3> QED
        BY <2>1, <2>2, <3>1, <3>2
    <2> QED
      BY <2>3, <2>4
  <1>6. ASSUME job[s].kind = "status", NEW p \in Product
        PROVE  product'[p].stock = product[p].stock + Quantity(job[s].lines, p)
    BY <1>6, ReleaseCommitted DEF NothingDeleted, SoloRequest
  <1> QED
    BY <1>2, <1>4, <1>5, <1>6 DEF NothingDeleted

\* An order is committed: from then on it holds its units.
Ordered(s, o) ==
    /\ o \in Order /\ ~holding[o] /\ holding'[o]
    /\ order'[o] = [status |-> "pending", lines |-> job[s].lines]
    /\ \A x \in Order \ {o} : order'[x] = order[x] /\ (holding'[x] <=> holding[x])

LEMMA OrderCommits ==
    ASSUME TypeInv, HoldingKnown, NEW s \in Session, LedgerCommit(s), job[s].kind = "create"
    PROVE  \E o \in Order : Ordered(s, o)
  <1>1. PICK o \in Unused :
          order' = [order EXCEPT ![o] = [status |-> "pending", lines |-> job[s].lines]]
    BY DEF LedgerCommit, Commit, WriteOrder
  <1>2. o \in Order /\ order[o].status = "absent"
    BY <1>1 DEF Unused
  <1>3. /\ order'[o] = [status |-> "pending", lines |-> job[s].lines]
        /\ \A x \in Order \ {o} : order'[x] = order[x]
    BY <1>1, <1>2 DEF TypeInv, TypeOK
  <1>4. ~Releasing(s)
    BY DEF Releasing
  <1>5. \A x \in Order : holding'[x] <=>
          \/ order[x].status = "absent" /\ order'[x].status # "absent"
          \/ holding[x] /\ ~(Releasing(s) /\ job[s].order = x)
    BY DEF LedgerCommit
  <1>6. ~holding[o] /\ holding'[o]
    BY <1>2, <1>3, <1>5 DEF HoldingKnown
  <1>7. \A x \in Order \ {o} : holding'[x] <=> holding[x]
    BY <1>3, <1>4, <1>5
  <1> QED
    BY <1>2, <1>3, <1>6, <1>7 DEF Ordered

\* The status of an order is committed: only a release ends its hold.
Moved(s, o) ==
    /\ o \in Order /\ o = job[s].order
    /\ order[o].status # "absent" /\ order'[o].status = job[s].wanted
    /\ order'[o].lines = order[o].lines
    /\ holding'[o] <=> (holding[o] /\ ~Releasing(s))
    /\ \A x \in Order \ {o} : order'[x] = order[x] /\ (holding'[x] <=> holding[x])

LEMMA StatusCommits ==
    ASSUME TypeInv, NEW s \in Session, Asked(s), LedgerCommit(s), job[s].kind = "status"
    PROVE  Moved(s, job[s].order)
  <1> DEFINE o == job[s].order
  <1>1. /\ o \in Order /\ job[s].wanted \in Status /\ order[o].status = job[s].seen
        /\ <<job[s].seen, job[s].wanted>> \in StatusMove
    BY DEF TypeInv, JobShape, Asked
  <1>2. job[s].seen \in Status /\ "absent" \notin Status
    BY <1>1, OrderStockAssumption DEF Status
  <1>3. order' = IF job[s].wanted # job[s].seen
                 THEN [order EXCEPT ![o].status = job[s].wanted] ELSE order
    BY DEF LedgerCommit, Commit, WriteOrder
  <1>4. /\ order'[o].status = job[s].wanted /\ order'[o].lines = order[o].lines
        /\ \A x \in Order \ {o} : order'[x] = order[x]
    BY <1>1, <1>3 DEF TypeInv, TypeOK, OrderRow
  <1>5. \A x \in Order : holding'[x] <=>
          \/ order[x].status = "absent" /\ order'[x].status # "absent"
          \/ holding[x] /\ ~(Releasing(s) /\ job[s].order = x)
    BY DEF LedgerCommit
  <1>6. holding'[o] <=> (holding[o] /\ ~Releasing(s))
    BY <1>1, <1>2, <1>5
  <1>7. \A x \in Order \ {o} : holding'[x] <=> holding[x]
    BY <1>4, <1>5
  <1> QED
    BY <1>1, <1>2, <1>4, <1>6, <1>7 DEF Moved

\* Any other commit leaves the orders alone.
Untouched == \A x \in Order : order'[x] = order[x] /\ (holding'[x] <=> holding[x])

LEMMA OtherCommits ==
    ASSUME NEW s \in Session, LedgerCommit(s), job[s].kind \notin {"create", "status"}
    PROVE  Untouched
  <1>1. order' = order
    BY DEF LedgerCommit, Commit, WriteOrder
  <1>2. \A x \in Order : holding'[x] <=>
          \/ order[x].status = "absent" /\ order'[x].status # "absent"
          \/ holding[x] /\ ~(Releasing(s) /\ job[s].order = x)
    BY DEF LedgerCommit
  <1>3. ~Releasing(s)
    BY DEF Releasing
  <1> QED
    BY <1>1, <1>2, <1>3 DEF Untouched

LEMMA HoldersAfter ==
    ASSUME TypeInv, TypeInv', NoReturns, HoldingKnown, NEW s \in Session, SoloRequest(s),
           LedgerCommit(s)
    PROVE  HoldingKnown'
  <1>1. holding' \in [Order -> BOOLEAN]
    BY DEF LedgerCommit
  <1>2. CASE job[s].kind = "create"
    <2>1. PICK o \in Order : Ordered(s, o)
      BY <1>2, OrderCommits
    <2>2. Holders' = Holders \cup {o}
      BY <2>1 DEF Ordered, Holders
    <2>3. IsFiniteSet(Holders')
      BY <2>2, FS_AddElement DEF HoldingKnown
    <2>4. \A x \in Order : /\ order'[x].status = "absent" => ~holding'[x]
                           /\ order'[x].status \in Reserving => holding'[x]
      BY <2>1 DEF Ordered, HoldingKnown
    <2> QED
      BY <1>1, <2>3, <2>4 DEF HoldingKnown
  <1>3. CASE job[s].kind = "status"
    <2> DEFINE o == job[s].order
    <2>1. Moved(s, o)
      BY <1>3, StatusCommits DEF SoloRequest
    <2>2. Holders' \subseteq Holders
      BY <2>1 DEF Moved, Holders
    <2>3. IsFiniteSet(Holders')
      BY <2>2, FS_Subset DEF HoldingKnown
    <2>4. job[s].wanted \in Status /\ "absent" \notin Status
      BY <1>3 DEF TypeInv, JobShape, Status
    <2>5. job[s].wanted \in Reserving => job[s].seen \in Reserving /\ ~Releasing(s)
      BY <1>3 DEF SoloRequest, Asked, NoReturns, Releasing
    <2>6. order[o].status = job[s].seen
      BY <1>3 DEF SoloRequest, Asked
    <2>7. \A x \in Order : /\ order'[x].status = "absent" => ~holding'[x]
                           /\ order'[x].status \in Reserving => holding'[x]
      BY <2>1, <2>4, <2>5, <2>6 DEF Moved, HoldingKnown
    <2> QED
      BY <1>1, <2>3, <2>7 DEF HoldingKnown
  <1>4. CASE job[s].kind \notin {"create", "status"}
    <2>1. Untouched
      BY <1>4, OtherCommits
    <2>2. Holders' = Holders
      BY <2>1 DEF Untouched, Holders
    <2> QED
      BY <1>1, <2>1, <2>2 DEF Untouched, HoldingKnown
  <1> QED
    BY <1>2, <1>3, <1>4

\* The ledger only watches.
LEMMA LedgerWatches == LedgerSpec => Spec
  <1>1. [LedgerNext]_ledgerVars => [Next]_vars
    BY DEF LedgerNext, ledgerVars, LedgerCommit, Next, Run
  <1>2. LedgerInit => Init
    BY DEF LedgerInit
  <1> QED
    BY <1>1, <1>2, PTL DEF LedgerSpec, Spec

LEMMA SoloInvHolds ==
    ASSUME OneAtATime, NoDeletions, NoReturns
    PROVE  LedgerSpec => [](LockInv /\ SoloInv)
  <1>1. LedgerInit /\ LockInv => SoloInv
    <2> SUFFICES ASSUME LedgerInit, LockInv PROVE SoloInv
      OBVIOUS
    <2>1. NothingDeleted
      BY DEF LedgerInit, Init, NothingDeleted
    <2>2. HoldingKnown
      <3>1. Holders = {}
        BY DEF LedgerInit, Holders
      <3>2. IsFiniteSet(Holders)
        BY <3>1, FS_EmptySet
      <3> QED
        BY <3>2 DEF LedgerInit, Init, NoOrder, Reserving, HoldingKnown
    <2>3. ASSUME NEW s \in Session PROVE SoloRequest(s)
      <3>1. pc[s] = "idle" /\ known[s] = {} /\ job[s] = NoJob
        BY DEF LedgerInit, Init
      <3> QED
        BY <3>1, BlankTypes DEF SoloRequest, Released, Alone, Reserved, Asked
    <2> QED
      BY <2>1, <2>2, <2>3 DEF SoloInv
  <1>2. LockInv /\ SoloInv /\ LockInv' /\ [LedgerNext]_ledgerVars => SoloInv'
    <2> SUFFICES ASSUME LockInv, SoloInv, LockInv', [LedgerNext]_ledgerVars PROVE SoloInv'
      OBVIOUS
    <2>1. TypeInv /\ TypeInv' /\ NothingDeleted /\ HoldingKnown
      BY DEF LockInv, SoloInv
    <2>2. UNCHANGED <<product, order, holding>> => NothingDeleted' /\ HoldingKnown'
      BY <2>1 DEF NothingDeleted, HoldingKnown, Holders
    <2>3. ASSUME NEW s \in Session, SoloRequest(s)', NothingDeleted', HoldingKnown'
          PROVE  SoloInv'
      <3>1. \A t \in Session : t = s
        BY DEF OneAtATime
      <3> QED
        BY <2>3, <3>1 DEF SoloInv
    <2>4. ASSUME NEW s \in Session PROVE RequestInv(s) /\ SoloRequest(s)
      BY DEF LockInv, SoloInv
    <2>5. ASSUME NEW s \in Session, LedgerCommit(s) PROVE SoloInv'
      <3>1. Commit(s) /\ Close(s)
        BY <2>5 DEF LedgerCommit, Commit
      <3>2. SoloRequest(s)'
        BY <2>1, <3>1, CloseSolo DEF SoloRequest
      <3>3. NothingDeleted'
        BY <2>1, <2>4, <3>1, SoloCommits
      <3>4. HoldingKnown'
        BY <2>1, <2>4, <2>5, HoldersAfter
      <3> QED
        BY <2>3, <3>2, <3>3, <3>4
    <2>6. ASSUME NEW s \in Session, Arrive(s), UNCHANGED holding PROVE SoloInv'
      <3>1. UNCHANGED <<product, order>> /\ SoloRequest(s)'
        BY <2>1, <2>4, <2>6, ArriveSolo DEF SoloRequest
      <3> QED
        BY <2>2, <2>3, <2>6, <3>1
    <2>7. ASSUME NEW s \in Session, Handle(s), UNCHANGED holding PROVE SoloInv'
      <3>1. UNCHANGED <<product, order>> /\ SoloRequest(s)'
        BY <2>1, <2>4, <2>7, HandleSolo
      <3> QED
        BY <2>2, <2>3, <2>7, <3>1
    <2>8. ASSUME NEW s \in Session, Rollback(s), UNCHANGED holding PROVE SoloInv'
      <3>1. UNCHANGED <<product, order>> /\ SoloRequest(s)'
        BY <2>1, <2>8, CloseSolo DEF Rollback, db, SoloRequest
      <3> QED
        BY <2>2, <2>3, <2>8, <3>1
    <2>9. CASE UNCHANGED ledgerVars
      <3>1. /\ UNCHANGED <<product, order, holding>>
            /\ UNCHANGED <<rowLock, pc, job, at, view, known, loaded, now>>
        BY <2>9 DEF ledgerVars, vars, db, request, identityMap
      <3>2. ASSUME NEW s \in Session PROVE SoloRequest(s)'
        <4>1. Released(s) /\ Alone(s) /\ Reserved(s) /\ Asked(s)
          BY <2>4 DEF SoloRequest
        <4>2. \A p \in Product :
                Handled(s, p)' = Handled(s, p) /\ HandledUnits(s, p)' = HandledUnits(s, p)
          BY <3>1 DEF Handled, HandledUnits
        <4>3. Released(s)' /\ Reserved(s)'
          BY <3>1, <4>1, <4>2 DEF Released, Reserved
        <4>4. Alone(s)' /\ Asked(s)'
          BY <3>1, <4>1 DEF Alone, Asked
        <4> QED
          BY <4>3, <4>4 DEF SoloRequest
      <3> QED
        BY <2>2, <3>1, <3>2 DEF SoloInv
    <2> QED
      BY <2>5, <2>6, <2>7, <2>8, <2>9 DEF LedgerNext, LockTimeout, WorkerDies
  <1>3. LedgerSpec => []LockInv
    BY LedgerWatches, LockInvHolds, PTL
  <1> QED
    BY <1>1, <1>2, <1>3, PTL DEF LedgerSpec

\* The units of the lines of an order are a number.
LEMMA QuantityIsNat ==
    ASSUME NEW lines \in Seq(Item), NEW p PROVE Quantity(lines, p) \in Nat
  <1>1. DOMAIN lines = 1..Len(lines) /\ Len(lines) \in Nat
    BY LenProperties
  <1>2. \A i \in 1..Len(lines) : lines[i] \in Item
    BY ElementOfSeq
  <1>3. LinesOf(lines, p) \subseteq 1..Len(lines) /\ IsFiniteSet(1..Len(lines))
    BY <1>1, FS_Interval DEF LinesOf
  <1>4. \A i \in LinesOf(lines, p) : Values(lines)[i] \in Nat
    BY <1>1, <1>2, <1>3 DEF Values, Item
  <1>5. IsFiniteSet(LinesOf(lines, p))
    BY <1>3, FS_Subset
  <1> QED
    BY <1>4, <1>5, SumNat DEF Quantity

\* The units that all holders have, when one order joins or leaves them.
LEMMA HeldUnits ==
    ASSUME TypeInv, HoldingKnown, NEW p
    PROVE  /\ SumFunctionOnSet(OrderedUnits(p), Holders) \in Int
           /\ \A o \in Holders : OrderedUnits(p)[o] \in Int
  <1>1. \A o \in Holders : OrderedUnits(p)[o] \in Int
    BY QuantityIsNat DEF OrderedUnits, Holders, TypeInv, TypeOK, OrderRow
  <1> QED
    BY <1>1, SumType DEF HoldingKnown

LEMMA HeldBySame ==
    ASSUME HoldingKnown, NEW p, Holders' = Holders,
           \A o \in Holders : order'[o].lines = order[o].lines
    PROVE  SumFunctionOnSet(OrderedUnits(p), Holders)' = SumFunctionOnSet(OrderedUnits(p), Holders)
  <1>1. \A o \in Holders : OrderedUnits(p)'[o] = OrderedUnits(p)[o]
    BY DEF OrderedUnits, Holders
  <1>2. SumFunctionOnSet(OrderedUnits(p)', Holders) = SumFunctionOnSet(OrderedUnits(p), Holders)
    BY <1>1, SumSame DEF HoldingKnown
  <1> QED
    BY <1>2

LEMMA HeldByOneMore ==
    ASSUME TypeInv, TypeInv', HoldingKnown, NEW p, NEW o \in Order, o \notin Holders,
           Holders' = Holders \cup {o},
           \A x \in Holders : order'[x].lines = order[x].lines
    PROVE  SumFunctionOnSet(OrderedUnits(p), Holders)' =
             Quantity(order'[o].lines, p) + SumFunctionOnSet(OrderedUnits(p), Holders)
  <1> DEFINE new == OrderedUnits(p)'
  <1>1. \A x \in Holders : new[x] = OrderedUnits(p)[x]
    BY DEF OrderedUnits, Holders
  <1>2. \A x \in Holders \cup {o} : new[x] \in Int
    <2>1. \A x \in Order : Quantity(order'[x].lines, p) \in Nat
      BY QuantityIsNat DEF TypeInv, TypeOK, OrderRow
    <2> QED
      BY <2>1 DEF OrderedUnits, Holders
  <1>3. new[o] = Quantity(order'[o].lines, p)
    BY DEF OrderedUnits
  <1> HIDE DEF new
  <1>4. SumFunctionOnSet(new, Holders) = SumFunctionOnSet(OrderedUnits(p), Holders)
    BY <1>1, SumSame DEF HoldingKnown
  <1>5. SumFunctionOnSet(new, Holders \cup {o}) = new[o] + SumFunctionOnSet(new, Holders)
    BY <1>2, SumAdd DEF HoldingKnown
  <1> QED
    BY <1>3, <1>4, <1>5 DEF new

LEMMA HeldByOneLess ==
    ASSUME TypeInv, HoldingKnown, NEW p, NEW o \in Holders, Holders' = Holders \ {o},
           \A x \in Holders : order'[x].lines = order[x].lines
    PROVE  /\ SumFunctionOnSet(OrderedUnits(p), Holders)' \in Int
           /\ SumFunctionOnSet(OrderedUnits(p), Holders) =
                Quantity(order[o].lines, p) + SumFunctionOnSet(OrderedUnits(p), Holders)'
  <1>1. \A x \in Holders \ {o} : OrderedUnits(p)'[x] = OrderedUnits(p)[x]
    BY DEF OrderedUnits, Holders
  <1>2. IsFiniteSet(Holders) /\ IsFiniteSet(Holders \ {o})
    BY FS_RemoveElement DEF HoldingKnown
  <1>3. SumFunctionOnSet(OrderedUnits(p)', Holders \ {o}) =
          SumFunctionOnSet(OrderedUnits(p), Holders \ {o})
    BY <1>1, <1>2, SumSame
  <1>4. SumFunctionOnSet(OrderedUnits(p), Holders) =
          OrderedUnits(p)[o] + SumFunctionOnSet(OrderedUnits(p), Holders \ {o})
    BY <1>2, HeldUnits, SumRemove
  <1>5. OrderedUnits(p)[o] = Quantity(order[o].lines, p)
    BY DEF OrderedUnits, Holders
  <1>6. \A x \in Holders \ {o} : OrderedUnits(p)[x] \in Int
    BY HeldUnits
  <1>7. SumFunctionOnSet(OrderedUnits(p), Holders \ {o}) \in Int
    BY <1>2, <1>6, SumType
  <1> QED
    BY <1>3, <1>4, <1>5, <1>7

\* A step that is no commit leaves the rows, the orders and the ledger alone.
LEMMA OnlyCommitsCount ==
    ASSUME [LedgerNext]_ledgerVars, \A s \in Session : ~LedgerCommit(s)
    PROVE  UNCHANGED <<product, order, holding>>
  <1>1. ASSUME NEW s \in Session, Arrive(s) \/ Handle(s) \/ Rollback(s), UNCHANGED holding
        PROVE  UNCHANGED <<product, order, holding>>
    BY <1>1 DEF Arrive, BeginCreate, BeginStatus, BeginPatch, BeginPut, BeginDelete, BeginRestore,
       Begin, Handle, LoadItem, ReserveStock, ReleaseStock, PatchRow, ReplaceRow, SoftDelete,
       RestoreRow, FlushRow, Rollback, db
  <1> QED
    BY <1>1 DEF LedgerNext, LockTimeout, WorkerDies, ledgerVars, vars, db

LEMMA CommitConserves ==
    ASSUME LockInv, LockInv', SoloInv, NEW s \in Session, LedgerCommit(s), ~StockEdit(s),
           NEW p \in Product
    PROVE  Units(p)' = Units(p)
  <1>1. /\ TypeInv /\ TypeInv' /\ RequestInv(s) /\ SoloRequest(s) /\ HoldingKnown
        /\ NothingDeleted /\ Commit(s)
    BY DEF LockInv, SoloInv, LedgerCommit
  <1>2. /\ job[s].kind \in {"create", "status"}
        /\ job[s].kind = "create" =>
              product'[p].stock = product[p].stock - Quantity(job[s].lines, p)
        /\ job[s].kind = "status" =>
              product'[p].stock = product[p].stock + Quantity(job[s].lines, p)
    BY <1>1, SoloCommits DEF StockEdit
  <1> DEFINE held == SumFunctionOnSet(OrderedUnits(p), Holders)
  <1>3. held \in Int /\ product[p].stock \in Int
    BY <1>1, HeldUnits DEF TypeInv, TypeOK, Row
  <1>4. Units(p)' = product'[p].stock + held' /\ Units(p) = product[p].stock + held
    BY DEF Units
  <1>5. ASSUME NEW lines \in Seq(Item) PROVE Quantity(lines, p) \in Int
    BY QuantityIsNat
  <1>6. CASE job[s].kind = "create"
    <2>1. PICK o \in Order : Ordered(s, o)
      BY <1>1, <1>6, OrderCommits
    <2>2. o \notin Holders /\ Holders' = Holders \cup {o}
          /\ \A x \in Holders : order'[x].lines = order[x].lines
      BY <2>1 DEF Ordered, Holders
    <2>3. order'[o].lines = job[s].lines
      BY <2>1 DEF Ordered
    <2>4. held' = Quantity(job[s].lines, p) + held
      BY <1>1, <2>2, <2>3, HeldByOneMore
    <2>5. Quantity(job[s].lines, p) \in Int
      BY <1>1, <1>5, <1>6 DEF TypeInv, JobShape
    <2> HIDE DEF held
    <2> QED
      BY <1>2, <1>3, <1>4, <1>6, <2>4, <2>5
  <1>7. CASE job[s].kind = "status"
    <2> DEFINE o == job[s].order
    <2>1. Moved(s, o)
      BY <1>1, <1>7, StatusCommits DEF SoloRequest
    <2>2. \A x \in Order : order'[x].lines = order[x].lines
      BY <2>1 DEF Moved
    <2>3. CASE Releasing(s)
      <3>1. /\ job[s].lines = order[o].lines /\ order[o].status \in Reserving
        BY <1>1, <1>7, <2>3 DEF SoloRequest, Asked, Releasing
      <3>2. o \in Holders
        BY <1>1, <2>1, <3>1 DEF HoldingKnown, Holders, Moved
      <3>3. Holders' = Holders \ {o}
        BY <2>1, <2>3 DEF Holders, Moved
      <3>4. \A x \in Holders : order'[x].lines = order[x].lines
        BY <2>2 DEF Holders
      <3>5. held = Quantity(job[s].lines, p) + held' /\ held' \in Int
        BY <1>1, <3>1, <3>2, <3>3, <3>4, HeldByOneLess
      <3>6. Quantity(job[s].lines, p) \in Int
        BY <1>1, <1>5, <2>1, <3>1 DEF TypeInv, TypeOK, OrderRow, Moved
      <3> HIDE DEF held
      <3> QED
        BY <1>2, <1>3, <1>4, <1>7, <3>5, <3>6
    <2>4. CASE ~Releasing(s)
      <3>1. job[s].lines = <<>>
        BY <1>7, <2>4 DEF Releasing
      <3>2. Quantity(job[s].lines, p) = 0
        <4>1. LinesOf(<<>>, p) = {}
          BY DEF LinesOf
        <4> QED
          BY <3>1, <4>1, SumEmpty DEF Quantity
      <3>3. Holders' = Holders /\ \A x \in Holders : order'[x].lines = order[x].lines
        BY <2>1, <2>2, <2>4 DEF Holders, Moved
      <3>4. held' = held
        BY <1>1, <3>3, HeldBySame
      <3> HIDE DEF held
      <3> QED
        BY <1>2, <1>3, <1>4, <1>7, <3>2, <3>4
    <2> QED
      BY <2>3, <2>4
  <1> QED
    BY <1>2, <1>6, <1>7

\* One request at a time, as long as nothing is deleted and no order returns to
\* a status in which it holds stock: whatever orders, cancellations, crashes and
\* refusals there are, for any carts, the units of a product are on stock or held
\* by an order, and their number changes in catalogue edits alone.
THEOREM UnitsAreConserved ==
    ASSUME OneAtATime, NoDeletions, NoReturns
    PROVE  LedgerSpec => UnitsConserved
  <1>1. ASSUME LockInv, LockInv', SoloInv, [LedgerNext]_ledgerVars,
               \A s \in Session : ~StockEdit(s), NEW p \in Product
        PROVE  Units(p)' = Units(p)
    <2>1. ASSUME NEW s \in Session, LedgerCommit(s) PROVE Units(p)' = Units(p)
      BY <1>1, <2>1, CommitConserves
    <2>2. CASE \A s \in Session : ~LedgerCommit(s)
      <3>1. UNCHANGED <<product, order, holding>>
        BY <1>1, <2>2, OnlyCommitsCount
      <3> QED
        BY <3>1 DEF Units, OrderedUnits, Holders
    <2> QED
      BY <2>1, <2>2
  <1>2. LockInv /\ LockInv' /\ SoloInv /\ [LedgerNext]_ledgerVars =>
          [(\A s \in Session : ~StockEdit(s)) =>
              \A p \in Product : Units(p)' = Units(p)]_ledgerVars
    BY <1>1
  <1> QED
    BY <1>2, SoloInvHolds, PTL DEF LedgerSpec, UnitsConserved

-------------------------------------------------------------------------------
(* The atomic shop.                                                          *)

\* Both modules count the units of an order in the same way.
LEMMA SameQuantity ==
    ASSUME NEW lines, NEW p PROVE Shop!Quantity(lines, p) = Quantity(lines, p)
  BY DEF Shop!Quantity, Shop!LinesOf, Shop!Values, Shop!SumFunctionOnSet,
         Shop!FoldFunctionOnSet, Shop!MapThenFoldSet,
         Quantity, LinesOf, Values, SumFunctionOnSet, FoldFunctionOnSet, MapThenFoldSet

LEMMA OrderPlaces ==
    ASSUME LockInv, LockInv', SoloInv, NEW s \in Session, LedgerCommit(s),
           job[s].kind = "create"
    PROVE  \E o \in Order : Shop!Place(o, job[s].lines)
  <1>1. /\ TypeInv /\ TypeInv' /\ RequestInv(s) /\ SoloRequest(s) /\ HoldingKnown
        /\ NothingDeleted /\ Commit(s)
    BY DEF LockInv, SoloInv, LedgerCommit
  <1>2. PICK o \in Order : Ordered(s, o)
    BY <1>1, OrderCommits
  <1> DEFINE lines == job[s].lines
  <1>3. \A p \in Product : product'[p].stock = product[p].stock - Quantity(lines, p)
    BY <1>1, SoloCommits
  <1>4. \A p \in Product : /\ product[p].stock \in Nat /\ product'[p].stock \in Nat
                           /\ Quantity(lines, p) \in Nat
    BY <1>1, QuantityIsNat DEF TypeInv, TypeOK, Row, JobShape
  <1> HIDE DEF lines
  <1>5. \A p \in Product : Quantity(lines, p) <= product[p].stock
    <2> SUFFICES ASSUME NEW p \in Product PROVE Quantity(lines, p) <= product[p].stock
      OBVIOUS
    <2>1. /\ product[p].stock - Quantity(lines, p) \in Nat
          /\ product[p].stock \in Nat /\ Quantity(lines, p) \in Nat
      BY <1>3, <1>4
    <2> QED
      BY <2>1
  <1>6. \A x \in Order : (IF holding'[x] THEN order'[x].lines ELSE <<>>) =
            IF x = o THEN lines ELSE IF holding[x] THEN order[x].lines ELSE <<>>
    BY <1>2 DEF Ordered, lines
  <1>7. ~holding[o]
    BY <1>2 DEF Ordered
  <1>8. Shop!Place(o, lines)
    BY <1>3, <1>5, <1>6, <1>7, SameQuantity DEF Shop!Place
  <1> QED
    BY <1>8 DEF lines

LEMMA ReleaseGivesUp ==
    ASSUME LockInv, SoloInv, NEW s \in Session, LedgerCommit(s), Releasing(s)
    PROVE  job[s].order \in Order /\ Shop!GiveUp(job[s].order)
  <1>1. /\ TypeInv /\ RequestInv(s) /\ SoloRequest(s) /\ HoldingKnown
        /\ NothingDeleted /\ Commit(s) /\ job[s].kind = "status" /\ job[s].lines # <<>>
    BY DEF LockInv, SoloInv, LedgerCommit, Releasing
  <1> DEFINE o == job[s].order
             lines == job[s].lines
  <1>2. Moved(s, o)
    BY <1>1, StatusCommits DEF SoloRequest
  <1>3. o \in Order /\ lines = order[o].lines /\ holding[o] /\ ~holding'[o]
    BY <1>1, <1>2 DEF SoloRequest, Asked, HoldingKnown, Moved
  <1>4. \A p \in Product : product'[p].stock = product[p].stock + Quantity(lines, p)
    BY <1>1, SoloCommits
  <1>5. \A x \in Order : (IF holding'[x] THEN order'[x].lines ELSE <<>>) =
            IF x = o THEN <<>> ELSE IF holding[x] THEN order[x].lines ELSE <<>>
    BY <1>2, <1>3 DEF Moved
  <1>6. lines # <<>>
    BY <1>1
  <1> HIDE DEF o, lines
  <1>7. Shop!GiveUp(o)
    BY <1>3, <1>4, <1>5, <1>6, SameQuantity DEF Shop!GiveUp
  <1> QED
    BY <1>3, <1>7 DEF o

LEMMA CommitRefines ==
    ASSUME LockInv, LockInv', SoloInv, NEW s \in Session, LedgerCommit(s)
    PROVE  Shop!Next \/ UNCHANGED Shop!vars
  <1>1. /\ TypeInv /\ TypeInv' /\ RequestInv(s) /\ SoloRequest(s) /\ HoldingKnown
        /\ NothingDeleted /\ Commit(s)
    BY DEF LockInv, SoloInv, LedgerCommit
  <1>2. CASE job[s].kind = "create"
    <2>1. job[s].lines \in Cart
      BY <1>1, <1>2 DEF SoloRequest, Reserved
    <2>2. PICK o \in Order : Shop!Place(o, job[s].lines)
      BY <1>2, OrderPlaces
    <2>3. Shop!Next
      BY <2>1, <2>2 DEF Shop!Next, Shop!Place
    <2> QED
      BY <2>3
  <1>3. CASE Releasing(s)
    <2>1. job[s].order \in Order /\ Shop!GiveUp(job[s].order)
      BY <1>3, ReleaseGivesUp
    <2>2. Shop!Next
      BY <2>1 DEF Shop!Next, Shop!GiveUp
    <2> QED
      BY <2>2
  <1>4. CASE job[s].kind = "status" /\ ~Releasing(s)
    <2>1. Moved(s, job[s].order) /\ job[s].lines = <<>>
      BY <1>1, <1>4, StatusCommits DEF SoloRequest, Releasing
    <2>2. \A p : Quantity(job[s].lines, p) = 0
      <3>1. \A p : LinesOf(<<>>, p) = {}
        BY DEF LinesOf
      <3> QED
        BY <2>1, <3>1, SumEmpty DEF Quantity
    <2>3. \A p \in Product : product'[p].stock = product[p].stock
      <3>1. \A p \in Product : product[p].stock \in Nat
        BY <1>1 DEF TypeInv, TypeOK, Row
      <3> QED
        BY <1>1, <1>4, <2>2, <3>1, SoloCommits
    <2>4. \A x \in Order : (IF holding'[x] THEN order'[x].lines ELSE <<>>) =
                            IF holding[x] THEN order[x].lines ELSE <<>>
      BY <1>4, <2>1 DEF Moved
    <2>5. [p \in Product |-> product'[p].stock] = [p \in Product |-> product[p].stock]
      BY <2>3
    <2>6. [x \in Order |-> IF holding'[x] THEN order'[x].lines ELSE <<>>] =
          [x \in Order |-> IF holding[x] THEN order[x].lines ELSE <<>>]
      BY <2>4
    <2> QED
      BY <2>5, <2>6 DEF Shop!vars
  <1>5. CASE job[s].kind \in {"patch", "put"}
    <2>1. \A p \in Product : product'[p].stock \in Nat
      BY <1>1 DEF TypeInv, TypeOK, Row
    <2>2. Untouched
      BY <1>5, OtherCommits
    <2>3. \A x \in Order : (IF holding'[x] THEN order'[x].lines ELSE <<>>) =
                            IF holding[x] THEN order[x].lines ELSE <<>>
      BY <2>2 DEF Untouched
    <2>4. Shop!Restock
      BY <2>1, <2>3 DEF Shop!Restock
    <2> QED
      BY <2>4 DEF Shop!Next
  <1>6. job[s].kind \in {"create", "status", "patch", "put"}
    BY <1>1, SoloCommits
  <1>7. \/ job[s].kind = "create"
        \/ Releasing(s)
        \/ job[s].kind = "status" /\ ~Releasing(s)
        \/ job[s].kind \in {"patch", "put"}
    BY <1>6
  <1> QED
    BY <1>2, <1>3, <1>4, <1>5, <1>7

\* Under the same hypotheses the order service is the atomic shop: each of its
\* steps places an order whole, gives one up whole, edits the catalogue or moves
\* nothing, whatever the carts hold and wherever a request fails.
THEOREM ShopIsAtomic ==
    ASSUME OneAtATime, NoDeletions, NoReturns
    PROVE  LedgerSpec => ImplementsInventory
  <1>1. LedgerInit => Shop!Init
    <2> SUFFICES ASSUME LedgerInit PROVE Shop!Init
      OBVIOUS
    <2>1. \A p \in Product : product[p].stock = InitialStock[p]
      BY DEF LedgerInit, Init
    <2>2. InitialStock = [p \in Product |-> InitialStock[p]]
      BY OrderStockAssumption
    <2>3. \A o \in Order : ~holding[o]
      BY DEF LedgerInit
    <2> QED
      BY <2>1, <2>2, <2>3 DEF Shop!Init
  <1>2. LockInv /\ LockInv' /\ SoloInv /\ [LedgerNext]_ledgerVars => [Shop!Next]_(Shop!vars)
    <2> SUFFICES ASSUME LockInv, LockInv', SoloInv, [LedgerNext]_ledgerVars
                 PROVE  Shop!Next \/ UNCHANGED Shop!vars
      OBVIOUS
    <2>1. ASSUME NEW s \in Session, LedgerCommit(s) PROVE Shop!Next \/ UNCHANGED Shop!vars
      BY <2>1, CommitRefines
    <2>2. CASE \A s \in Session : ~LedgerCommit(s)
      <3>1. UNCHANGED <<product, order, holding>>
        BY <2>2, OnlyCommitsCount
      <3> QED
        BY <3>1 DEF Shop!vars
    <2> QED
      BY <2>1, <2>2
  <1> QED
    BY <1>1, <1>2, SoloInvHolds, PTL DEF LedgerSpec, ImplementsInventory, Shop!Spec
===============================================================================
