------------------------------ MODULE OrderStock ------------------------------
(***************************************************************************)
(* Orders and the stock they reserve: OrderService, ProductService and the *)
(* handlers that call them, as concurrent requests over one database.      *)
(*                                                                         *)
(* A request owns one SQLAlchemy Session for its lifetime.  The Session is *)
(* a transaction (a read view and the row locks taken by SELECT ... FOR    *)
(* UPDATE) and an identity map: the first SELECT that returns a row loads  *)
(* it, later ones return the object as it is in memory (no                 *)
(* populate_existing), autoflush is off, and commit() writes the columns   *)
(* whose value differs from the loaded one, as absolute values.            *)
(*                                                                         *)
(* Operators named Op_Variant are faulty versions of Op; the model does    *)
(* not use them, they show which property notices the fault.               *)
(***************************************************************************)
EXTENDS Integers, Sequences, FiniteSets

CONSTANTS
    Product,      \* primary keys of the products
    Order,        \* the order rows that may come to exist
    Session,      \* the requests that can be in flight at once
    None,         \* no session, no order
    Isolation,    \* "REPEATABLE READ" (MySQL) or "READ COMMITTED" (PostgreSQL)
    InitialStock, \* stock_quantity of each product at the start
    Cart,         \* bodies of POST /orders: sequences of [product, value]
    StatusMove,   \* <<status read, status asked for>> of PATCH /orders/{id}/status
    Patch,        \* bodies of PATCH /products[/bulk]: sequences of [product, value]
    Put,          \* bodies of PUT /products/{id}: [product, value]
    DeleteList,   \* bodies of POST /products/bulk-delete, DELETE being length one
    Restorable,   \* products PATCH /products/{id}/restore is called for
    MaxStock      \* bound: no release is requested while a stock is above it

\* A PATCH that does not name stock_quantity (model_dump(exclude_unset=True)).
Unset == -1

Status == {"pending", "confirmed", "shipped", "delivered", "cancelled"}
Line == [product : Product, value : Nat \cup {Unset}]
Item == [product : Product, value : Nat \ {0}]

ASSUME OrderStockAssumption ==
    /\ Product \subseteq Nat
    /\ None \notin Session
    /\ None \notin Order
    /\ Isolation \in {"REPEATABLE READ", "READ COMMITTED"}
    /\ InitialStock \in [Product -> Nat]
    /\ Cart \subseteq Seq(Item)
    /\ StatusMove \subseteq Status \X Status
    /\ Patch \subseteq Seq(Line)
    /\ Put \subseteq [product : Product, value : Nat]
    /\ DeleteList \subseteq Seq(Product)
    /\ Restorable \subseteq Product
    /\ MaxStock \in Nat
    /\ \A body \in Cart \cup Patch : Len(body) > 0
    /\ \A body \in DeleteList : Len(body) > 0

VARIABLES
    product,  \* committed rows of table products
    order,    \* committed rows of orders with their order_items
    rowLock,  \* the transaction that holds the lock of a product row
    pc,       \* what the request does next
    job,      \* the request: its kind, its body, the order it addresses
    at,       \* the line of the body the handler is at
    view,     \* the products a plain SELECT of the transaction sees
    known,    \* the products in the identity map
    loaded,   \* their columns as loaded
    now       \* their columns as the handler has set them

db == <<product, order>>
identityMap == <<known, loaded, now>>
request == <<pc, job, at>>
vars == <<db, rowLock, request, view, identityMap>>

Row == [stock : Nat, deleted : BOOLEAN]
Blank == [stock |-> 0, deleted |-> FALSE]
BlankRows == [p \in Product |-> Blank]

OrderRow == [status : Status \cup {"absent"}, lines : Seq(Item)]
NoOrder == [status |-> "absent", lines |-> <<>>]

Kind == {"none", "create", "status", "patch", "put", "delete", "restore"}
Job == [kind : Kind, lines : Seq(Line), order : Order \cup {None},
        seen : Status \cup {"absent"}, wanted : Status \cup {"absent"}]
ProductJob(kind, lines) ==
    [kind |-> kind, lines |-> lines, order |-> None,
     seen |-> "absent", wanted |-> "absent"]
NoJob == ProductJob("none", <<>>)

TypeOK ==
    /\ product \in [Product -> Row]
    /\ order \in [Order -> OrderRow]
    /\ rowLock \in [Product -> Session \cup {None}]
    /\ pc \in [Session -> {"idle", "load", "lock", "flush"}]
    /\ job \in [Session -> Job]
    /\ at \in [Session -> Nat]
    /\ view \in [Session -> [Product -> Row]]
    /\ known \in [Session -> SUBSET Product]
    /\ loaded \in [Session -> [Product -> Row]]
    /\ now \in [Session -> [Product -> Row]]

Init ==
    /\ product = [p \in Product |-> [stock |-> InitialStock[p], deleted |-> FALSE]]
    /\ order = [o \in Order |-> NoOrder]
    /\ rowLock = [p \in Product |-> None]
    /\ pc = [s \in Session |-> "idle"]
    /\ job = [s \in Session |-> NoJob]
    /\ at = [s \in Session |-> 1]
    /\ view = [s \in Session |-> BlankRows]
    /\ known = [s \in Session |-> {}]
    /\ loaded = [s \in Session |-> BlankRows]
    /\ now = [s \in Session |-> BlankRows]

-------------------------------------------------------------------------------
(* The Session: reads, the identity map, row locks, the end of a transaction. *)

Current(s) == job[s].lines[at[s]]

\* The object a plain SELECT returns: the one in the identity map, or the row
\* in the transaction's read view.
Fetched(s, p) ==
    IF p \in known[s] THEN now[s][p]
    ELSE IF Isolation = "REPEATABLE READ" THEN view[s][p] ELSE product[p]

\* The object SELECT ... FOR UPDATE returns: a locking read sees the newest
\* committed row, but an object that is already loaded keeps its columns.
FetchedForUpdate_FromSnapshot(s, p) == IF p \in known[s] THEN now[s][p] ELSE view[s][p]
FetchedForUpdate_Repopulated(s, p) == product[p]
FetchedForUpdate(s, p) == IF p \in known[s] THEN now[s][p] ELSE product[p]

\* p is in the identity map as row, and the handler sets it to new.
Remember(s, p, row, new) ==
    /\ known' = [known EXCEPT ![s] = @ \cup {p}]
    /\ loaded' = IF p \in known[s] THEN loaded ELSE [loaded EXCEPT ![s][p] = row]
    /\ now' = [now EXCEPT ![s][p] = new]

CanLock_NoForUpdate(s, p) == TRUE
CanLock(s, p) == rowLock[p] \in {None, s}
Lock(s, p) == rowLock' = [rowLock EXCEPT ![p] = s]

\* close(): the locks are freed and the Session's objects are gone.
Close(s) ==
    /\ rowLock' = [p \in Product |-> IF rowLock[p] = s THEN None ELSE rowLock[p]]
    /\ pc' = [pc EXCEPT ![s] = "idle"]
    /\ job' = [job EXCEPT ![s] = NoJob]
    /\ at' = [at EXCEPT ![s] = 1]
    /\ view' = [view EXCEPT ![s] = BlankRows]
    /\ known' = [known EXCEPT ![s] = {}]
    /\ loaded' = [loaded EXCEPT ![s] = BlankRows]
    /\ now' = [now EXCEPT ![s] = BlankRows]

Rollback(s) == Close(s) /\ UNCHANGED db

\* The loop over the body goes on at step, or the handler calls commit().
NextLine(s, step) ==
    /\ at' = [at EXCEPT ![s] = @ + 1]
    /\ pc' = [pc EXCEPT ![s] = IF at[s] < Len(job[s].lines) THEN step ELSE "flush"]
    /\ UNCHANGED job

\* The dependencies have authenticated the caller; the transaction in which
\* the handler runs took its read view in them.
Begin(s, j, step) ==
    /\ pc[s] = "idle"
    /\ pc' = [pc EXCEPT ![s] = step]
    /\ job' = [job EXCEPT ![s] = j]
    /\ at' = [at EXCEPT ![s] = 1]
    /\ view' = [view EXCEPT ![s] = product]
    /\ UNCHANGED <<db, rowLock, identityMap>>

-------------------------------------------------------------------------------
(* POST /orders: OrderService.create. *)

InFlight(kind) == {s \in Session : job[s].kind = kind}
Unused == {o \in Order : order[o].status = "absent"}

BeginCreate(s) ==
    /\ Cardinality(InFlight("create")) < Cardinality(Unused)
    /\ \E cart \in Cart : Begin(s, ProductJob("create", cart), "load")

\* product = self.product_service.get_by_id(item_req.product_id)
LoadItem(s) ==
    /\ pc[s] = "load" /\ job[s].kind = "create"
    /\ LET p == Current(s).product
           row == Fetched(s, p)
       IN \/ row.deleted /\ Rollback(s)
          \/ /\ ~row.deleted
             /\ Remember(s, p, row, row)
             /\ pc' = [pc EXCEPT ![s] = "lock"]
             /\ UNCHANGED <<db, rowLock, job, at, view>>

\* if product is None or product.stock_quantity < quantity
Insufficient_UncheckedStock(p, row, quantity) == product[p].deleted
Insufficient_UncheckedDeletion(p, row, quantity) == row.stock < quantity
Insufficient(p, row, quantity) == product[p].deleted \/ row.stock < quantity

\* reserve_stock(): the locking read filters on the newest is_deleted, the
\* stock compared and decremented is that of the object LoadItem loaded.
ReserveStock(s) ==
    /\ pc[s] = "lock" /\ job[s].kind = "create"
    /\ LET p == Current(s).product
           quantity == Current(s).value
           row == FetchedForUpdate(s, p)
       IN /\ CanLock(s, p)
          /\ \/ Insufficient(p, row, quantity) /\ Rollback(s)
             \/ /\ ~Insufficient(p, row, quantity)
                /\ Lock(s, p)
                /\ Remember(s, p, row, [row EXCEPT !.stock = @ - quantity])
                /\ NextLine(s, "load")
                /\ UNCHANGED <<db, view>>

-------------------------------------------------------------------------------
(* PATCH /orders/{id}/status: OrderService.update_status.                   *)

Reserving == {"pending", "confirmed"}

\* get_by_id reads the order without a lock.  Any status may be asked for in
\* any status; StatusMove says what the callers do ask for.
BeginStatus(s) ==
    \E o \in Order, move \in StatusMove :
        LET seen == move[1]
            wanted == move[2]
            releases == wanted = "cancelled" /\ seen \in Reserving
            j == [kind |-> "status", order |-> o, seen |-> seen, wanted |-> wanted,
                  lines |-> IF releases THEN order[o].lines ELSE <<>>]
        IN /\ order[o].status = seen
           /\ releases => \A p \in Product : product[p].stock <= MaxStock
           /\ Begin(s, j, IF releases THEN "lock" ELSE "flush")

\* release_stock(): a deleted product is skipped.  InnoDB keeps the lock of a
\* row it scanned under REPEATABLE READ even when the filter refuses the row.
ReleaseStock(s) ==
    /\ pc[s] = "lock" /\ job[s].kind = "status"
    /\ LET p == Current(s).product
           row == FetchedForUpdate(s, p)
       IN /\ CanLock(s, p)
          /\ \/ /\ product[p].deleted
                /\ IF Isolation = "REPEATABLE READ" THEN Lock(s, p) ELSE UNCHANGED rowLock
                /\ UNCHANGED identityMap
             \/ /\ ~product[p].deleted
                /\ Lock(s, p)
                /\ Remember(s, p, row, [row EXCEPT !.stock = @ + Current(s).value])
          /\ NextLine(s, "lock")
          /\ UNCHANGED <<db, view>>

-------------------------------------------------------------------------------
(* The product handlers. *)

BeginPatch(s) == \E body \in Patch : Begin(s, ProductJob("patch", body), "lock")

\* update() and the loop of bulk_update(); both end without a commit when the
\* row is missing (404, or ValueError and rollback).
PatchRow(s) ==
    /\ pc[s] = "lock" /\ job[s].kind = "patch"
    /\ LET p == Current(s).product
           stock == Current(s).value
           row == FetchedForUpdate(s, p)
       IN /\ CanLock(s, p)
          /\ \/ product[p].deleted /\ Rollback(s)
             \/ /\ ~product[p].deleted
                /\ Lock(s, p)
                /\ Remember(s, p, row,
                            [row EXCEPT !.stock = IF stock = Unset THEN @ ELSE stock])
                /\ NextLine(s, "lock")
                /\ UNCHANGED <<db, view>>

BeginPut(s) == \E body \in Put : Begin(s, ProductJob("put", <<body>>), "load")

\* replace(): a plain read, then every column is set to the body's.
ReplaceRow(s) ==
    /\ pc[s] = "load" /\ job[s].kind = "put"
    /\ LET p == Current(s).product
           row == Fetched(s, p)
       IN \/ row.deleted /\ Rollback(s)
          \/ /\ ~row.deleted
             /\ Remember(s, p, row, [row EXCEPT !.stock = Current(s).value])
             /\ NextLine(s, "load")
             /\ UNCHANGED <<db, rowLock, view>>

BeginDelete(s) ==
    \E list \in DeleteList :
        Begin(s, ProductJob("delete", [i \in 1..Len(list) |->
                                          [product |-> list[i], value |-> Unset]]), "load")

\* soft_delete(commit=False) in the loop of bulk_delete(), or the only one of
\* DELETE: a missing product is passed over.
SoftDelete(s) ==
    /\ pc[s] = "load" /\ job[s].kind = "delete"
    /\ LET p == Current(s).product
           row == Fetched(s, p)
       IN \/ row.deleted /\ UNCHANGED identityMap
          \/ ~row.deleted /\ Remember(s, p, row, [row EXCEPT !.deleted = TRUE])
    /\ NextLine(s, "load")
    /\ UNCHANGED <<db, rowLock, view>>

BeginRestore(s) ==
    \E p \in Restorable :
        Begin(s, ProductJob("restore", <<[product |-> p, value |-> Unset]>>), "load")

RestoreRow(s) ==
    /\ pc[s] = "load" /\ job[s].kind = "restore"
    /\ LET p == Current(s).product
           row == Fetched(s, p)
       IN \/ ~row.deleted /\ Rollback(s)
          \/ /\ row.deleted
             /\ Remember(s, p, row, [row EXCEPT !.deleted = FALSE])
             /\ NextLine(s, "load")
             /\ UNCHANGED <<db, rowLock, view>>

-------------------------------------------------------------------------------
(* commit(): the flush locks the rows it updates in primary key order, then *)
(* the transaction's writes become visible at once.                         *)

Dirty(s) == {p \in known[s] : now[s][p] # loaded[s][p]}
ToFlush(s) == {p \in Dirty(s) : rowLock[p] # s}

\* The row that is written next.  Were autoflush on, a bulk deletion would
\* write its rows in the order of its list.
LineOf(s, p) == CHOOSE i \in DOMAIN job[s].lines : job[s].lines[i].product = p
NextToFlush_Autoflush(s) ==
    {p \in ToFlush(s) : \A q \in ToFlush(s) : LineOf(s, p) <= LineOf(s, q)}
NextToFlush(s) == {p \in ToFlush(s) : \A q \in ToFlush(s) : p <= q}

FlushRow(s) ==
    /\ pc[s] = "flush"
    /\ \E p \in NextToFlush(s) : rowLock[p] = None /\ Lock(s, p)
    /\ UNCHANGED <<db, request, view, identityMap>>

\* UPDATE products SET <the changed columns> WHERE id = p
Written_WholeRow(s, p) == now[s][p]
Written(s, p) ==
    [stock |-> IF now[s][p].stock # loaded[s][p].stock
               THEN now[s][p].stock ELSE product[p].stock,
     deleted |-> IF now[s][p].deleted # loaded[s][p].deleted
                 THEN now[s][p].deleted ELSE product[p].deleted]

WriteOrder(s) ==
    CASE job[s].kind = "create" ->
           \E o \in Unused :
               order' = [order EXCEPT ![o] = [status |-> "pending", lines |-> job[s].lines]]
      [] job[s].kind = "status" /\ job[s].wanted # job[s].seen ->
           order' = [order EXCEPT ![job[s].order].status = job[s].wanted]
      [] OTHER -> UNCHANGED order

Commit(s) ==
    /\ pc[s] = "flush"
    /\ ToFlush(s) = {}
    /\ product' = [p \in Product |-> IF p \in Dirty(s) THEN Written(s, p) ELSE product[p]]
    /\ WriteOrder(s)
    /\ Close(s)

-------------------------------------------------------------------------------
(* A statement that waits too long for a lock, or is the victim of a        *)
(* deadlock, raises, and get_db rolls back; a worker that dies loses its    *)
(* connection, and the server rolls back.                                   *)

Waits(s) ==
    \/ pc[s] = "lock" /\ ~CanLock(s, Current(s).product)
    \/ pc[s] = "flush" /\ \E p \in ToFlush(s) : rowLock[p] # None

LockTimeout(s) == Waits(s) /\ Rollback(s)
WorkerDies(s) == pc[s] # "idle" /\ Rollback(s)

Arrive(s) ==
    \/ BeginCreate(s) \/ BeginStatus(s) \/ BeginPatch(s) \/ BeginPut(s)
    \/ BeginDelete(s) \/ BeginRestore(s)
Handle(s) ==
    \/ LoadItem(s) \/ ReserveStock(s) \/ ReleaseStock(s) \/ PatchRow(s)
    \/ ReplaceRow(s) \/ SoftDelete(s) \/ RestoreRow(s) \/ FlushRow(s)
Run(s) == Handle(s) \/ Commit(s) \/ LockTimeout(s)

Next == \E s \in Session : Arrive(s) \/ Run(s) \/ WorkerDies(s)

Spec == Init /\ [][Next]_vars

-------------------------------------------------------------------------------
(* Properties. *)

\* A row that a handler loaded with a locking read (cancellation, PATCH) is
\* still the committed row until its transaction ends: nothing it computed
\* from the row is stale when it is written.  product_service.py:87-99, 136-198.
LockedReadsStayFresh ==
    \A s \in Session : job[s].kind \in {"status", "patch"} =>
        \A p \in known[s] : loaded[s][p] = product[p]

\* An order that is committed contains no product that is soft-deleted at
\* that moment, although the check by get_by_id read an older snapshot: the
\* second check is a locking read (product_service.py:172-177).
OnlyLiveProductsSold ==
    [][\A s \in Session : Commit(s) /\ job[s].kind = "create" =>
          \A i \in DOMAIN job[s].lines : ~product[job[s].lines[i].product].deleted]_vars

\* A request that names no stock (soft delete, restore, PATCH of other
\* columns) never moves one, whatever was committed since it loaded the row,
\* and a request other than delete and restore never changes is_deleted:
\* the UPDATE writes the changed columns only.
NoCollateralWrites ==
    [][\A s \in Session : Commit(s) =>
          \A p \in Product :
             /\ product'[p].stock # product[p].stock =>
                   \E i \in DOMAIN job[s].lines :
                       job[s].lines[i].product = p /\ job[s].lines[i].value # Unset
             /\ product'[p].deleted # product[p].deleted =>
                   job[s].kind \in {"delete", "restore"}]_vars

\* Two requests that lock rows only when they commit (PUT, deletions, restore)
\* never wait for each other, whatever the order of their lists: autoflush is
\* off (database/session.py:28), and the flush writes rows by primary key
\* (product_service.py:111-121, 156-163).
WaitsFor(s, t) == pc[s] = "flush" /\ \E p \in NextToFlush(s) : rowLock[p] = t

CommitsDoNotDeadlock ==
    \A s, t \in Session : s # t => ~(WaitsFor(s, t) /\ WaitsFor(t, s))
===============================================================================
