------------------------------ MODULE OrderLedger ------------------------------
(***************************************************************************)
(* The accounts of OrderStock: which orders have units out of stock, as a  *)
(* history variable, and what each commit does to the sum of both.         *)
(***************************************************************************)
EXTENDS OrderQuantities

VARIABLE holding   \* history: the order's units are out of stock

ledgerVars == <<vars, holding>>

\* The order service as one would like to see it: atomic operations on stock.
Shop == INSTANCE Inventory WITH
            Initial <- InitialStock,
            stock <- [p \in Product |-> product[p].stock],
            held <- [o \in Order |-> IF holding[o] THEN order[o].lines ELSE <<>>]

LedgerInit == Init /\ holding = [o \in Order |-> FALSE]

LedgerCommit(s) ==
    /\ Commit(s)
    /\ holding' = [o \in Order |->
                      \/ order[o].status = "absent" /\ order'[o].status # "absent"
                      \/ holding[o] /\ ~(Releasing(s) /\ job[s].order = o)]

LedgerNext ==
    \E s \in Session :
        \/ LedgerCommit(s)
        \/ (Arrive(s) \/ Handle(s) \/ LockTimeout(s) \/ WorkerDies(s)) /\ UNCHANGED holding

LedgerSpec == LedgerInit /\ [][LedgerNext]_ledgerVars

-------------------------------------------------------------------------------
(* Properties. *)

\* The units of p in the shop: on stock, or held by an order.
Holders == {o \in Order : holding[o]}
OrderedUnits(p) == [o \in Order |-> Quantity(order[o].lines, p)]
Units(p) == product[p].stock + SumFunctionOnSet(OrderedUnits(p), Holders)

StockEdit(s) == Commit(s) /\ job[s].kind \in {"patch", "put"}

\* Orders and cancellations move units between stock and orders and never
\* create or destroy any: only PATCH and PUT of a product may.  "Cancelling a
\* still-pending/confirmed order releases its reserved stock back to
\* inventory" (order_service.py:134-135), reserve_stock "decrements
\* stock_quantity by `quantity`" (product_service.py:167).
UnitsConserved ==
    [][(\A s \in Session : ~StockEdit(s)) => \A p \in Product : Units(p)' = Units(p)]_ledgerVars

\* One request at a time, the order service is the atomic shop: every step
\* places an order whole, gives one up whole, edits the catalogue, or moves
\* no stock at all ("no partial order with some items reserved and others
\* not", order_service.py:8-11).
ImplementsInventory == Shop!Spec
===============================================================================
