---------------------------- MODULE OrderQuantities ----------------------------
(***************************************************************************)
(* What the commit of an order, or of its cancellation, does to the stock: *)
(* the quantities of its lines, summed per product.                        *)
(***************************************************************************)
EXTENDS OrderStock, Functions

\* The lines of an order for p; a product may be on two lines.
LinesOf(lines, p) == {i \in DOMAIN lines : lines[i].product = p}
Values(lines) == [i \in DOMAIN lines |-> lines[i].value]

\* The units of p in the lines of an order.
Quantity(lines, p) == SumFunctionOnSet(Values(lines), LinesOf(lines, p))

\* The request is a cancellation that gives the order's units back.
Releasing(s) == job[s].kind = "status" /\ job[s].lines # <<>>

-------------------------------------------------------------------------------
(* Properties. *)

\* A cancellation adds exactly the order's quantities to the stock committed
\* at that moment, whichever requests committed since it began, and nothing
\* to products that are deleted then (product_service.py:185-198).
ReleaseIsExact ==
    [][\A s \in Session : Commit(s) /\ job[s].kind = "status" =>
          \A p \in Product :
             product'[p].stock = product[p].stock
                 + IF product[p].deleted THEN 0 ELSE Quantity(job[s].lines, p)]_vars

\* Stock is reserved "for every line item before the order is committed"
\* (order_service.py:8-9): the commit of an order takes each line's quantity
\* from the stock.
ReserveIsExact ==
    [][\A s \in Session : Commit(s) /\ job[s].kind = "create" =>
          \A p \in Product :
             product'[p].stock = product[p].stock - Quantity(job[s].lines, p)]_vars
===============================================================================
