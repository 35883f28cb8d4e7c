------------------------------- MODULE Inventory -------------------------------
(***************************************************************************)
(* What the order service promises about stock, with no requests, sessions *)
(* or transactions: an order takes all of its quantities or does not       *)
(* happen, giving an order up returns exactly what it took, once, and an   *)
(* edit of the catalogue changes no order.                                 *)
(***************************************************************************)
EXTENDS Integers, Sequences, Functions

CONSTANTS Product, Order, Cart, Initial

VARIABLES stock,   \* units of each product that can be ordered
          held     \* the lines each order holds out of stock, <<>> if none

vars == <<stock, held>>

\* The lines of an order for p; a product may be on two lines.
LinesOf(lines, p) == {i \in DOMAIN lines : lines[i].product = p}
Values(lines) == [i \in DOMAIN lines |-> lines[i].value]

\* The units of p in the lines of an order.
Quantity(lines, p) == SumFunctionOnSet(Values(lines), LinesOf(lines, p))

Init ==
    /\ stock = Initial
    /\ held = [o \in Order |-> <<>>]

Place(o, lines) ==
    /\ held[o] = <<>>
    /\ \A p \in Product : Quantity(lines, p) <= stock[p]
    /\ stock' = [p \in Product |-> stock[p] - Quantity(lines, p)]
    /\ held' = [held EXCEPT ![o] = lines]

GiveUp(o) ==
    /\ held[o] # <<>>
    /\ stock' = [p \in Product |-> stock[p] + Quantity(held[o], p)]
    /\ held' = [held EXCEPT ![o] = <<>>]

\* The catalogue is edited; orders keep what they hold.
Restock ==
    /\ stock' \in [Product -> Nat]
    /\ UNCHANGED held

Next == Restock \/ \E o \in Order : GiveUp(o) \/ \E lines \in Cart : Place(o, lines)

Spec == Init /\ [][Next]_vars
===============================================================================
