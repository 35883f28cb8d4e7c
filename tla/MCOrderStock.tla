----------------------------- MODULE MCOrderStock -----------------------------
(* Small shops: two products, a few request bodies. *)
EXTENDS OrderQuantities

CONSTANTS s1, s2, o1, o2

Lines(pairs) == [i \in DOMAIN pairs |-> [product |-> pairs[i][1], value |-> pairs[i][2]]]

OneSession == {s1}
TwoSessions == {s1, s2}
OneOrder == {o1}
TwoOrders == {o1, o2}
OneProduct == {1}
TwoProducts == {1, 2}

TwoEach == [p \in Product |-> 2]
OneEach == [p \in Product |-> 1]
TwoAndOne == [p \in Product |-> IF p = 1 THEN 2 ELSE 1]

\* One unit; both products in either order of locking; one product twice.
SingleCart == {Lines(<< <<1, 1>> >>)}
CrossingCarts == {Lines(<< <<1, 1>>, <<2, 1>> >>), Lines(<< <<2, 1>>, <<1, 1>> >>)}
CartsOfAllShapes == CrossingCarts \cup {Lines(<< <<1, 1>>, <<1, 1>> >>)}

Nothing == {}

ConcurrentMoves == {<<"pending", "confirmed">>, <<"confirmed", "cancelled">>}
WorkflowMoves == {<<"pending", "confirmed">>, <<"confirmed", "shipped">>,
                  <<"pending", "cancelled">>, <<"confirmed", "cancelled">>,
                  <<"shipped", "cancelled">>}

SomePatches == {Lines(<< <<2, Unset>>, <<1, 2>> >>)}
SomePuts == {[product |-> 1, value |-> 1]}
SomeDeletes == {<<1>>, <<1, 2>>, <<2, 1>>}
===============================================================================
