------------------------------ MODULE MCSessions ------------------------------
(* One user with two devices; rows that expire are the first ones. *)
EXTENDS Sessions

CONSTANTS u1, x1, x2, t1, t2, t3, r1, r2

OneUser == {u1}
TwoDevices == {x1, x2}
OneOwner == [x \in Sid |-> u1]
ThreeTokens == {t1, t2, t3}
FirstOnes == {x1, t1}
TwoRequests == {r1, r2}
===============================================================================
