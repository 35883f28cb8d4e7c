------------------------------ MODULE MCPayments ------------------------------
(* Small accounts for Payments: one order, three keys, a few bodies. *)
EXTENDS PaymentTotals, TLC

CONSTANTS o1, t1, t2, k1, k2, k3, ref, s1, s2, s3, p1, p2, p3

Pay(t, o, a, k, r) == [tenant |-> t, order |-> o, amount |-> a, key |-> k, reference |-> r]

\* Sessions are interchangeable; payments are not, a blank request names one.
SessionSymmetry == Permutations(Session)

OneOrder == {o1}
Totals == [o \in Order |-> 2]
Tenants == {t1, t2}
Owners == [o \in Order |-> t1]
Keys == {k1, k2, k3}
References == {ref}
TwoSessions == {s1, s2}
ThreeSessions == {s1, s2, s3}
TwoPayments == {p1, p2}
ThreePayments == {p1, p2, p3}

\* Two keys for one order.
TwoKeys == {Pay(t1, o1, 2, k1, None), Pay(t1, o1, 2, k2, None)}
\* Three keys for one order, two of them with one transaction reference, a
\* wrong amount, and a key and an order that belong to another tenant.
Crowd == {Pay(t1, o1, 2, k1, ref), Pay(t1, o1, 2, k2, None), Pay(t1, o1, 2, k3, ref),
          Pay(t1, o1, 1, k2, None), Pay(t2, o1, 2, k1, None)}
NoRefunds == {}
\* All of it, or one unit.
Refunds == {0, 1}
===============================================================================
