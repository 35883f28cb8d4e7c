----------------------------- MODULE PaymentTotals -----------------------------
(* The money of an order over all of its payments. *)
EXTENDS Payments, Functions

\* What the shop keeps of each payment, and the payments of an order.
Kept == [p \in Payment |-> payment[p].request.amount - payment[p].refunded]
PaymentsOf(o) == {p \in Payment : Exists(payment, p) /\ payment[p].request.order = o}

\* What the shop has kept for an order, over its payments and their refunds.
NetPaid(o) == SumFunctionOnSet(Kept, PaymentsOf(o))

\* A customer never pays more than the order's total, net of refunds, over
\* any history of payments and refunds: "total_amount downstream reporting
\* relies on payments actually matching what was ordered"
\* (payment_service.py:47-50).
NetPaidWithinTotal == \A o \in Order : NetPaid(o) <= Total[o]
===============================================================================
