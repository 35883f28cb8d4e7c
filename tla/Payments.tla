------------------------------- MODULE Payments -------------------------------
(***************************************************************************)
(* PaymentService: recording the payment of an order and refunding it, as  *)
(* concurrent requests over one database.                                  *)
(*                                                                         *)
(* A request is one transaction.  Its plain SELECTs read the view taken    *)
(* when the transaction began (REPEATABLE READ, the MySQL of               *)
(* docker-compose.yml) or the newest committed rows (READ COMMITTED, the   *)
(* PostgreSQL that database/session.py also supports); SELECT ... FOR      *)
(* UPDATE locks the row and always returns its newest committed version.   *)
(*                                                                         *)
(* Operators named Op_Variant are faulty versions of Op; the model does    *)
(* not use them, they show which property notices the fault.               *)
(***************************************************************************)
EXTENDS Integers, FiniteSets

CONSTANTS
    Order,          \* the orders; total_amount and tenant_id never change
    Total,          \* total_amount of each order
    Tenant,
    TenantOf,       \* tenant_id of each order
    Payment,        \* the payment rows that may come to exist
    Key,            \* idempotency keys
    Reference,      \* transaction references
    Session,        \* the requests that can be in flight at once
    None,           \* no session; transaction_reference IS NULL
    Isolation,      \* "REPEATABLE READ" or "READ COMMITTED"
    PayRequest,     \* bodies of POST /payments, with the caller's tenant
    RefundRequest   \* amounts of POST /payments/{id}/refund, 0 if not given

Body == [tenant : Tenant, order : Order, amount : Nat \ {0}, key : Key,
         reference : Reference \cup {None}]

ASSUME PaymentsAssumption ==
    /\ Total \in [Order -> Nat]
    /\ TenantOf \in [Order -> Tenant]
    /\ None \notin Session \cup Reference
    /\ Isolation \in {"REPEATABLE READ", "READ COMMITTED"}
    /\ PayRequest \subseteq Body /\ PayRequest # {}
    /\ Payment # {}
    /\ RefundRequest \subseteq Nat

VARIABLES
    payment,      \* committed rows of table payments
    orderLock,    \* the transaction that holds the lock of an order row
    paymentLock,  \* the same of a payment row
    pc,           \* what the request does next
    body,         \* the body of a POST /payments in progress
    refund,       \* the refund in progress: payment, amount asked, row as loaded
    view          \* the payments a plain SELECT of the transaction sees

locks == <<orderLock, paymentLock>>
vars == <<payment, locks, pc, body, refund, view>>

\* A committed row, or "absent" for one that does not exist yet.
Row == [status : {"absent", "SUCCESS", "REFUNDED"}, request : PayRequest, refunded : Nat]

AnyBody == CHOOSE b \in PayRequest : TRUE
AnyPayment == CHOOSE p \in Payment : TRUE
NoPayment == [status |-> "absent", request |-> AnyBody, refunded |-> 0]
NoView == [p \in Payment |-> NoPayment]
NoRefund == [payment |-> AnyPayment, asked |-> 0, row |-> NoPayment]

TypeOK ==
    /\ payment \in [Payment -> Row]
    /\ orderLock \in [Order -> Session \cup {None}]
    /\ paymentLock \in [Payment -> Session \cup {None}]
    /\ pc \in [Session -> {"idle", "answer", "lock order", "check paid", "insert",
                           "lock payment", "save refund"}]
    /\ body \in [Session -> PayRequest]
    /\ refund \in [Session -> [payment : Payment, asked : Nat, row : Row]]
    /\ view \in [Session -> [Payment -> Row]]

Init ==
    /\ payment = NoView
    /\ orderLock = [o \in Order |-> None]
    /\ paymentLock = [p \in Payment |-> None]
    /\ pc = [s \in Session |-> "idle"]
    /\ body = [s \in Session |-> AnyBody]
    /\ refund = [s \in Session |-> NoRefund]
    /\ view = [s \in Session |-> NoView]

-------------------------------------------------------------------------------
Exists(rows, p) == rows[p].status # "absent"

\* What a plain SELECT of s reads.
Seen(s) == IF Isolation = "REPEATABLE READ" THEN view[s] ELSE payment

\* The transaction ends: its locks and its view are gone.
Close(s) ==
    /\ orderLock' = [o \in Order |-> IF orderLock[o] = s THEN None ELSE orderLock[o]]
    /\ paymentLock' = [p \in Payment |-> IF paymentLock[p] = s THEN None ELSE paymentLock[p]]
    /\ pc' = [pc EXCEPT ![s] = "idle"]
    /\ body' = [body EXCEPT ![s] = AnyBody]
    /\ refund' = [refund EXCEPT ![s] = NoRefund]
    /\ view' = [view EXCEPT ![s] = NoView]

Rollback(s) == Close(s) /\ UNCHANGED payment

-------------------------------------------------------------------------------
(* POST /payments: PaymentService.create. *)

\* The payment rows the tenant has under this idempotency key.
WithKey(rows, b) ==
    {p \in Payment : Exists(rows, p) /\ rows[p].request.key = b.key
                                     /\ rows[p].request.tenant = b.tenant}

\* The lookup of the key: a payment that is found is the answer (or the
\* ValueError, if it was for another order or amount) and nothing changes.
\* Bound: a new payment is only begun while a row is left for it.
Paying == {s \in Session : pc[s] \in {"lock order", "check paid", "insert"}}
RowLeft == Cardinality(Paying) < Cardinality({p \in Payment : ~Exists(payment, p)})

BeginPay(s) ==
    /\ pc[s] = "idle"
    /\ \E b \in PayRequest :
        /\ WithKey(payment, b) # {} \/ RowLeft
        /\ body' = [body EXCEPT ![s] = b]
        /\ pc' = [pc EXCEPT ![s] = IF WithKey(payment, b) # {} THEN "answer" ELSE "lock order"]
    /\ view' = [view EXCEPT ![s] = payment]
    /\ UNCHANGED <<payment, locks, refund>>

Answer(s) == pc[s] = "answer" /\ Rollback(s)

CanLockOrder_NoForUpdate(s, o) == TRUE
CanLockOrder(s, o) == orderLock[o] \in {None, s}

\* order is None or payload.amount != order.total_amount
Refused(b) == TenantOf[b.order] # b.tenant \/ b.amount # Total[b.order]

LockOrder(s) ==
    /\ pc[s] = "lock order"
    /\ CanLockOrder(s, body[s].order)
    /\ \/ Refused(body[s]) /\ Rollback(s)
       \/ /\ ~Refused(body[s])
          /\ orderLock' = [orderLock EXCEPT ![body[s].order] = s]
          /\ pc' = [pc EXCEPT ![s] = "check paid"]
          /\ UNCHANGED <<payment, paymentLock, body, refund, view>>

AlreadyPaid(rows, b) ==
    \E p \in Payment : /\ rows[p].status = "SUCCESS"
                       /\ rows[p].request.order = b.order
                       /\ rows[p].request.tenant = b.tenant

CheckPaid(s) ==
    /\ pc[s] = "check paid"
    /\ \/ AlreadyPaid(Seen(s), body[s]) /\ Rollback(s)
       \/ /\ ~AlreadyPaid(Seen(s), body[s])
          /\ pc' = [pc EXCEPT ![s] = "insert"]
          /\ UNCHANGED <<payment, locks, body, refund, view>>

\* The unique indexes on idempotency_key and transaction_reference compare
\* with the newest committed rows, whoever owns them.
Duplicate_NoUniqueKey(b) ==
    \E p \in Payment : /\ Exists(payment, p)
                       /\ payment[p].request.reference = b.reference /\ b.reference # None
Duplicate(b) ==
    \E p \in Payment : /\ Exists(payment, p)
                       /\ \/ payment[p].request.key = b.key
                          \/ payment[p].request.reference = b.reference /\ b.reference # None

\* db.add(payment) and commit(): the row is there, or the IntegrityError
\* leaves the handler and the session is rolled back.
InsertPayment(s) ==
    /\ pc[s] = "insert"
    /\ \/ Duplicate(body[s]) /\ Rollback(s)
       \/ /\ ~Duplicate(body[s])
          /\ \E p \in Payment :
               /\ ~Exists(payment, p)
               /\ payment' = [payment EXCEPT ![p] =
                                 [status |-> "SUCCESS", request |-> body[s], refunded |-> 0]]
          /\ Close(s)

-------------------------------------------------------------------------------
(* POST /payments/{id}/refund: PaymentService.refund. *)

BeginRefund(s) ==
    /\ pc[s] = "idle"
    /\ \E p \in Payment, amount \in RefundRequest :
        /\ Exists(payment, p)
        /\ refund' = [refund EXCEPT ![s] = [payment |-> p, asked |-> amount, row |-> NoPayment]]
    /\ pc' = [pc EXCEPT ![s] = "lock payment"]
    /\ UNCHANGED <<payment, locks, body, view>>

CanLockPayment_NoForUpdate(s, p) == TRUE
CanLockPayment(s, p) == paymentLock[p] \in {None, s}

\* refund_amount = amount or payment.amount
RefundAmount(asked, row) == IF asked = 0 THEN row.request.amount ELSE asked

Refundable_Unbounded(asked, row) == row.status \in {"SUCCESS", "REFUNDED"}
Refundable(asked, row) ==
    /\ row.status \in {"SUCCESS", "REFUNDED"}
    /\ RefundAmount(asked, row) > 0
    /\ row.refunded + RefundAmount(asked, row) <= row.request.amount

LockPayment(s) ==
    LET p == refund[s].payment
    IN /\ pc[s] = "lock payment"
       /\ CanLockPayment(s, p)
       /\ \/ ~Refundable(refund[s].asked, payment[p]) /\ Rollback(s)
          \/ /\ Refundable(refund[s].asked, payment[p])
             /\ paymentLock' = [paymentLock EXCEPT ![p] = s]
             /\ refund' = [refund EXCEPT ![s].row = payment[p]]
             /\ pc' = [pc EXCEPT ![s] = "save refund"]
             /\ UNCHANGED <<payment, orderLock, body, view>>

\* if payment.refunded_amount == payment.amount: status = REFUNDED
StatusAfter_Partial(row, refunded) ==
    IF refunded = row.request.amount THEN "REFUNDED" ELSE "PARTIALLY_REFUNDED"
StatusAfter(row, refunded) ==
    IF refunded = row.request.amount THEN "REFUNDED" ELSE row.status

\* The changed columns, computed from the row that was loaded, and commit().
SaveRefund(s) ==
    LET row == refund[s].row
        refunded == row.refunded + RefundAmount(refund[s].asked, row)
    IN /\ pc[s] = "save refund"
       /\ payment' = [payment EXCEPT ![refund[s].payment] =
                         [@ EXCEPT !.refunded = refunded, !.status = StatusAfter(row, refunded)]]
       /\ Close(s)

-------------------------------------------------------------------------------
(* A wait for a lock that takes too long raises and get_db rolls back; a    *)
(* worker that dies loses its connection and the server rolls back.         *)

Waits(s) ==
    \/ pc[s] = "lock order" /\ ~CanLockOrder(s, body[s].order)
    \/ pc[s] = "lock payment" /\ ~CanLockPayment(s, refund[s].payment)

LockTimeout(s) == Waits(s) /\ Rollback(s)
WorkerDies(s) == pc[s] # "idle" /\ Rollback(s)

Run(s) ==
    \/ Answer(s) \/ LockOrder(s) \/ CheckPaid(s) \/ InsertPayment(s)
    \/ LockPayment(s) \/ SaveRefund(s) \/ LockTimeout(s)

Next == \E s \in Session : BeginPay(s) \/ BeginRefund(s) \/ Run(s) \/ WorkerDies(s)

Spec == Init /\ [][Next]_vars

-------------------------------------------------------------------------------
(* Properties. *)

\* Never more is refunded than was paid, and a payment is REFUNDED exactly
\* when all of it has been given back (payment_service.py:103-108), however
\* many refunds of it run at once.
RefundsBounded ==
    \A p \in Payment : Exists(payment, p) =>
        /\ payment[p].refunded <= payment[p].request.amount
        /\ payment[p].status = "REFUNDED" <=> payment[p].refunded = payment[p].request.amount

\* Each refund that is answered with success adds its own amount to what is
\* committed at that moment: none is lost to another that ran beside it
\* (the FOR UPDATE of payment_service.py:95-100).
RefundIsExact ==
    [][\A s \in Session : SaveRefund(s) =>
          LET p == refund[s].payment
          IN payment'[p].refunded =
                payment[p].refunded + RefundAmount(refund[s].asked, payment[p])]_vars

\* Submitting a request again, or twice at once, records one payment: no two
\* payments share an idempotency key or a transaction reference.
OnePaymentPerKey ==
    \A p, q \in Payment : Exists(payment, p) /\ Exists(payment, q) /\ p # q =>
        /\ payment[p].request.key # payment[q].request.key
        /\ payment[p].request.reference = None
              \/ payment[p].request.reference # payment[q].request.reference

\* An order never has two successful payments ("Order already has a
\* successful payment", payment_service.py:54-62).
AtMostOneSuccess ==
    \A p, q \in Payment :
        payment[p].status = "SUCCESS" /\ payment[q].status = "SUCCESS" /\ p # q =>
            payment[p].request.order # payment[q].request.order
===============================================================================
