---------------------------- MODULE PaymentsProofs ----------------------------
(***************************************************************************)
(* What PaymentService guarantees for any number of orders, payments and   *)
(* concurrent requests.                                                    *)
(***************************************************************************)
EXTENDS PaymentTotals, Sums, TLAPS

LEMMA BlankTypes ==
    /\ AnyBody \in PayRequest
    /\ NoView \in [Payment -> Row]
    /\ NoRefund \in [payment : Payment, asked : Nat, row : Row]
  <1>1. AnyBody \in PayRequest
    BY PaymentsAssumption DEF AnyBody
  <1>2. AnyPayment \in Payment
    BY PaymentsAssumption DEF AnyPayment
  <1>3. NoPayment \in Row
    BY <1>1 DEF NoPayment, Row
  <1> QED
    BY <1>1, <1>2, <1>3 DEF NoView, NoRefund

\* The end of a transaction leaves the request's variables well typed.
LEMMA CloseTypes ==
    ASSUME TypeOK, NEW s \in Session, Close(s), payment' \in [Payment -> Row]
    PROVE  TypeOK'
  BY BlankTypes DEF TypeOK, Close

LEMMA TypeInit == Init => TypeOK
  <1> SUFFICES ASSUME Init PROVE TypeOK
    OBVIOUS
  <1>1. /\ orderLock \in [Order -> Session \cup {None}]
        /\ paymentLock \in [Payment -> Session \cup {None}]
        /\ pc \in [Session -> {"idle", "answer", "lock order", "check paid", "insert",
                               "lock payment", "save refund"}]
    BY DEF Init
  <1>2. /\ payment \in [Payment -> Row]
        /\ body \in [Session -> PayRequest]
        /\ refund \in [Session -> [payment : Payment, asked : Nat, row : Row]]
        /\ view \in [Session -> [Payment -> Row]]
    BY BlankTypes DEF Init
  <1> QED
    BY <1>1, <1>2 DEF TypeOK

LEMMA TypeStep == TypeOK /\ [Next]_vars => TypeOK'
  <1> SUFFICES ASSUME TypeOK, [Next]_vars PROVE TypeOK'
    OBVIOUS
  <1>1. ASSUME NEW s \in Session, BeginPay(s) PROVE TypeOK'
    BY <1>1 DEF TypeOK, BeginPay, locks
  <1>2. ASSUME NEW s \in Session, BeginRefund(s) PROVE TypeOK'
    <2>1. PICK p \in Payment, amount \in RefundRequest :
            refund' = [refund EXCEPT ![s] = [payment |-> p, asked |-> amount, row |-> NoPayment]]
      BY <1>2 DEF BeginRefund
    <2>2. NoPayment \in Row /\ amount \in Nat
      BY BlankTypes, PaymentsAssumption DEF NoPayment, Row
    <2> QED
      BY <1>2, <2>1, <2>2 DEF TypeOK, BeginRefund, locks
  <1>3. ASSUME NEW s \in Session, Rollback(s) PROVE TypeOK'
    BY <1>3, CloseTypes DEF TypeOK, Rollback
  <1>4. ASSUME NEW s \in Session, LockOrder(s) PROVE TypeOK'
    <2>1. CASE Rollback(s)
      BY <1>3, <2>1
    <2>2. CASE ~Rollback(s)
      <3>1. /\ orderLock' = [orderLock EXCEPT ![body[s].order] = s]
            /\ pc' = [pc EXCEPT ![s] = "check paid"]
            /\ UNCHANGED <<payment, paymentLock, body, refund, view>>
        BY <1>4, <2>2 DEF LockOrder
      <3> QED
        BY <3>1 DEF TypeOK
    <2> QED
      BY <2>1, <2>2
  <1>5. ASSUME NEW s \in Session, CheckPaid(s) PROVE TypeOK'
    BY <1>3, <1>5 DEF TypeOK, CheckPaid, locks
  <1>6. ASSUME NEW s \in Session, InsertPayment(s) PROVE TypeOK'
    <2>1. CASE Rollback(s)
      BY <1>3, <2>1
    <2>2. CASE ~Rollback(s)
      <3>1. PICK p \in Payment :
              payment' = [payment EXCEPT ![p] =
                            [status |-> "SUCCESS", request |-> body[s], refunded |-> 0]]
        BY <1>6, <2>2 DEF InsertPayment
      <3>2. [status |-> "SUCCESS", request |-> body[s], refunded |-> 0] \in Row
        BY DEF TypeOK, Row
      <3>3. payment' \in [Payment -> Row]
        BY <3>1, <3>2 DEF TypeOK
      <3>4. Close(s)
        BY <1>6, <2>2 DEF InsertPayment
      <3> QED
        BY <3>3, <3>4, CloseTypes
    <2> QED
      BY <2>1, <2>2
  <1>7. ASSUME NEW s \in Session, LockPayment(s) PROVE TypeOK'
    <2>1. CASE Rollback(s)
      BY <1>3, <2>1
    <2>2. CASE ~Rollback(s)
      <3>1. /\ paymentLock' = [paymentLock EXCEPT ![refund[s].payment] = s]
            /\ refund' = [refund EXCEPT ![s].row = payment[refund[s].payment]]
            /\ pc' = [pc EXCEPT ![s] = "save refund"]
            /\ UNCHANGED <<payment, orderLock, body, view>>
        BY <1>7, <2>2 DEF LockPayment
      <3>2. refund' \in [Session -> [payment : Payment, asked : Nat, row : Row]]
        BY <3>1 DEF TypeOK
      <3> QED
        BY <3>1, <3>2 DEF TypeOK
    <2> QED
      BY <2>1, <2>2
  <1>8. ASSUME NEW s \in Session, SaveRefund(s) PROVE TypeOK'
    <2> DEFINE row == refund[s].row
               amount == RefundAmount(refund[s].asked, row)
    <2>1. row \in Row /\ refund[s].asked \in Nat /\ refund[s].payment \in Payment
      BY DEF TypeOK
    <2>2. row.request \in Body
      BY <2>1, PaymentsAssumption DEF Row
    <2>3. amount \in Nat
      BY <2>1, <2>2 DEF RefundAmount, Body
    <2>4. row.refunded + amount \in Nat /\ row.status \in {"absent", "SUCCESS", "REFUNDED"}
      BY <2>1, <2>3 DEF Row
    <2>5. StatusAfter(row, row.refunded + amount) \in {"absent", "SUCCESS", "REFUNDED"}
      BY <2>4 DEF StatusAfter
    <2>6. payment' \in [Payment -> Row]
      BY <1>8, <2>1, <2>4, <2>5 DEF SaveRefund, TypeOK, Row
    <2> QED
      BY <1>8, <2>6, CloseTypes DEF SaveRefund
  <1>9. CASE UNCHANGED vars
    BY <1>9 DEF TypeOK, vars, locks
  <1> QED
    BY <1>1, <1>2, <1>3, <1>4, <1>5, <1>6, <1>7, <1>8, <1>9
    DEF Next, Run, Answer, LockTimeout, WorkerDies

\* Every variable keeps its type: in particular the only statuses a payment
\* gets are those of PaymentStatusEnum that the service uses.
THEOREM TypeCorrect == Spec => []TypeOK
  BY TypeInit, TypeStep, PTL DEF Spec

-------------------------------------------------------------------------------
(* The inductive invariant: what the row locks protect while they are held. *)

\* A payment belongs to the tenant of its order.
OwnTenant ==
    \A p \in Payment : Exists(payment, p) =>
        payment[p].request.tenant = TenantOf[payment[p].request.order]

\* From its locking read on, a request that pays holds the order's lock.
OrderLocked ==
    \A s \in Session : pc[s] \in {"check paid", "insert"} =>
        /\ orderLock[body[s].order] = s
        /\ body[s].tenant = TenantOf[body[s].order]

\* A request about to save a refund holds the payment's lock, and what it
\* loaded is still the committed row.
PaymentLocked ==
    \A s \in Session : pc[s] = "save refund" =>
        /\ paymentLock[refund[s].payment] = s
        /\ refund[s].row = payment[refund[s].payment]
        /\ Refundable(refund[s].asked, refund[s].row)

LockInv == TypeOK /\ OwnTenant /\ OrderLocked /\ PaymentLocked

\* The bodies in the table and in progress are bodies of requests.
LEMMA PayloadTypes ==
    ASSUME TypeOK
    PROVE  /\ \A p \in Payment : payment[p].request \in Body /\ payment[p].refunded \in Nat
           /\ \A s \in Session : body[s] \in Body
  BY PaymentsAssumption DEF TypeOK, Row

\* A transaction that ends keeps the locks of the others.
LEMMA CloseKeepsLocks ==
    ASSUME TypeOK, OrderLocked, NEW s \in Session, Close(s)
    PROVE  OrderLocked' /\ \A t \in Session \ {s} :
              /\ pc'[t] = pc[t] /\ refund'[t] = refund[t] /\ body'[t] = body[t]
              /\ \A p \in Payment : paymentLock[p] = t => paymentLock'[p] = t
  <1>1. \A t \in Session \ {s} : pc'[t] = pc[t] /\ refund'[t] = refund[t] /\ body'[t] = body[t]
    BY DEF TypeOK, Close
  <1>2. \A t \in Session \ {s} :
           /\ \A p \in Payment : paymentLock[p] = t => paymentLock'[p] = t
           /\ \A o \in Order : orderLock[o] = t => orderLock'[o] = t
    BY DEF Close
  <1>3. pc'[s] = "idle"
    BY DEF TypeOK, Close
  <1>4. \A t \in Session : body[t].order \in Order
    BY PayloadTypes DEF Body
  <1>5. ASSUME NEW t \in Session, pc'[t] \in {"check paid", "insert"}
        PROVE  orderLock'[body'[t].order] = t /\ body'[t].tenant = TenantOf[body'[t].order]
    <2>1. t \in Session \ {s}
      BY <1>3, <1>5
    <2>2. orderLock[body[t].order] = t /\ body[t].tenant = TenantOf[body[t].order]
      BY <1>1, <1>5, <2>1 DEF OrderLocked
    <2> QED
      BY <1>1, <1>2, <1>4, <2>1, <2>2
  <1> QED
    BY <1>1, <1>2, <1>5 DEF OrderLocked

\* The payment a request is about to save stays its own while the others end
\* their transactions and write other rows.
LEMMA OthersKeepPayment ==
    ASSUME LockInv, NEW s \in Session, Close(s),
           \A t \in Session \ {s} : pc[t] = "save refund" =>
               payment'[refund[t].payment] = payment[refund[t].payment]
    PROVE  PaymentLocked'
  <1> SUFFICES ASSUME NEW t \in Session, pc'[t] = "save refund"
               PROVE  /\ paymentLock'[refund'[t].payment] = t
                      /\ refund'[t].row = payment'[refund'[t].payment]
                      /\ Refundable(refund'[t].asked, refund'[t].row)
    BY DEF PaymentLocked
  <1>1. pc'[s] = "idle"
    BY DEF LockInv, TypeOK, Close
  <1>2. t \in Session \ {s}
    BY <1>1
  <1>3. /\ pc'[t] = pc[t] /\ refund'[t] = refund[t]
        /\ \A p \in Payment : paymentLock[p] = t => paymentLock'[p] = t
    BY <1>2, CloseKeepsLocks DEF LockInv
  <1>4. refund[t].payment \in Payment
    BY DEF LockInv, TypeOK
  <1>5. /\ paymentLock[refund[t].payment] = t
        /\ refund[t].row = payment[refund[t].payment]
        /\ Refundable(refund[t].asked, refund[t].row)
    BY <1>3 DEF LockInv, PaymentLocked
  <1>6. payment'[refund[t].payment] = payment[refund[t].payment]
    BY <1>2, <1>3
  <1> QED
    BY <1>3, <1>4, <1>5, <1>6

LEMMA RollbackKeeps ==
    ASSUME LockInv, NEW s \in Session, Rollback(s)
    PROVE  OwnTenant' /\ OrderLocked' /\ PaymentLocked'
  <1>1. Close(s) /\ payment' = payment
    BY DEF Rollback
  <1>2. OrderLocked'
    BY <1>1, CloseKeepsLocks DEF LockInv
  <1>5. PaymentLocked'
    BY <1>1, OthersKeepPayment
  <1>6. OwnTenant'
    BY <1>1 DEF OwnTenant, LockInv, Exists
  <1> QED
    BY <1>2, <1>5, <1>6

LEMMA LockInvInductive == LockInv /\ [Next]_vars => LockInv'
  <1> SUFFICES ASSUME LockInv, [Next]_vars PROVE LockInv'
    OBVIOUS
  <1>0. TypeOK'
    BY TypeStep DEF LockInv
  <1>1. ASSUME NEW s \in Session, Rollback(s) PROVE LockInv'
    BY <1>0, <1>1, RollbackKeeps DEF LockInv
  <1>2. ASSUME NEW s \in Session, BeginPay(s) PROVE LockInv'
    <2>1. /\ \A t \in Session \ {s} : pc'[t] = pc[t] /\ body'[t] = body[t]
          /\ pc'[s] \in {"answer", "lock order"}
          /\ payment' = payment /\ refund' = refund
          /\ orderLock' = orderLock /\ paymentLock' = paymentLock
      BY <1>2 DEF BeginPay, LockInv, TypeOK, locks
    <2> QED
      BY <1>0, <2>1 DEF LockInv, OwnTenant, OrderLocked, PaymentLocked, Exists
  <1>3. ASSUME NEW s \in Session, BeginRefund(s) PROVE LockInv'
    <2>1. /\ \A t \in Session \ {s} : pc'[t] = pc[t] /\ refund'[t] = refund[t]
          /\ pc'[s] = "lock payment"
          /\ payment' = payment /\ body' = body
          /\ orderLock' = orderLock /\ paymentLock' = paymentLock
      BY <1>3 DEF BeginRefund, LockInv, TypeOK, locks
    <2> QED
      BY <1>0, <2>1 DEF LockInv, OwnTenant, OrderLocked, PaymentLocked, Exists
  <1>4. ASSUME NEW s \in Session, LockOrder(s) PROVE LockInv'
    <2>1. CASE Rollback(s)
      BY <1>1, <2>1
    <2>2. CASE ~Rollback(s)
      <3>1. /\ orderLock' = [orderLock EXCEPT ![body[s].order] = s]
            /\ pc' = [pc EXCEPT ![s] = "check paid"]
            /\ payment' = payment /\ paymentLock' = paymentLock
            /\ body' = body /\ refund' = refund
            /\ orderLock[body[s].order] \in {None, s}
            /\ TenantOf[body[s].order] = body[s].tenant
        BY <1>4, <2>2 DEF LockOrder, CanLockOrder, Refused
      <3>2. \A t \in Session : body[t].order \in Order
        BY PayloadTypes DEF LockInv, Body
      <3>3. ASSUME NEW t \in Session, pc'[t] \in {"check paid", "insert"}
            PROVE  /\ orderLock'[body[t].order] = t
                   /\ body[t].tenant = TenantOf[body[t].order]
        <4>1. CASE t = s
          BY <3>1, <3>2, <4>1 DEF LockInv, TypeOK
        <4>2. CASE t # s
          <5>1. orderLock[body[t].order] = t /\ body[t].tenant = TenantOf[body[t].order]
            BY <3>1, <3>3, <4>2 DEF LockInv, TypeOK, OrderLocked
          <5>2. body[t].order # body[s].order
            BY <3>1, <4>2, <5>1, PaymentsAssumption
          <5> QED
            BY <3>1, <3>2, <5>1, <5>2 DEF LockInv, TypeOK
        <4> QED
          BY <4>1, <4>2
      <3>4. OrderLocked'
        BY <3>1, <3>3 DEF OrderLocked
      <3>5. PaymentLocked'
        BY <3>1 DEF LockInv, TypeOK, PaymentLocked
      <3> QED
        BY <1>0, <3>1, <3>4, <3>5 DEF LockInv, OwnTenant, Exists
    <2> QED
      BY <2>1, <2>2
  <1>5. ASSUME NEW s \in Session, CheckPaid(s) PROVE LockInv'
    <2>1. CASE Rollback(s)
      BY <1>1, <2>1
    <2>2. CASE ~Rollback(s)
      <3>1. /\ pc[s] = "check paid"
            /\ pc' = [pc EXCEPT ![s] = "insert"]
            /\ payment' = payment /\ paymentLock' = paymentLock /\ orderLock' = orderLock
            /\ body' = body /\ refund' = refund
        BY <1>5, <2>2 DEF CheckPaid, locks
      <3> QED
        BY <1>0, <3>1 DEF LockInv, TypeOK, OwnTenant, OrderLocked, PaymentLocked, Exists
    <2> QED
      BY <2>1, <2>2
  <1>6. ASSUME NEW s \in Session, InsertPayment(s) PROVE LockInv'
    <2>1. CASE Rollback(s)
      BY <1>1, <2>1
    <2>2. CASE ~Rollback(s)
      <3>1. PICK p \in Payment :
              /\ ~Exists(payment, p)
              /\ payment' = [payment EXCEPT ![p] =
                               [status |-> "SUCCESS", request |-> body[s], refunded |-> 0]]
        BY <1>6, <2>2 DEF InsertPayment
      <3>2. Close(s) /\ pc[s] = "insert"
        BY <1>6, <2>2 DEF InsertPayment
      <3>3. OrderLocked'
        BY <3>2, CloseKeepsLocks DEF LockInv
      <3>4. ASSUME NEW t \in Session, pc[t] = "save refund"
            PROVE  payment'[refund[t].payment] = payment[refund[t].payment]
        <4>1. Exists(payment, refund[t].payment)
          BY <3>4 DEF LockInv, PaymentLocked, Refundable, Exists
        <4> QED
          BY <3>1, <4>1 DEF LockInv, TypeOK
      <3>6. PaymentLocked'
        BY <3>2, <3>4, OthersKeepPayment
      <3>7. OwnTenant'
        BY <3>1, <3>2 DEF LockInv, TypeOK, OwnTenant, OrderLocked, Exists
      <3> QED
        BY <1>0, <3>3, <3>6, <3>7 DEF LockInv
    <2> QED
      BY <2>1, <2>2
  <1>7. ASSUME NEW s \in Session, LockPayment(s) PROVE LockInv'
    <2>1. CASE Rollback(s)
      BY <1>1, <2>1
    <2>2. CASE ~Rollback(s)
      <3> DEFINE p == refund[s].payment
      <3>1. /\ paymentLock' = [paymentLock EXCEPT ![p] = s]
            /\ refund' = [refund EXCEPT ![s].row = payment[p]]
            /\ pc' = [pc EXCEPT ![s] = "save refund"]
            /\ payment' = payment /\ orderLock' = orderLock /\ body' = body
            /\ paymentLock[p] \in {None, s}
            /\ Refundable(refund[s].asked, payment[p])
        BY <1>7, <2>2 DEF LockPayment, CanLockPayment
      <3>2. /\ refund'[s].payment = p /\ refund'[s].row = payment[p]
            /\ refund'[s].asked = refund[s].asked
        BY <3>1 DEF LockInv, TypeOK
      <3>3. ASSUME NEW t \in Session, pc'[t] = "save refund"
            PROVE  /\ paymentLock'[refund'[t].payment] = t
                   /\ refund'[t].row = payment[refund'[t].payment]
                   /\ Refundable(refund'[t].asked, refund'[t].row)
        <4>1. p \in Payment /\ refund[t].payment \in Payment
          BY DEF LockInv, TypeOK
        <4>2. CASE t = s
          BY <3>1, <3>2, <4>1, <4>2 DEF LockInv, TypeOK
        <4>3. CASE t # s
          <5>1. pc[t] = "save refund" /\ refund'[t] = refund[t]
            BY <3>1, <3>3, <4>3 DEF LockInv, TypeOK
          <5>2. /\ paymentLock[refund[t].payment] = t
                /\ refund[t].row = payment[refund[t].payment]
                /\ Refundable(refund[t].asked, refund[t].row)
            BY <5>1 DEF LockInv, PaymentLocked
          <5>3. refund[t].payment # p
            BY <3>1, <4>3, <5>2, PaymentsAssumption
          <5> QED
            BY <3>1, <4>1, <5>1, <5>2, <5>3 DEF LockInv, TypeOK
        <4> QED
          BY <4>2, <4>3
      <3>5. PaymentLocked'
        BY <3>1, <3>3 DEF PaymentLocked
      <3>4. OrderLocked'
        BY <3>1 DEF LockInv, TypeOK, OrderLocked
      <3> QED
        BY <1>0, <3>1, <3>4, <3>5 DEF LockInv, OwnTenant, Exists
    <2> QED
      BY <2>1, <2>2
  <1>8. ASSUME NEW s \in Session, SaveRefund(s) PROVE LockInv'
    <2> DEFINE p == refund[s].payment
    <2>1. Close(s) /\ pc[s] = "save refund" /\ p \in Payment
      BY <1>8 DEF SaveRefund, LockInv, TypeOK
    <2>2. /\ \A q \in Payment \ {p} : payment'[q] = payment[q]
          /\ payment'[p].request = payment[p].request
      <3>1. PICK n, st :
              payment' = [payment EXCEPT ![p] = [payment[p] EXCEPT !.refunded = n, !.status = st]]
        BY <1>8 DEF SaveRefund
      <3>2. payment[p] \in Row
        BY <2>1 DEF LockInv, TypeOK
      <3> QED
        BY <2>1, <3>1, <3>2 DEF LockInv, TypeOK, Row
    <2>3. OrderLocked'
      BY <2>1, CloseKeepsLocks DEF LockInv
    <2>4. ASSUME NEW t \in Session \ {s}, pc[t] = "save refund"
          PROVE  payment'[refund[t].payment] = payment[refund[t].payment]
      <3>1. paymentLock[p] = s /\ paymentLock[refund[t].payment] = t
        BY <2>1, <2>4 DEF LockInv, PaymentLocked
      <3>2. refund[t].payment \in Payment
        BY DEF LockInv, TypeOK
      <3> QED
        BY <2>2, <3>1, <3>2
    <2>5. PaymentLocked'
      BY <2>1, <2>4, OthersKeepPayment
    <2>6. Exists(payment, p)
      BY <2>1 DEF LockInv, PaymentLocked, Refundable, Exists
    <2>7. OwnTenant'
      BY <2>2, <2>6 DEF LockInv, OwnTenant, Exists
    <2> QED
      BY <1>0, <2>3, <2>5, <2>7 DEF LockInv
  <1>9. CASE UNCHANGED vars
    BY <1>9, <1>0 DEF vars, locks, LockInv, OwnTenant, OrderLocked, PaymentLocked, Exists
  <1> QED
    BY <1>1, <1>2, <1>3, <1>4, <1>5, <1>6, <1>7, <1>8, <1>9
    DEF Next, Run, Answer, LockTimeout, WorkerDies

LEMMA LockInvHolds == Spec => []LockInv
  <1>1. Init => LockInv
    BY TypeInit DEF Init, LockInv, OwnTenant, OrderLocked, PaymentLocked, Exists,
                    NoView, NoPayment
  <1> QED
    BY <1>1, LockInvInductive, PTL DEF Spec

-------------------------------------------------------------------------------
(* Refunds. *)

\* What SaveRefund commits, in terms of the row committed before it.
LEMMA SavedRefund ==
    ASSUME LockInv, NEW s \in Session, SaveRefund(s)
    PROVE  LET p == refund[s].payment
               row == payment[p]
               amount == RefundAmount(refund[s].asked, row)
           IN /\ p \in Payment /\ Exists(payment, p)
              /\ amount \in Nat /\ amount > 0 /\ row.refunded + amount <= row.request.amount
              /\ payment' = [payment EXCEPT ![p] =
                    [row EXCEPT !.refunded = row.refunded + amount,
                                !.status = StatusAfter(row, row.refunded + amount)]]
  <1> DEFINE p == refund[s].payment
             row == payment[p]
             amount == RefundAmount(refund[s].asked, row)
  <1>1. p \in Payment /\ refund[s].asked \in Nat
    BY DEF LockInv, TypeOK
  <1>2. refund[s].row = row /\ Refundable(refund[s].asked, row)
    BY DEF LockInv, PaymentLocked, SaveRefund
  <1>3. row.request.amount \in Nat
    BY <1>1, PayloadTypes DEF LockInv, Body
  <1>4. amount \in Nat
    BY <1>1, <1>3 DEF RefundAmount
  <1>5. amount > 0 /\ row.refunded + amount <= row.request.amount /\ Exists(payment, p)
    BY <1>2 DEF Refundable, Exists
  <1>6. payment' = [payment EXCEPT ![p] =
          [row EXCEPT !.refunded = row.refunded + amount,
                      !.status = StatusAfter(row, row.refunded + amount)]]
    BY <1>2 DEF SaveRefund
  <1> QED
    BY <1>1, <1>4, <1>5, <1>6

\* The steps that write payments are InsertPayment and SaveRefund.
LEMMA Writers ==
    ASSUME [Next]_vars
    PROVE  \/ payment' = payment
           \/ \E s \in Session : SaveRefund(s)
           \/ \E s \in Session : InsertPayment(s) /\ ~Rollback(s)
  BY DEF Next, Run, Answer, LockTimeout, WorkerDies, Rollback, BeginPay, BeginRefund,
         LockOrder, CheckPaid, LockPayment, vars

\* Every refund that succeeds adds its amount to the committed one.
THEOREM RefundsAreExact == Spec => RefundIsExact
  <1>1. LockInv /\ [Next]_vars =>
          [\A s \in Session : SaveRefund(s) =>
              LET p == refund[s].payment
              IN payment'[p].refunded =
                    payment[p].refunded + RefundAmount(refund[s].asked, payment[p])]_vars
    <2> SUFFICES ASSUME LockInv, NEW s \in Session, SaveRefund(s)
                 PROVE  payment'[refund[s].payment].refunded =
                          payment[refund[s].payment].refunded
                            + RefundAmount(refund[s].asked, payment[refund[s].payment])
      OBVIOUS
    <2> DEFINE p == refund[s].payment
               refunded == payment[p].refunded + RefundAmount(refund[s].asked, payment[p])
    <2>1. PICK st : payment' = [payment EXCEPT ![p] =
                                  [payment[p] EXCEPT !.refunded = refunded, !.status = st]]
      BY SavedRefund
    <2>2. p \in Payment /\ payment[p] \in Row
      BY DEF LockInv, TypeOK
    <2> HIDE DEF refunded
    <2>3. payment'[p].refunded = refunded
      BY <2>1, <2>2 DEF LockInv, TypeOK, Row
    <2> QED
      BY <2>3 DEF refunded
  <1> QED
    BY <1>1, LockInvHolds, PTL DEF Spec, RefundIsExact

\* No payment is refunded beyond its amount, and REFUNDED means all of it.
THEOREM RefundsStayBounded == Spec => []RefundsBounded
  <1>1. Init => RefundsBounded
    BY DEF Init, RefundsBounded, Exists, NoView, NoPayment
  <1>2. LockInv /\ RefundsBounded /\ [Next]_vars => RefundsBounded'
    <2> SUFFICES ASSUME LockInv, RefundsBounded, [Next]_vars PROVE RefundsBounded'
      OBVIOUS
    <2>1. CASE payment' = payment
      BY <2>1 DEF RefundsBounded, Exists
    <2>2. ASSUME NEW s \in Session, SaveRefund(s) PROVE RefundsBounded'
      <3> DEFINE p == refund[s].payment
                 row == payment[p]
                 refunded == row.refunded + RefundAmount(refund[s].asked, row)
      <3>1. /\ p \in Payment /\ Exists(payment, p)
            /\ RefundAmount(refund[s].asked, row) \in Nat
            /\ RefundAmount(refund[s].asked, row) > 0
            /\ refunded <= row.request.amount
            /\ payment' = [payment EXCEPT ![p] =
                  [row EXCEPT !.refunded = refunded, !.status = StatusAfter(row, refunded)]]
        BY <2>2, SavedRefund
      <3>2. row \in Row /\ row.request.amount \in Nat /\ row.refunded \in Nat
        BY <3>1, PayloadTypes DEF LockInv, TypeOK, Body
      <3>3. row.status # "REFUNDED"
        BY <3>1, <3>2 DEF RefundsBounded
      <3>4. StatusAfter(row, refunded) = "REFUNDED" <=> refunded = row.request.amount
        BY <3>3 DEF StatusAfter
      <3>5. /\ payment'[p].refunded = refunded /\ payment'[p].request = row.request
            /\ payment'[p].status = StatusAfter(row, refunded)
            /\ \A q \in Payment \ {p} : payment'[q] = payment[q]
        BY <3>1, <3>2 DEF LockInv, TypeOK, Row
      <3> QED
        BY <3>1, <3>4, <3>5 DEF RefundsBounded, Exists
    <2>3. ASSUME NEW s \in Session, InsertPayment(s), ~Rollback(s) PROVE RefundsBounded'
      <3>1. PICK p \in Payment :
              payment' = [payment EXCEPT ![p] =
                            [status |-> "SUCCESS", request |-> body[s], refunded |-> 0]]
        BY <2>3 DEF InsertPayment
      <3>2. body[s].amount \in Nat /\ body[s].amount > 0
        BY PayloadTypes DEF LockInv, Body
      <3>3. /\ payment'[p].request = body[s] /\ payment'[p].refunded = 0
            /\ payment'[p].status = "SUCCESS"
            /\ \A q \in Payment \ {p} : payment'[q] = payment[q]
        BY <3>1 DEF LockInv, TypeOK
      <3>4. ASSUME NEW q \in Payment, Exists(payment', q)
            PROVE  /\ payment'[q].refunded <= payment'[q].request.amount
                   /\ payment'[q].status = "REFUNDED"
                         <=> payment'[q].refunded = payment'[q].request.amount
        <4>1. CASE q = p
          BY <3>2, <3>3, <4>1
        <4>2. CASE q # p
          BY <3>3, <3>4, <4>2 DEF RefundsBounded, Exists
        <4> QED
          BY <4>1, <4>2
      <3> QED
        BY <3>4 DEF RefundsBounded, Exists
    <2> QED
      BY <2>1, <2>2, <2>3, Writers
  <1> QED
    BY <1>1, <1>2, LockInvHolds, PTL DEF Spec

-------------------------------------------------------------------------------
(* Payments of one request, payments of one order. *)

\* No request is recorded twice, on either isolation level.
THEOREM OnePaymentPerRequest == Spec => []OnePaymentPerKey
  <1>1. Init => OnePaymentPerKey
    BY DEF Init, OnePaymentPerKey, Exists, NoView, NoPayment
  <1>2. LockInv /\ OnePaymentPerKey /\ [Next]_vars => OnePaymentPerKey'
    <2> SUFFICES ASSUME LockInv, OnePaymentPerKey, [Next]_vars PROVE OnePaymentPerKey'
      OBVIOUS
    <2>1. CASE payment' = payment
      BY <2>1 DEF OnePaymentPerKey, Exists
    <2>2. ASSUME NEW s \in Session, SaveRefund(s) PROVE OnePaymentPerKey'
      <3> DEFINE p == refund[s].payment
      <3>1. PICK n, st :
              payment' = [payment EXCEPT ![p] = [payment[p] EXCEPT !.refunded = n, !.status = st]]
        BY <2>2, SavedRefund
      <3>2. p \in Payment /\ Exists(payment, p)
        BY <2>2, SavedRefund
      <3>3. ASSUME NEW q \in Payment
            PROVE  /\ payment'[q].request = payment[q].request
                   /\ payment'[q].status # "absent" => payment[q].status # "absent"
        <4>1. payment[p] \in Row
          BY <3>2 DEF LockInv, TypeOK
        <4>2. payment'[p].request = payment[p].request
          BY <3>1, <3>2, <4>1 DEF LockInv, TypeOK, Row
        <4>3. q # p => payment'[q] = payment[q]
          BY <3>1 DEF LockInv, TypeOK
        <4> QED
          BY <3>2, <4>2, <4>3 DEF Exists
      <3>4. ASSUME NEW q \in Payment, NEW r \in Payment,
                   payment'[q].status # "absent", payment'[r].status # "absent", q # r
            PROVE  /\ payment'[q].request.key # payment'[r].request.key
                   /\ payment'[q].request.reference = None
                         \/ payment'[q].request.reference # payment'[r].request.reference
        <4>1. /\ payment[q].status # "absent" /\ payment[r].status # "absent"
              /\ payment'[q].request = payment[q].request
              /\ payment'[r].request = payment[r].request
          BY <3>3, <3>4
        <4> QED
          BY <3>4, <4>1 DEF OnePaymentPerKey, Exists
      <3> QED
        BY <3>4 DEF OnePaymentPerKey, Exists
    <2>3. ASSUME NEW s \in Session, InsertPayment(s), ~Rollback(s) PROVE OnePaymentPerKey'
      <3>1. PICK p \in Payment :
              payment' = [payment EXCEPT ![p] =
                            [status |-> "SUCCESS", request |-> body[s], refunded |-> 0]]
        BY <2>3 DEF InsertPayment
      <3>2. ~Duplicate(body[s])
        BY <2>3 DEF InsertPayment
      <3>3. /\ payment'[p].request = body[s]
            /\ \A q \in Payment \ {p} : payment'[q] = payment[q]
        BY <3>1 DEF LockInv, TypeOK
      <3> QED
        BY <3>2, <3>3 DEF OnePaymentPerKey, Exists, Duplicate
    <2> QED
      BY <2>1, <2>2, <2>3, Writers
  <1> QED
    BY <1>1, <1>2, LockInvHolds, PTL DEF Spec

\* Once a request has found the order unpaid, it stays so until it inserts.
\* This is where the isolation level matters: the plain SELECT must read the
\* rows committed since the order was locked.
UnpaidUntilInsert ==
    \A s \in Session : pc[s] = "insert" => ~AlreadyPaid(payment, body[s])

\* On READ COMMITTED the order's lock makes check and insert atomic: an order
\* never has two successful payments.
THEOREM OneSuccessOnReadCommitted ==
    ASSUME Isolation = "READ COMMITTED"
    PROVE  Spec => []AtMostOneSuccess
  <1> DEFINE Inv == UnpaidUntilInsert /\ AtMostOneSuccess
  <1>1. Init => Inv
    <2> SUFFICES ASSUME Init PROVE Inv
      OBVIOUS
    <2>1. \A s \in Session : pc[s] = "idle"
      BY DEF Init
    <2>2. \A p \in Payment : payment[p].status = "absent"
      BY DEF Init, NoView, NoPayment
    <2> QED
      BY <2>1, <2>2 DEF UnpaidUntilInsert, AtMostOneSuccess
  <1>2. LockInv /\ Inv /\ [Next]_vars => Inv'
    <2> SUFFICES ASSUME LockInv, Inv, [Next]_vars PROVE Inv'
      OBVIOUS
    <2>1. ASSUME NEW s \in Session, SaveRefund(s) PROVE Inv'
      <3> DEFINE p == refund[s].payment
      <3>1. \A q \in Payment :
               /\ payment'[q].request = payment[q].request
               /\ payment'[q].status = "SUCCESS" => payment[q].status = "SUCCESS"
        <4>1. /\ p \in Payment /\ payment[p] \in Row
              /\ payment' = [payment EXCEPT ![p] =
                    [payment[p] EXCEPT
                        !.refunded = payment[p].refunded + RefundAmount(refund[s].asked, payment[p]),
                        !.status = StatusAfter(payment[p],
                            payment[p].refunded + RefundAmount(refund[s].asked, payment[p]))]]
          BY <2>1, SavedRefund DEF LockInv, TypeOK
        <4> QED
          BY <4>1 DEF LockInv, TypeOK, Row, StatusAfter
      <3>2. \A t \in Session : pc'[t] = "insert" => pc[t] = "insert" /\ body'[t] = body[t]
        BY <2>1 DEF SaveRefund, Close, LockInv, TypeOK
      <3>3. AtMostOneSuccess'
        BY <3>1 DEF AtMostOneSuccess
      <3>4. ASSUME NEW t \in Session, pc'[t] = "insert"
            PROVE  ~AlreadyPaid(payment', body'[t])
        <4>1. ~AlreadyPaid(payment, body[t]) /\ body'[t] = body[t]
          BY <3>2, <3>4 DEF UnpaidUntilInsert
        <4> QED
          BY <3>1, <4>1 DEF AlreadyPaid
      <3>5. UnpaidUntilInsert'
        BY <3>4 DEF UnpaidUntilInsert, AlreadyPaid
      <3> QED
        BY <3>3, <3>5
    <2>2. ASSUME NEW s \in Session, InsertPayment(s), ~Rollback(s) PROVE Inv'
      <3>1. PICK p \in Payment :
              payment' = [payment EXCEPT ![p] =
                            [status |-> "SUCCESS", request |-> body[s], refunded |-> 0]]
        BY <2>2 DEF InsertPayment
      <3>2. /\ payment'[p].request = body[s]
            /\ \A q \in Payment \ {p} : payment'[q] = payment[q]
        BY <3>1 DEF LockInv, TypeOK
      <3>3. pc[s] = "insert" /\ Close(s)
        BY <2>2 DEF InsertPayment
      <3>4. \A q \in Payment : payment[q].status = "SUCCESS" =>
               payment[q].request.order # body[s].order
        <4>1. ~AlreadyPaid(payment, body[s]) /\ body[s].tenant = TenantOf[body[s].order]
          BY <3>3 DEF UnpaidUntilInsert, LockInv, OrderLocked
        <4>2. \A q \in Payment : payment[q].status = "SUCCESS" =>
                 payment[q].request.tenant = TenantOf[payment[q].request.order]
          BY DEF LockInv, OwnTenant, Exists
        <4> QED
          BY <4>1, <4>2 DEF AlreadyPaid
      <3>5. AtMostOneSuccess'
        BY <3>2, <3>4 DEF AtMostOneSuccess
      <3>6. ASSUME NEW t \in Session, pc'[t] = "insert"
            PROVE  ~AlreadyPaid(payment', body'[t])
        <4>1. t # s /\ pc[t] = "insert" /\ body'[t] = body[t]
          BY <3>3, <3>6 DEF Close, LockInv, TypeOK
        <4>2. body[t].order # body[s].order
          BY <3>3, <4>1 DEF LockInv, OrderLocked
        <4> QED
          BY <3>2, <4>1, <4>2 DEF UnpaidUntilInsert, AlreadyPaid
      <3> QED
        BY <3>5, <3>6 DEF UnpaidUntilInsert, AlreadyPaid
    <2>3. ASSUME NEW s \in Session, CheckPaid(s), ~Rollback(s) PROVE Inv'
      <3>1. /\ ~AlreadyPaid(payment, body[s])
            /\ pc' = [pc EXCEPT ![s] = "insert"] /\ payment' = payment /\ body' = body
        BY <2>3 DEF CheckPaid, Seen
      <3>2. ASSUME NEW t \in Session, pc'[t] = "insert"
            PROVE  ~AlreadyPaid(payment, body[t])
        BY <3>1, <3>2 DEF UnpaidUntilInsert, LockInv, TypeOK
      <3>3. UnpaidUntilInsert'
        BY <3>1, <3>2 DEF UnpaidUntilInsert, AlreadyPaid
      <3>4. AtMostOneSuccess'
        BY <3>1 DEF AtMostOneSuccess
      <3> QED
        BY <3>3, <3>4
    <2>4. CASE /\ payment' = payment
               /\ \A t \in Session : pc'[t] = "insert" => pc[t] = "insert" /\ body'[t] = body[t]
      <3>1. AtMostOneSuccess'
        BY <2>4 DEF AtMostOneSuccess
      <3>2. UnpaidUntilInsert'
        BY <2>4 DEF UnpaidUntilInsert, AlreadyPaid
      <3> QED
        BY <3>1, <3>2
    <2>5. ASSUME NEW s \in Session, Rollback(s) PROVE Inv'
      BY <2>4, <2>5 DEF Rollback, Close, LockInv, TypeOK
    <2>6. ASSUME NEW s \in Session, BeginPay(s) \/ BeginRefund(s) PROVE Inv'
      BY <2>4, <2>6 DEF BeginPay, BeginRefund, LockInv, TypeOK
    <2>7. ASSUME NEW s \in Session, LockOrder(s) \/ LockPayment(s), ~Rollback(s) PROVE Inv'
      BY <2>4, <2>7 DEF LockOrder, LockPayment, LockInv, TypeOK
    <2>8. CASE UNCHANGED vars
      BY <2>4, <2>8 DEF vars
    <2> QED
      BY <2>1, <2>2, <2>3, <2>5, <2>6, <2>7, <2>8
      DEF Next, Run, Answer, LockTimeout, WorkerDies
  <1> QED
    BY <1>1, <1>2, LockInvHolds, PTL DEF Spec

-------------------------------------------------------------------------------
(* The money of an order. *)

\* The order total is checked before the order is locked, and the total and
\* the request of a payment never change afterwards.
PaidInFull ==
    /\ \A p \in Payment : Exists(payment, p) =>
           payment[p].request.amount = Total[payment[p].request.order]
    /\ \A s \in Session : pc[s] \in {"check paid", "insert"} =>
           body[s].amount = Total[body[s].order]

\* There are payments without number to come, but not yet.
FinitelyMany == IsFiniteSet({p \in Payment : Exists(payment, p)})

LEMMA ClosedOrSame ==
    ASSUME TypeOK, NEW s \in Session, Close(s), NEW t \in Session
    PROVE  pc'[t] = "idle" \/ (pc'[t] = pc[t] /\ body'[t] = body[t])
  <1>1. CASE t = s
    BY <1>1 DEF TypeOK, Close
  <1>2. CASE t # s
    BY <1>2 DEF TypeOK, Close
  <1> QED
    BY <1>1, <1>2

LEMMA PaidInFullHolds == Spec => [](PaidInFull /\ FinitelyMany)
  <1> DEFINE Rows == {p \in Payment : Exists(payment, p)}
             Inv == PaidInFull /\ IsFiniteSet(Rows)
  <1>1. Init => Inv
    <2> SUFFICES ASSUME Init PROVE Inv
      OBVIOUS
    <2>1. Rows = {} /\ \A s \in Session : pc[s] = "idle"
      BY DEF Init, NoView, NoPayment, Exists
    <2> QED
      BY <2>1, FS_EmptySet DEF PaidInFull
  <1>2. LockInv /\ Inv /\ [Next]_vars => Inv'
    <2> SUFFICES ASSUME LockInv, Inv, [Next]_vars PROVE Inv'
      OBVIOUS
    <2>1. CASE payment' = payment
      <3>1. ASSUME NEW s \in Session, pc'[s] \in {"check paid", "insert"}
            PROVE  body'[s].amount = Total[body'[s].order]
        <4> DEFINE Known == /\ pc[s] \in {"check paid", "insert"} \/ ~Refused(body[s])
                            /\ body'[s] = body[s]
        <4> SUFFICES Known
          BY DEF PaidInFull, Refused
        <4>1. ASSUME NEW t \in Session, Close(t) PROVE Known
          BY <3>1, <4>1 DEF Close, LockInv, TypeOK
        <4>2. ASSUME NEW t \in Session, BeginPay(t) PROVE Known
          <5>1. pc'[t] \in {"answer", "lock order"}
            BY <4>2 DEF BeginPay, LockInv, TypeOK
          <5>2. s # t
            BY <3>1, <5>1
          <5>3. pc'[s] = pc[s] /\ body'[s] = body[s]
            BY <4>2, <5>2 DEF BeginPay, LockInv, TypeOK
          <5> QED
            BY <3>1, <5>3
        <4>3. ASSUME NEW t \in Session, BeginRefund(t) PROVE Known
          BY <3>1, <4>3 DEF BeginRefund, LockInv, TypeOK
        <4>4. ASSUME NEW t \in Session, LockOrder(t), ~Rollback(t) PROVE Known
          BY <3>1, <4>4 DEF LockOrder, LockInv, TypeOK
        <4>5. ASSUME NEW t \in Session, CheckPaid(t), ~Rollback(t) PROVE Known
          BY <3>1, <4>5 DEF CheckPaid, LockInv, TypeOK
        <4>6. ASSUME NEW t \in Session, LockPayment(t), ~Rollback(t) PROVE Known
          BY <3>1, <4>6 DEF LockPayment, LockInv, TypeOK
        <4>7. CASE UNCHANGED vars
          BY <3>1, <4>7 DEF vars
        <4> QED
          BY <4>1, <4>2, <4>3, <4>4, <4>5, <4>6, <4>7
          DEF Next, Run, Answer, InsertPayment, SaveRefund, LockTimeout, WorkerDies, Rollback
      <3> QED
        BY <2>1, <3>1 DEF PaidInFull, Exists
    <2>2. ASSUME NEW s \in Session, SaveRefund(s) PROVE Inv'
      <3>1. /\ \A p \in Payment : /\ payment'[p].request = payment[p].request
                                  /\ Exists(payment', p) => Exists(payment, p)
            /\ \A t \in Session : pc'[t] = "idle" \/ (pc'[t] = pc[t] /\ body'[t] = body[t])
        <4> DEFINE p == refund[s].payment
        <4>1. PICK n, st :
                payment' = [payment EXCEPT ![p] =
                              [payment[p] EXCEPT !.refunded = n, !.status = st]]
          BY <2>2, SavedRefund
        <4>2. p \in Payment /\ payment[p] \in Row /\ Exists(payment, p)
          BY <2>2, SavedRefund DEF LockInv, TypeOK
        <4>3. payment'[p].request = payment[p].request
          BY <4>1, <4>2 DEF LockInv, TypeOK, Row
        <4>4. \A q \in Payment : q # p => payment'[q] = payment[q]
          BY <4>1 DEF LockInv, TypeOK
        <4>5. \A t \in Session : pc'[t] = "idle" \/ (pc'[t] = pc[t] /\ body'[t] = body[t])
          BY <2>2, ClosedOrSame DEF SaveRefund, LockInv
        <4> QED
          BY <4>2, <4>3, <4>4, <4>5 DEF Exists
      <3>2. IsFiniteSet(Rows')
        <4>1. Rows' \subseteq Rows
          BY <3>1 DEF Exists
        <4> QED
          BY <4>1, FS_Subset
      <3> QED
        BY <3>1, <3>2 DEF PaidInFull, Exists
    <2>3. ASSUME NEW s \in Session, InsertPayment(s), ~Rollback(s) PROVE Inv'
      <3>1. PICK p \in Payment :
              payment' = [payment EXCEPT ![p] =
                            [status |-> "SUCCESS", request |-> body[s], refunded |-> 0]]
        BY <2>3 DEF InsertPayment
      <3>2. /\ payment'[p].request = body[s]
            /\ \A q \in Payment \ {p} : payment'[q] = payment[q]
        BY <3>1 DEF LockInv, TypeOK
      <3>3. body[s].amount = Total[body[s].order]
        BY <2>3 DEF InsertPayment, PaidInFull
      <3>4. \A t \in Session : pc'[t] = "idle" \/ (pc'[t] = pc[t] /\ body'[t] = body[t])
        BY <2>3, ClosedOrSame DEF InsertPayment, LockInv
      <3>5. PaidInFull'
        BY <3>2, <3>3, <3>4 DEF PaidInFull, Exists
      <3>6. IsFiniteSet(Rows')
        <4>1. Rows' \subseteq Rows \cup {p}
          BY <3>2 DEF Exists
        <4>2. IsFiniteSet(Rows \cup {p})
          BY FS_AddElement
        <4> QED
          BY <4>1, <4>2, FS_Subset
      <3> QED
        BY <3>5, <3>6
    <2> QED
      BY <2>1, <2>2, <2>3, Writers
  <1> QED
    BY <1>1, <1>2, LockInvHolds, PTL DEF Spec, FinitelyMany

\* All payments of an order that were given back count for nothing, so what
\* is kept is at most what is left of its one successful payment.
LEMMA NetIsOfOne ==
    ASSUME TypeOK, PaidInFull, FinitelyMany, RefundsBounded, AtMostOneSuccess,
           NEW o \in Order
    PROVE  NetPaid(o) <= Total[o]
  <1> DEFINE P == PaymentsOf(o)
             Successful == {p \in P : payment[p].status = "SUCCESS"}
  <1>1. IsFiniteSet(P)
    <2>1. P \subseteq {p \in Payment : Exists(payment, p)}
      BY DEF PaymentsOf
    <2> QED
      BY <2>1, FS_Subset DEF FinitelyMany
  <1>2. ASSUME NEW p \in P
        PROVE  /\ Kept[p] = Total[o] - payment[p].refunded
               /\ payment[p].refunded \in Nat /\ Total[o] \in Nat
               /\ p \in Payment
    BY PayloadTypes, PaymentsAssumption DEF PaymentsOf, Kept, PaidInFull
  <1>3. ASSUME NEW p \in P, p \notin Successful PROVE Kept[p] = 0
    <2>1. payment[p].status = "REFUNDED" /\ Exists(payment, p) /\ p \in Payment
      BY <1>3 DEF PaymentsOf, TypeOK, Row, Exists
    <2>2. payment[p].refunded = payment[p].request.amount /\ payment[p].refunded \in Nat
      BY <2>1, PayloadTypes DEF RefundsBounded
    <2> QED
      BY <2>1, <2>2 DEF Kept
  <1>4. CASE Successful = {}
    <2>1. SumFunctionOnSet(Kept, P) = 0
      BY <1>1, <1>3, <1>4, SumZero
    <2>2. Total[o] \in Nat
      BY PaymentsAssumption
    <2> QED
      BY <2>1, <2>2 DEF NetPaid
  <1>5. ASSUME NEW p \in Successful PROVE NetPaid(o) <= Total[o]
    <2>1. \A q \in P \ {p} : q \notin Successful
      BY DEF AtMostOneSuccess, PaymentsOf
    <2>2. \A q \in P \ {p} : Kept[q] = 0
      BY <1>3, <2>1
    <2>3. Kept[p] \in Int /\ Kept[p] <= Total[o]
      BY <1>2
    <2>4. SumFunctionOnSet(Kept, P) = Kept[p]
      BY <1>1, <2>2, <2>3, SumOfOne
    <2> QED
      BY <2>3, <2>4 DEF NetPaid
  <1> QED
    BY <1>4, <1>5

\* On READ COMMITTED the shop never keeps more of an order's money than its
\* total, over any history of payments and refunds.
THEOREM NetPaidOnReadCommitted ==
    ASSUME Isolation = "READ COMMITTED"
    PROVE  Spec => []NetPaidWithinTotal
  <1>1. TypeOK /\ PaidInFull /\ FinitelyMany /\ RefundsBounded /\ AtMostOneSuccess
          => NetPaidWithinTotal
    BY NetIsOfOne DEF NetPaidWithinTotal
  <1> QED
    BY <1>1, TypeCorrect, PaidInFullHolds, RefundsStayBounded, OneSuccessOnReadCommitted, PTL
===============================================================================
