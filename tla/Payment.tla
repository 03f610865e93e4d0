------------------------------- MODULE Payment -------------------------------
(***************************************************************************)
(* The payment service (payment/internal): it charges a saga once and      *)
(* refunds a charge.  One consumer goroutine, one SQL transaction per      *)
(* command: a handler is one atomic action, a rollback is not a step.      *)
(***************************************************************************)
EXTENDS Messages

VARIABLE payment \* payment[s] is the status of the row with saga_id = s (UNIQUE), if any

Pay_TypeOK == payment \in [Saga -> {"none", "charged", "failed", "refunded"}]

Pay_Init == payment = [s \in Saga |-> "none"]

\* Mutant of AlreadyCharged: the event is sent again.
AnswerAgain(m) ==
    /\ payment[m.saga] # "none"
    /\ OutboxAppend({NewMessage("Charged", m.saga, None)})
    /\ UNCHANGED payment

\* The saga was charged (or refused) before: the command is swallowed, without
\* an event.
AlreadyCharged(m) ==
    /\ payment[m.saga] # "none"
    /\ UNCHANGED <<outbox, payment>>

\* Mutant of CreatePayment: the error of NewPayment is not looked at.
CreatePaymentIgnoringError(m, status, event) ==
    /\ payment[m.saga] = "none"
    /\ payment' = [payment EXCEPT ![m.saga] = status]
    /\ OutboxAppend({NewMessage("Charged", m.saga, None)})

\* NewPayment: the row is created as charged or, for a negative amount, as
\* failed, and contractFromDomain picks the event that says so.
CreatePayment(m, status, event) ==
    /\ payment[m.saga] = "none"
    /\ payment' = [payment EXCEPT ![m.saga] = status]
    /\ OutboxAppend({NewMessage(event, m.saga, None)})

HandleChargeCommand(m) ==
    /\ m \in Deliverable("Charge")
    /\ Dedup(m)
    /\ \/ AlreadyCharged(m)
       \/ m.body = "positive" /\ CreatePayment(m, "charged", "Charged")
       \/ m.body = "negative" /\ CreatePayment(m, "failed", "PaymentFailed")

\* Nothing was charged, or the charge was refunded: the command is swallowed.
NothingToRefund(m) ==
    /\ payment[m.saga] \in {"none", "refunded"}
    /\ UNCHANGED <<outbox, payment>>

\* The charge stands (a failed payment is ErrCannotRefundNotCharged: rollback).
RefundCharge(m) ==
    /\ payment[m.saga] = "charged"
    /\ payment' = [payment EXCEPT ![m.saga] = "refunded"]
    /\ OutboxAppend({NewMessage("Refunded", m.saga, None)})

HandleRefundCommand(m) ==
    /\ m \in Deliverable("Refund")
    /\ Dedup(m)
    /\ NothingToRefund(m) \/ RefundCharge(m)

PaymentNext ==
    \E m \in outbox : HandleChargeCommand(m) \/ HandleRefundCommand(m)
=============================================================================
