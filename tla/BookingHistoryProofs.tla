-------------------------- MODULE BookingHistoryProofs --------------------------
(***************************************************************************)
(* Proofs of the properties of BookingSystem that speak of its history:    *)
(* one event per effect, the audit log, and the dead letters.              *)
(*                                                                         *)
(* The argument.  A step of a service does at most one effect and emits    *)
(* the one event that tells of it (ServiceAnswers); a handler of the       *)
(* orchestrator that commits does one of eight things (HandlerOutcome); a  *)
(* tick leaves the context of a row alone (TickOutcome).  The three parts  *)
(* of HInv are kept by each of them.                                       *)
(***************************************************************************)
EXTENDS BookingHistory, BookingSystemProofs

(***************************************************************************)
(* What the steps do, in terms of effects.                                 *)
(***************************************************************************)
\* The events that a service answers a command with.
Answers(command, event) ==
    \/ command = "ReserveSeat" /\ event \in {"SeatReserved", "SeatReservationFailed"}
    \/ command = "ReleaseSeat" /\ event = "SeatReleased"
    \/ command = "Charge" /\ event \in {"Charged", "PaymentFailed"}
    \/ command = "Refund" /\ event = "Refunded"
    \/ command = "Send" /\ event \in {"Sent", "NotificationFailed"}

\* The effect that event n tells of is done by this step, and no other.
DoesEffect(n) ==
    \A s \in Saga, type \in EffectEvent :
        IF type = n.type /\ s = n.saga
        THEN ~Done(type, s) /\ Done(type, s)'
        ELSE Done(type, s)' <=> Done(type, s)

\* A service takes one command and either swallows it or answers with one event.
ServiceAnswered ==
    \E m \in outbox :
        /\ m.type \notin Event
        /\ Dedup(m)
        /\ UNCHANGED <<saga, steps, tx, dead>>
        /\ \/ UNCHANGED <<outbox, reservation, payment, notification>>
           \/ \E n \in Message :
                 /\ n.saga = m.saga
                 /\ Answers(m.type, n.type)
                 /\ OutboxAppend({n})
                 /\ DoesEffect(n)

\* Done, effect by effect.
LEMMA DoneDef ==
    ASSUME NEW s
    PROVE  /\ Done("SeatReserved", s) <=> reservation[s].status # "none"
           /\ Done("SeatReleased", s) <=> reservation[s].status = "released"
           /\ Done("Charged", s) <=> payment[s] \in {"charged", "refunded"}
           /\ Done("PaymentFailed", s) <=> payment[s] = "failed"
           /\ Done("Refunded", s) <=> payment[s] = "refunded"
           /\ Done("Sent", s) <=> notification[s] = "sent"
           /\ Done("NotificationFailed", s) <=> notification[s] = "failed"
  BY DEF Done

\* The same after a step.
LEMMA DoneDefNext ==
    ASSUME NEW s
    PROVE  /\ Done("SeatReserved", s)' <=> reservation'[s].status # "none"
           /\ Done("SeatReleased", s)' <=> reservation'[s].status = "released"
           /\ Done("Charged", s)' <=> payment'[s] \in {"charged", "refunded"}
           /\ Done("PaymentFailed", s)' <=> payment'[s] = "failed"
           /\ Done("Refunded", s)' <=> payment'[s] = "refunded"
           /\ Done("Sent", s)' <=> notification'[s] = "sent"
           /\ Done("NotificationFailed", s)' <=> notification'[s] = "failed"
  BY DEF Done

\* The effects, one by one.
LEMMA EffectEvents ==
    EffectEvent = {"SeatReserved", "SeatReleased", "Charged", "PaymentFailed", "Refunded",
                   "Sent", "NotificationFailed"}
  BY DEF EffectEvent, Event, InventoryEvent, PaymentEvent, NotificationEvent

\* Tables that do not change stand for the same effects.
LEMMA SameEffects ==
    ASSUME UNCHANGED <<reservation, payment, notification>>,
           NEW s \in Saga, NEW type \in EffectEvent
    PROVE  Done(type, s)' <=> Done(type, s)
  BY DoneDef, DoneDefNext, EffectEvents

\* To show DoesEffect it is enough to look at the seven effects.
LEMMA EffectOf ==
    ASSUME NEW n, n.saga \in Saga,
           \A s \in Saga : s # n.saga =>
               /\ reservation'[s] = reservation[s]
               /\ payment'[s] = payment[s]
               /\ notification'[s] = notification[s],
           \A type \in EffectEvent :
               IF type = n.type
               THEN ~Done(type, n.saga) /\ Done(type, n.saga)'
               ELSE Done(type, n.saga)' <=> Done(type, n.saga)
    PROVE  DoesEffect(n)
<1> SUFFICES ASSUME NEW s \in Saga, NEW type \in EffectEvent, s # n.saga
             PROVE  Done(type, s)' <=> Done(type, s)
  BY DEF DoesEffect
<1> QED
  BY DoneDef, DoneDefNext, EffectEvents

\* A step of the inventory service.
LEMMA InventoryAnswers ==
    ASSUME IInv, InventoryStep
    PROVE  ServiceAnswered
<1>1. UNCHANGED <<payment, notification, saga, steps, tx, dead>>
  BY DEF InventoryStep, orchestratorVars
<1>2. PICK m \in outbox : HandleReserveSeatCommand(m) \/ HandleReleaseSeatCommand(m)
  BY DEF InventoryStep, InventoryNext
<1>3. m \in Message /\ m.saga \in Saga /\ Dedup(m)
  BY <1>2, MessageBody
    DEF IInv, TypeOK, M_TypeOK, HandleReserveSeatCommand, HandleReleaseSeatCommand
<1>4. m.type \in {"ReserveSeat", "ReleaseSeat"} /\ m.type \notin Event
  BY <1>2 DEF HandleReserveSeatCommand, HandleReleaseSeatCommand, Deliverable,
              Event, InventoryEvent, PaymentEvent, NotificationEvent
<1>5. ASSUME NEW n \in Message, n.saga = m.saga, Answers(m.type, n.type), OutboxAppend({n}),
             DoesEffect(n)
      PROVE  ServiceAnswered
  BY <1>1, <1>3, <1>4, <1>5 DEF ServiceAnswered
<1>6. CASE m.type = "ReserveSeat" /\ ReserveWithoutFreeSeat(m)
  <2> PICK n : n = NewMessage("SeatReservationFailed", m.saga, None)
    OBVIOUS
  <2>1. n \in Message /\ n.type = "SeatReservationFailed" /\ n.saga = m.saga
    BY <1>3, NewMessageType, NewMessageNumber DEF IInv
  <2>2. OutboxAppend({n}) /\ UNCHANGED <<reservation, payment, notification>>
    BY <1>1, <1>6 DEF ReserveWithoutFreeSeat, inventoryVars
  <2>3. DoesEffect(n)
    BY <2>1, <2>2, SameEffects DEF DoesEffect, EffectEvent
  <2> QED
    BY <1>5, <1>6, <2>1, <2>2, <2>3 DEF Answers
<1>7. CASE m.type = "ReserveSeat" /\ ReserveFreeSeat(m)
  <2>1. PICK x \in FreeSeats :
            /\ reservation[m.saga] = NoReservation
            /\ reservation' = [reservation EXCEPT ![m.saga] =
                                  [status |-> "reserved", seat |-> x]]
            /\ OutboxAppend({NewMessage("SeatReserved", m.saga, x)})
    BY <1>7 DEF ReserveFreeSeat
  <2> PICK n : n = NewMessage("SeatReserved", m.saga, x)
    OBVIOUS
  <2>2. n \in Message /\ n.type = "SeatReserved" /\ n.saga = m.saga
    BY <1>3, NewMessageType, NewMessageNumber DEF IInv, FreeSeats
  <2>3. /\ reservation[m.saga].status = "none" /\ reservation'[m.saga].status = "reserved"
        /\ \A s \in Saga : s # m.saga => reservation'[s] = reservation[s]
    BY <1>3, <2>1 DEF NoReservation, IInv, TypeOK, Inv_TypeOK
  <2>4. DoesEffect(n)
    BY <1>1, <1>3, <2>2, <2>3, EffectOf, EffectEvents, DoneDef, DoneDefNext
  <2> QED
    BY <1>5, <1>7, <2>1, <2>2, <2>4 DEF Answers
<1>8. CASE NothingToRelease(m)
  BY <1>1, <1>3, <1>4, <1>8 DEF NothingToRelease, ServiceAnswered
<1>9. CASE m.type = "ReleaseSeat" /\ ReleaseReservedSeat(m)
  <2> PICK n : n = NewMessage("SeatReleased", m.saga, m.body)
    OBVIOUS
  <2>1. n \in Message /\ n.type = "SeatReleased" /\ n.saga = m.saga
    BY <1>3, <1>9, MessageBody, NewMessageType, NewMessageNumber DEF IInv
  <2>2. /\ reservation[m.saga].status = "reserved" /\ reservation'[m.saga].status = "released"
        /\ \A s \in Saga : s # m.saga => reservation'[s] = reservation[s]
    BY <1>3, <1>9 DEF ReleaseReservedSeat, IInv, TypeOK, Inv_TypeOK
  <2>3. OutboxAppend({n})
    BY <1>9 DEF ReleaseReservedSeat
  <2>4. DoesEffect(n)
    BY <1>1, <1>3, <2>1, <2>2, EffectOf, EffectEvents, DoneDef, DoneDefNext
  <2> QED
    BY <1>5, <1>9, <2>1, <2>3, <2>4 DEF Answers
<1> QED
  BY <1>2, <1>6, <1>7, <1>8, <1>9
    DEF HandleReserveSeatCommand, HandleReleaseSeatCommand, Deliverable

\* A step of the payment service.
LEMMA PaymentAnswers ==
    ASSUME IInv, PaymentStep
    PROVE  ServiceAnswered
<1>1. UNCHANGED <<reservation, notification, saga, steps, tx, dead>>
  BY DEF PaymentStep, inventoryVars, orchestratorVars
<1>2. PICK m \in outbox : HandleChargeCommand(m) \/ HandleRefundCommand(m)
  BY DEF PaymentStep, PaymentNext
<1>3. m \in Message /\ m.saga \in Saga /\ Dedup(m)
  BY <1>2, MessageBody DEF IInv, TypeOK, M_TypeOK, HandleChargeCommand, HandleRefundCommand
<1>4. m.type \in {"Charge", "Refund"} /\ m.type \notin Event
  BY <1>2 DEF HandleChargeCommand, HandleRefundCommand, Deliverable,
              Event, InventoryEvent, PaymentEvent, NotificationEvent
<1>5. CASE AlreadyCharged(m) \/ NothingToRefund(m)
  BY <1>1, <1>3, <1>4, <1>5 DEF AlreadyCharged, NothingToRefund, ServiceAnswered
<1>6. ASSUME NEW old, NEW new, NEW event,
             \/ old = "none" /\ new = "charged" /\ event = "Charged" /\ m.type = "Charge"
             \/ old = "none" /\ new = "failed" /\ event = "PaymentFailed" /\ m.type = "Charge"
             \/ old = "charged" /\ new = "refunded" /\ event = "Refunded" /\ m.type = "Refund",
             payment[m.saga] = old, payment' = [payment EXCEPT ![m.saga] = new],
             OutboxAppend({NewMessage(event, m.saga, None)})
      PROVE  ServiceAnswered
  <2> PICK n : n = NewMessage(event, m.saga, None)
    OBVIOUS
  <2>1. n \in Message /\ n.type = event /\ n.saga = m.saga
    BY <1>3, <1>6, NewMessageType, NewMessageNumber DEF IInv
  <2>2. /\ payment'[m.saga] = new
        /\ \A s \in Saga : s # m.saga => payment'[s] = payment[s]
    BY <1>3, <1>6 DEF IInv, TypeOK, Pay_TypeOK
  <2>3. DoesEffect(n)
    BY <1>1, <1>3, <1>6, <2>1, <2>2, EffectOf, EffectEvents, DoneDef, DoneDefNext
  <2>4. Answers(m.type, n.type) /\ OutboxAppend({n})
    BY <1>6, <2>1 DEF Answers
  <2> QED
    BY <1>1, <1>3, <1>4, <2>1, <2>3, <2>4 DEF ServiceAnswered
<1>7. CASE m.type = "Charge" /\ CreatePayment(m, "charged", "Charged")
  BY <1>6, <1>7 DEF CreatePayment
<1>8. CASE m.type = "Charge" /\ CreatePayment(m, "failed", "PaymentFailed")
  BY <1>6, <1>8 DEF CreatePayment
<1>9. CASE m.type = "Refund" /\ RefundCharge(m)
  BY <1>6, <1>9 DEF RefundCharge
<1> QED
  BY <1>2, <1>5, <1>7, <1>8, <1>9 DEF HandleChargeCommand, HandleRefundCommand, Deliverable

\* A step of the notification service.
LEMMA NotificationAnswers ==
    ASSUME IInv, NotificationStep
    PROVE  ServiceAnswered
<1>1. UNCHANGED <<reservation, payment, saga, steps, tx, dead>>
  BY DEF NotificationStep, inventoryVars, orchestratorVars
<1>2. PICK m \in outbox : HandleSendCommand(m)
  BY DEF NotificationStep, NotificationNext
<1>3. m \in Message /\ m.saga \in Saga /\ Dedup(m) /\ m.type = "Send" /\ m.type \notin Event
  BY <1>2, MessageBody DEF IInv, TypeOK, M_TypeOK, HandleSendCommand, Deliverable,
                           Event, InventoryEvent, PaymentEvent, NotificationEvent
<1>4. CASE AlreadyNotified(m)
  BY <1>1, <1>3, <1>4 DEF AlreadyNotified, ServiceAnswered
<1>5. ASSUME NEW status, NEW event, CreateNotification(m, status, event),
             \/ status = "sent" /\ event = "Sent"
             \/ status = "failed" /\ event = "NotificationFailed"
      PROVE  ServiceAnswered
  <2> PICK n : n = NewMessage(event, m.saga, None)
    OBVIOUS
  <2>1. n \in Message /\ n.type = event /\ n.saga = m.saga
    BY <1>3, <1>5, NewMessageType, NewMessageNumber DEF IInv
  <2>2. /\ notification[m.saga] = "none" /\ notification'[m.saga] = status
        /\ \A s \in Saga : s # m.saga => notification'[s] = notification[s]
    BY <1>3, <1>5 DEF CreateNotification, IInv, TypeOK, Not_TypeOK
  <2>3. DoesEffect(n)
    BY <1>1, <1>3, <1>5, <2>1, <2>2, EffectOf, EffectEvents, DoneDef, DoneDefNext
  <2>4. Answers(m.type, n.type) /\ OutboxAppend({n})
    BY <1>3, <1>5, <2>1 DEF Answers, CreateNotification
  <2> QED
    BY <1>1, <1>3, <2>1, <2>3, <2>4 DEF ServiceAnswered
<1> QED
  BY <1>2, <1>4, <1>5 DEF HandleSendCommand

\* One of the three services takes a step.
LEMMA ServiceAnswers ==
    ASSUME IInv, InventoryStep \/ PaymentStep \/ NotificationStep
    PROVE  ServiceAnswered
  BY InventoryAnswers, PaymentAnswers, NotificationAnswers

(***************************************************************************)
(* What a handler of the orchestrator that commits has done.               *)
(***************************************************************************)
\* commands is nothing, or one command of the given type for saga s.
OneCommand(commands, type, s) ==
    \E n : commands = {n} /\ n.type = type /\ n.saga = s

\* Row, step and commands, by the event m that is handled with snapshot r.
Outcome(m, r, row, step, commands) ==
    \/ /\ m.type = "SeatReserved"
       /\ row.state = "running" /\ row.step = "ChargePayment"
       /\ row.seat = m.body /\ row.payment = r.payment
       /\ step = NewSagaStep(m.saga, "ReserveSeat", "forward", "succeeded")
       /\ OneCommand(commands, "Charge", m.saga)
    \/ /\ m.type = "SeatReservationFailed"
       /\ row.state = "failed" /\ row.step = r.step
       /\ row.seat = r.seat /\ row.payment = r.payment
       /\ commands = {}
    \/ /\ m.type = "SeatReleased"
       /\ row.state = "compensated" /\ row.step = r.step
       /\ row.seat = r.seat /\ row.payment = r.payment
       /\ step = NewSagaStep(m.saga, "ReserveSeat", "compensate", "succeeded")
       /\ commands = {}
    \/ /\ m.type = "Charged"
       /\ row.state = "running" /\ row.step = "SendNotification"
       /\ row.seat = r.seat /\ row.payment
       /\ step = NewSagaStep(m.saga, "ChargePayment", "forward", "succeeded")
       /\ OneCommand(commands, "Send", m.saga)
    \/ /\ m.type = "PaymentFailed"
       /\ row.state = "compensating" /\ row.step = r.step
       /\ row.seat = r.seat /\ row.payment = r.payment
       /\ step = NewSagaStep(m.saga, "ChargePayment", "forward", "failed")
       /\ OneCommand(commands, "ReleaseSeat", m.saga)
    \/ /\ m.type = "Refunded"
       /\ row = r /\ r.payment
       /\ OneCommand(commands, "ReleaseSeat", m.saga)
    \/ /\ m.type = "Sent"
       /\ row.state = "completed" /\ row.step = r.step
       /\ row.seat = r.seat /\ row.payment = r.payment
       /\ step = NewSagaStep(m.saga, "SendNotification", "forward", "succeeded")
       /\ commands = {}
    \/ /\ m.type = "NotificationFailed"
       /\ row.state = "compensating" /\ row.step = r.step
       /\ row.seat = r.seat /\ row.payment = r.payment /\ r.payment
       /\ step = NewSagaStep(m.saga, "SendNotification", "forward", "failed")
       /\ OneCommand(commands, "Refund", m.saga)

\* Every handler ignores its event, or commits with one of these outcomes.
LEMMA HandlerOutcome ==
    ASSUME IInv, NEW c \in Topic, HandleEvent(c)
    PROVE  /\ tx[c] # None
           /\ \/ Ignore(c)
              \/ \E row, step, commands :
                    /\ Outcome(tx[c].msg, tx[c].row, row, step, commands)
                    /\ Commit(c, row, step, commands)
<1> DEFINE m == tx[c].msg
           r == tx[c].row
           Result(row, step, commands) ==
               Outcome(m, r, row, step, commands) /\ Commit(c, row, step, commands)
<1>1. tx[c] # None
  BY HandlerCommits
<1>2. r \in Row /\ m.saga \in Saga
  BY <1>1, HandlerKnows
<1>3. ASSUME NEW type, NEW body
      PROVE  OneCommand({NewMessage(type, m.saga, body)}, type, m.saga)
  BY NewMessageNumber DEF OneCommand, IInv
<1> SUFFICES Ignore(c) \/ \E row, step, commands : Result(row, step, commands)
  BY <1>1
<1>4. CASE HandleSeatReserved(c)
  <2> DEFINE row == Advance(SetSeat(r, m.body), "ChargePayment")
             step == NewSagaStep(m.saga, "ReserveSeat", "forward", "succeeded")
             commands == {NewMessage("Charge", m.saga, r.amount)}
  <2>1. m.type = "SeatReserved" /\ Commit(c, row, step, commands)
    BY <1>4 DEF HandleSeatReserved, Handling
  <2>2. /\ row.state = "running" /\ row.step = "ChargePayment"
        /\ row.seat = m.body /\ row.payment = r.payment
    BY <1>2 DEF Advance, SetSeat, Row
  <2>3. Outcome(m, r, row, step, commands)
    BY <1>3, <2>1, <2>2 DEF Outcome
  <2> QED
    BY <2>1, <2>3
<1>5. CASE HandleSeatReservationFailed(c)
  <2> DEFINE row == [r EXCEPT !.state = "failed"]
             step == NewSagaStep(m.saga, "ReserveSeat", "forward", "failed")
  <2>1. m.type = "SeatReservationFailed" /\ Commit(c, row, step, {})
    BY <1>5 DEF HandleSeatReservationFailed, Handling
  <2>2. /\ row.state = "failed" /\ row.step = r.step
        /\ row.seat = r.seat /\ row.payment = r.payment
    BY <1>2 DEF Row
  <2>3. Outcome(m, r, row, step, {})
    BY <2>1, <2>2 DEF Outcome
  <2> QED
    BY <2>1, <2>3
<1>6. CASE HandleSeatReleased(c)
  <2> DEFINE row == [r EXCEPT !.state = "compensated"]
             step == NewSagaStep(m.saga, "ReserveSeat", "compensate", "succeeded")
  <2>1. m.type = "SeatReleased" /\ (Ignore(c) \/ Commit(c, row, step, {}))
    BY <1>6 DEF HandleSeatReleased, Handling
  <2>2. /\ row.state = "compensated" /\ row.step = r.step
        /\ row.seat = r.seat /\ row.payment = r.payment
    BY <1>2 DEF Row
  <2>3. Outcome(m, r, row, step, {})
    BY <2>1, <2>2 DEF Outcome
  <2> QED
    BY <2>1, <2>3
<1>7. CASE HandlePaymentCharged(c)
  <2> DEFINE row == Advance([r EXCEPT !.payment = TRUE], "SendNotification")
             step == NewSagaStep(m.saga, "ChargePayment", "forward", "succeeded")
             commands == {NewMessage("Send", m.saga, r.channel)}
  <2>1. m.type = "Charged" /\ Commit(c, row, step, commands)
    BY <1>7 DEF HandlePaymentCharged, Handling
  <2>2. /\ row.state = "running" /\ row.step = "SendNotification"
        /\ row.seat = r.seat /\ row.payment
    BY <1>2 DEF Advance, Row
  <2>3. Outcome(m, r, row, step, commands)
    BY <1>3, <2>1, <2>2 DEF Outcome
  <2> QED
    BY <2>1, <2>3
<1>8. CASE HandlePaymentFailed(c)
  <2> DEFINE row == TurnBack(r)
             step == NewSagaStep(m.saga, "ChargePayment", "forward", "failed")
             commands == {NewMessage("ReleaseSeat", m.saga, r.seat)}
  <2>1. m.type = "PaymentFailed" /\ (Ignore(c) \/ Commit(c, row, step, commands))
    BY <1>8 DEF HandlePaymentFailed, Handling
  <2>2. /\ row.state = "compensating" /\ row.step = r.step
        /\ row.seat = r.seat /\ row.payment = r.payment
    BY <1>2 DEF TurnBack, Row
  <2>3. Outcome(m, r, row, step, commands)
    BY <1>3, <2>1, <2>2 DEF Outcome
  <2> QED
    BY <2>1, <2>3
<1>9. CASE HandlePaymentRefunded(c)
  <2> DEFINE step == NewSagaStep(m.saga, "ChargePayment", "compensate", "succeeded")
             commands == {NewMessage("ReleaseSeat", m.saga, r.seat)}
  <2>1. /\ m.type = "Refunded"
        /\ Ignore(c) \/ (r.payment /\ Commit(c, r, step, commands))
    BY <1>9 DEF HandlePaymentRefunded, Handling, PermanentError
  <2>2. r.payment => Outcome(m, r, r, step, commands)
    BY <1>3, <2>1 DEF Outcome
  <2> QED
    BY <2>1, <2>2
<1>10. CASE HandleNotificationSent(c)
  <2> DEFINE row == ResetSchedule([r EXCEPT !.notification = TRUE, !.state = "completed"])
             step == NewSagaStep(m.saga, "SendNotification", "forward", "succeeded")
  <2>1. m.type = "Sent" /\ Commit(c, row, step, {})
    BY <1>10 DEF HandleNotificationSent, Handling
  <2>2. /\ row.state = "completed" /\ row.step = r.step
        /\ row.seat = r.seat /\ row.payment = r.payment
    BY <1>2 DEF ResetSchedule, Row
  <2>3. Outcome(m, r, row, step, {})
    BY <2>1, <2>2 DEF Outcome
  <2> QED
    BY <2>1, <2>3
<1>11. CASE HandleNotificationFailed(c)
  <2> DEFINE row == TurnBack([r EXCEPT !.notification = TRUE])
             step == NewSagaStep(m.saga, "SendNotification", "forward", "failed")
             commands == {NewMessage("Refund", m.saga, None)}
  <2>1. /\ m.type = "NotificationFailed"
        /\ Ignore(c) \/ (r.payment /\ Commit(c, row, step, commands))
    BY <1>11 DEF HandleNotificationFailed, Handling, PermanentError
  <2>2. /\ row.state = "compensating" /\ row.step = r.step
        /\ row.seat = r.seat /\ row.payment = r.payment
    BY <1>2 DEF TurnBack, Row
  <2>3. r.payment => Outcome(m, r, row, step, commands)
    BY <1>3, <2>1, <2>2 DEF Outcome
  <2> QED
    BY <2>1, <2>3
<1> QED
  BY <1>4, <1>5, <1>6, <1>7, <1>8, <1>9, <1>10, <1>11 DEF HandleEvent

\* A handler that commits sends commands only.
LEMMA OutcomeCommands ==
    ASSUME NEW m, NEW r, NEW row, NEW step, NEW commands,
           Outcome(m, r, row, step, commands)
    PROVE  \A n \in commands : n.type \notin Event /\ n.saga = m.saga
  BY DEF Outcome, OneCommand, Event, InventoryEvent, PaymentEvent, NotificationEvent

\* A tick leaves step and context of a row alone, logs the step of a running saga
\* that is given up, and sends a command for the step that the saga is at or one
\* to release its seat.
LEMMA TickOutcome ==
    ASSUME IInv, NEW s \in Saga, Expired(s)
    PROVE  /\ TickedRow(s).step = saga[s].step
           /\ TickedRow(s).seat = saga[s].seat
           /\ TickedRow(s).payment = saga[s].payment
           /\ TickedRow(s).state \in {"running", "compensating", "failed"}
           /\ saga[s].state \in {"running", "compensating"}
           /\ \A n \in TickedCommand(s) :
                 /\ n.saga = s
                 /\ \/ n.type = "ReserveSeat"
                    \/ n.type = "Charge" /\ saga[s].step = "ChargePayment"
                    \/ n.type = "Send" /\ saga[s].step = "SendNotification"
                    \/ /\ n.type = "ReleaseSeat" /\ saga[s].seat # None
                       /\ \E name \in StepName :
                             NewSagaStep(s, name, "forward", "failed") \in TickedSteps(s)
<1>1. saga[s] \in Row /\ RowOK(s, saga[s])
  BY DEF IInv, TypeOK, Orch_TypeOK, RowsOK
<1>2. saga[s].state \in {"running", "compensating"}
  BY DEF Expired
<1>3. Running(s) => saga[s].step \in StepName
  BY <1>1 DEF Running, RowOK, Row
<1>4. /\ TickedRow(s).step = saga[s].step
      /\ TickedRow(s).seat = saga[s].seat
      /\ TickedRow(s).payment = saga[s].payment
      /\ TickedRow(s).state \in {"running", "compensating", "failed"}
  BY <1>1, <1>2 DEF TickedRow, EscalatedRow, RePublishedRow, ResetSchedule, Row
<1>5. ASSUME NEW n \in TickedCommand(s)
      PROVE  /\ n.saga = s
             /\ \/ n.type = "ReserveSeat"
                \/ n.type = "Charge" /\ saga[s].step = "ChargePayment"
                \/ n.type = "Send" /\ saga[s].step = "SendNotification"
                \/ /\ n.type = "ReleaseSeat" /\ saga[s].seat # None
                   /\ \E name \in StepName :
                         NewSagaStep(s, name, "forward", "failed") \in TickedSteps(s)
  <2>1. CASE Exhausted(s)
    <3>1. /\ Running(s) /\ saga[s].seat # None
          /\ n = NewMessage("ReleaseSeat", s, saga[s].seat)
      BY <1>5, <2>1 DEF TickedCommand, EscalatedCommand
    <3>2. NewSagaStep(s, saga[s].step, "forward", "failed") \in TickedSteps(s)
      BY <2>1, <3>1 DEF TickedSteps, EscalatedSteps
    <3> QED
      BY <1>3, <3>1, <3>2, NewMessageNumber DEF IInv
  <2>2. CASE ~Exhausted(s)
    <3>1. Running(s) /\ n = CommandOf(s)
      BY <1>5, <2>2 DEF TickedCommand, RePublishedCommand
    <3>2. CASE saga[s].step = "ReserveSeat"
      BY <3>1, <3>2, NewMessageNumber DEF CommandOf, IInv
    <3>3. CASE saga[s].step = "ChargePayment"
      BY <3>1, <3>3, NewMessageNumber DEF CommandOf, IInv
    <3>4. CASE saga[s].step = "SendNotification"
      BY <3>1, <3>4, NewMessageNumber DEF CommandOf, IInv
    <3> QED
      BY <1>3, <3>1, <3>2, <3>3, <3>4 DEF StepName
  <2> QED
    BY <2>1, <2>2
<1> QED
  BY <1>2, <1>4, <1>5

(***************************************************************************)
(* One event per effect.                                                   *)
(***************************************************************************)
\* The messages of a type and a saga are finitely many.
LEMMA EmittedFinite ==
    ASSUME TypeOK, NEW type, NEW s
    PROVE  /\ IsFiniteSet(Emitted(type, s))
           /\ Count(type, s) = 0 <=> Emitted(type, s) = {}
           /\ Count(type, s) = 1 <=> \E n : Emitted(type, s) = {n}
<1>1. Emitted(type, s) \in SUBSET outbox /\ IsFiniteSet(outbox)
  BY DEF Emitted, TypeOK, M_TypeOK
<1>2. IsFiniteSet(Emitted(type, s))
  BY <1>1, FS_Subset
<1> QED
  BY <1>2, FS_EmptySet, FS_Singleton DEF Count

\* An event says that its effect is done, and it is the only one that says so.
LEMMA EventMeansDone ==
    ASSUME TypeOK, EventsOK, NEW m \in outbox, m.type \in EffectEvent
    PROVE  /\ Done(m.type, m.saga)
           /\ Emitted(m.type, m.saga) = {m}
<1>1. m.saga \in Saga /\ m \in Emitted(m.type, m.saga)
  BY MessageBody DEF TypeOK, M_TypeOK, Emitted
<1>2. Count(m.type, m.saga) # 0
  BY <1>1, EmittedFinite
<1>3. Done(m.type, m.saga) /\ Count(m.type, m.saga) = 1
  BY <1>1, <1>2 DEF EventsOK
<1>4. PICK n : Emitted(m.type, m.saga) = {n}
  BY <1>3, EmittedFinite
<1> QED
  BY <1>1, <1>3, <1>4

\* And an effect that is done has its event.
LEMMA DoneHasEvent ==
    ASSUME TypeOK, EventsOK, NEW s \in Saga, NEW type \in EffectEvent, Done(type, s)
    PROVE  \E m \in outbox : m.type = type /\ m.saga = s
<1>1. Emitted(type, s) # {}
  BY EmittedFinite DEF EventsOK
<1> QED
  BY <1>1 DEF Emitted

\* EventsOK is OneEventPerEffect, effect by effect.
LEMMA EventsAreEffects == EventsOK <=> OneEventPerEffect
  BY EffectEvents, DoneDef DEF EventsOK, OneEventPerEffect

\* A step that does no effect and appends no event of one keeps them in line.
LEMMA NoEffectKeepsEvents ==
    ASSUME EventsOK, UNCHANGED <<reservation, payment, notification>>,
           \/ UNCHANGED outbox
           \/ \E msgs : OutboxAppend(msgs) /\ \A n \in msgs : n.type \notin EffectEvent
    PROVE  EventsOK'
<1> SUFFICES ASSUME NEW s \in Saga, NEW type \in EffectEvent
             PROVE  (Count(type, s) = IF Done(type, s) THEN 1 ELSE 0)'
  BY DEF EventsOK
<1>1. Done(type, s)' <=> Done(type, s)
  BY SameEffects
<1>2. Emitted(type, s)' = Emitted(type, s)
  BY DEF Emitted, OutboxAppend
<1> QED
  BY <1>1, <1>2 DEF EventsOK, Count

\* A service that answers does one effect and emits its event.
LEMMA ServiceKeepsEvents ==
    ASSUME IInv, EventsOK, ServiceAnswered
    PROVE  EventsOK'
<1>1. CASE UNCHANGED <<outbox, reservation, payment, notification>>
  BY <1>1, NoEffectKeepsEvents
<1>2. ASSUME NEW n \in Message, OutboxAppend({n}), DoesEffect(n)
      PROVE  EventsOK'
  <2> SUFFICES ASSUME NEW s \in Saga, NEW type \in EffectEvent
               PROVE  (Count(type, s) = IF Done(type, s) THEN 1 ELSE 0)'
    BY DEF EventsOK
  <2>1. CASE type = n.type /\ s = n.saga
    <3>1. ~Done(type, s) /\ Done(type, s)'
      BY <1>2, <2>1 DEF DoesEffect
    <3>2. Emitted(type, s) = {}
      BY <3>1, EmittedFinite DEF EventsOK, IInv
    <3>3. Emitted(type, s)' = {n}
      BY <1>2, <2>1, <3>2 DEF Emitted, OutboxAppend
    <3>4. Count(type, s)' = 1
      BY <3>3, FS_Singleton DEF Count
    <3> QED
      BY <3>1, <3>4
  <2>2. CASE ~(type = n.type /\ s = n.saga)
    <3>1. Done(type, s)' <=> Done(type, s)
      BY <1>2, <2>2 DEF DoesEffect
    <3>2. Emitted(type, s)' = Emitted(type, s)
      BY <1>2, <2>2 DEF Emitted, OutboxAppend
    <3> QED
      BY <3>1, <3>2 DEF EventsOK, Count
  <2> QED
    BY <2>1, <2>2
<1> QED
  BY <1>1, <1>2 DEF ServiceAnswered

\* The orchestrator does no effect and emits no event.
LEMMA OrchestratorKeepsEvents ==
    ASSUME IInv, EventsOK, OrchestratorStep
    PROVE  EventsOK'
<1>1. UNCHANGED <<reservation, payment, notification>>
  BY DEF OrchestratorStep, inventoryVars
<1>2. EffectEvent \subseteq Event /\ "ReserveSeat" \notin Event
      /\ \A type \in {"Charge", "Send", "ReleaseSeat"} : type \notin Event
  BY DEF EffectEvent, Event, InventoryEvent, PaymentEvent, NotificationEvent
<1>3. ASSUME NEW s \in Saga, StartBooking(s)
      PROVE  EventsOK'
  <2>1. OutboxAppend({NewMessage("ReserveSeat", s, None)})
    BY <1>3 DEF StartBooking
  <2>2. NewMessage("ReserveSeat", s, None).type = "ReserveSeat"
    BY NewMessageNumber DEF IInv
  <2>3. \A n \in {NewMessage("ReserveSeat", s, None)} : n.type \notin EffectEvent
    BY <1>2, <2>2
  <2> QED
    BY <1>1, <2>1, <2>3, NoEffectKeepsEvents
<1>4. CASE UNCHANGED outbox
  BY <1>1, <1>4, NoEffectKeepsEvents
<1>5. ASSUME NEW c \in Topic, HandleEvent(c)
      PROVE  EventsOK'
  <2>1. CASE Ignore(c)
    BY <1>4, <2>1 DEF Ignore
  <2>2. ASSUME NEW row, NEW step, NEW commands,
               Outcome(tx[c].msg, tx[c].row, row, step, commands),
               Commit(c, row, step, commands)
        PROVE  EventsOK'
    <3>1. OutboxAppend(commands) /\ \A n \in commands : n.type \notin EffectEvent
      BY <1>2, <2>2, OutcomeCommands DEF Commit
    <3> QED
      BY <1>1, <3>1, NoEffectKeepsEvents
  <2> QED
    BY <1>5, <2>1, <2>2, HandlerOutcome
<1>6. CASE ProcessExpired
  <2>1. PICK batch \in SUBSET {s \in Saga : Expired(s)} :
            OutboxAppend(UNION {TickedCommand(s) : s \in batch})
    BY <1>6 DEF ProcessExpired
  <2>2. \A n \in UNION {TickedCommand(s) : s \in batch} : n.type \notin EffectEvent
    BY <1>2, TickOutcome
  <2> QED
    BY <1>1, <2>1, <2>2, NoEffectKeepsEvents
<1>7. ASSUME NEW c \in Topic, Abort(c) \/ DeadLetter(c)
      PROVE  EventsOK'
  BY <1>4, <1>7 DEF Abort, DeadLetter
<1>8. ASSUME NEW m \in outbox, Begin(m)
      PROVE  EventsOK'
  BY <1>4, <1>8 DEF Begin
<1> QED
  BY <1>3, <1>5, <1>6, <1>7, <1>8 DEF OrchestratorStep, OrchestratorNext, ConsumeEvents

(***************************************************************************)
(* The log.                                                                *)
(***************************************************************************)
\* What a handler of the orchestrator logs explains the row that it writes and the
\* command that it sends.
LEMMA OutcomeIsLogged ==
    ASSUME NEW m, NEW r, NEW row, NEW step, NEW commands,
           Outcome(m, r, row, step, commands),
           MessageLogged(m), RowLogged(m.saga, r),
           steps' = steps \cup {step}
    PROVE  /\ RowLogged(m.saga, row)'
           /\ \A n \in commands : MessageLogged(n)'
<1>1. /\ MessageLogged(m)' /\ RowLogged(m.saga, r)'
      /\ step \in steps'
  BY DEF MessageLogged, RowLogged, Succeeded, FailureLogged, Logged
<1>2. RowLogged(m.saga, row)'
  BY <1>1 DEF Outcome, MessageLogged, RowLogged, Succeeded, Logged, StepName,
              AfterSeat, AfterCharge
<1>3. ASSUME NEW n \in commands
      PROVE  MessageLogged(n)'
  <2>1. n.saga = m.saga
    BY <1>3, OutcomeCommands
  <2>2. CASE m.type = "SeatReserved"
    BY <1>1, <1>3, <2>1, <2>2
      DEF Outcome, OneCommand, MessageLogged, Succeeded, Logged,
          AfterSeat, AfterCharge, AfterFailure
  <2>3. CASE m.type = "Charged"
    BY <1>1, <1>3, <2>1, <2>3
      DEF Outcome, OneCommand, MessageLogged, Succeeded, Logged,
          AfterSeat, AfterCharge, AfterFailure
  <2>4. CASE m.type \in {"PaymentFailed", "NotificationFailed"}
    <3>1. FailureLogged(m.saga)'
      BY <1>1, <2>4 DEF Outcome, FailureLogged, Logged, StepName
    <3> QED
      BY <1>3, <2>1, <2>4, <3>1
        DEF Outcome, OneCommand, MessageLogged, AfterSeat, AfterCharge, AfterFailure
  <2>5. CASE m.type = "Refunded"
    BY <1>1, <1>3, <2>1, <2>5
      DEF Outcome, OneCommand, MessageLogged, AfterSeat, AfterCharge, AfterFailure
  <2> QED
    BY <1>3, <2>2, <2>3, <2>4, <2>5 DEF Outcome
<1> QED
  BY <1>2, <1>3

\* The log only grows, so what it says of messages, rows and copies stays said.
LEMMA LogGrows ==
    ASSUME IInv, LogOK, steps \subseteq steps', UNCHANGED <<reservation, payment, notification>>,
           \A n \in outbox' : n \in outbox \/ MessageLogged(n)',
           \A s \in Saga : saga'[s] = saga[s] \/ RowLogged(s, saga[s])',
           \A c \in Topic : tx'[c] # None =>
               \/ tx'[c] = tx[c]
               \/ tx'[c].msg.saga \in Saga /\ tx'[c].row = saga[tx'[c].msg.saga]
    PROVE  LogOK'
<1>1. \A m \in outbox' : MessageLogged(m)'
  <2>1. ASSUME NEW m \in outbox
        PROVE  MessageLogged(m)'
    <3>1. MessageLogged(m)
      BY DEF LogOK
    <3> QED
      BY <3>1 DEF MessageLogged, Succeeded, FailureLogged, Logged
  <2> QED
    BY <2>1
<1>2. ASSUME NEW s \in Saga
      PROVE  RowLogged(s, saga[s])'
  <2>1. RowLogged(s, saga[s])
    BY DEF LogOK
  <2>2. CASE saga'[s] = saga[s]
    BY <2>1, <2>2 DEF RowLogged, Succeeded, Logged
  <2> QED
    BY <2>2
<1>3. ASSUME NEW c \in Topic, tx'[c] # None
      PROVE  RowLogged(tx[c].msg.saga, tx[c].row)'
  <2>1. CASE tx'[c] = tx[c]
    <3>1. RowLogged(tx[c].msg.saga, tx[c].row)
      BY <1>3, <2>1 DEF LogOK
    <3> QED
      BY <2>1, <3>1 DEF RowLogged, Succeeded, Logged
  <2>2. CASE tx'[c].msg.saga \in Saga /\ tx'[c].row = saga[tx'[c].msg.saga]
    <3>1. RowLogged(tx'[c].msg.saga, saga[tx'[c].msg.saga])
      BY <2>2 DEF LogOK
    <3> QED
      BY <2>2, <3>1 DEF RowLogged, Succeeded, Logged
  <2> QED
    BY <1>3, <2>1, <2>2
<1>4. ASSUME NEW s \in Saga, Done("SeatReleased", s)'
      PROVE  FailureLogged(s)'
  <2>1. Done("SeatReleased", s)
    BY <1>4, DoneDef, DoneDefNext
  <2>2. FailureLogged(s)
    BY <2>1 DEF LogOK
  <2> QED
    BY <2>2 DEF FailureLogged, Logged
<1> QED
  BY <1>1, <1>2, <1>3, <1>4 DEF LogOK

\* The event of a service comes after what its command came after.
LEMMA ServiceKeepsLog ==
    ASSUME IInv, LogOK, ServiceAnswered
    PROVE  LogOK'
<1>1. PICK m \in outbox :
          /\ UNCHANGED <<saga, steps, tx, dead>>
          /\ \/ UNCHANGED <<outbox, reservation, payment, notification>>
             \/ \E n \in Message :
                   /\ n.saga = m.saga
                   /\ Answers(m.type, n.type)
                   /\ OutboxAppend({n})
                   /\ DoesEffect(n)
  BY DEF ServiceAnswered
<1>2. CASE UNCHANGED <<outbox, reservation, payment, notification>>
  <2>1. \A k \in outbox' : k \in outbox
    BY <1>2
  <2> QED
    BY <1>1, <1>2, <2>1, LogGrows
<1>3. ASSUME NEW n \in Message, n.saga = m.saga, Answers(m.type, n.type), OutboxAppend({n}),
             DoesEffect(n)
      PROVE  LogOK'
  <2>1. m.saga \in Saga /\ MessageLogged(m)
    BY MessageBody DEF IInv, TypeOK, M_TypeOK, LogOK
  <2>2. MessageLogged(n)
    BY <1>3, <2>1 DEF MessageLogged, Answers, AfterSeat, AfterCharge, AfterFailure
  <2>3. \A k \in outbox' : MessageLogged(k)'
    BY <1>1, <1>3, <2>2
      DEF LogOK, OutboxAppend, MessageLogged, Succeeded, FailureLogged, Logged
  <2>4. ASSUME NEW s \in Saga, Done("SeatReleased", s)'
        PROVE  FailureLogged(s)'
    <3>1. \/ Done("SeatReleased", s)
          \/ n.type = "SeatReleased" /\ s = n.saga
      BY <1>3, <2>4, EffectEvents DEF DoesEffect
    <3>2. FailureLogged(s)
      BY <1>3, <2>1, <3>1 DEF LogOK, Answers, MessageLogged, AfterFailure
    <3> QED
      BY <1>1, <3>2 DEF FailureLogged, Logged
  <2> QED
    BY <1>1, <2>3, <2>4 DEF LogOK, RowLogged, Succeeded, Logged
<1> QED
  BY <1>1, <1>2, <1>3

\* What the orchestrator does it logs.
LEMMA OrchestratorKeepsLog ==
    ASSUME IInv, LogOK, OrchestratorStep
    PROVE  LogOK'
<1>1. UNCHANGED <<reservation, payment, notification>>
  BY DEF OrchestratorStep, inventoryVars
<1>2. saga \in [Saga -> Row] /\ tx \in [Topic -> {None} \cup [msg : Message, row : Row]]
  BY DEF IInv, TypeOK, Orch_TypeOK
<1>3. ASSUME NEW s \in Saga, StartBooking(s)
      PROVE  LogOK'
  <2>1. PICK amount \in Amount, channel \in Channel :
            /\ saga' = [saga EXCEPT ![s] = NewSaga(amount, channel)]
            /\ OutboxAppend({NewMessage("ReserveSeat", s, None)})
            /\ UNCHANGED <<inbox, steps, tx, dead>>
    BY <1>3 DEF StartBooking
  <2> PICK n : n = NewMessage("ReserveSeat", s, None)
    OBVIOUS
  <2>2. MessageLogged(n)'
    <3>1. n.type = "ReserveSeat"
      BY NewMessageNumber DEF IInv
    <3> QED
      BY <3>1 DEF MessageLogged, AfterSeat, AfterCharge, AfterFailure
  <2>3. RowLogged(s, NewSaga(amount, channel))'
    BY DEF NewSaga, NoRow, RowLogged
  <2> QED
    BY <1>1, <1>2, <2>1, <2>2, <2>3, LogGrows DEF OutboxAppend
<1>4. ASSUME NEW m \in outbox, Begin(m)
      PROVE  LogOK'
  <2>1. m.saga \in Saga
    BY MessageBody DEF IInv, TypeOK, M_TypeOK
  <2>2. /\ tx' = [tx EXCEPT ![TopicOf(m.type)] = [msg |-> m, row |-> saga[m.saga]]]
        /\ UNCHANGED <<outbox, inbox, saga, steps, dead>>
    BY <1>4 DEF Begin
  <2>3. \A c \in Topic : tx'[c] = tx[c] \/ tx'[c] = [msg |-> m, row |-> saga[m.saga]]
    BY <1>2, <2>2
  <2>4. outbox' = outbox
    BY <2>2
  <2> QED
    BY <1>1, <2>1, <2>2, <2>3, <2>4, LogGrows
<1>5. ASSUME NEW c \in Topic, UNCHANGED <<outbox, saga, steps>>, tx' = [tx EXCEPT ![c] = None]
      PROVE  LogOK'
  <2>1. \A d \in Topic : tx'[d] # None => tx'[d] = tx[d]
    BY <1>2, <1>5
  <2>2. outbox' = outbox
    BY <1>5
  <2> QED
    BY <1>1, <1>5, <2>1, <2>2, LogGrows
<1>6. ASSUME NEW c \in Topic, HandleEvent(c)
      PROVE  LogOK'
  <2>1. tx[c] # None
    BY <1>6, HandlerOutcome
  <2>2. CASE Ignore(c)
    BY <1>5, <2>2 DEF Ignore
  <2>3. ASSUME NEW row, NEW step, NEW commands,
               Outcome(tx[c].msg, tx[c].row, row, step, commands),
               Commit(c, row, step, commands)
        PROVE  LogOK'
    <3>1. /\ saga' = [saga EXCEPT ![tx[c].msg.saga] = row]
          /\ steps' = steps \cup {step}
          /\ OutboxAppend(commands)
          /\ tx' = [tx EXCEPT ![c] = None]
      BY <2>3 DEF Commit
    <3>2. MessageLogged(tx[c].msg) /\ RowLogged(tx[c].msg.saga, tx[c].row)
      BY <2>1, HandlerKnows DEF LogOK
    <3> PICK m, r : m = tx[c].msg /\ r = tx[c].row
      OBVIOUS
    <3>3. RowLogged(m.saga, row)' /\ \A n \in commands : MessageLogged(n)'
      BY <2>3, <3>1, <3>2, OutcomeIsLogged
    <3>4. \A s \in Saga : saga'[s] = saga[s] \/ RowLogged(s, saga[s])'
      BY <1>2, <3>1, <3>3 DEF RowLogged, Succeeded, Logged
    <3>5. \A d \in Topic : tx'[d] # None => tx'[d] = tx[d]
      BY <1>2, <3>1
    <3> QED
      BY <1>1, <3>1, <3>3, <3>4, <3>5, LogGrows DEF OutboxAppend
  <2> QED
    BY <1>6, <2>2, <2>3, HandlerOutcome
<1>7. CASE ProcessExpired
  <2>1. PICK batch \in SUBSET {s \in Saga : Expired(s)} :
            /\ saga' = [s \in Saga |-> IF s \in batch THEN TickedRow(s) ELSE saga[s]]
            /\ steps' = steps \cup UNION {TickedSteps(s) : s \in batch}
            /\ OutboxAppend(UNION {TickedCommand(s) : s \in batch})
            /\ UNCHANGED <<inbox, tx, dead>>
    BY <1>7 DEF ProcessExpired
  <2>2. ASSUME NEW s \in batch
        PROVE  RowLogged(s, saga[s])'
    <3>1. /\ TickedRow(s).step = saga[s].step
          /\ TickedRow(s).state \in {"running", "compensating", "failed"}
      BY TickOutcome
    <3>2. RowLogged(s, saga[s])
      BY DEF LogOK
    <3>3. saga'[s].step = saga[s].step /\ saga'[s].state \in {"running", "compensating", "failed"}
      BY <2>1, <3>1
    <3> QED
      BY <2>1, <3>2, <3>3 DEF RowLogged, Succeeded, Logged
  <2> PICK msgs : msgs = UNION {TickedCommand(s) : s \in batch}
    OBVIOUS
  <2>3. ASSUME NEW n \in msgs
        PROVE  MessageLogged(n)'
    <3>1. PICK s \in batch : n \in TickedCommand(s)
      OBVIOUS
    <3>2. RowLogged(s, saga[s])
      BY DEF LogOK
    <3>3. CASE \/ n.type = "ReserveSeat"
               \/ n.type = "Charge" /\ saga[s].step = "ChargePayment"
               \/ n.type = "Send" /\ saga[s].step = "SendNotification"
      BY <2>1, <3>1, <3>2, <3>3, TickOutcome
        DEF MessageLogged, RowLogged, Succeeded, Logged, AfterSeat, AfterCharge, AfterFailure
    <3>4. CASE n.type = "ReleaseSeat"
      <4>1. \E name \in StepName : NewSagaStep(s, name, "forward", "failed") \in TickedSteps(s)
        BY <3>1, <3>4, TickOutcome
      <4>2. n.saga = s
        BY <3>1, TickOutcome
      <4> QED
        BY <2>1, <3>4, <4>1, <4>2
          DEF MessageLogged, FailureLogged, Logged, AfterSeat, AfterCharge, AfterFailure
    <3> QED
      BY <3>1, <3>3, <3>4, TickOutcome
  <2> QED
    BY <1>1, <2>1, <2>2, <2>3, LogGrows DEF OutboxAppend
<1> QED
  BY <1>3, <1>4, <1>5, <1>6, <1>7
    DEF OrchestratorStep, OrchestratorNext, ConsumeEvents, Abort, DeadLetter

(***************************************************************************)
(* The columns of the context, and the dead letters: what is known of the  *)
(* handlers at work.                                                       *)
(***************************************************************************)
\* A handler works on an event of its topic that is not in the inbox.
LEMMA AtWork ==
    ASSUME IInv, TopicsOK, NEW c \in Topic, tx[c] # None
    PROVE  /\ tx[c].msg \in outbox \ inbox
           /\ tx[c].msg.saga \in Saga
           /\ tx[c].msg.type \in Event
           /\ c = "inventory" <=> tx[c].msg.type \in InventoryEvent
           /\ c = "payment" <=> tx[c].msg.type \in PaymentEvent
           /\ c = "notification" <=> tx[c].msg.type \in NotificationEvent
           /\ \A type : AllHandled(type, tx[c].msg.saga) => tx[c].msg.type # type
<1> DEFINE type == tx[c].msg.type
<1>1. tx[c].msg \in outbox \ inbox /\ tx[c].msg.saga \in Saga /\ type \in Event
  BY HandlerKnows DEF TopicsOK, IInv, HandlersOK
<1>2. TopicOf(type) = c
  BY DEF TopicsOK
<1>3. CASE type \in InventoryEvent
  <2>1. TopicOf(type) = "inventory"
    BY <1>3 DEF TopicOf, InventoryEvent, PaymentEvent, NotificationEvent
  <2> QED
    BY <1>1, <1>2, <1>3, <2>1
      DEF AllHandled, Emitted, InventoryEvent, PaymentEvent, NotificationEvent
<1>4. CASE type \in PaymentEvent
  <2>1. TopicOf(type) = "payment"
    BY <1>4 DEF TopicOf, InventoryEvent, PaymentEvent, NotificationEvent
  <2> QED
    BY <1>1, <1>2, <1>4, <2>1
      DEF AllHandled, Emitted, InventoryEvent, PaymentEvent, NotificationEvent
<1>5. CASE type \in NotificationEvent
  <2>1. TopicOf(type) = "notification"
    BY <1>5 DEF TopicOf, InventoryEvent, PaymentEvent, NotificationEvent
  <2> QED
    BY <1>1, <1>2, <1>5, <2>1
      DEF AllHandled, Emitted, InventoryEvent, PaymentEvent, NotificationEvent
<1> QED
  BY <1>1, <1>3, <1>4, <1>5 DEF Event

\* What the events of payment and of notification, and the refunds, say of the
\* tables.
LEMMA MessageTells ==
    ASSUME IInv, EventsOK, NEW m \in outbox
    PROVE  /\ m.saga \in Saga
           /\ m.type = "PaymentFailed" => ~Paid(m.saga)
           /\ m.type \in AfterCharge => Paid(m.saga)
           /\ m.type = "Sent" => ~Done("NotificationFailed", m.saga)
           /\ m.type \in {"Refund", "Refunded"} =>
                  Paid(m.saga) /\ Done("NotificationFailed", m.saga)
<1>1. m.saga \in Saga /\ MessageOK(m) /\ TypeOK
  BY MessageBody DEF IInv, TypeOK, M_TypeOK
<1>2. m.type \in EffectEvent => Done(m.type, m.saga)
  BY <1>1, EventMeansDone
<1>3. m.type = "PaymentFailed" => ~Paid(m.saga)
  BY <1>2, EffectEvents, DoneDef DEF Paid
<1>4. m.type \in AfterCharge => Paid(m.saga)
  BY <1>1 DEF AfterCharge, MessageOK, IInv, ServicesOK
<1>5. m.type = "Sent" => ~Done("NotificationFailed", m.saga)
  BY <1>1, DoneDef DEF MessageOK
<1>6. m.type = "Refunded" => Paid(m.saga) /\ Done("NotificationFailed", m.saga)
  BY <1>1, <1>2, EffectEvents, DoneDef DEF IInv, ServicesOK, Paid
<1>7. m.type = "Refund" => Paid(m.saga) /\ Done("NotificationFailed", m.saga)
  BY <1>1, DoneDef DEF MessageOK, IInv, ServicesOK
<1> QED
  BY <1>1, <1>3, <1>4, <1>5, <1>6, <1>7

\* A payment event and a notification event of one saga are never being handled at
\* the same time.
LEMMA NeverBoth ==
    ASSUME IInv, EventsOK, TopicsOK, PaymentColumnOK, RefundsOK, NEW s,
           OnSaga("payment", s), OnSaga("notification", s)
    PROVE  FALSE
<1> DEFINE p == tx["payment"].msg
           n == tx["notification"].msg
<1>1. /\ p \in outbox /\ p.saga = s /\ p.type \in PaymentEvent
      /\ \A type : AllHandled(type, s) => p.type # type
  BY AtWork DEF OnSaga, Topic
<1>2. /\ n \in outbox /\ n.saga = s /\ n.type \in NotificationEvent
      /\ \A type : AllHandled(type, s) => n.type # type
  BY AtWork DEF OnSaga, Topic
<1>3. n.type \in AfterCharge
  BY <1>2 DEF AfterCharge, NotificationEvent
<1>4. AllHandled("Charged", s) /\ Paid(s)
  BY <1>2, <1>3, MessageTells DEF PaymentColumnOK
<1>5. p.type = "Refunded"
  BY <1>1, <1>4, MessageTells DEF PaymentEvent
<1>6. AllHandled("NotificationFailed", s) /\ Done("NotificationFailed", s)
  BY <1>1, <1>5, MessageTells DEF RefundsOK
<1> QED
  BY <1>2, <1>6, MessageTells DEF NotificationEvent

\* When an event that tells of an effect is handled, all events of its kind for
\* the saga are: there is no other.
LEMMA HandledNow ==
    ASSUME TypeOK, EventsOK, NEW m \in outbox, m.type \in EffectEvent, m \in inbox',
           \A n \in outbox' : n \in outbox \/ n.type # m.type
    PROVE  AllHandled(m.type, m.saga)'
<1>1. Emitted(m.type, m.saga) = {m}
  BY EventMeansDone
<1>2. Emitted(m.type, m.saga)' \subseteq {m}
  BY <1>1 DEF Emitted
<1> QED
  BY <1>2 DEF AllHandled

\* What is handled stays so, unless a new one is emitted.
LEMMA HandledStays ==
    ASSUME NEW type, NEW s, AllHandled(type, s), inbox \subseteq inbox',
           \A n \in outbox' : n \in outbox \/ n.type # type \/ n.saga # s
    PROVE  AllHandled(type, s)'
  BY DEF AllHandled, Emitted

(***************************************************************************)
(* The services.                                                           *)
(***************************************************************************)
\* A service emits the event of an effect for the first time, so before anything
\* that comes after it.
LEMMA ServiceKeepsColumns ==
    ASSUME IInv, HInv, ServiceAnswered
    PROVE  TopicsOK' /\ SeatColumnOK' /\ PaymentColumnOK' /\ RefundsOK' /\ DeadOK'
<1>0. EventsOK /\ TopicsOK /\ SeatColumnOK /\ PaymentColumnOK /\ RefundsOK /\ DeadOK
  BY DEF HInv
<1>1. PICK m \in outbox :
          /\ m.type \notin Event
          /\ Dedup(m)
          /\ UNCHANGED <<saga, steps, tx, dead>>
          /\ \/ UNCHANGED <<outbox, reservation, payment, notification>>
             \/ \E n \in Message :
                   /\ n.saga = m.saga
                   /\ Answers(m.type, n.type)
                   /\ OutboxAppend({n})
                   /\ DoesEffect(n)
  BY DEF ServiceAnswered
<1>2. inbox' = inbox \cup {m}
  BY <1>1 DEF Dedup
<1>3. TopicsOK'
  BY <1>0, <1>1, <1>2, AtWork DEF TopicsOK
<1>4. CASE UNCHANGED <<outbox, reservation, payment, notification>>
  <2>1. \A type, s : AllHandled(type, s) => AllHandled(type, s)'
    BY <1>2, <1>4 DEF AllHandled, Emitted
  <2>2. \A type, s : Done(type, s)' <=> Done(type, s)
    BY <1>4 DEF Done
  <2>3. SeatColumnOK'
    BY <1>0, <1>1, <1>4, <2>1 DEF SeatColumnOK
  <2>4. PaymentColumnOK'
    BY <1>0, <1>1, <1>4, <2>1 DEF PaymentColumnOK, OnSaga
  <2>5. RefundsOK'
    BY <1>0, <1>1, <1>4, <2>1 DEF RefundsOK, OnSaga
  <2>6. DeadOK'
    BY <1>0, <1>1, <1>4, <2>2 DEF DeadOK, NeverRefunded, OnSaga, Emitted
  <2> QED
    BY <1>3, <2>3, <2>4, <2>5, <2>6
<1>5. ASSUME NEW n \in Message, n.saga = m.saga, Answers(m.type, n.type), OutboxAppend({n}),
             DoesEffect(n)
      PROVE  SeatColumnOK' /\ PaymentColumnOK' /\ RefundsOK' /\ DeadOK'
  <2>1. outbox' = outbox \cup {n} /\ n.saga \in Saga
    BY <1>1, <1>5, MessageTells, <1>0 DEF OutboxAppend
  <2>2. n.type \in EffectEvent => ~Done(n.type, n.saga)
    BY <1>5, <2>1 DEF DoesEffect
  <2>3. ASSUME NEW type \in EffectEvent, NEW s \in Saga, AllHandled(type, s), Done(type, s)
        PROVE  AllHandled(type, s)'
    BY <1>2, <2>1, <2>2, <2>3, HandledStays
  <2>4. ASSUME NEW s \in Saga, saga[s].seat # None
        PROVE  Done("SeatReserved", s)
    BY <2>4, DoneDef DEF IInv, RowsOK, RowOK, Truthful
  <2>5. ASSUME NEW s \in Saga, Paid(s)
        PROVE  Done("Charged", s)
    BY <2>5, DoneDef DEF Paid
  <2>6. SeatColumnOK'
    <3>1. \A s \in Saga : saga[s].seat # None => AllHandled("SeatReserved", s)'
      BY <1>0, <2>3, <2>4, EffectEvents DEF SeatColumnOK
    <3>2. n.type \in Downstream => m.type \in Downstream
      BY <1>5 DEF Answers, Downstream, AfterSeat
    <3>3. \A k \in outbox' : k.type \in Downstream => saga[k.saga].seat # None
      BY <1>0, <1>5, <2>1, <3>2 DEF SeatColumnOK
    <3> QED
      BY <1>0, <1>1, <3>1, <3>3 DEF SeatColumnOK
  <2>7. PaymentColumnOK'
    <3>1. \A s \in Saga : AllHandled("Charged", s) /\ Paid(s) => AllHandled("Charged", s)'
      BY <2>3, <2>5, EffectEvents
    <3>2. \A k \in outbox : k.type \in AfterCharge => AllHandled("Charged", k.saga)'
      BY <1>0, <3>1, MessageTells DEF PaymentColumnOK
    <3>3. n.type \in AfterCharge => m.type \in AfterCharge
      BY <1>5 DEF Answers, AfterCharge
    <3>4. \A k \in outbox' : k.type \in AfterCharge => AllHandled("Charged", k.saga)'
      BY <1>5, <2>1, <3>2, <3>3
    <3>5. \A s \in Saga : saga[s].step = "SendNotification" => AllHandled("Charged", s)'
      BY <1>0, <3>1 DEF PaymentColumnOK, IInv, RowsOK, RowOK
    <3>6. ASSUME NEW c \in Topic, tx[c] # None, tx[c].row.step = "SendNotification",
                 NEW s, s = tx[c].msg.saga
          PROVE  AllHandled("Charged", s)'
      <4>1. s \in Saga /\ AllHandled("Charged", s) /\ Paid(s)
        BY <1>0, <3>6, AtWork DEF PaymentColumnOK, IInv, RowsOK, RowOK
      <4> QED
        BY <3>1, <4>1
    <3>7. \A c \in Topic : (tx[c] # None /\ tx[c].row.step = "SendNotification" =>
              AllHandled("Charged", tx[c].msg.saga))'
      BY <1>1, <3>6
    <3> QED
      BY <1>0, <1>1, <3>4, <3>5, <3>7 DEF PaymentColumnOK, OnSaga
  <2>8. RefundsOK'
    <3>1. \A k \in outbox : k.type \in {"Refund", "Refunded"} =>
              AllHandled("NotificationFailed", k.saga)'
      BY <1>0, <2>3, MessageTells, EffectEvents DEF RefundsOK
    <3>2. n.type \in {"Refund", "Refunded"} => m.type \in {"Refund", "Refunded"}
      BY <1>5 DEF Answers
    <3> QED
      BY <1>0, <1>1, <1>5, <2>1, <3>1, <3>2 DEF RefundsOK, OnSaga
  <2>9. DeadOK'
    <3> SUFFICES ASSUME NEW d \in dead
                 PROVE  Emitted("Refund", d.saga)' = {} /\ ~Done("Refunded", d.saga)'
      BY <1>0, <1>1 DEF DeadOK, NeverRefunded, OnSaga
    <3>1. /\ Emitted("Refund", d.saga) = {} /\ ~Done("Refunded", d.saga)
          /\ d \in outbox /\ d.saga \in Saga
      BY <1>0, MessageTells DEF DeadOK, NeverRefunded, IInv, TypeOK, Orch_TypeOK
    <3>2. n.type # "Refund"
      BY <1>5 DEF Answers
    <3>3. ~(n.type = "Refunded" /\ n.saga = d.saga)
      BY <1>5, <3>1 DEF Answers, Emitted
    <3>4. Done("Refunded", d.saga)' <=> Done("Refunded", d.saga)
      BY <1>5, <3>1, <3>3, EffectEvents DEF DoesEffect
    <3> QED
      BY <2>1, <3>1, <3>2, <3>4 DEF Emitted
  <2> QED
    BY <2>6, <2>7, <2>8, <2>9
<1> QED
  BY <1>1, <1>3, <1>4, <1>5

(***************************************************************************)
(* The orchestrator.                                                       *)
(***************************************************************************)
\* A step that leaves the handlers, the context of every row and what is handled
\* alone, and sends no refund.
LEMMA QuietStepKeepsColumns ==
    ASSUME IInv, HInv,
           UNCHANGED <<inbox, tx, dead, reservation, payment, notification>>,
           \A s \in Saga :
               /\ saga'[s].seat = saga[s].seat /\ saga'[s].payment = saga[s].payment
               /\ saga'[s].step \in {saga[s].step, "ReserveSeat"}
               /\ \/ saga'[s].state = "failed"
                  \/ saga[s].state \in {"running", "compensating"}
                  \/ saga[s].seat = None
                  \/ saga'[s] = saga[s],
           outbox \subseteq outbox',
           \A n \in outbox' : n \in outbox \/
               /\ n.saga \in Saga
               /\ n.type \in {"ReserveSeat", "Charge", "Send", "ReleaseSeat"}
               /\ n.type # "ReserveSeat" => saga[n.saga].seat # None
               /\ n.type = "Send" => AllHandled("Charged", n.saga)
    PROVE  TopicsOK' /\ SeatColumnOK' /\ PaymentColumnOK' /\ RefundsOK' /\ DeadOK'
<1>0. EventsOK /\ TopicsOK /\ SeatColumnOK /\ PaymentColumnOK /\ RefundsOK /\ DeadOK
  BY DEF HInv
<1>1. \A type, s : /\ type \notin {"ReserveSeat", "Charge", "Send", "ReleaseSeat"}
                   /\ AllHandled(type, s)
                   => AllHandled(type, s)'
  BY HandledStays
<1>2. \A c \in Topic : tx[c] # None => tx[c].msg.saga \in Saga
  BY <1>0, AtWork
<1>3. \A m \in outbox : m.saga \in Saga
  BY <1>0, MessageTells
<1>4. TopicsOK'
  BY <1>0 DEF TopicsOK
<1>5. SeatColumnOK'
  <2>1. \A c \in Topic : (tx[c] # None =>
            /\ tx[c].row.seat = saga[tx[c].msg.saga].seat
            /\ tx[c].row.step \in {"ChargePayment", "SendNotification"} => tx[c].row.seat # None)'
    BY <1>0, <1>2 DEF SeatColumnOK
  <2>2. \A s \in Saga :
            /\ saga'[s].step \in {"ChargePayment", "SendNotification"} => saga'[s].seat # None
            /\ saga'[s].seat # None => AllHandled("SeatReserved", s)'
    BY <1>0, <1>1 DEF SeatColumnOK
  <2>3. \A m \in outbox' : m.type \in Downstream => saga'[m.saga].seat # None
    BY <1>0, <1>3 DEF SeatColumnOK, Downstream, AfterSeat
  <2> QED
    BY <2>1, <2>2, <2>3 DEF SeatColumnOK
<1>6. PaymentColumnOK'
  <2>1. \A m \in outbox' : m.type \in AfterCharge => AllHandled("Charged", m.saga)'
    BY <1>0, <1>1 DEF PaymentColumnOK, AfterCharge
  <2>2. \A s \in Saga : saga'[s].step = "SendNotification" => AllHandled("Charged", s)'
    BY <1>0, <1>1 DEF PaymentColumnOK
  <2>3. ASSUME NEW c \in Topic, tx[c] # None, tx[c].row.step = "SendNotification",
               NEW s, s = tx[c].msg.saga
        PROVE  AllHandled("Charged", s)'
    <3>1. AllHandled("Charged", s)
      BY <1>0, <2>3 DEF PaymentColumnOK
    <3> QED
      BY <1>1, <3>1
  <2>4. \A c \in Topic : (tx[c] # None /\ tx[c].row.step = "SendNotification" =>
            AllHandled("Charged", tx[c].msg.saga))'
    BY <2>3
  <2>5. \A s \in Saga :
            /\ OnSaga("inventory", s)' /\ tx'["inventory"].row.payment => saga'[s].payment
            /\ OnSaga("notification", s)' /\ ~tx'["notification"].row.payment =>
                   ~saga'[s].payment
    BY <1>0 DEF PaymentColumnOK, OnSaga
  <2> QED
    BY <2>1, <2>2, <2>4, <2>5 DEF PaymentColumnOK
<1>7. RefundsOK'
  <2> SUFFICES ASSUME NEW m \in outbox', m.type \in {"Refund", "Refunded"}
               PROVE  /\ AllHandled("NotificationFailed", m.saga)'
                      /\ saga'[m.saga].state \in {"running", "compensating"} =>
                             saga'[m.saga].payment
                      /\ OnSaga("payment", m.saga)'
                         /\ tx'["payment"].row.state \in {"running", "compensating"} =>
                             tx'["payment"].row.payment
    BY DEF RefundsOK
  <2>1. m \in outbox /\ m.saga \in Saga
    BY <1>3
  <2>2. saga[m.saga].seat # None
    BY <1>0, <2>1 DEF SeatColumnOK, Downstream
  <2> QED
    BY <1>0, <1>1, <2>1, <2>2 DEF RefundsOK, OnSaga
<1>8. DeadOK'
  <2> SUFFICES ASSUME NEW d \in dead
               PROVE  NeverRefunded(d)'
    BY DEF DeadOK
  <2>1. NeverRefunded(d) /\ d.saga \in Saga
    BY <1>0, <1>3 DEF DeadOK, IInv, TypeOK, Orch_TypeOK
  <2>2. Emitted("Refund", d.saga)' = {}
    BY <2>1 DEF NeverRefunded, Emitted
  <2>3. ~Done("Refunded", d.saga)'
    BY <2>1 DEF NeverRefunded, Done
  <2> QED
    BY <2>1, <2>2, <2>3 DEF NeverRefunded, OnSaga
<1> QED
  BY <1>4, <1>5, <1>6, <1>7, <1>8

\* A booking is started, or the scheduler ticks.
LEMMA StartOrTickKeepsColumns ==
    ASSUME IInv, HInv, UNCHANGED <<reservation, payment, notification>>,
           (\E s \in Saga : StartBooking(s)) \/ ProcessExpired
    PROVE  TopicsOK' /\ SeatColumnOK' /\ PaymentColumnOK' /\ RefundsOK' /\ DeadOK'
<1>1. saga \in [Saga -> Row]
  BY DEF IInv, TypeOK, Orch_TypeOK
<1>2. ASSUME NEW s \in Saga, StartBooking(s)
      PROVE  TopicsOK' /\ SeatColumnOK' /\ PaymentColumnOK' /\ RefundsOK' /\ DeadOK'
  <2>1. PICK amount \in Amount, channel \in Channel :
            /\ saga[s] = NoRow
            /\ saga' = [saga EXCEPT ![s] = NewSaga(amount, channel)]
            /\ OutboxAppend({NewMessage("ReserveSeat", s, None)})
            /\ UNCHANGED <<inbox, steps, tx, dead>>
    BY <1>2 DEF StartBooking
  <2> PICK n : n = NewMessage("ReserveSeat", s, None)
    OBVIOUS
  <2>2. n.type = "ReserveSeat" /\ n.saga = s
    BY NewMessageNumber DEF IInv
  <2>3. \A t \in Saga :
            /\ saga'[t].seat = saga[t].seat /\ saga'[t].payment = saga[t].payment
            /\ saga'[t].step \in {saga[t].step, "ReserveSeat"}
            /\ saga[t].seat = None \/ saga'[t] = saga[t]
    <3>1. /\ NewSaga(amount, channel).seat = None
          /\ NewSaga(amount, channel).payment = FALSE
          /\ NewSaga(amount, channel).step = "ReserveSeat"
      BY DEF NewSaga, NoRow
    <3>2. NoRow.seat = None /\ NoRow.payment = FALSE
      BY DEF NoRow
    <3>3. saga'[s] = NewSaga(amount, channel)
          /\ \A t \in Saga : t # s => saga'[t] = saga[t]
      BY <1>1, <2>1
    <3> QED
      BY <2>1, <3>1, <3>2, <3>3
  <2>4. outbox' = outbox \cup {n}
    BY <2>1 DEF OutboxAppend
  <2> QED
    BY <2>1, <2>2, <2>3, <2>4, QuietStepKeepsColumns
<1>3. CASE ProcessExpired
  <2>1. PICK batch \in SUBSET {s \in Saga : Expired(s)} :
            /\ saga' = [s \in Saga |-> IF s \in batch THEN TickedRow(s) ELSE saga[s]]
            /\ OutboxAppend(UNION {TickedCommand(s) : s \in batch})
            /\ UNCHANGED <<inbox, tx, dead>>
    BY <1>3 DEF ProcessExpired
  <2>2. \A s \in Saga :
            /\ saga'[s].seat = saga[s].seat /\ saga'[s].payment = saga[s].payment
            /\ saga'[s].step = saga[s].step
            /\ saga[s].state \in {"running", "compensating"} \/ saga'[s] = saga[s]
    <3>1. ASSUME NEW s \in batch
          PROVE  /\ saga'[s].seat = saga[s].seat /\ saga'[s].payment = saga[s].payment
                 /\ saga'[s].step = saga[s].step
                 /\ saga[s].state \in {"running", "compensating"}
      <4>1. s \in Saga /\ Expired(s) /\ saga'[s] = TickedRow(s)
        BY <2>1
      <4> QED
        BY <4>1, TickOutcome
    <3>2. \A s \in Saga : s \notin batch => saga'[s] = saga[s]
      BY <2>1
    <3> QED
      BY <3>1, <3>2
  <2> PICK msgs : msgs = UNION {TickedCommand(s) : s \in batch}
    OBVIOUS
  <2>3. ASSUME NEW n \in msgs
        PROVE  /\ n.saga \in Saga
               /\ n.type \in {"ReserveSeat", "Charge", "Send", "ReleaseSeat"}
               /\ n.type # "ReserveSeat" => saga[n.saga].seat # None
               /\ n.type = "Send" => AllHandled("Charged", n.saga)
    <3>1. PICK s \in batch : n \in TickedCommand(s)
      OBVIOUS
    <3>2. /\ saga[s].step \in {"ChargePayment", "SendNotification"} => saga[s].seat # None
          /\ saga[s].step = "SendNotification" => AllHandled("Charged", s)
      BY DEF HInv, SeatColumnOK, PaymentColumnOK
    <3> QED
      BY <3>1, <3>2, TickOutcome
  <2>4. outbox' = outbox \cup msgs
    BY <2>1 DEF OutboxAppend
  <2> QED
    BY <2>1, <2>2, <2>3, <2>4, QuietStepKeepsColumns
<1> QED
  BY <1>2, <1>3

\* A handler that begins holds what the row says.
LEMMA BeginKeepsColumns ==
    ASSUME IInv, HInv, UNCHANGED <<reservation, payment, notification>>,
           NEW m \in outbox, Begin(m)
    PROVE  TopicsOK' /\ SeatColumnOK' /\ PaymentColumnOK' /\ RefundsOK' /\ DeadOK'
<1>0. EventsOK /\ TopicsOK /\ SeatColumnOK /\ PaymentColumnOK /\ RefundsOK /\ DeadOK
  BY DEF HInv
<1>1. /\ m \notin inbox /\ m.saga \in Saga
      /\ tx' = [tx EXCEPT ![TopicOf(m.type)] = [msg |-> m, row |-> saga[m.saga]]]
      /\ UNCHANGED <<outbox, inbox, saga, dead>>
  BY <1>0, MessageTells DEF Begin
<1>2. tx \in [Topic -> {None} \cup [msg : Message, row : Row]]
  BY DEF IInv, TypeOK, Orch_TypeOK
<1>3. ASSUME NEW c \in Topic, tx'[c] # None
      PROVE  \/ tx'[c] = tx[c]
             \/ TopicOf(m.type) = c /\ tx'[c].msg = m /\ tx'[c].row = saga[m.saga]
  BY <1>1, <1>2
<1>4. \A type, s : AllHandled(type, s)' <=> AllHandled(type, s)
  BY <1>1 DEF AllHandled, Emitted
<1>5. TopicsOK'
  BY <1>0, <1>1, <1>3 DEF TopicsOK
<1>6. SeatColumnOK'
  <2>1. \A c \in Topic : tx'[c] # None =>
            /\ tx'[c].row.seat = saga[tx'[c].msg.saga].seat
            /\ tx'[c].row.step \in {"ChargePayment", "SendNotification"} =>
                   tx'[c].row.seat # None
    BY <1>0, <1>1, <1>3 DEF SeatColumnOK
  <2> QED
    BY <1>0, <1>1, <1>4, <2>1 DEF SeatColumnOK
<1>7. PaymentColumnOK'
  <2>1. ASSUME NEW c \in Topic, tx'[c] # None, tx'[c].row.step = "SendNotification"
        PROVE  AllHandled("Charged", tx'[c].msg.saga)
    BY <1>0, <1>1, <1>3, <2>1 DEF PaymentColumnOK
  <2>2. \A c \in Topic : (tx[c] # None /\ tx[c].row.step = "SendNotification" =>
            AllHandled("Charged", tx[c].msg.saga))'
    BY <1>4, <2>1
  <2>3. \A s \in Saga :
            /\ OnSaga("inventory", s)' /\ tx'["inventory"].row.payment => saga'[s].payment
            /\ OnSaga("notification", s)' /\ ~tx'["notification"].row.payment =>
                   ~saga'[s].payment
    BY <1>0, <1>1, <1>3 DEF PaymentColumnOK, OnSaga, Topic
  <2> QED
    BY <1>0, <1>1, <1>4, <2>2, <2>3 DEF PaymentColumnOK
<1>8. RefundsOK'
  <2>1. ASSUME NEW k \in outbox, k.type \in {"Refund", "Refunded"}, OnSaga("payment", k.saga)',
               tx'["payment"].row.state \in {"running", "compensating"}
        PROVE  tx'["payment"].row.payment
    BY <1>0, <1>1, <1>3, <2>1 DEF RefundsOK, OnSaga, Topic
  <2> QED
    BY <1>0, <1>1, <1>4, <2>1 DEF RefundsOK
<1>9. DeadOK'
  <2> SUFFICES ASSUME NEW d \in dead
               PROVE  NeverRefunded(d)'
    BY <1>1 DEF DeadOK
  <2>1. NeverRefunded(d)
    BY <1>0 DEF DeadOK
  <2>2. \A c \in Topic : OnSaga(c, d.saga)' => ~tx'[c].row.payment
    BY <1>1, <1>3, <2>1 DEF NeverRefunded, OnSaga
  <2> QED
    BY <1>1, <2>1, <2>2 DEF NeverRefunded, Emitted, Done
<1> QED
  BY <1>5, <1>6, <1>7, <1>8, <1>9

\* A handler that has ended without a change of the row; its message may be handled
\* now, or dead.
LEMMA DropKeepsColumns ==
    ASSUME IInv, HInv, UNCHANGED <<outbox, saga, reservation, payment, notification>>,
           NEW c \in Topic, tx[c] # None, tx' = [tx EXCEPT ![c] = None],
           inbox' \in {inbox, inbox \cup {tx[c].msg}},
           \/ dead' = dead
           \/ dead' = dead \cup {tx[c].msg} /\ NeverRefunded(tx[c].msg)
    PROVE  TopicsOK' /\ SeatColumnOK' /\ PaymentColumnOK' /\ RefundsOK' /\ DeadOK'
<1>0. EventsOK /\ TopicsOK /\ SeatColumnOK /\ PaymentColumnOK /\ RefundsOK /\ DeadOK
  BY DEF HInv
<1>1. tx \in [Topic -> {None} \cup [msg : Message, row : Row]]
  BY DEF IInv, TypeOK, Orch_TypeOK
<1>2. \A b \in Topic : tx'[b] # None => tx'[b] = tx[b] /\ b # c
  BY <1>1
<1>3. \A type, s : AllHandled(type, s) => AllHandled(type, s)'
  BY DEF AllHandled, Emitted
<1>4. \A b \in Topic : \A s : OnSaga(b, s)' => OnSaga(b, s) /\ tx'[b].row = tx[b].row
  BY <1>2 DEF OnSaga
<1>5. TopicsOK'
  BY <1>0, <1>2 DEF TopicsOK
<1>6. SeatColumnOK'
  BY <1>0, <1>2, <1>3 DEF SeatColumnOK
<1>7. PaymentColumnOK'
  <2>1. ASSUME NEW b \in Topic, tx'[b] # None, tx'[b].row.step = "SendNotification"
        PROVE  AllHandled("Charged", tx'[b].msg.saga)
    BY <1>0, <1>2, <2>1 DEF PaymentColumnOK
  <2>2. \A b \in Topic : (tx[b] # None /\ tx[b].row.step = "SendNotification" =>
            AllHandled("Charged", tx[b].msg.saga))'
    BY <1>3, <2>1
  <2>3. \A s \in Saga :
            /\ OnSaga("inventory", s)' /\ tx'["inventory"].row.payment => saga'[s].payment
            /\ OnSaga("notification", s)' /\ ~tx'["notification"].row.payment =>
                   ~saga'[s].payment
    BY <1>0, <1>4 DEF PaymentColumnOK, Topic
  <2> QED
    BY <1>0, <1>3, <2>2, <2>3 DEF PaymentColumnOK
<1>8. RefundsOK'
  BY <1>0, <1>3, <1>4 DEF RefundsOK, Topic
<1>9. DeadOK'
  <2>1. \A d : NeverRefunded(d) => NeverRefunded(d)'
    BY <1>4 DEF NeverRefunded, Emitted, Done
  <2> QED
    BY <1>0, <2>1 DEF DeadOK
<1> QED
  BY <1>5, <1>6, <1>7, <1>8, <1>9

\* A message that is dead-lettered tells of a notification that failed, and its saga
\* is not refunded.
LEMMA DeadLetterTells ==
    ASSUME IInv, HInv, NEW c \in Topic, DeadLetter(c)
    PROVE  NeverRefunded(tx[c].msg)
<1>0. EventsOK /\ TopicsOK /\ SeatColumnOK /\ PaymentColumnOK /\ RefundsOK /\ TypeOK
  BY DEF HInv, IInv
<1>1. tx[c] # None /\ PermanentError(tx[c].msg, tx[c].row)
  BY DEF DeadLetter
<1> PICK m, r : m = tx[c].msg /\ r = tx[c].row
  OBVIOUS
<1>2. m \in outbox /\ m \notin inbox /\ m.saga \in Saga /\ OnSaga(c, m.saga)
  BY <1>0, <1>1, AtWork DEF OnSaga
<1>3. m.type \in Downstream => r.seat # None
  BY <1>0, <1>1, <1>2 DEF SeatColumnOK
<1>4. m.type # "PaymentFailed"
  BY <1>1, <1>3 DEF PermanentError, Downstream, AfterSeat
<1>5. m.type # "Refunded"
  <2> SUFFICES ASSUME m.type = "Refunded"
               PROVE  FALSE
    OBVIOUS
  <2>1. c = "payment"
    BY <1>0, <1>1, AtWork DEF PaymentEvent
  <2>2. r.state = "compensating" /\ ~r.payment
    BY <1>1, <1>3 DEF PermanentError, Downstream, IsCompensating
  <2> QED
    BY <1>0, <1>2, <2>1, <2>2 DEF RefundsOK
<1>6. m.type # "SeatReleased"
  <2> SUFFICES ASSUME m.type = "SeatReleased"
               PROVE  FALSE
    OBVIOUS
  <2>1. r.seat # None /\ r.seat # m.body
    BY <1>1, <1>3 DEF PermanentError, Downstream
  <2>2. reservation[m.saga].seat = m.body
    BY <1>2 DEF IInv, MessageOK, HadSeat
  <2>3. reservation[m.saga].seat = r.seat
    BY <1>1, <2>1 DEF IInv, RowsOK, RowOK, Truthful
  <2> QED
    BY <2>1, <2>2, <2>3
<1>7. m.type = "NotificationFailed" /\ ~r.payment
  BY <1>1, <1>4, <1>5, <1>6 DEF PermanentError
<1>8. c = "notification"
  BY <1>0, <1>1, <1>7, AtWork DEF NotificationEvent
<1>9. ~saga[m.saga].payment
  BY <1>0, <1>2, <1>7, <1>8 DEF PaymentColumnOK
<1>10. ASSUME NEW b \in Topic, OnSaga(b, m.saga)
       PROVE  ~tx[b].row.payment
  <2>1. CASE b = "inventory"
    BY <1>0, <1>2, <1>9, <1>10, <2>1 DEF PaymentColumnOK
  <2>2. b # "payment"
    BY <1>0, <1>2, <1>8, <1>10, NeverBoth
  <2>3. CASE b = "notification"
    BY <1>7, <1>8, <2>3
  <2> QED
    BY <2>1, <2>2, <2>3 DEF Topic
<1>11. m \in Emitted("NotificationFailed", m.saga)
  BY <1>2, <1>7 DEF Emitted
<1>12. \A k \in outbox : k.type \in {"Refund", "Refunded"} => k.saga # m.saga
  BY <1>0, <1>2, <1>11 DEF RefundsOK, AllHandled
<1>13. Emitted("Refund", m.saga) = {}
  BY <1>12 DEF Emitted
<1>14. ~Done("Refunded", m.saga)
  BY <1>0, <1>2, <1>12, DoneHasEvent, EffectEvents
<1> QED
  BY <1>7, <1>9, <1>10, <1>13, <1>14 DEF NeverRefunded

\* A handler that commits writes its copy of the row: the seat that it finds there,
\* or the seat that it is the first to write, and a payment that no other handler
\* relies on.
LEMMA CommitKeepsColumns ==
    ASSUME IInv, HInv, UNCHANGED <<reservation, payment, notification>>,
           NEW c \in Topic, tx[c] # None, NEW row, NEW step, NEW commands,
           Outcome(tx[c].msg, tx[c].row, row, step, commands),
           Commit(c, row, step, commands)
    PROVE  TopicsOK' /\ SeatColumnOK' /\ PaymentColumnOK' /\ RefundsOK' /\ DeadOK'
<1>0. /\ EventsOK /\ TopicsOK /\ SeatColumnOK /\ PaymentColumnOK /\ RefundsOK /\ DeadOK
      /\ TypeOK /\ saga \in [Saga -> Row]
      /\ tx \in [Topic -> {None} \cup [msg : Message, row : Row]]
  BY DEF HInv, IInv, TypeOK, Orch_TypeOK
<1> PICK m, r, s : m = tx[c].msg /\ r = tx[c].row /\ s = tx[c].msg.saga
  OBVIOUS
<1>1. /\ m \in outbox /\ m \notin inbox /\ s \in Saga /\ m.saga = s /\ OnSaga(c, s)
      /\ m.type \in Event
      /\ c = "inventory" <=> m.type \in InventoryEvent
      /\ c = "payment" <=> m.type \in PaymentEvent
      /\ c = "notification" <=> m.type \in NotificationEvent
      /\ \A type : AllHandled(type, s) => m.type # type
  BY <1>0, AtWork DEF OnSaga
<1>2. /\ inbox' = inbox \cup {m}
      /\ outbox' = outbox \cup commands
      /\ saga'[s] = row
      /\ \A t \in Saga : t # s => saga'[t] = saga[t]
      /\ dead' = dead
  BY <1>0, <1>1 DEF Commit, Dedup, OutboxAppend
<1>3. \A b \in Topic : tx'[b] # None => tx'[b] = tx[b] /\ b # c
  BY <1>0 DEF Commit
<1>4. \A b \in Topic : \A t : OnSaga(b, t)' => OnSaga(b, t) /\ b # c /\ tx'[b].row = tx[b].row
  BY <1>3 DEF OnSaga
<1>5. Outcome(m, r, row, step, commands)
  OBVIOUS
<1>6. \A n \in commands : n.type \notin Event /\ n.saga = s
  BY <1>1, <1>5, OutcomeCommands
<1>7. \A type \in Event : \A t : AllHandled(type, t) => AllHandled(type, t)'
  BY <1>2, <1>6, HandledStays
<1>8. m.type \in EffectEvent => AllHandled(m.type, s)'
  <2>1. \A n \in outbox' : n \in outbox \/ n.type # m.type
    BY <1>1, <1>2, <1>6
  <2> QED
    BY <1>0, <1>1, <1>2, <2>1, HandledNow
<1>9. EffectEvent \subseteq Event /\ Event = EffectEvent \cup {"SeatReservationFailed"}
  BY DEF EffectEvent, Event, InventoryEvent, PaymentEvent, NotificationEvent
<1>10. \A k \in outbox : k.saga \in Saga
  BY <1>0, MessageTells
<1>11. \A b \in Topic : tx[b] # None => tx[b].msg \in outbox /\ tx[b].msg.saga \in Saga
  BY <1>0, AtWork
<1>12. TopicsOK'
  BY <1>0, <1>2, <1>3 DEF TopicsOK
\* The seat.
<1>20. r.seat = saga[s].seat
  BY <1>0 DEF SeatColumnOK
<1>21. m.type \notin {"SeatReserved", "SeatReservationFailed"} => r.seat # None
  <2>1. m.type \notin {"SeatReserved", "SeatReservationFailed"} => m.type \in Downstream
    BY <1>1 DEF Downstream, AfterSeat, Event, InventoryEvent, PaymentEvent, NotificationEvent
  <2> QED
    BY <1>0, <1>1, <1>20, <2>1 DEF SeatColumnOK
<1>22. m.type = "SeatReserved" => saga[s].seat = None /\ row.seat # None
  <2>1. m.type = "SeatReserved" => m.body \in Seat /\ row.seat = m.body
    <3>1. m \in Message
      BY <1>0, <1>1 DEF TypeOK, M_TypeOK
    <3> QED
      BY <1>5, <3>1, MessageBody DEF Outcome
  <2> QED
    BY <1>0, <1>1, <2>1, NoneAssumption DEF SeatColumnOK
<1>23. m.type # "SeatReserved" => row.seat = r.seat
  BY <1>5 DEF Outcome
<1>24. m.type # "SeatReservationFailed" => row.seat # None
  BY <1>21, <1>22, <1>23
<1>25. commands # {} => m.type # "SeatReservationFailed"
  BY <1>5 DEF Outcome
<1>26. SeatColumnOK'
  <2>1. ASSUME NEW b \in Topic, tx'[b] # None
        PROVE  /\ tx'[b].row.seat = saga'[tx'[b].msg.saga].seat
               /\ tx'[b].row.step \in {"ChargePayment", "SendNotification"} =>
                      tx'[b].row.seat # None
    <3>1. /\ tx[b].row.seat = saga[tx[b].msg.saga].seat
          /\ tx[b].row.step \in {"ChargePayment", "SendNotification"} => tx[b].row.seat # None
      BY <1>0, <1>3, <2>1 DEF SeatColumnOK
    <3>2. CASE tx[b].msg.saga # s
      BY <1>2, <1>3, <1>11, <2>1, <3>1, <3>2
    <3>3. CASE tx[b].msg.saga = s /\ m.type # "SeatReserved"
      BY <1>2, <1>3, <1>20, <1>23, <2>1, <3>1, <3>3
    <3>4. CASE tx[b].msg.saga = s /\ m.type = "SeatReserved"
      <4>1. c = "inventory" /\ b # "inventory"
        BY <1>1, <1>3, <2>1, <3>4 DEF InventoryEvent
      <4>2. tx[b].msg.type \in PaymentEvent \cup NotificationEvent
        BY <1>0, <1>3, <2>1, <4>1, AtWork DEF Topic
      <4>3. tx[b].msg.type \in Downstream
        BY <4>2 DEF Downstream, AfterSeat, PaymentEvent, NotificationEvent
      <4> QED
        BY <1>0, <1>3, <1>11, <1>22, <2>1, <3>4, <4>3 DEF SeatColumnOK
    <3> QED
      BY <3>2, <3>3, <3>4
  <2>2. row.step \in {"ChargePayment", "SendNotification"} => row.seat # None
    <3>1. r.step \in {"ChargePayment", "SendNotification"} => r.seat # None
      BY <1>0 DEF SeatColumnOK
    <3> QED
      BY <1>5, <1>24, <3>1 DEF Outcome
  <2>3. row.seat # None => AllHandled("SeatReserved", s)'
    <3>1. saga[s].seat # None => AllHandled("SeatReserved", s)'
      BY <1>0, <1>1, <1>7, <1>9, EffectEvents DEF SeatColumnOK
    <3> QED
      BY <1>8, <1>20, <1>23, <3>1, EffectEvents
  <2>4. ASSUME NEW t \in Saga
        PROVE  /\ saga'[t].step \in {"ChargePayment", "SendNotification"} =>
                      saga'[t].seat # None
               /\ saga'[t].seat # None => AllHandled("SeatReserved", t)'
    BY <1>0, <1>2, <1>7, <1>9, <2>2, <2>3, EffectEvents DEF SeatColumnOK
  <2>5. ASSUME NEW k \in outbox', k.type \in Downstream
        PROVE  saga'[k.saga].seat # None
    <3>1. CASE k \in commands
      BY <1>2, <1>6, <1>24, <1>25, <3>1
    <3>2. CASE k \in outbox
      BY <1>0, <1>2, <1>10, <1>20, <1>22, <1>23, <2>5, <3>2 DEF SeatColumnOK
    <3> QED
      BY <1>2, <3>1, <3>2
  <2> QED
    BY <2>1, <2>4, <2>5 DEF SeatColumnOK
\* The payment.
<1>31. \A n \in commands : n.type = "Send" => m.type = "Charged"
  BY <1>5 DEF Outcome, OneCommand
<1>32. \A n \in commands : n.type \in {"Refund", "Refunded"} => m.type = "NotificationFailed"
  BY <1>5 DEF Outcome, OneCommand
<1>33. row.payment = r.payment \/ row.payment
  BY <1>5 DEF Outcome
<1>34. PaymentColumnOK'
  <2>1. ASSUME NEW k \in outbox', k.type \in AfterCharge
        PROVE  AllHandled("Charged", k.saga)'
    <3>1. CASE k \in commands
      <4>1. k.type = "Send"
        BY <1>6, <2>1, <3>1 DEF AfterCharge, Event, NotificationEvent
      <4> QED
        BY <1>6, <1>8, <1>31, <3>1, <4>1, EffectEvents
    <3>2. CASE k \in outbox
      <4>1. AllHandled("Charged", k.saga)
        BY <2>1, <1>0, <3>2 DEF PaymentColumnOK
      <4> QED
        BY <1>7, <1>9, <4>1, EffectEvents
    <3> QED
      BY <1>2, <3>1, <3>2
  <2>2. row.step = "SendNotification" => AllHandled("Charged", s)'
    <3>1. m.type = "Charged" => AllHandled("Charged", s)'
      BY <1>8, EffectEvents
    <3>2. r.step = "SendNotification" => AllHandled("Charged", s)'
      BY <1>0, <1>7, <1>9, EffectEvents DEF PaymentColumnOK
    <3> QED
      BY <1>5, <3>1, <3>2 DEF Outcome
  <2>3. \A t \in Saga : saga'[t].step = "SendNotification" => AllHandled("Charged", t)'
    BY <1>0, <1>2, <1>7, <1>9, <2>2, EffectEvents DEF PaymentColumnOK
  <2>4. ASSUME NEW b \in Topic, tx'[b] # None, tx'[b].row.step = "SendNotification",
               NEW t, t = tx'[b].msg.saga
        PROVE  AllHandled("Charged", t)'
    <3>1. AllHandled("Charged", t)
      BY <1>0, <1>3, <2>4 DEF PaymentColumnOK
    <3> QED
      BY <1>7, <1>9, <3>1, EffectEvents
  <2>5. \A b \in Topic : (tx[b] # None /\ tx[b].row.step = "SendNotification" =>
            AllHandled("Charged", tx[b].msg.saga))'
    BY <2>4
  <2>6. ASSUME OnSaga("inventory", s)', tx'["inventory"].row.payment
        PROVE  row.payment
    <3>1. /\ OnSaga("inventory", s) /\ tx["inventory"].row.payment
          /\ c \in {"payment", "notification"}
      BY <1>4, <2>6 DEF Topic
    <3>2. saga[s].payment
      BY <1>0, <1>1, <3>1 DEF PaymentColumnOK
    <3>3. CASE c = "payment"
      <4>1. Paid(s)
        BY <3>1 DEF IInv, RowsOK, RowOK, Truthful, Paid, OnSaga, Topic
      <4>2. m.type \in {"Charged", "Refunded"}
        BY <1>0, <1>1, <3>3, <4>1, MessageTells DEF PaymentEvent
      <4> QED
        BY <1>5, <4>2 DEF Outcome
    <3>4. CASE c = "notification"
      <4>1. r.payment
        BY <1>0, <1>1, <3>2, <3>4 DEF PaymentColumnOK
      <4> QED
        BY <1>33, <4>1
    <3> QED
      BY <3>1, <3>3, <3>4
  <2>7. ASSUME OnSaga("notification", s)', ~tx'["notification"].row.payment
        PROVE  ~row.payment
    <3>1. /\ OnSaga("notification", s) /\ ~tx["notification"].row.payment
          /\ c \in {"payment", "inventory"}
      BY <1>4, <2>7 DEF Topic
    <3>2. ~saga[s].payment
      BY <1>0, <1>1, <3>1 DEF PaymentColumnOK
    <3>3. c = "inventory"
      BY <1>0, <1>1, <3>1, NeverBoth
    <3>4. ~r.payment
      BY <1>0, <1>1, <3>2, <3>3 DEF PaymentColumnOK
    <3>5. m.type \in {"SeatReserved", "SeatReservationFailed", "SeatReleased"}
      BY <1>1, <3>3 DEF InventoryEvent
    <3> QED
      BY <1>5, <3>4, <3>5 DEF Outcome
  <2>8. \A t \in Saga :
            /\ OnSaga("inventory", t)' /\ tx'["inventory"].row.payment => saga'[t].payment
            /\ OnSaga("notification", t)' /\ ~tx'["notification"].row.payment =>
                   ~saga'[t].payment
    BY <1>0, <1>2, <1>4, <2>6, <2>7 DEF PaymentColumnOK, Topic
  <2> QED
    BY <2>1, <2>3, <2>5, <2>8 DEF PaymentColumnOK
\* The refund.
<1>40. ASSUME NEW k \in outbox, k.type \in {"Refund", "Refunded"}, k.saga = s,
              row.state \in {"running", "compensating"}
       PROVE  row.payment
  <2>1. Paid(s) /\ k.type \in Downstream
    BY <1>0, <1>40, MessageTells DEF Downstream
  <2>2. m.type # "SeatReserved"
    BY <1>0, <1>22, <1>40, <2>1 DEF SeatColumnOK
  <2>3. m.type # "PaymentFailed"
    BY <1>0, <1>1, <2>1, MessageTells
  <2> QED
    BY <1>5, <1>40, <2>2, <2>3 DEF Outcome
<1>41. RefundsOK'
  <2> SUFFICES ASSUME NEW k \in outbox', k.type \in {"Refund", "Refunded"}
               PROVE  /\ AllHandled("NotificationFailed", k.saga)'
                      /\ saga'[k.saga].state \in {"running", "compensating"} =>
                             saga'[k.saga].payment
                      /\ OnSaga("payment", k.saga)'
                         /\ tx'["payment"].row.state \in {"running", "compensating"} =>
                             tx'["payment"].row.payment
    BY DEF RefundsOK
  <2>1. CASE k \in commands
    <3>1. m.type = "NotificationFailed" /\ k.saga = s
      BY <1>6, <1>32, <2>1
    <3>2. AllHandled("NotificationFailed", s)' /\ row.payment
      BY <1>5, <1>8, <3>1, EffectEvents DEF Outcome
    <3>3. c = "notification"
      BY <1>1, <3>1 DEF NotificationEvent
    <3>4. ~OnSaga("payment", s)'
      BY <1>0, <1>1, <1>4, <3>3, NeverBoth DEF Topic
    <3> QED
      BY <1>2, <3>1, <3>2, <3>4
  <2>2. CASE k \in outbox
    <3>1. AllHandled("NotificationFailed", k.saga)'
      BY <1>0, <1>7, <1>9, <2>2, EffectEvents DEF RefundsOK
    <3>2. saga'[k.saga].state \in {"running", "compensating"} => saga'[k.saga].payment
      BY <1>0, <1>2, <1>10, <1>40, <2>2 DEF RefundsOK
    <3>3. OnSaga("payment", k.saga)' /\ tx'["payment"].row.state \in {"running", "compensating"}
              => tx'["payment"].row.payment
      BY <1>0, <1>4, <2>2 DEF RefundsOK, Topic
    <3> QED
      BY <3>1, <3>2, <3>3
  <2> QED
    BY <1>2, <2>1, <2>2
\* The dead letters.
<1>50. DeadOK'
  <2> SUFFICES ASSUME NEW d \in dead
               PROVE  NeverRefunded(d)'
    BY <1>2 DEF DeadOK
  <2>1. NeverRefunded(d) /\ d \in outbox /\ d.saga \in Saga
    BY <1>0, <1>10 DEF DeadOK, TypeOK, Orch_TypeOK
  <2>2. \A b \in Topic : OnSaga(b, d.saga)' => ~tx'[b].row.payment
    BY <1>4, <2>1 DEF NeverRefunded
  <2>3. ASSUME d.saga = s
        PROVE  ~row.payment /\ m.type # "NotificationFailed"
    <3>1. ~r.payment
      BY <1>1, <2>1, <2>3 DEF NeverRefunded
    <3>2. m.type # "Charged"
      BY <1>0, <1>1, <2>1, <2>3 DEF NeverRefunded, PaymentColumnOK, AfterCharge
    <3> QED
      BY <1>5, <3>1, <3>2 DEF Outcome
  <2>4. Emitted("Refund", d.saga)' = {}
    <3>1. \A n \in commands : n.type = "Refund" => n.saga # d.saga
      BY <1>6, <1>32, <2>3
    <3> QED
      BY <1>2, <2>1, <3>1 DEF NeverRefunded, Emitted
  <2>5. ~Done("Refunded", d.saga)'
    BY <2>1 DEF NeverRefunded, Done
  <2>6. ~saga'[d.saga].payment
    BY <1>2, <2>1, <2>3 DEF NeverRefunded
  <2> QED
    BY <2>1, <2>2, <2>4, <2>5, <2>6 DEF NeverRefunded
<1> QED
  BY <1>12, <1>26, <1>34, <1>41, <1>50

\* Whatever the orchestrator does, the columns stay as they are told.
LEMMA OrchestratorKeepsColumns ==
    ASSUME IInv, HInv, OrchestratorStep
    PROVE  TopicsOK' /\ SeatColumnOK' /\ PaymentColumnOK' /\ RefundsOK' /\ DeadOK'
<1>1. UNCHANGED <<reservation, payment, notification>>
  BY DEF OrchestratorStep, inventoryVars
<1>2. ASSUME NEW c \in Topic, HandleEvent(c)
      PROVE  TopicsOK' /\ SeatColumnOK' /\ PaymentColumnOK' /\ RefundsOK' /\ DeadOK'
  <2>1. CASE Ignore(c)
    BY <1>1, <1>2, <2>1, HandlerOutcome, DropKeepsColumns DEF Ignore, Dedup
  <2>2. CASE \E row, step, commands :
                 /\ Outcome(tx[c].msg, tx[c].row, row, step, commands)
                 /\ Commit(c, row, step, commands)
    BY <1>1, <1>2, <2>2, HandlerOutcome, CommitKeepsColumns
  <2> QED
    BY <1>2, <2>1, <2>2, HandlerOutcome
<1>3. ASSUME NEW c \in Topic, DeadLetter(c)
      PROVE  TopicsOK' /\ SeatColumnOK' /\ PaymentColumnOK' /\ RefundsOK' /\ DeadOK'
  BY <1>1, <1>3, DeadLetterTells, DropKeepsColumns DEF DeadLetter
<1>4. ASSUME NEW c \in Topic, Abort(c)
      PROVE  TopicsOK' /\ SeatColumnOK' /\ PaymentColumnOK' /\ RefundsOK' /\ DeadOK'
  BY <1>1, <1>4, DropKeepsColumns DEF Abort
<1>5. ASSUME NEW m \in outbox, Begin(m)
      PROVE  TopicsOK' /\ SeatColumnOK' /\ PaymentColumnOK' /\ RefundsOK' /\ DeadOK'
  BY <1>1, <1>5, BeginKeepsColumns
<1>6. CASE (\E s \in Saga : StartBooking(s)) \/ ProcessExpired
  BY <1>1, <1>6, StartOrTickKeepsColumns
<1> QED
  BY <1>2, <1>3, <1>4, <1>5, <1>6 DEF OrchestratorStep, OrchestratorNext, ConsumeEvents

(***************************************************************************)
(* The theorems.                                                           *)
(***************************************************************************)
\* Nothing has happened in an initial state.
LEMMA InitHInv == ASSUME Init PROVE HInv
<1>1. /\ outbox = {} /\ dead = {}
      /\ \A s \in Saga : saga[s] = NoRow
      /\ \A c \in Topic : tx[c] = None
      /\ \A s \in Saga :
            /\ reservation[s].status = "none"
            /\ payment[s] = "none"
            /\ notification[s] = "none"
  BY DEF Init, M_Init, Inv_Init, Pay_Init, Not_Init, Orch_Init, NoReservation
<1>2. \A type \in EffectEvent, s \in Saga : ~Done(type, s)
  BY <1>1, EffectEvents, DoneDef
<1>3. EventsOK
  <2>1. \A type, s : Emitted(type, s) = {}
    BY <1>1 DEF Emitted
  <2> QED
    BY <1>2, <2>1, FS_EmptySet DEF EventsOK, Count
<1>4. NoRow.step = "Initial" /\ NoRow.state = "none" /\ NoRow.seat = None
  BY DEF NoRow
<1>5. LogOK
  BY <1>1, <1>2, <1>4, EffectEvents DEF LogOK, RowLogged
<1>6. TopicsOK /\ SeatColumnOK /\ PaymentColumnOK /\ RefundsOK /\ DeadOK
  BY <1>1, <1>4 DEF TopicsOK, SeatColumnOK, PaymentColumnOK, RefundsOK, DeadOK, OnSaga, Topic
<1> QED
  BY <1>3, <1>5, <1>6 DEF HInv

\* Every step keeps the history straight.
LEMMA StepHInv == ASSUME IInv, HInv, [Next]_vars PROVE HInv'
<1>1. EventsOK /\ LogOK
  BY DEF HInv
<1>2. CASE InventoryStep \/ PaymentStep \/ NotificationStep
  <2>1. ServiceAnswered
    BY <1>2, ServiceAnswers
  <2>2. EventsOK' /\ LogOK'
    BY <1>1, <2>1, ServiceKeepsEvents, ServiceKeepsLog
  <2>3. TopicsOK' /\ SeatColumnOK' /\ PaymentColumnOK' /\ RefundsOK' /\ DeadOK'
    BY <2>1, ServiceKeepsColumns
  <2> QED
    BY <2>2, <2>3 DEF HInv
<1>3. CASE OrchestratorStep
  <2>1. EventsOK' /\ LogOK'
    BY <1>1, <1>3, OrchestratorKeepsEvents, OrchestratorKeepsLog
  <2>2. TopicsOK' /\ SeatColumnOK' /\ PaymentColumnOK' /\ RefundsOK' /\ DeadOK'
    BY <1>3, OrchestratorKeepsColumns
  <2> QED
    BY <2>1, <2>2 DEF HInv
<1>4. CASE UNCHANGED vars
  <2>1. UNCHANGED <<outbox, inbox, reservation, payment, notification, saga, steps, tx, dead>>
    BY <1>4 DEF vars
  <2>2. EventsOK'
    BY <1>1, <2>1, NoEffectKeepsEvents
  <2>3. LogOK'
    BY <1>1, <2>1
      DEF LogOK, MessageLogged, RowLogged, Succeeded, FailureLogged, Logged, Done
  <2>4. TopicsOK' /\ SeatColumnOK'
    BY <2>1 DEF HInv, TopicsOK, SeatColumnOK, AllHandled, Emitted
  <2>5. PaymentColumnOK' /\ RefundsOK'
    BY <2>1 DEF HInv, PaymentColumnOK, RefundsOK, AllHandled, Emitted, OnSaga
  <2>6. DeadOK'
    BY <2>1 DEF HInv, DeadOK, NeverRefunded, Emitted, OnSaga, Done
  <2> QED
    BY <2>2, <2>3, <2>4, <2>5, <2>6 DEF HInv
<1> QED
  BY <1>2, <1>3, <1>4 DEF Next

\* Events, log, context columns and dead letters agree with the tables of the
\* services, whatever is delivered, repeated or lost and however the orchestrator's
\* goroutines interleave.
THEOREM HistoryInvariantHolds == Spec => []HInv
<1>1. Init => HInv
  BY InitHInv
<1>2. IInv /\ HInv /\ [Next]_vars => HInv'
  BY StepHInv
<1> QED
  BY <1>1, <1>2, InvariantHolds, PTL DEF Spec

\* A service that is sent a command again, under its id or a new one, does not write
\* its business row and its outbox apart: one effect, one event.
THEOREM OneEventEach == Spec => []OneEventPerEffect
<1>1. HInv => OneEventPerEffect
  BY EventsAreEffects DEF HInv
<1> QED
  BY <1>1, HistoryInvariantHolds, PTL

\* saga_step has the rows that explain how a saga ended and why a seat was given
\* back, also where the handlers worked on stale copies of the row.
THEOREM LogIsComplete == Spec => []LogExplainsOutcome
<1>1. HInv => LogExplainsOutcome
  <2> SUFFICES ASSUME HInv, NEW s \in Saga
               PROVE  /\ saga[s].state = "completed" =>
                             \A name \in StepName : Logged(s, name, "forward", "succeeded")
                      /\ saga[s].state = "compensated" =>
                             Logged(s, "ReserveSeat", "compensate", "succeeded")
                      /\ reservation[s].status = "released" =>
                             \E name \in StepName : Logged(s, name, "forward", "failed")
    BY DEF LogExplainsOutcome
  <2>1. RowLogged(s, saga[s]) /\ (Done("SeatReleased", s) => FailureLogged(s))
    BY DEF HInv, LogOK
  <2> QED
    BY <2>1, DoneDef DEF RowLogged, Succeeded, FailureLogged
<1> QED
  BY <1>1, HistoryInvariantHolds, PTL

\* PermanentError has four causes in the handlers; only one can arise, the payment
\* id that a stale copy destroyed, and then the charge stands.
THEOREM DeadLetterKeepsCharge == Spec => []DeadLetterIsUnrefundedCharge
<1>1. IInv /\ HInv => DeadLetterIsUnrefundedCharge
  <2> SUFFICES ASSUME IInv, HInv, NEW m \in dead
               PROVE  m.type = "NotificationFailed" /\ payment[m.saga] = "charged"
    BY DEF DeadLetterIsUnrefundedCharge
  <2>1. NeverRefunded(m) /\ m \in outbox
    BY DEF HInv, DeadOK, IInv, TypeOK, Orch_TypeOK
  <2>2. Paid(m.saga)
    BY <2>1, MessageTells DEF HInv, NeverRefunded, AfterCharge
  <2> QED
    BY <2>1, <2>2, DoneDef DEF NeverRefunded, Paid
<1> QED
  BY <1>1, InvariantHolds, HistoryInvariantHolds, PTL
=============================================================================
