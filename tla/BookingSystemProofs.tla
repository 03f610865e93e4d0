-------------------------- MODULE BookingSystemProofs --------------------------
(***************************************************************************)
(* Proofs of the safety properties of BookingSystem, for any set of sagas, *)
(* any set of seats and any limits.                                        *)
(*                                                                         *)
(* The argument.  EffectsOnce says that what a service did stays done, so  *)
(* what MessageOK and RowOK say of a message and of a row stays true while *)
(* the message waits and the row gets stale (MessageStaysOK, RowStaysOK).  *)
(* What is left is to look at the messages and rows that a step makes:     *)
(* those of the services, of a handler that commits (HandlerCommits), and  *)
(* of a tick (TickOK).                                                     *)
(***************************************************************************)
EXTENDS BookingInvariant, FiniteSetTheorems, TLAPS

(***************************************************************************)
(* Messages.                                                               *)
(***************************************************************************)
\* The number of a new message is a number.
LEMMA NewMessageNumber ==
    ASSUME TypeOK, NEW type, NEW s, NEW body
    PROVE  /\ NewMessage(type, s, body).type = type
           /\ NewMessage(type, s, body).saga = s
           /\ NewMessage(type, s, body).body = body
           /\ NewMessage(type, s, body) = [type |-> type, saga |-> s, body |-> body,
                                           n |-> NewMessage(type, s, body).n]
           /\ NewMessage(type, s, body).n \in Nat
<1>1. Emitted(type, s) \in SUBSET outbox
  BY DEF Emitted
<1>2. IsFiniteSet(outbox)
  BY DEF TypeOK, M_TypeOK
<1>3. Cardinality(Emitted(type, s)) \in Nat
  BY <1>1, <1>2, FS_Subset, FS_CardinalityType
<1> QED
  BY <1>3 DEF NewMessage

\* Every message that some handler appends is well-typed.
LEMMA NewMessageType ==
    ASSUME TypeOK, NEW s \in Saga
    PROVE  /\ \A type \in {"ReleaseSeat", "SeatReserved", "SeatReleased"}, x \in Seat :
                  NewMessage(type, s, x) \in Message
           /\ \A amount \in Amount : NewMessage("Charge", s, amount) \in Message
           /\ \A channel \in Channel : NewMessage("Send", s, channel) \in Message
           /\ \A type \in {"ReserveSeat", "Refund", "SeatReservationFailed", "Charged",
                           "PaymentFailed", "Refunded", "Sent", "NotificationFailed"} :
                  NewMessage(type, s, None) \in Message
  BY NewMessageNumber DEF Message, MessageOf

\* The type of a message tells what its body is.
LEMMA MessageBody ==
    ASSUME NEW m \in Message
    PROVE  /\ m.saga \in Saga
           /\ m.type \in {"ReleaseSeat", "SeatReserved", "SeatReleased"} => m.body \in Seat
  BY DEF Message, MessageOf

\* The outbox stays a finite set of messages when a transaction appends to it.
LEMMA AppendType ==
    ASSUME TypeOK, NEW msgs \in SUBSET Message, IsFiniteSet(msgs), OutboxAppend(msgs)
    PROVE  outbox' \subseteq Message /\ IsFiniteSet(outbox') /\ outbox \subseteq outbox'
  BY FS_Union DEF OutboxAppend, TypeOK, M_TypeOK

(***************************************************************************)
(* The services.                                                           *)
(***************************************************************************)
\* No step of any process does an effect twice or undoes it twice.
LEMMA StepEffectsOnce ==
    ASSUME TypeOK, [Next]_vars
    PROVE  EffectsOnce
<1>1. CASE InventoryStep
  <2>1. UNCHANGED <<payment, notification>>
    BY <1>1 DEF InventoryStep
  <2>2. PICK m \in outbox : HandleReserveSeatCommand(m) \/ HandleReleaseSeatCommand(m)
    BY <1>1 DEF InventoryStep, InventoryNext
  <2>3. m \in Message
    BY DEF TypeOK, M_TypeOK
  <2>4. CASE \/ ReserveWithoutFreeSeat(m) \/ NothingToRelease(m)
    BY <2>1, <2>4 DEF ReserveWithoutFreeSeat, NothingToRelease, inventoryVars, EffectsOnce
  <2>5. CASE ReserveFreeSeat(m)
    <3>1. PICK x \in FreeSeats :
              /\ reservation[m.saga] = NoReservation
              /\ reservation' = [reservation EXCEPT ![m.saga] =
                                    [status |-> "reserved", seat |-> x]]
      BY <2>5 DEF ReserveFreeSeat
    <3> QED
      BY <2>1, <3>1 DEF EffectsOnce, TypeOK, Inv_TypeOK, NoReservation
  <2>6. CASE ReleaseReservedSeat(m)
    BY <2>1, <2>6 DEF ReleaseReservedSeat, EffectsOnce, TypeOK, Inv_TypeOK
  <2> QED
    BY <2>2, <2>4, <2>5, <2>6 DEF HandleReserveSeatCommand, HandleReleaseSeatCommand
<1>2. CASE PaymentStep
  <2>1. UNCHANGED <<reservation, notification>>
    BY <1>2 DEF PaymentStep, inventoryVars
  <2>2. PICK m \in outbox : HandleChargeCommand(m) \/ HandleRefundCommand(m)
    BY <1>2 DEF PaymentStep, PaymentNext
  <2>3. ASSUME NEW status \in {"charged", "failed"}, NEW event, CreatePayment(m, status, event)
        PROVE  EffectsOnce
    BY <2>1, <2>3 DEF CreatePayment, EffectsOnce, TypeOK, Pay_TypeOK
  <2>4. CASE AlreadyCharged(m) \/ NothingToRefund(m)
    BY <2>1, <2>4 DEF AlreadyCharged, NothingToRefund, EffectsOnce
  <2>5. CASE RefundCharge(m)
    BY <2>1, <2>5 DEF RefundCharge, EffectsOnce, TypeOK, Pay_TypeOK
  <2> QED
    BY <2>2, <2>3, <2>4, <2>5 DEF HandleChargeCommand, HandleRefundCommand
<1>3. CASE NotificationStep
  <2>1. UNCHANGED <<reservation, payment>>
    BY <1>3 DEF NotificationStep, inventoryVars
  <2>2. PICK m \in outbox : HandleSendCommand(m)
    BY <1>3 DEF NotificationStep, NotificationNext
  <2>3. ASSUME NEW status, NEW event, CreateNotification(m, status, event)
        PROVE  EffectsOnce
    BY <2>1, <2>3 DEF CreateNotification, EffectsOnce, TypeOK, Not_TypeOK
  <2>4. CASE AlreadyNotified(m)
    BY <2>1, <2>4 DEF AlreadyNotified, EffectsOnce
  <2> QED
    BY <2>2, <2>3, <2>4 DEF HandleSendCommand
<1>4. CASE OrchestratorStep \/ UNCHANGED vars
  BY <1>4 DEF OrchestratorStep, inventoryVars, vars, EffectsOnce
<1> QED
  BY <1>1, <1>2, <1>3, <1>4 DEF Next

\* A saga that has a reservation has it as reserved or as released.
LEMMA ReservationStatus ==
    ASSUME TypeOK, NEW s \in Saga, reservation[s].status # "none"
    PROVE  reservation[s].status \in {"reserved", "released"}
  BY DEF TypeOK, Inv_TypeOK, NoReservation

\* What a service has done for a saga stays done.
LEMMA DoneStaysDone ==
    ASSUME TypeOK, EffectsOnce, NEW s \in Saga
    PROVE  /\ \A x : HadSeat(s, x) => HadSeat(s, x)'
           /\ reservation[s].status = "released" => reservation'[s].status = "released"
           /\ Paid(s) => Paid(s)'
           /\ \A status \in {"sent", "failed"} :
                  notification[s] = status => notification'[s] = status
<1>1. reservation[s] \in {NoReservation} \cup [status : {"reserved", "released"}, seat : Seat]
  BY DEF TypeOK, Inv_TypeOK
<1>2. \/ reservation'[s] = reservation[s]
      \/ reservation[s].status = "none"
      \/ /\ reservation[s].status = "reserved"
         /\ reservation'[s] = [reservation[s] EXCEPT !.status = "released"]
  BY DEF EffectsOnce
<1>3. /\ \A x : HadSeat(s, x) => HadSeat(s, x)'
      /\ reservation[s].status = "released" => reservation'[s].status = "released"
  BY <1>1, <1>2 DEF HadSeat, NoReservation
<1>4. Paid(s) => Paid(s)'
  BY DEF Paid, EffectsOnce
<1>5. \A status \in {"sent", "failed"} : notification[s] = status => notification'[s] = status
  BY DEF EffectsOnce
<1> QED
  BY <1>3, <1>4, <1>5

\* So what a message stands for does not go away.
LEMMA MessageStaysOK ==
    ASSUME TypeOK, EffectsOnce, NEW m \in Message, MessageOK(m)
    PROVE  MessageOK(m)'
<1>1. m.saga \in Saga
  BY MessageBody
<1> QED
  BY <1>1, DoneStaysDone DEF MessageOK

\* Nor does what a row stands for, even when the row has become stale.
LEMMA RowStaysOK ==
    ASSUME TypeOK, EffectsOnce, NEW s \in Saga, NEW row, RowOK(s, row)
    PROVE  RowOK(s, row)'
<1>1. Truthful(s, row)'
  <2>1. row.seat # None => HadSeat(s, row.seat)'
    BY DoneStaysDone DEF RowOK, Truthful, HadSeat, TypeOK, Inv_TypeOK, NoReservation
  <2>2. row.payment => Paid(s)'
    BY DoneStaysDone DEF RowOK, Truthful, Paid
  <2>3. row.notification => notification'[s] # "none"
    BY DoneStaysDone DEF RowOK, Truthful, TypeOK, Not_TypeOK
  <2> QED
    BY <2>1, <2>2, <2>3 DEF Truthful, HadSeat, Paid
<1> QED
  BY <1>1, DoneStaysDone DEF RowOK

\* When a transaction appends messages that are so, all messages are.
LEMMA AppendKeepsMessagesOK ==
    ASSUME TypeOK, EffectsOnce, \A m \in outbox : MessageOK(m),
           NEW msgs, OutboxAppend(msgs), \A m \in msgs : MessageOK(m)'
    PROVE  (\A m \in outbox : MessageOK(m))'
<1>1. \A m \in outbox : MessageOK(m)'
  BY MessageStaysOK DEF TypeOK, M_TypeOK
<1> QED
  BY <1>1 DEF OutboxAppend

\* What the transaction of a service leaves of the invariant to be looked at: its
\* own table and the messages that it appends.
LEMMA ServiceKeepsRest ==
    ASSUME IInv, EffectsOnce, UNCHANGED orchestratorVars,
           NEW m \in outbox, Dedup(m),
           NEW msgs \in SUBSET Message, IsFiniteSet(msgs), OutboxAppend(msgs),
           \A n \in msgs : MessageOK(n)'
    PROVE  /\ M_TypeOK'
           /\ Orch_TypeOK'
           /\ HandlersOK'
           /\ (\A n \in outbox : MessageOK(n))'
           /\ RowsOK'
<1>1. outbox' \subseteq Message /\ IsFiniteSet(outbox') /\ outbox \subseteq outbox'
  BY AppendType DEF IInv
<1>2. UNCHANGED <<saga, steps, tx, dead>>
  BY DEF orchestratorVars
<1>3. M_TypeOK'
  BY <1>1 DEF IInv, TypeOK, M_TypeOK, Dedup
<1>4. Orch_TypeOK'
  BY <1>1, <1>2 DEF IInv, TypeOK, Orch_TypeOK
<1>5. HandlersOK'
  BY <1>1, <1>2 DEF IInv, HandlersOK
<1>6. (\A n \in outbox : MessageOK(n))'
  BY AppendKeepsMessagesOK DEF IInv
<1>7. RowsOK'
  <2>1. \A s \in Saga : RowOK(s, saga[s])'
    <3> SUFFICES ASSUME NEW s \in Saga
                 PROVE  RowOK(s, saga[s])'
      OBVIOUS
    <3>1. RowOK(s, saga[s])
      BY DEF IInv, RowsOK
    <3> QED
      BY <1>2, <3>1, RowStaysOK DEF IInv, RowOK, Truthful, Paid
  <2>2. \A c \in Topic : tx'[c] # None => RowOK(tx[c].msg.saga, tx[c].row)'
    <3> SUFFICES ASSUME NEW c \in Topic, tx[c] # None
                 PROVE  RowOK(tx[c].msg.saga, tx[c].row)'
      BY <1>2
    <3>1. RowOK(tx[c].msg.saga, tx[c].row)
      BY DEF IInv, RowsOK
    <3>2. tx[c].msg.saga \in Saga
      BY MessageBody DEF IInv, TypeOK, Orch_TypeOK
    <3> QED
      BY <1>2, <3>1, <3>2, RowStaysOK DEF IInv, RowOK, Truthful, Paid
  <2> QED
    BY <2>1, <2>2 DEF RowsOK
<1> QED
  BY <1>3, <1>4, <1>5, <1>6, <1>7

\* The inventory service keeps the invariant.
LEMMA InventoryKeepsIInv ==
    ASSUME IInv, EffectsOnce, InventoryStep
    PROVE  IInv'
<1>1. UNCHANGED <<payment, notification>> /\ UNCHANGED orchestratorVars
  BY DEF InventoryStep
<1>2. PICK m \in outbox : HandleReserveSeatCommand(m) \/ HandleReleaseSeatCommand(m)
  BY DEF InventoryStep, InventoryNext
<1>3. m \in Message /\ m.saga \in Saga
  BY MessageBody DEF IInv, TypeOK, M_TypeOK
<1>4. Pay_TypeOK' /\ Not_TypeOK' /\ ServicesOK'
  BY <1>1 DEF IInv, TypeOK, Pay_TypeOK, Not_TypeOK, ServicesOK, Paid
<1>5. Dedup(m)
  BY <1>2 DEF HandleReserveSeatCommand, HandleReleaseSeatCommand
<1>6. ASSUME NEW msgs \in SUBSET Message, IsFiniteSet(msgs), OutboxAppend(msgs),
             \A n \in msgs : MessageOK(n)', Inv_TypeOK'
      PROVE  IInv'
  BY <1>1, <1>4, <1>5, <1>6, ServiceKeepsRest DEF IInv, TypeOK
<1>7. CASE ReserveWithoutFreeSeat(m)
  <2> PICK n : n = NewMessage("SeatReservationFailed", m.saga, None)
    OBVIOUS
  <2>1. n \in Message /\ n.type = "SeatReservationFailed"
    BY <1>3, NewMessageType, NewMessageNumber DEF IInv
  <2>2. OutboxAppend({n}) /\ Inv_TypeOK'
    BY <1>7 DEF ReserveWithoutFreeSeat, inventoryVars, IInv, TypeOK, Inv_TypeOK
  <2>3. MessageOK(n)'
    BY <2>1 DEF MessageOK
  <2> QED
    BY <1>6, <2>1, <2>2, <2>3, FS_Singleton
<1>8. CASE ReserveFreeSeat(m)
  <2>1. PICK x \in FreeSeats :
            /\ reservation[m.saga] = NoReservation
            /\ seats' = [seats EXCEPT ![x] = "reserved"]
            /\ reservation' = [reservation EXCEPT ![m.saga] =
                                  [status |-> "reserved", seat |-> x]]
            /\ OutboxAppend({NewMessage("SeatReserved", m.saga, x)})
    BY <1>8 DEF ReserveFreeSeat
  <2>2. x \in Seat
    BY DEF FreeSeats
  <2> PICK n : n = NewMessage("SeatReserved", m.saga, x)
    OBVIOUS
  <2>3. n \in Message /\ n.type = "SeatReserved" /\ n.saga = m.saga /\ n.body = x
    BY <1>3, <2>2, NewMessageType, NewMessageNumber DEF IInv
  <2>4. OutboxAppend({n})
    BY <2>1
  <2>5. Inv_TypeOK'
    BY <1>3, <2>1, <2>2 DEF IInv, TypeOK, Inv_TypeOK
  <2>6. MessageOK(n)'
    BY <1>3, <2>1, <2>3 DEF MessageOK, HadSeat, IInv, TypeOK, Inv_TypeOK
  <2> QED
    BY <1>6, <2>3, <2>4, <2>5, <2>6, FS_Singleton
<1>9. CASE NothingToRelease(m)
  BY <1>6, <1>9, FS_EmptySet
    DEF NothingToRelease, OutboxAppend, IInv, TypeOK, Inv_TypeOK
<1>10. CASE m.type = "ReleaseSeat" /\ ReleaseReservedSeat(m)
  <2>1. m.body \in Seat
    BY <1>3, <1>10, MessageBody
  <2> PICK n : n = NewMessage("SeatReleased", m.saga, m.body)
    OBVIOUS
  <2>2. n \in Message /\ n.type = "SeatReleased" /\ n.saga = m.saga /\ n.body = m.body
    BY <1>3, <2>1, NewMessageType, NewMessageNumber DEF IInv
  <2>3. OutboxAppend({n})
    BY <1>10 DEF ReleaseReservedSeat
  <2>4. /\ reservation[m.saga] = [status |-> "reserved", seat |-> m.body]
        /\ seats' = [seats EXCEPT ![m.body] = "free"]
        /\ reservation' = [reservation EXCEPT ![m.saga] =
                              [reservation[m.saga] EXCEPT !.status = "released"]]
    BY <1>10 DEF ReleaseReservedSeat
  <2>5. [reservation[m.saga] EXCEPT !.status = "released"] = [status |-> "released", seat |-> m.body]
    BY <2>4
  <2>6. Inv_TypeOK'
    BY <1>3, <2>1, <2>4, <2>5 DEF IInv, TypeOK, Inv_TypeOK
  <2>7. MessageOK(n)'
    BY <1>3, <2>2, <2>4, <2>5 DEF MessageOK, HadSeat, IInv, TypeOK, Inv_TypeOK
  <2> QED
    BY <1>6, <2>2, <2>3, <2>6, <2>7, FS_Singleton
<1> QED
  BY <1>2, <1>7, <1>8, <1>9, <1>10
    DEF HandleReserveSeatCommand, HandleReleaseSeatCommand, Deliverable

\* The payment service keeps the invariant.  A refund is for a notification that
\* failed, because only then is it asked for.
LEMMA PaymentKeepsIInv ==
    ASSUME IInv, EffectsOnce, PaymentStep
    PROVE  IInv'
<1>1. UNCHANGED <<seats, reservation, notification>> /\ UNCHANGED orchestratorVars
  BY DEF PaymentStep, inventoryVars
<1>2. PICK m \in outbox : HandleChargeCommand(m) \/ HandleRefundCommand(m)
  BY DEF PaymentStep, PaymentNext
<1>3. m \in Message /\ m.saga \in Saga /\ MessageOK(m)
  BY MessageBody DEF IInv, TypeOK, M_TypeOK
<1>4. Inv_TypeOK' /\ Not_TypeOK'
  BY <1>1 DEF IInv, TypeOK, Inv_TypeOK, Not_TypeOK
<1>5. Dedup(m)
  BY <1>2 DEF HandleChargeCommand, HandleRefundCommand
<1>6. ASSUME NEW msgs \in SUBSET Message, IsFiniteSet(msgs), OutboxAppend(msgs),
             \A n \in msgs : MessageOK(n)', Pay_TypeOK', ServicesOK'
      PROVE  IInv'
  BY <1>1, <1>4, <1>5, <1>6, ServiceKeepsRest DEF IInv, TypeOK
<1>7. CASE AlreadyCharged(m) \/ NothingToRefund(m)
  <2>1. OutboxAppend({}) /\ UNCHANGED payment
    BY <1>7 DEF AlreadyCharged, NothingToRefund, OutboxAppend
  <2>2. Pay_TypeOK' /\ ServicesOK'
    BY <1>1, <2>1 DEF IInv, TypeOK, Pay_TypeOK, ServicesOK, Paid
  <2> QED
    BY <1>6, <2>1, <2>2, FS_EmptySet
<1>8. ASSUME NEW status, NEW event, CreatePayment(m, status, event),
             \/ status = "charged" /\ event = "Charged"
             \/ status = "failed" /\ event = "PaymentFailed"
      PROVE  IInv'
  <2> PICK n : n = NewMessage(event, m.saga, None)
    OBVIOUS
  <2>1. n \in Message /\ n.type = event /\ n.saga = m.saga
    BY <1>3, <1>8, NewMessageType, NewMessageNumber DEF IInv
  <2>2. /\ payment[m.saga] = "none"
        /\ payment' = [payment EXCEPT ![m.saga] = status]
        /\ OutboxAppend({n})
    BY <1>8 DEF CreatePayment
  <2>3. Pay_TypeOK'
    BY <1>3, <1>8, <2>2 DEF IInv, TypeOK, Pay_TypeOK
  <2>4. ServicesOK'
    BY <1>1, <1>3, <1>8, <2>2 DEF IInv, TypeOK, Pay_TypeOK, ServicesOK, Paid
  <2>5. MessageOK(n)'
    BY <1>3, <1>8, <2>1, <2>2 DEF MessageOK, Paid, IInv, TypeOK, Pay_TypeOK
  <2> QED
    BY <1>6, <2>1, <2>2, <2>3, <2>4, <2>5, FS_Singleton
<1>9. CASE m.type = "Refund" /\ RefundCharge(m)
  <2> PICK n : n = NewMessage("Refunded", m.saga, None)
    OBVIOUS
  <2>1. n \in Message /\ n.type = "Refunded"
    BY <1>3, NewMessageType, NewMessageNumber DEF IInv
  <2>2. /\ payment[m.saga] = "charged"
        /\ payment' = [payment EXCEPT ![m.saga] = "refunded"]
        /\ OutboxAppend({n})
    BY <1>9 DEF RefundCharge
  <2>3. Pay_TypeOK'
    BY <1>3, <2>2 DEF IInv, TypeOK, Pay_TypeOK
  <2>4. notification[m.saga] = "failed"
    BY <1>3, <1>9 DEF MessageOK
  <2>5. ServicesOK'
    BY <1>1, <1>3, <2>2, <2>4 DEF IInv, TypeOK, Pay_TypeOK, ServicesOK, Paid
  <2>6. MessageOK(n)'
    BY <2>1 DEF MessageOK
  <2> QED
    BY <1>6, <2>1, <2>2, <2>3, <2>5, <2>6, FS_Singleton
<1> QED
  BY <1>2, <1>7, <1>8, <1>9 DEF HandleChargeCommand, HandleRefundCommand, Deliverable

\* The notification service keeps the invariant.  It is asked to notify only when
\* the money was taken, and a notification is never made anew.
LEMMA NotificationKeepsIInv ==
    ASSUME IInv, EffectsOnce, NotificationStep
    PROVE  IInv'
<1>1. UNCHANGED <<seats, reservation, payment>> /\ UNCHANGED orchestratorVars
  BY DEF NotificationStep, inventoryVars
<1>2. PICK m \in outbox : HandleSendCommand(m)
  BY DEF NotificationStep, NotificationNext
<1>3. m \in Message /\ m.saga \in Saga /\ MessageOK(m)
  BY MessageBody DEF IInv, TypeOK, M_TypeOK
<1>4. Inv_TypeOK' /\ Pay_TypeOK'
  BY <1>1 DEF IInv, TypeOK, Inv_TypeOK, Pay_TypeOK
<1>5. Dedup(m)
  BY <1>2 DEF HandleSendCommand
<1>6. ASSUME NEW msgs \in SUBSET Message, IsFiniteSet(msgs), OutboxAppend(msgs),
             \A n \in msgs : MessageOK(n)', Not_TypeOK', ServicesOK'
      PROVE  IInv'
  BY <1>1, <1>4, <1>5, <1>6, ServiceKeepsRest DEF IInv, TypeOK
<1>7. CASE AlreadyNotified(m)
  <2>1. OutboxAppend({}) /\ UNCHANGED notification
    BY <1>7 DEF AlreadyNotified, OutboxAppend
  <2>2. Not_TypeOK' /\ ServicesOK'
    BY <1>1, <2>1 DEF IInv, TypeOK, Not_TypeOK, ServicesOK, Paid
  <2> QED
    BY <1>6, <2>1, <2>2, FS_EmptySet
<1>8. ASSUME NEW status, NEW event, CreateNotification(m, status, event), m.type = "Send",
             \/ status = "sent" /\ event = "Sent"
             \/ status = "failed" /\ event = "NotificationFailed"
      PROVE  IInv'
  <2> PICK n : n = NewMessage(event, m.saga, None)
    OBVIOUS
  <2>1. n \in Message /\ n.type = event /\ n.saga = m.saga
    BY <1>3, <1>8, NewMessageType, NewMessageNumber DEF IInv
  <2>2. /\ notification[m.saga] = "none"
        /\ notification' = [notification EXCEPT ![m.saga] = status]
        /\ OutboxAppend({n})
    BY <1>8 DEF CreateNotification
  <2>3. Not_TypeOK'
    BY <1>3, <1>8, <2>2 DEF IInv, TypeOK, Not_TypeOK
  <2>4. Paid(m.saga) /\ payment[m.saga] # "refunded"
    BY <1>3, <1>8, <2>2 DEF MessageOK, IInv, ServicesOK
  <2>5. ServicesOK'
    BY <1>1, <1>3, <2>2, <2>4 DEF IInv, TypeOK, Not_TypeOK, ServicesOK, Paid
  <2>6. MessageOK(n)'
    BY <1>3, <1>8, <2>1, <2>2 DEF MessageOK, IInv, TypeOK, Not_TypeOK
  <2> QED
    BY <1>6, <2>1, <2>2, <2>3, <2>5, <2>6, FS_Singleton
<1> QED
  BY <1>2, <1>7, <1>8 DEF HandleSendCommand, Deliverable

(***************************************************************************)
(* The orchestrator's handlers.                                            *)
(***************************************************************************)
\* What is known of the message and of the snapshot of a handler.
LEMMA HandlerKnows ==
    ASSUME IInv, NEW c \in Topic, tx[c] # None
    PROVE  /\ tx[c].msg \in outbox
           /\ tx[c].msg \in Message
           /\ tx[c].msg.saga \in Saga
           /\ MessageOK(tx[c].msg)
           /\ tx[c].row \in Row
           /\ RowOK(tx[c].msg.saga, tx[c].row)
<1>1. tx[c].msg \in Message /\ tx[c].row \in Row
  BY DEF IInv, TypeOK, Orch_TypeOK
<1>2. tx[c].msg \in outbox
  BY DEF IInv, HandlersOK
<1> QED
  BY <1>1, <1>2, MessageBody DEF IInv, RowsOK

\* Advance and ResetSchedule make a row of the table out of one.
LEMMA ScheduleType ==
    ASSUME NEW row \in Row
    PROVE  /\ \A step \in StepName : Advance(row, step) \in Row
           /\ ResetSchedule(row) \in Row
<1>1. 0 \in 0 .. MaxSagaAttempts - 1
  BY MaxSagaAttemptsAssumption
<1> QED
  BY <1>1 DEF Advance, ResetSchedule, Row

\* The step that a handler logs is one of the log.
LEMMA StepType ==
    ASSUME NEW s \in Saga, NEW name \in StepName, NEW direction \in {"forward", "compensate"},
           NEW status \in {"succeeded", "failed"}
    PROVE  NewSagaStep(s, name, direction, status) \in SagaStep
  BY DEF NewSagaStep, SagaStep

\* A handler that runs to its end writes a row that is so, whatever the row is at
\* that time, and commands that are so.
HandlerResult(c, row, step, commands) ==
    /\ row \in Row /\ step \in SagaStep
    /\ commands \subseteq Message /\ IsFiniteSet(commands)
    /\ RowOK(tx[c].msg.saga, row)
    /\ \A n \in commands : MessageOK(n)
    /\ Commit(c, row, step, commands)

\* Every event handler either ignores its event or commits such a result.
LEMMA HandlerCommits ==
    ASSUME IInv, NEW c \in Topic, HandleEvent(c)
    PROVE  /\ tx[c] # None
           /\ \/ Ignore(c)
              \/ \E row, step, commands : HandlerResult(c, row, step, commands)
<1> DEFINE m == tx[c].msg
           r == tx[c].row
<1>1. tx[c] # None
  BY DEF HandleEvent, Handling, HandleSeatReserved, HandleSeatReservationFailed,
         HandleSeatReleased, HandlePaymentCharged, HandlePaymentFailed,
         HandlePaymentRefunded, HandleNotificationSent, HandleNotificationFailed
<1>2. /\ m \in Message /\ m.saga \in Saga /\ MessageOK(m)
      /\ r \in Row /\ RowOK(m.saga, r)
  BY <1>1, HandlerKnows
<1>3. ASSUME NEW row \in Row, NEW step \in SagaStep, NEW n \in Message,
             RowOK(m.saga, row), MessageOK(n), Commit(c, row, step, {n})
      PROVE  HandlerResult(c, row, step, {n})
  BY <1>3, FS_Singleton DEF HandlerResult
<1>4. ASSUME NEW row \in Row, NEW step \in SagaStep,
             RowOK(m.saga, row), Commit(c, row, step, {})
      PROVE  HandlerResult(c, row, step, {})
  BY <1>4, FS_EmptySet DEF HandlerResult
<1>5. CASE HandleSeatReserved(c)
  <2> DEFINE row == Advance(SetSeat(r, m.body), "ChargePayment")
             n   == NewMessage("Charge", m.saga, r.amount)
             step == NewSagaStep(m.saga, "ReserveSeat", "forward", "succeeded")
  <2>1. m.type = "SeatReserved" /\ Commit(c, row, step, {n})
    BY <1>5 DEF HandleSeatReserved, Handling
  <2>2. m.body \in Seat /\ HadSeat(m.saga, m.body)
    BY <1>2, <2>1, MessageBody DEF MessageOK
  <2>3. SetSeat(r, m.body) \in Row
    BY <1>2, <2>2 DEF SetSeat, Row
  <2>4. row \in Row
    BY <2>3, ScheduleType DEF StepName
  <2>5. RowOK(m.saga, row)
    BY <1>2, <2>2 DEF Advance, RowOK, Truthful, Row, SetSeat, HadSeat
  <2>6. n \in Message /\ n.type = "Charge"
    BY <1>2, NewMessageType, NewMessageNumber DEF IInv, Row
  <2>7. MessageOK(n)
    BY <2>6 DEF MessageOK
  <2>8. step \in SagaStep
    BY <1>2, StepType DEF StepName
  <2> QED
    BY <1>1, <1>3, <2>1, <2>4, <2>5, <2>6, <2>7, <2>8
<1>6. CASE HandleSeatReservationFailed(c)
  <2> DEFINE row == [r EXCEPT !.state = "failed"]
             step == NewSagaStep(m.saga, "ReserveSeat", "forward", "failed")
  <2>1. Commit(c, row, step, {})
    BY <1>6 DEF HandleSeatReservationFailed
  <2>2. row \in Row
    BY <1>2 DEF Row
  <2>3. RowOK(m.saga, row)
    BY <1>2 DEF RowOK, Truthful, Row
  <2>4. step \in SagaStep
    BY <1>2, StepType DEF StepName
  <2> QED
    BY <1>1, <1>4, <2>1, <2>2, <2>3, <2>4
<1>7. CASE HandleSeatReleased(c)
  <2> DEFINE row == [r EXCEPT !.state = "compensated"]
             step == NewSagaStep(m.saga, "ReserveSeat", "compensate", "succeeded")
  <2>1. m.type = "SeatReleased" /\ (Ignore(c) \/ Commit(c, row, step, {}))
    BY <1>7 DEF HandleSeatReleased, Handling
  <2>2. row \in Row
    BY <1>2 DEF Row
  <2>3. RowOK(m.saga, row)
    BY <1>2, <2>1 DEF RowOK, Truthful, Row, MessageOK
  <2>4. step \in SagaStep
    BY <1>2, StepType DEF StepName
  <2> QED
    BY <1>1, <1>4, <2>1, <2>2, <2>3, <2>4
<1>8. CASE HandlePaymentCharged(c)
  <2> DEFINE paid == [r EXCEPT !.payment = TRUE]
             row == Advance(paid, "SendNotification")
             n   == NewMessage("Send", m.saga, r.channel)
             step == NewSagaStep(m.saga, "ChargePayment", "forward", "succeeded")
  <2>1. m.type = "Charged" /\ Commit(c, row, step, {n})
    BY <1>8 DEF HandlePaymentCharged, Handling
  <2>2. Paid(m.saga)
    BY <1>2, <2>1 DEF MessageOK
  <2>3. paid \in Row
    BY <1>2 DEF Row
  <2>4. row \in Row
    BY <2>3, ScheduleType DEF StepName
  <2>5. RowOK(m.saga, row)
    BY <1>2, <2>2 DEF Advance, RowOK, Truthful, Row, Paid
  <2>6. n \in Message /\ n.type = "Send" /\ n.saga = m.saga
    BY <1>2, NewMessageType, NewMessageNumber DEF IInv, Row
  <2>7. MessageOK(n)
    BY <2>2, <2>6 DEF MessageOK
  <2>8. step \in SagaStep
    BY <1>2, StepType DEF StepName
  <2> QED
    BY <1>1, <1>3, <2>1, <2>4, <2>5, <2>6, <2>7, <2>8
<1>9. ASSUME r.seat # None
      PROVE  /\ NewMessage("ReleaseSeat", m.saga, r.seat) \in Message
             /\ MessageOK(NewMessage("ReleaseSeat", m.saga, r.seat))
  <2> DEFINE n == NewMessage("ReleaseSeat", m.saga, r.seat)
  <2>1. r.seat \in Seat /\ HadSeat(m.saga, r.seat)
    BY <1>2, <1>9, ReservationStatus DEF RowOK, Truthful, HadSeat, Row, IInv
  <2>2. n \in Message /\ n.type = "ReleaseSeat" /\ n.saga = m.saga /\ n.body = r.seat
    BY <1>2, <2>1, NewMessageType, NewMessageNumber DEF IInv
  <2> QED
    BY <2>1, <2>2 DEF MessageOK
<1>10. CASE HandlePaymentFailed(c)
  <2> DEFINE row == TurnBack(r)
             n   == NewMessage("ReleaseSeat", m.saga, r.seat)
             step == NewSagaStep(m.saga, "ChargePayment", "forward", "failed")
  <2>1. \/ Ignore(c)
        \/ r.seat # None /\ Commit(c, row, step, {n})
    BY <1>10 DEF HandlePaymentFailed, Handling, PermanentError
  <2>2. row \in Row
    BY <1>2 DEF TurnBack, Row
  <2>3. RowOK(m.saga, row)
    BY <1>2 DEF TurnBack, RowOK, Truthful, Row
  <2>4. step \in SagaStep
    BY <1>2, StepType DEF StepName
  <2> QED
    BY <1>1, <1>3, <1>9, <2>1, <2>2, <2>3, <2>4
<1>11. CASE HandlePaymentRefunded(c)
  <2> DEFINE n   == NewMessage("ReleaseSeat", m.saga, r.seat)
             step == NewSagaStep(m.saga, "ChargePayment", "compensate", "succeeded")
  <2>1. \/ Ignore(c)
        \/ r.seat # None /\ Commit(c, r, step, {n})
    BY <1>11 DEF HandlePaymentRefunded, Handling, PermanentError
  <2>2. step \in SagaStep
    BY <1>2, StepType DEF StepName
  <2> QED
    BY <1>1, <1>2, <1>3, <1>9, <2>1, <2>2
<1>12. CASE HandleNotificationSent(c)
  <2> DEFINE done == [r EXCEPT !.notification = TRUE, !.state = "completed"]
             row == ResetSchedule(done)
             step == NewSagaStep(m.saga, "SendNotification", "forward", "succeeded")
  <2>1. m.type = "Sent" /\ Commit(c, row, step, {})
    BY <1>12 DEF HandleNotificationSent, Handling
  <2>2. notification[m.saga] = "sent"
    BY <1>2, <2>1 DEF MessageOK
  <2>3. done \in Row
    BY <1>2 DEF Row
  <2>4. row \in Row
    BY <2>3, ScheduleType
  <2>5. RowOK(m.saga, row)
    BY <1>2, <2>2 DEF ResetSchedule, RowOK, Truthful, Row
  <2>6. step \in SagaStep
    BY <1>2, StepType DEF StepName
  <2> QED
    BY <1>1, <1>4, <2>1, <2>4, <2>5, <2>6
<1>13. CASE HandleNotificationFailed(c)
  <2> DEFINE told == [r EXCEPT !.notification = TRUE]
             row == TurnBack(told)
             n   == NewMessage("Refund", m.saga, None)
             step == NewSagaStep(m.saga, "SendNotification", "forward", "failed")
  <2>1. m.type = "NotificationFailed" /\ (Ignore(c) \/ Commit(c, row, step, {n}))
    BY <1>13 DEF HandleNotificationFailed, Handling
  <2>2. notification[m.saga] = "failed"
    BY <1>2, <2>1 DEF MessageOK
  <2>3. row \in Row
    BY <1>2 DEF TurnBack, Row
  <2>4. RowOK(m.saga, row)
    BY <1>2, <2>2 DEF TurnBack, RowOK, Truthful, Row
  <2>5. n \in Message /\ n.type = "Refund" /\ n.saga = m.saga
    BY <1>2, NewMessageType, NewMessageNumber DEF IInv
  <2>6. MessageOK(n)
    BY <2>2, <2>5 DEF MessageOK
  <2>7. step \in SagaStep
    BY <1>2, StepType DEF StepName
  <2> QED
    BY <1>1, <1>3, <2>1, <2>3, <2>4, <2>5, <2>6, <2>7
<1> QED
  BY <1>1, <1>5, <1>6, <1>7, <1>8, <1>10, <1>11, <1>12, <1>13 DEF HandleEvent

(***************************************************************************)
(* The scheduler.                                                          *)
(***************************************************************************)
\* A tick makes a row and commands that are so: the command of the step that the
\* saga is at, or the one to release the seat that its context names.
LEMMA TickOK ==
    ASSUME IInv, NEW s \in Saga, Expired(s)
    PROVE  /\ TickedRow(s) \in Row /\ RowOK(s, TickedRow(s))
           /\ TickedSteps(s) \subseteq SagaStep
           /\ TickedCommand(s) \subseteq Message /\ IsFiniteSet(TickedCommand(s))
           /\ \A n \in TickedCommand(s) : MessageOK(n)
<1> DEFINE r == saga[s]
<1>1. r \in Row /\ RowOK(s, r)
  BY DEF IInv, TypeOK, Orch_TypeOK, RowsOK
<1>2. Running(s) => r.step \in StepName
  BY <1>1 DEF Running, RowOK, Row
<1>3. TickedRow(s) \in Row /\ RowOK(s, TickedRow(s))
  <2>1. ResetSchedule(r) \in Row
    BY <1>1, ScheduleType
  <2>2. EscalatedRow(s) \in Row
    BY <2>1 DEF EscalatedRow, Row
  <2>3. RowOK(s, EscalatedRow(s))
    BY <1>1 DEF EscalatedRow, ResetSchedule, RowOK, Truthful, Row
  <2>4. ASSUME ~Exhausted(s)
        PROVE  RePublishedRow(s) \in Row
    <3>1. r.attempts \in 0 .. MaxSagaAttempts - 1
      BY <1>1 DEF Row
    <3>2. r.attempts + 1 \in 0 .. MaxSagaAttempts - 1
      BY <2>4, <3>1, MaxSagaAttemptsAssumption DEF Exhausted
    <3> QED
      BY <1>1, <3>2 DEF RePublishedRow, Row
  <2>5. RowOK(s, RePublishedRow(s))
    BY <1>1 DEF RePublishedRow, RowOK, Truthful, Row
  <2> QED
    BY <2>2, <2>3, <2>4, <2>5 DEF TickedRow
<1>4. TickedSteps(s) \subseteq SagaStep
  BY <1>2, StepType DEF TickedSteps, EscalatedSteps
<1>5. /\ EscalatedCommand(s) \subseteq Message /\ IsFiniteSet(EscalatedCommand(s))
      /\ \A n \in EscalatedCommand(s) : MessageOK(n)
  <2>1. CASE EscalatedCommand(s) = {}
    BY <2>1, FS_EmptySet
  <2>2. CASE r.seat # None /\ EscalatedCommand(s) = {NewMessage("ReleaseSeat", s, r.seat)}
    <3> DEFINE n == NewMessage("ReleaseSeat", s, r.seat)
    <3>1. r.seat \in Seat /\ HadSeat(s, r.seat)
      BY <1>1, <2>2, ReservationStatus DEF RowOK, Truthful, HadSeat, Row, IInv
    <3>2. n \in Message /\ n.type = "ReleaseSeat" /\ n.saga = s /\ n.body = r.seat
      BY <3>1, NewMessageType, NewMessageNumber DEF IInv
    <3>3. MessageOK(n)
      BY <3>1, <3>2 DEF MessageOK
    <3> QED
      BY <2>2, <3>2, <3>3, FS_Singleton
  <2> QED
    BY <2>1, <2>2 DEF EscalatedCommand
<1>6. /\ RePublishedCommand(s) \subseteq Message /\ IsFiniteSet(RePublishedCommand(s))
      /\ \A n \in RePublishedCommand(s) : MessageOK(n)
  <2>1. CASE ~Running(s)
    BY <2>1, FS_EmptySet DEF RePublishedCommand
  <2>2. CASE Running(s)
    <3>1. CommandOf(s) \in Message /\ MessageOK(CommandOf(s))
      <4>1. CASE r.step = "ReserveSeat"
        <5>1. CommandOf(s) = NewMessage("ReserveSeat", s, None)
          BY <4>1 DEF CommandOf
        <5>2. CommandOf(s) \in Message /\ CommandOf(s).type = "ReserveSeat"
          BY <5>1, NewMessageType, NewMessageNumber DEF IInv
        <5> QED
          BY <5>2 DEF MessageOK
      <4>2. CASE r.step = "ChargePayment"
        <5>1. CommandOf(s) = NewMessage("Charge", s, r.amount)
          BY <4>2 DEF CommandOf
        <5>2. CommandOf(s) \in Message /\ CommandOf(s).type = "Charge"
          BY <1>1, <5>1, NewMessageType, NewMessageNumber DEF IInv, Row
        <5> QED
          BY <5>2 DEF MessageOK
      <4>3. CASE r.step = "SendNotification"
        <5>1. CommandOf(s) = NewMessage("Send", s, r.channel)
          BY <4>3 DEF CommandOf
        <5>2. /\ CommandOf(s) \in Message
              /\ CommandOf(s).type = "Send" /\ CommandOf(s).saga = s
          BY <1>1, <5>1, NewMessageType, NewMessageNumber DEF IInv, Row
        <5> QED
          BY <1>1, <4>3, <5>2 DEF MessageOK, RowOK
      <4> QED
        BY <1>2, <2>2, <4>1, <4>2, <4>3 DEF StepName
    <3> QED
      BY <2>2, <3>1, FS_Singleton DEF RePublishedCommand
  <2> QED
    BY <2>1, <2>2
<1> QED
  BY <1>3, <1>4, <1>5, <1>6, FS_EmptySet DEF TickedCommand

\* A pass of the scheduler ticks finitely many sagas, so it appends finitely many
\* commands.
LEMMA PassIsFinite ==
    ASSUME IInv, NEW batch \in SUBSET {s \in Saga : Expired(s)}, IsFiniteSet(batch)
    PROVE  IsFiniteSet(UNION {TickedCommand(s) : s \in batch})
<1> DEFINE commands == {TickedCommand(s) : s \in batch}
           f == [s \in batch |-> TickedCommand(s)]
<1>1. f \in Surjection(batch, commands)
  BY DEF Surjection
<1>2. IsFiniteSet(commands)
  BY <1>1, FS_Surjection
<1>3. \A T \in commands : IsFiniteSet(T)
  BY TickOK
<1> QED
  BY <1>2, <1>3, FS_UNION

(***************************************************************************)
(* The orchestrator as a whole.                                            *)
(***************************************************************************)
\* What an action that writes no table of a service leaves to be looked at: the
\* rows, the handlers, and the messages that are appended.
LEMMA OrchestratorKeepsRest ==
    ASSUME IInv, UNCHANGED <<seats, reservation, payment, notification>>,
           \/ UNCHANGED outbox
           \/ \E msgs : /\ msgs \subseteq Message /\ IsFiniteSet(msgs)
                        /\ OutboxAppend(msgs)
                        /\ \A n \in msgs : MessageOK(n),
           inbox' \subseteq outbox,
           Orch_TypeOK', HandlersOK',
           \A s \in Saga : RowOK(s, saga'[s]),
           \A c \in Topic : tx'[c] # None => RowOK(tx'[c].msg.saga, tx'[c].row)
    PROVE  IInv'
<1>1. Inv_TypeOK' /\ Pay_TypeOK' /\ Not_TypeOK' /\ ServicesOK'
  BY DEF IInv, TypeOK, Inv_TypeOK, Pay_TypeOK, Not_TypeOK, ServicesOK, Paid
<1>2. RowsOK'
  BY DEF RowsOK, RowOK, Truthful, Paid
<1>3. M_TypeOK' /\ (\A n \in outbox : MessageOK(n))'
  <2>1. CASE UNCHANGED outbox
    BY <2>1 DEF IInv, TypeOK, M_TypeOK, MessageOK, HadSeat, Paid
  <2>2. ASSUME NEW msgs, msgs \subseteq Message, IsFiniteSet(msgs), OutboxAppend(msgs),
               \A n \in msgs : MessageOK(n)
        PROVE  M_TypeOK' /\ (\A n \in outbox : MessageOK(n))'
    <3>1. outbox' \subseteq Message /\ IsFiniteSet(outbox') /\ outbox \subseteq outbox'
      BY <2>2, AppendType DEF IInv
    <3>2. \A n \in outbox' : MessageOK(n)
      BY <2>2 DEF IInv, OutboxAppend
    <3> QED
      BY <3>1, <3>2 DEF M_TypeOK, MessageOK, HadSeat, Paid
  <2> QED
    BY <2>1, <2>2
<1> QED
  BY <1>1, <1>2, <1>3 DEF IInv, TypeOK

\* The events go to the three consumers of the orchestrator.
LEMMA TopicType == \A type \in Event : TopicOf(type) \in Topic
  BY DEF TopicOf, Topic, Event, InventoryEvent, PaymentEvent, NotificationEvent

\* The orchestrator keeps the invariant.
LEMMA OrchestratorKeepsIInv ==
    ASSUME IInv, OrchestratorStep
    PROVE  IInv'
<1>1. UNCHANGED <<seats, reservation, payment, notification>>
  BY DEF OrchestratorStep, inventoryVars
<1>2. /\ \A s \in Saga : saga[s] \in Row /\ RowOK(s, saga[s])
      /\ saga \in [Saga -> Row] /\ steps \subseteq SagaStep
      /\ tx \in [Topic -> {None} \cup [msg : Message, row : Row]]
      /\ dead \subseteq outbox /\ inbox \subseteq outbox
      /\ HandlersOK
      /\ \A c \in Topic : tx[c] # None => RowOK(tx[c].msg.saga, tx[c].row)
  BY DEF IInv, TypeOK, M_TypeOK, Orch_TypeOK, RowsOK
<1>3. ASSUME NEW s \in Saga, StartBooking(s)
      PROVE  IInv'
  <2>1. PICK amount \in Amount, channel \in Channel :
            /\ saga' = [saga EXCEPT ![s] = NewSaga(amount, channel)]
            /\ OutboxAppend({NewMessage("ReserveSeat", s, None)})
            /\ UNCHANGED <<inbox, steps, tx, dead>>
    BY <1>3 DEF StartBooking
  <2> PICK n : n = NewMessage("ReserveSeat", s, None)
    OBVIOUS
  <2>2. n \in Message /\ n.type = "ReserveSeat"
    BY NewMessageType, NewMessageNumber DEF IInv
  <2>3. NewSaga(amount, channel) \in Row
    <3>1. 0 \in 0 .. MaxSagaAttempts - 1
      BY MaxSagaAttemptsAssumption
    <3> QED
      BY <3>1 DEF NewSaga, NoRow, Row, StepName
  <2>4. RowOK(s, NewSaga(amount, channel))
    BY DEF NewSaga, NoRow, RowOK, Truthful
  <2>5. MessageOK(n)
    BY <2>2 DEF MessageOK
  <2>6. OutboxAppend({n}) /\ outbox \subseteq outbox'
    BY <2>1 DEF OutboxAppend
  <2>7. Orch_TypeOK' /\ HandlersOK'
    BY <1>2, <2>1, <2>3, <2>6 DEF Orch_TypeOK, HandlersOK
  <2>8. \A t \in Saga : RowOK(t, saga'[t])
    BY <1>2, <2>1, <2>4
  <2>9. \E msgs : /\ msgs \subseteq Message /\ IsFiniteSet(msgs)
                  /\ OutboxAppend(msgs)
                  /\ \A k \in msgs : MessageOK(k)
    <3>1. {n} \subseteq Message /\ IsFiniteSet({n}) /\ \A k \in {n} : MessageOK(k)
      BY <2>2, <2>5, FS_Singleton
    <3> QED
      BY <2>6, <3>1
  <2>10. inbox' \subseteq outbox /\ UNCHANGED tx
    BY <1>2, <2>1
  <2> QED
    BY <1>1, <1>2, <2>7, <2>8, <2>9, <2>10, OrchestratorKeepsRest
<1>4. ASSUME NEW m \in outbox, Begin(m)
      PROVE  IInv'
  <2>1. m \in Message /\ m.saga \in Saga /\ m.type \in Event /\ TopicOf(m.type) \in Topic
    BY <1>4, MessageBody, TopicType DEF Begin, IInv, TypeOK, M_TypeOK
  <2>2. /\ tx' = [tx EXCEPT ![TopicOf(m.type)] = [msg |-> m, row |-> saga[m.saga]]]
        /\ UNCHANGED <<outbox, inbox, saga, steps, dead>>
    BY <1>4 DEF Begin
  <2>3. Orch_TypeOK' /\ HandlersOK'
    BY <1>2, <2>1, <2>2 DEF Orch_TypeOK, HandlersOK
  <2>4. \A c \in Topic : tx'[c] # None => RowOK(tx'[c].msg.saga, tx'[c].row)
    BY <1>2, <2>1, <2>2
  <2> QED
    BY <1>1, <1>2, <2>2, <2>3, <2>4, OrchestratorKeepsRest
<1>5. ASSUME NEW c \in Topic, tx[c] # None, tx' = [tx EXCEPT ![c] = None],
             UNCHANGED <<outbox, saga, steps>>,
             inbox' \subseteq outbox, dead' \subseteq outbox
      PROVE  IInv'
  <2>1. Orch_TypeOK' /\ HandlersOK'
    BY <1>2, <1>5 DEF Orch_TypeOK, HandlersOK
  <2>2. \A d \in Topic : tx'[d] # None => RowOK(tx'[d].msg.saga, tx'[d].row)
    BY <1>2, <1>5
  <2> QED
    BY <1>1, <1>2, <1>5, <2>1, <2>2, OrchestratorKeepsRest
<1>6. ASSUME NEW c \in Topic, Abort(c)
      PROVE  IInv'
  BY <1>2, <1>5, <1>6 DEF Abort
<1>7. ASSUME NEW c \in Topic, DeadLetter(c)
      PROVE  IInv'
  BY <1>2, <1>5, <1>7, HandlerKnows DEF DeadLetter
<1>8. ASSUME NEW c \in Topic, HandleEvent(c)
      PROVE  IInv'
  <2>1. tx[c] # None
    BY <1>8, HandlerCommits
  <2>2. tx[c].msg \in outbox /\ tx[c].msg.saga \in Saga
    BY <2>1, HandlerKnows
  <2>3. CASE Ignore(c)
    BY <1>2, <1>5, <2>1, <2>2, <2>3 DEF Ignore, Dedup
  <2>4. ASSUME NEW row, NEW step, NEW commands, HandlerResult(c, row, step, commands)
        PROVE  IInv'
    <3>1. /\ row \in Row /\ step \in SagaStep
          /\ RowOK(tx[c].msg.saga, row)
          /\ commands \subseteq Message /\ IsFiniteSet(commands)
          /\ \A n \in commands : MessageOK(n)
      BY <2>4 DEF HandlerResult
    <3>2. /\ saga' = [saga EXCEPT ![tx[c].msg.saga] = row]
          /\ steps' = steps \cup {step}
          /\ OutboxAppend(commands)
          /\ tx' = [tx EXCEPT ![c] = None]
          /\ dead' = dead
          /\ inbox' = inbox \cup {tx[c].msg}
      BY <2>4 DEF HandlerResult, Commit, Dedup
    <3>3. outbox \subseteq outbox'
      BY <3>2 DEF OutboxAppend
    <3>4. Orch_TypeOK' /\ HandlersOK'
      BY <1>2, <2>2, <3>1, <3>2, <3>3 DEF Orch_TypeOK, HandlersOK
    <3>5. \A s \in Saga : RowOK(s, saga'[s])
      BY <1>2, <2>2, <3>1, <3>2
    <3>6. \A d \in Topic : tx'[d] # None => RowOK(tx'[d].msg.saga, tx'[d].row)
      BY <1>2, <3>2
    <3> QED
      BY <1>1, <1>2, <2>2, <3>1, <3>2, <3>4, <3>5, <3>6, OrchestratorKeepsRest
  <2> QED
    BY <1>8, <2>3, <2>4, HandlerCommits
<1>9. CASE ProcessExpired
  <2>1. PICK batch \in SUBSET {s \in Saga : Expired(s)} :
            /\ IsFiniteSet(batch)
            /\ saga' = [s \in Saga |-> IF s \in batch THEN TickedRow(s) ELSE saga[s]]
            /\ steps' = steps \cup UNION {TickedSteps(s) : s \in batch}
            /\ OutboxAppend(UNION {TickedCommand(s) : s \in batch})
            /\ UNCHANGED <<inbox, tx, dead>>
    BY <1>9 DEF ProcessExpired
  <2>2. \A s \in batch :
            /\ s \in Saga
            /\ TickedRow(s) \in Row /\ RowOK(s, TickedRow(s))
            /\ TickedSteps(s) \subseteq SagaStep
            /\ TickedCommand(s) \subseteq Message
            /\ \A n \in TickedCommand(s) : MessageOK(n)
    BY TickOK
  <2> PICK msgs : msgs = UNION {TickedCommand(s) : s \in batch}
    OBVIOUS
  <2>3. /\ msgs \subseteq Message /\ IsFiniteSet(msgs)
        /\ \A n \in msgs : MessageOK(n)
    BY <2>1, <2>2, PassIsFinite
  <2>4. OutboxAppend(msgs) /\ outbox \subseteq outbox'
    BY <2>1 DEF OutboxAppend
  <2>5. \A s \in Saga : saga'[s] \in Row /\ RowOK(s, saga'[s])
    BY <1>2, <2>1, <2>2
  <2>6. steps' \subseteq SagaStep
    BY <1>2, <2>1, <2>2
  <2>7. Orch_TypeOK' /\ HandlersOK'
    <3>1. saga' \in [Saga -> Row]
      BY <2>1, <2>5
    <3> QED
      BY <1>2, <2>1, <2>4, <2>6, <3>1 DEF Orch_TypeOK, HandlersOK
  <2> QED
    BY <1>1, <1>2, <2>1, <2>3, <2>4, <2>5, <2>7, OrchestratorKeepsRest
<1> QED
  BY <1>3, <1>4, <1>6, <1>7, <1>8, <1>9 DEF OrchestratorStep, OrchestratorNext, ConsumeEvents

(***************************************************************************)
(* The invariant, and what follows from it.                                *)
(***************************************************************************)
\* The system starts with nothing said and nothing done.
LEMMA InitIInv == ASSUME Init PROVE IInv
<1>1. 0 \in 0 .. MaxSagaAttempts - 1
  BY MaxSagaAttemptsAssumption
<1>2. NoRow \in Row
  BY <1>1 DEF NoRow, Row, Amount, Channel
<1>3. TypeOK
  BY <1>2, FS_EmptySet
    DEF Init, TypeOK, M_Init, M_TypeOK, Inv_Init, Inv_TypeOK, Pay_Init, Pay_TypeOK,
        Not_Init, Not_TypeOK, Orch_Init, Orch_TypeOK
<1>4. HandlersOK /\ ServicesOK /\ \A m \in outbox : MessageOK(m)
  BY DEF Init, M_Init, Pay_Init, Not_Init, Orch_Init, HandlersOK, ServicesOK
<1>5. RowsOK
  BY DEF Init, Orch_Init, RowsOK, RowOK, Truthful, NoRow
<1> QED
  BY <1>3, <1>4, <1>5 DEF IInv

\* Every step of the system keeps the invariant.
LEMMA StepIInv == ASSUME IInv, [Next]_vars PROVE IInv'
<1>1. EffectsOnce
  BY StepEffectsOnce DEF IInv
<1>2. CASE InventoryStep
  BY <1>1, <1>2, InventoryKeepsIInv
<1>3. CASE PaymentStep
  BY <1>1, <1>3, PaymentKeepsIInv
<1>4. CASE NotificationStep
  BY <1>1, <1>4, NotificationKeepsIInv
<1>5. CASE OrchestratorStep
  BY <1>5, OrchestratorKeepsIInv
<1>6. CASE UNCHANGED vars
  <2>1. UNCHANGED <<outbox, inbox, seats, reservation, payment, notification,
                    saga, steps, tx, dead>>
    BY <1>6 DEF vars
  <2> QED
    BY <2>1
      DEF IInv, TypeOK, M_TypeOK, Inv_TypeOK, Pay_TypeOK, Not_TypeOK, Orch_TypeOK,
          HandlersOK, ServicesOK, MessageOK, RowsOK, RowOK, Truthful, HadSeat, Paid
<1> QED
  BY <1>2, <1>3, <1>4, <1>5, <1>6 DEF Next

\* In every state every message, row and snapshot stands for what the services did.
THEOREM InvariantHolds == Spec => []IInv
<1>1. Init => IInv
  BY InitIInv
<1>2. IInv /\ [Next]_vars => IInv'
  BY StepIInv
<1> QED
  BY <1>1, <1>2, PTL DEF Spec

\* Every variable keeps its type; so every inbox row and every dead message is for a
\* message that was committed, and the attempts of a row stay below the limit.
THEOREM TypeCorrect == Spec => []TypeOK
<1>1. IInv => TypeOK
  BY DEF IInv
<1> QED
  BY <1>1, InvariantHolds, PTL

\* A saga that HandleNotificationSent completed was paid for, and was not refunded.
THEOREM CompletedWasPaid == Spec => []CompletedIsPaidAndTold
<1>1. IInv => CompletedIsPaidAndTold
  BY DEF IInv, ServicesOK, RowsOK, RowOK, Paid, CompletedIsPaidAndTold
<1> QED
  BY <1>1, InvariantHolds, PTL

\* A saga that HandleSeatReleased compensated has given its seat back.
THEOREM CompensatedGaveSeatBack == Spec => []CompensatedHasNoSeat
<1>1. IInv => CompensatedHasNoSeat
  BY DEF IInv, RowsOK, RowOK, CompensatedHasNoSeat
<1> QED
  BY <1>1, InvariantHolds, PTL

\* HandleRefundCommand gives money back only when the notification failed.
THEOREM RefundIsJustified == Spec => []RefundOnlyWhenNotificationFailed
<1>1. IInv => RefundOnlyWhenNotificationFailed
  BY DEF IInv, ServicesOK, RefundOnlyWhenNotificationFailed
<1> QED
  BY <1>1, InvariantHolds, PTL

\* The ids in the context of a row, however stale, are ids of what was done.
THEOREM ContextNeverLies == Spec => []ContextIsTruthful
<1>1. IInv => ContextIsTruthful
  BY DEF IInv, RowsOK, RowOK, ContextIsTruthful
<1> QED
  BY <1>1, InvariantHolds, PTL

\* FindExpired can find every running saga, whichever copy of it was written last.
THEOREM RunningHasSchedule == Spec => []RunningIsScheduled
<1>1. IInv => RunningIsScheduled
  BY DEF IInv, RowsOK, RowOK, RunningIsScheduled
<1> QED
  BY <1>1, InvariantHolds, PTL

\* No command, however often it is sent, makes a service do its work for a saga
\* twice or undo it twice.
THEOREM EffectsNeverRepeat == Spec => EffectsHappenOnce
<1>1. IInv /\ [Next]_vars => [EffectsOnce]_vars
  BY StepEffectsOnce DEF IInv
<1> QED
  BY <1>1, InvariantHolds, PTL DEF Spec, EffectsHappenOnce

(***************************************************************************)
(* Seats and reservations.                                                 *)
(***************************************************************************)
\* A reserved seat is free before, and a released one was held by the saga that gives
\* it back and by nobody else: so nobody's seat is freed or given away.
THEOREM SeatsNeverDoubleBooked == Spec => []SeatsMatchReservations
<1>1. Init => SeatsMatchReservations
  BY DEF Init, Inv_Init, SeatsMatchReservations, HoldsSeat, NoReservation
<1>2. ASSUME IInv, SeatsMatchReservations, [Next]_vars
      PROVE  SeatsMatchReservations'
  <2>1. TypeOK
    BY <1>2 DEF IInv
  <2>2. CASE UNCHANGED <<seats, reservation>>
    BY <1>2, <2>2 DEF SeatsMatchReservations, HoldsSeat
  <2>3. ASSUME NEW m \in outbox, ReserveFreeSeat(m)
        PROVE  SeatsMatchReservations'
    <3>1. m.saga \in Saga
      BY <2>1, MessageBody DEF TypeOK, M_TypeOK
    <3>2. PICK x \in FreeSeats :
              /\ reservation[m.saga] = NoReservation
              /\ seats' = [seats EXCEPT ![x] = "reserved"]
              /\ reservation' = [reservation EXCEPT ![m.saga] =
                                    [status |-> "reserved", seat |-> x]]
      BY <2>3 DEF ReserveFreeSeat
    <3>3. x \in Seat /\ seats[x] = "free"
      BY DEF FreeSeats
    <3> QED
      BY <1>2, <2>1, <3>1, <3>2, <3>3
        DEF SeatsMatchReservations, HoldsSeat, NoReservation, TypeOK, Inv_TypeOK
  <2>4. ASSUME NEW m \in outbox, m.type = "ReleaseSeat", ReleaseReservedSeat(m)
        PROVE  SeatsMatchReservations'
    <3>1. m.saga \in Saga /\ m.body \in Seat
      BY <2>1, <2>4, MessageBody DEF TypeOK, M_TypeOK
    <3> QED
      BY <1>2, <2>1, <2>4, <3>1
        DEF ReleaseReservedSeat, SeatsMatchReservations, HoldsSeat, TypeOK, Inv_TypeOK
  <2>5. CASE InventoryStep
    BY <2>2, <2>3, <2>4, <2>5
      DEF InventoryStep, InventoryNext, HandleReserveSeatCommand, HandleReleaseSeatCommand,
          Deliverable, ReserveWithoutFreeSeat, NothingToRelease, inventoryVars
  <2>6. CASE PaymentStep \/ NotificationStep \/ OrchestratorStep \/ UNCHANGED vars
    BY <2>2, <2>6 DEF PaymentStep, NotificationStep, OrchestratorStep, inventoryVars, vars
  <2> QED
    BY <1>2, <2>5, <2>6 DEF Next
<1>3. IInv /\ SeatsMatchReservations /\ [Next]_vars => SeatsMatchReservations'
  BY <1>2
<1> QED
  BY <1>1, <1>3, InvariantHolds, PTL DEF Spec
=============================================================================
