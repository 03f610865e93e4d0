----------------------------- MODULE OnTimeProofs -----------------------------
(***************************************************************************)
(* Proofs that the booking keeps the promise of the saga pattern as long   *)
(* as no reply is late, for any set of sagas, any set of seats and any     *)
(* limits.                                                                 *)
(*                                                                         *)
(* The argument.  OInv says that the one outstanding message of a saga     *)
(* tells where the saga stands.  Every step about a saga handles that      *)
(* message and puts at most one new one in its place (Replaces), so OInv   *)
(* is kept when the saga goes to where the new message says (HandOn), or   *)
(* comes to rest (HandIn).  Where it can go from where it stands is a      *)
(* table of moves (Course), and each of them is a step of SagaPattern      *)
(* or changes nothing that SagaPattern sees (MoveIsPattern).               *)
(***************************************************************************)
EXTENDS OnTimeInvariant, BookingSystemProofs

(***************************************************************************)
(* Messages.                                                               *)
(***************************************************************************)
\* The messages of a type and saga are finitely many, and a new one has their
\* number, which none of them has.
LEMMA NewMessageIsNew ==
    ASSUME TypeOK, IdsAreFresh, NEW s \in Saga, NEW type, NEW body,
           outbox' = outbox \cup {NewMessage(type, s, body)}
    PROVE  NewMessage(type, s, body) \notin outbox /\ IdsAreFresh'
<1> DEFINE N == Emitted(type, s)
           Later(m) == {k \in outbox' : k.type = m.type /\ k.saga = m.saga}
<1> PICK e : e = NewMessage(type, s, body)
  OBVIOUS
<1>1. e.type = type /\ e.saga = s /\ e.n = Cardinality(N)
  BY DEF NewMessage
<1>2. IsFiniteSet(N) /\ Cardinality(N) \in Nat
  BY FS_Subset, FS_CardinalityType DEF TypeOK, M_TypeOK, Emitted
<1>3. e \notin outbox
  <2> SUFFICES ASSUME e \in outbox
               PROVE  FALSE
    OBVIOUS
  <2>1. e.n < Cardinality(N)
    BY <1>1 DEF IdsAreFresh
  <2> QED
    BY <1>1, <1>2, <2>1
<1>4. {k \in outbox' : k.type = type /\ k.saga = s} = N \cup {e}
  BY <1>1 DEF Emitted
<1>5. Cardinality(N \cup {e}) = Cardinality(N) + 1
  BY <1>2, <1>3, FS_AddElement DEF Emitted
<1>6. ASSUME NEW m \in outbox'
      PROVE  m.n < Cardinality(Later(m))
  <2>1. CASE m = e
    <3>1. Later(m) = N \cup {e}
      BY <1>1, <1>4, <2>1
    <3> QED
      BY <1>1, <1>2, <1>5, <2>1, <3>1
  <2>2. CASE m \in N
    <3>1. m.type = type /\ m.saga = s
      BY <2>2 DEF Emitted
    <3>2. m.n < Cardinality(N) /\ m.n \in Nat
      BY <2>2, <3>1 DEF IdsAreFresh, Emitted, TypeOK, M_TypeOK, Message, MessageOf
    <3>3. Later(m) = N \cup {e}
      BY <1>4, <3>1
    <3>4. Cardinality(N) + 1 \in Nat /\ m.n < Cardinality(N) + 1
      BY <1>2, <3>2
    <3> HIDE DEF N, Later
    <3> QED
      BY <1>5, <3>3, <3>4
  <2>3. CASE m \in outbox /\ m \notin N
    <3>1. ~(m.type = type /\ m.saga = s)
      BY <2>3 DEF Emitted
    <3>2. Later(m) = Emitted(m.type, m.saga)
      BY <1>1, <3>1 DEF Emitted
    <3> QED
      BY <2>3, <3>2 DEF IdsAreFresh
  <2> QED
    BY <2>1, <2>2, <2>3
<1> QED
  BY <1>3, <1>6 DEF IdsAreFresh, Emitted

\* A message that is not handled is the only one of its saga, and tells where it is.
LEMMA OutstandingTells ==
    ASSUME IInv, OInv, NEW m \in outbox \ inbox
    PROVE  m.saga \in Saga /\ At(m.saga, m)
<1>1. m.saga \in Saga
  BY MessageBody DEF IInv, TypeOK, M_TypeOK
<1>2. m \in Outstanding(m.saga)
  BY DEF Outstanding
<1>3. Underway(m.saga)
  BY <1>1, <1>2 DEF OInv, Ended
<1> QED
  BY <1>1, <1>2, <1>3 DEF Underway, At

\* A handler works on the outstanding message of its saga and on the row as it is.
LEMMA HandlerAtWork ==
    ASSUME IInv, OInv, NEW c \in Topic, tx[c] # None
    PROVE  /\ tx[c].msg \in outbox \ inbox
           /\ tx[c].msg.type \in Event
           /\ tx[c].msg.saga \in Saga
           /\ At(tx[c].msg.saga, tx[c].msg)
           /\ tx[c].row = saga[tx[c].msg.saga]
  BY OutstandingTells DEF OInv, CopiesAreFresh, IInv, HandlersOK

(***************************************************************************)
(* Handing on.                                                             *)
(***************************************************************************)
SameElsewhere(s) ==
    \A t \in Saga \ {s} : UNCHANGED <<saga[t], reservation[t], payment[t], notification[t]>>

\* What is outstanding about a saga is handled, and msgs take its place.
Replaces(s, msgs) ==
    /\ outbox' = outbox \cup msgs
    /\ inbox' = inbox \cup Outstanding(s)
    /\ dead' = dead
    /\ SameElsewhere(s)
    /\ \A c \in Topic : tx'[c] # None => tx'[c] = tx[c] /\ tx[c].msg.saga # s

\* What is outstanding after that.
LEMMA ReplacesOutstanding ==
    ASSUME TypeOK, NEW s \in Saga, NEW msgs, Replaces(s, msgs),
           \A e \in msgs : e \notin outbox /\ e.saga = s
    PROVE  /\ Outstanding(s)' = msgs
           /\ \A t \in Saga \ {s} : Outstanding(t)' = Outstanding(t)
<1>1. inbox \subseteq outbox
  BY DEF TypeOK, M_TypeOK
<1>2. Outstanding(s) \subseteq outbox /\ \A m \in Outstanding(s) : m.saga = s
  BY DEF Outstanding
<1>3. Outstanding(s)' = msgs
  BY <1>1, <1>2 DEF Replaces, Outstanding
<1>4. ASSUME NEW t \in Saga \ {s}
      PROVE  Outstanding(t)' = Outstanding(t)
  BY <1>1, <1>2 DEF Replaces, Outstanding
<1> QED
  BY <1>3, <1>4

\* What is kept whenever one saga moves.
LEMMA ReplacesKeepsRest ==
    ASSUME IInv, OInv, NEW s \in Saga, NEW msgs, Replaces(s, msgs),
           \A e \in msgs : e \notin outbox /\ e.saga = s
    PROVE  /\ \A t \in Saga \ {s} : (Underway(t) \/ Ended(t))'
           /\ CopiesAreFresh'
           /\ dead' = {}
<1>1. ASSUME NEW t \in Saga \ {s}
      PROVE  (Underway(t) \/ Ended(t))'
  <2>1. Outstanding(t)' = Outstanding(t)
    BY <1>1, ReplacesOutstanding DEF IInv
  <2>2. View(t)' = View(t) /\ saga'[t] = saga[t]
    BY DEF Replaces, SameElsewhere, View
  <2>3. CASE Ended(t)
    BY <2>1, <2>2, <2>3 DEF Ended
  <2>4. ASSUME NEW m \in outbox, At(t, m)
        PROVE  Underway(t)'
    <3>1. At(t, m)'
      BY <2>1, <2>2, <2>4 DEF At, KnowsIds
    <3> QED
      BY <3>1 DEF Underway, Replaces
  <2> QED
    BY <2>3, <2>4 DEF OInv, Underway
<1>2. CopiesAreFresh'
  <2> SUFFICES ASSUME NEW c \in Topic, tx'[c] # None
               PROVE  /\ tx'[c].msg \in outbox' \ inbox'
                      /\ TopicOf(tx'[c].msg.type) = c
                      /\ tx'[c].row = saga'[tx'[c].msg.saga]
    BY DEF CopiesAreFresh
  <2>1. tx'[c] = tx[c] /\ tx[c].msg.saga # s
    BY DEF Replaces
  <2>2. /\ tx[c].msg \in outbox \ inbox
        /\ TopicOf(tx[c].msg.type) = c
        /\ tx[c].row = saga[tx[c].msg.saga]
    BY <2>1 DEF OInv, CopiesAreFresh
  <2>3. tx[c].msg.saga \in Saga
    BY <2>2, OutstandingTells
  <2>4. saga'[tx[c].msg.saga] = saga[tx[c].msg.saga]
    BY <2>1, <2>3 DEF Replaces, SameElsewhere
  <2>5. tx[c].msg \notin Outstanding(s)
    BY <2>1 DEF Outstanding
  <2> QED
    BY <2>1, <2>2, <2>4, <2>5 DEF Replaces
<1>3. dead' = {}
  BY DEF Replaces, OInv
<1> QED
  BY <1>1, <1>2, <1>3

\* The message of a saga is handled, the saga goes on, and a new message says where
\* it is now.
LEMMA HandOn ==
    ASSUME IInv, OInv, NEW s \in Saga, NEW type, NEW body,
           Replaces(s, {NewMessage(type, s, body)}),
           View(s)' \in Stage(type), KnowsIds(s, type)'
    PROVE  OInv'
<1> PICK e : e = NewMessage(type, s, body)
  OBVIOUS
<1>1. e.type = type /\ e.saga = s
  BY DEF NewMessage
<1>2. e \notin outbox /\ IdsAreFresh'
  BY NewMessageIsNew DEF Replaces, IInv, OInv
<1>3. Replaces(s, {e}) /\ \A m \in {e} : m \notin outbox /\ m.saga = s
  BY <1>1, <1>2
<1>4. /\ Outstanding(s)' = {e}
      /\ \A t \in Saga \ {s} : (Underway(t) \/ Ended(t))'
      /\ CopiesAreFresh'
      /\ dead' = {}
  BY <1>3, ReplacesOutstanding, ReplacesKeepsRest DEF IInv
<1>5. At(s, e)'
  BY <1>1, <1>4 DEF At
<1>6. e \in outbox'
  BY <1>3 DEF Replaces
<1>7. Underway(s)'
  BY <1>5, <1>6 DEF Underway
<1>8. (\A t \in Saga : Underway(t) \/ Ended(t))'
  BY <1>4, <1>7
<1> QED
  BY <1>2, <1>4, <1>8 DEF OInv

\* The message of a saga is handled and the saga has ended.
LEMMA HandIn ==
    ASSUME IInv, OInv, NEW s \in Saga, Replaces(s, {}), View(s)' \in AtRest
    PROVE  OInv'
<1>1. /\ Outstanding(s)' = {}
      /\ \A t \in Saga \ {s} : (Underway(t) \/ Ended(t))'
      /\ CopiesAreFresh'
      /\ dead' = {}
  BY ReplacesOutstanding, ReplacesKeepsRest DEF IInv
<1>2. Ended(s)'
  BY <1>1 DEF Ended
<1>3. (\A t \in Saga : Underway(t) \/ Ended(t))'
  BY <1>1, <1>2
<1>4. outbox' = outbox
  BY DEF Replaces
<1>5. IdsAreFresh'
  BY <1>4 DEF OInv, IdsAreFresh, Emitted
<1> QED
  BY <1>1, <1>3, <1>5 DEF OInv

(***************************************************************************)
(* The moves of a saga.                                                    *)
(***************************************************************************)
\* Where a saga can go, and from where.
Course ==
    {<< <<"none", "none", "none", "none">>,
        <<"running", "none", "none", "none">> >>,
     << <<"running", "none", "none", "none">>,
        <<"failed", "none", "none", "none">> >>,
     << <<"running", "none", "none", "none">>,
        <<"running", "reserved", "none", "none">> >>,
     << <<"running", "reserved", "none", "none">>,
        <<"running", "reserved", "failed", "none">> >>,
     << <<"running", "reserved", "none", "none">>,
        <<"running", "reserved", "charged", "none">> >>,
     << <<"running", "reserved", "charged", "none">>,
        <<"running", "reserved", "charged", "failed">> >>,
     << <<"running", "reserved", "charged", "none">>,
        <<"running", "reserved", "charged", "sent">> >>,
     << <<"running", "reserved", "charged", "sent">>,
        <<"completed", "reserved", "charged", "sent">> >>,
     << <<"running", "reserved", "charged", "failed">>,
        <<"compensating", "reserved", "charged", "failed">> >>,
     << <<"running", "reserved", "failed", "none">>,
        <<"compensating", "reserved", "failed", "none">> >>,
     << <<"compensating", "reserved", "charged", "failed">>,
        <<"compensating", "reserved", "refunded", "failed">> >>,
     << <<"compensating", "reserved", "refunded", "failed">>,
        <<"compensating", "released", "refunded", "failed">> >>,
     << <<"compensating", "reserved", "failed", "none">>,
        <<"compensating", "released", "failed", "none">> >>,
     << <<"compensating", "released", "refunded", "failed">>,
        <<"compensated", "released", "refunded", "failed">> >>,
     << <<"compensating", "released", "failed", "none">>,
        <<"compensated", "released", "failed", "none">> >>}

\* One saga at most goes one step of its course, all others stay where they are.
OneMoves ==
    \E s \in Saga :
        /\ View(s)' = View(s) \/ <<View(s), View(s)'>> \in Course
        /\ \A t \in Saga \ {s} : View(t)' = View(t)

LEMMA ReplacesMovesOne ==
    ASSUME NEW s \in Saga, NEW msgs, Replaces(s, msgs),
           View(s)' = View(s) \/ <<View(s), View(s)'>> \in Course
    PROVE  OneMoves
  BY DEF OneMoves, Replaces, SameElsewhere, View

(***************************************************************************)
(* The services.                                                           *)
(***************************************************************************)
\* A service handles the one outstanding message of the saga, and no handler of the
\* orchestrator holds a copy of its row.
LEMMA ServiceReplaces ==
    ASSUME IInv, OInv, NEW m \in outbox, Dedup(m), m.type \notin Event,
           UNCHANGED orchestratorVars, SameElsewhere(m.saga),
           NEW msgs, OutboxAppend(msgs)
    PROVE  /\ m.saga \in Saga
           /\ At(m.saga, m)
           /\ Replaces(m.saga, msgs)
<1>1. m.saga \in Saga /\ At(m.saga, m)
  BY OutstandingTells DEF Dedup
<1>2. Outstanding(m.saga) = {m}
  BY <1>1 DEF At
<1>3. UNCHANGED <<tx, dead>>
  BY DEF orchestratorVars
<1>4. ASSUME NEW c \in Topic, tx[c] # None
      PROVE  tx[c].msg.saga # m.saga
  <2>1. tx[c].msg \in outbox \ inbox /\ tx[c].msg.type \in Event
    BY <1>4, HandlerAtWork
  <2> QED
    BY <1>2, <2>1 DEF Outstanding
<1> QED
  BY <1>1, <1>2, <1>3, <1>4 DEF Replaces, Dedup, OutboxAppend

\* The inventory service.
LEMMA InventoryOnTime ==
    ASSUME IInv, OInv, InventoryStep
    PROVE  OInv' /\ OneMoves
<1>1. UNCHANGED <<payment, notification>> /\ UNCHANGED orchestratorVars
  BY DEF InventoryStep
<1>2. PICK m \in outbox : HandleReserveSeatCommand(m) \/ HandleReleaseSeatCommand(m)
  BY DEF InventoryStep, InventoryNext
<1> DEFINE s == m.saga
<1>3. Dedup(m) /\ m.type \in {"ReserveSeat", "ReleaseSeat"}
  BY <1>2 DEF HandleReserveSeatCommand, HandleReleaseSeatCommand, Deliverable
<1>4. m.type \notin Event
  BY <1>3 DEF Event, InventoryEvent, PaymentEvent, NotificationEvent
<1>5. s \in Saga /\ At(s, m)
  BY <1>3, OutstandingTells DEF Dedup
<1>6. saga'[s] = saga[s] /\ payment'[s] = payment[s] /\ notification'[s] = notification[s]
  BY <1>1 DEF orchestratorVars
<1>7. reservation \in [Saga -> {NoReservation} \cup [status : {"reserved", "released"}, seat : Seat]]
  BY DEF IInv, TypeOK, Inv_TypeOK
<1>8. ASSUME m.type = "ReserveSeat", ReserveWithoutFreeSeat(m)
      PROVE  OInv' /\ OneMoves
  <2>1. View(s) = <<"running", "none", "none", "none">>
    BY <1>5, <1>8 DEF At, Stage
  <2>2. SameElsewhere(s) /\ View(s)' = View(s)
    BY <1>1, <1>8 DEF SameElsewhere, View, ReserveWithoutFreeSeat, inventoryVars, orchestratorVars
  <2>3. Replaces(s, {NewMessage("SeatReservationFailed", s, None)})
    BY <1>1, <1>3, <1>4, <1>8, <2>2, ServiceReplaces DEF ReserveWithoutFreeSeat
  <2>4. View(s)' \in Stage("SeatReservationFailed") /\ KnowsIds(s, "SeatReservationFailed")'
    BY <2>1, <2>2 DEF Stage, KnowsIds, BeforeSeat, AfterPayment
  <2> QED
    BY <1>5, <2>2, <2>3, <2>4, HandOn, ReplacesMovesOne
<1>9. ASSUME m.type = "ReserveSeat", ReserveFreeSeat(m)
      PROVE  OInv' /\ OneMoves
  <2>1. View(s) = <<"running", "none", "none", "none">>
    BY <1>5, <1>9 DEF At, Stage
  <2>2. PICK x \in FreeSeats :
            /\ reservation' = [reservation EXCEPT ![s] = [status |-> "reserved", seat |-> x]]
            /\ OutboxAppend({NewMessage("SeatReserved", s, x)})
    BY <1>9 DEF ReserveFreeSeat
  <2>3. SameElsewhere(s) /\ View(s)' = <<"running", "reserved", "none", "none">>
    BY <1>1, <1>5, <1>6, <1>7, <2>1, <2>2 DEF SameElsewhere, View, orchestratorVars
  <2>4. Replaces(s, {NewMessage("SeatReserved", s, x)})
    BY <1>1, <1>3, <1>4, <2>2, <2>3, ServiceReplaces
  <2>5. View(s)' \in Stage("SeatReserved") /\ KnowsIds(s, "SeatReserved")'
    BY <2>3 DEF Stage, KnowsIds, BeforeSeat, AfterPayment
  <2>6. <<View(s), View(s)'>> \in Course
    BY <2>1, <2>3 DEF Course
  <2> QED
    BY <1>5, <2>4, <2>5, <2>6, HandOn, ReplacesMovesOne
<1>10. ASSUME m.type = "ReleaseSeat"
       PROVE  /\ ~NothingToRelease(m)
              /\ \/ View(s) = <<"compensating", "reserved", "refunded", "failed">>
                 \/ View(s) = <<"compensating", "reserved", "failed", "none">>
  BY <1>5, <1>10 DEF At, Stage, View, NothingToRelease
<1>11. ASSUME m.type = "ReleaseSeat", ReleaseReservedSeat(m)
       PROVE  OInv' /\ OneMoves
  <2>1. /\ reservation' = [reservation EXCEPT ![s] = [reservation[s] EXCEPT !.status = "released"]]
        /\ OutboxAppend({NewMessage("SeatReleased", s, m.body)})
        /\ reservation[s] = [status |-> "reserved", seat |-> m.body]
    BY <1>11 DEF ReleaseReservedSeat
  <2>2. SameElsewhere(s) /\ reservation'[s].status = "released"
    BY <1>1, <1>5, <1>7, <2>1 DEF SameElsewhere, orchestratorVars
  <2>3. \/ /\ View(s) = <<"compensating", "reserved", "refunded", "failed">>
           /\ View(s)' = <<"compensating", "released", "refunded", "failed">>
        \/ /\ View(s) = <<"compensating", "reserved", "failed", "none">>
           /\ View(s)' = <<"compensating", "released", "failed", "none">>
    BY <1>6, <1>10, <1>11, <2>2 DEF View
  <2>4. Replaces(s, {NewMessage("SeatReleased", s, m.body)})
    BY <1>1, <1>3, <1>4, <2>1, <2>2, ServiceReplaces
  <2>5. View(s)' \in Stage("SeatReleased") /\ KnowsIds(s, "SeatReleased")'
    BY <1>5, <1>6, <1>11, <2>3 DEF Stage, At, KnowsIds, BeforeSeat, AfterPayment
  <2>6. <<View(s), View(s)'>> \in Course
    BY <2>3 DEF Course
  <2> QED
    BY <1>5, <2>4, <2>5, <2>6, HandOn, ReplacesMovesOne
<1> QED
  BY <1>2, <1>8, <1>9, <1>10, <1>11
    DEF HandleReserveSeatCommand, HandleReleaseSeatCommand, Deliverable

\* The payment service.
LEMMA PaymentOnTime ==
    ASSUME IInv, OInv, PaymentStep
    PROVE  OInv' /\ OneMoves
<1>1. UNCHANGED <<reservation, notification>> /\ UNCHANGED orchestratorVars
  BY DEF PaymentStep, inventoryVars
<1>2. PICK m \in outbox : HandleChargeCommand(m) \/ HandleRefundCommand(m)
  BY DEF PaymentStep, PaymentNext
<1> DEFINE s == m.saga
<1>3. Dedup(m) /\ m.type \in {"Charge", "Refund"}
  BY <1>2 DEF HandleChargeCommand, HandleRefundCommand, Deliverable
<1>4. m.type \notin Event
  BY <1>3 DEF Event, InventoryEvent, PaymentEvent, NotificationEvent
<1>5. s \in Saga /\ At(s, m)
  BY <1>3, OutstandingTells DEF Dedup
<1>6. saga'[s] = saga[s] /\ reservation'[s] = reservation[s] /\ notification'[s] = notification[s]
  BY <1>1 DEF orchestratorVars
<1>7. payment \in [Saga -> {"none", "charged", "failed", "refunded"}]
  BY DEF IInv, TypeOK, Pay_TypeOK
<1>8. ASSUME m.type = "Charge",
             NEW status, NEW event,
             \/ status = "charged" /\ event = "Charged"
             \/ status = "failed" /\ event = "PaymentFailed",
             CreatePayment(m, status, event)
      PROVE  OInv' /\ OneMoves
  <2>1. View(s) = <<"running", "reserved", "none", "none">> /\ saga[s].seat # None
    BY <1>5, <1>8 DEF At, Stage, KnowsIds, BeforeSeat
  <2>2. payment' = [payment EXCEPT ![s] = status] /\ OutboxAppend({NewMessage(event, s, None)})
    BY <1>8 DEF CreatePayment
  <2>3. SameElsewhere(s) /\ View(s)' = <<"running", "reserved", status, "none">>
    BY <1>1, <1>5, <1>6, <1>7, <2>1, <2>2 DEF SameElsewhere, View, orchestratorVars
  <2>4. Replaces(s, {NewMessage(event, s, None)})
    BY <1>1, <1>3, <1>4, <2>2, <2>3, ServiceReplaces
  <2>5. View(s)' \in Stage(event) /\ KnowsIds(s, event)'
    BY <1>6, <1>8, <2>1, <2>3 DEF Stage, KnowsIds, AfterPayment
  <2>6. <<View(s), View(s)'>> \in Course
    BY <1>8, <2>1, <2>3 DEF Course
  <2> QED
    BY <1>5, <2>4, <2>5, <2>6, HandOn, ReplacesMovesOne
<1>9. ASSUME m.type = "Charge"
      PROVE  ~AlreadyCharged(m)
  BY <1>5, <1>9 DEF At, Stage, View, AlreadyCharged
<1>10. ASSUME m.type = "Refund"
       PROVE  View(s) = <<"compensating", "reserved", "charged", "failed">> /\ ~NothingToRefund(m)
  BY <1>5, <1>10 DEF At, Stage, View, NothingToRefund
<1>11. ASSUME m.type = "Refund", RefundCharge(m)
       PROVE  OInv' /\ OneMoves
  <2>1. payment' = [payment EXCEPT ![s] = "refunded"] /\ OutboxAppend({NewMessage("Refunded", s, None)})
    BY <1>11 DEF RefundCharge
  <2>2. SameElsewhere(s) /\ View(s)' = <<"compensating", "reserved", "refunded", "failed">>
    BY <1>1, <1>5, <1>6, <1>7, <1>10, <1>11, <2>1 DEF SameElsewhere, View, orchestratorVars
  <2>3. Replaces(s, {NewMessage("Refunded", s, None)})
    BY <1>1, <1>3, <1>4, <2>1, <2>2, ServiceReplaces
  <2>4. View(s)' \in Stage("Refunded") /\ KnowsIds(s, "Refunded")'
    BY <1>5, <1>6, <1>11, <2>2 DEF Stage, At, KnowsIds, BeforeSeat, AfterPayment
  <2>5. <<View(s), View(s)'>> \in Course
    BY <1>10, <1>11, <2>2 DEF Course
  <2> QED
    BY <1>5, <2>3, <2>4, <2>5, HandOn, ReplacesMovesOne
<1> QED
  BY <1>2, <1>8, <1>9, <1>10, <1>11 DEF HandleChargeCommand, HandleRefundCommand, Deliverable

\* The notification service.
LEMMA NotificationOnTime ==
    ASSUME IInv, OInv, NotificationStep
    PROVE  OInv' /\ OneMoves
<1>1. UNCHANGED <<reservation, payment>> /\ UNCHANGED orchestratorVars
  BY DEF NotificationStep, inventoryVars
<1>2. PICK m \in outbox : HandleSendCommand(m)
  BY DEF NotificationStep, NotificationNext
<1> DEFINE s == m.saga
<1>3. Dedup(m) /\ m.type = "Send"
  BY <1>2 DEF HandleSendCommand, Deliverable
<1>4. m.type \notin Event
  BY <1>3 DEF Event, InventoryEvent, PaymentEvent, NotificationEvent
<1>5. s \in Saga /\ At(s, m)
  BY <1>3, OutstandingTells DEF Dedup
<1>6. saga'[s] = saga[s] /\ reservation'[s] = reservation[s] /\ payment'[s] = payment[s]
  BY <1>1 DEF orchestratorVars
<1>7. /\ View(s) = <<"running", "reserved", "charged", "none">>
      /\ saga[s].seat # None /\ saga[s].payment
  BY <1>3, <1>5 DEF At, Stage, KnowsIds, BeforeSeat, AfterPayment
<1>8. ~AlreadyNotified(m)
  BY <1>7 DEF View, AlreadyNotified
<1>9. ASSUME NEW status, NEW event,
             \/ status = "sent" /\ event = "Sent"
             \/ status = "failed" /\ event = "NotificationFailed",
             CreateNotification(m, status, event)
      PROVE  OInv' /\ OneMoves
  <2>1. /\ notification' = [notification EXCEPT ![s] = status]
        /\ OutboxAppend({NewMessage(event, s, None)})
    BY <1>9 DEF CreateNotification
  <2>2. SameElsewhere(s) /\ View(s)' = <<"running", "reserved", "charged", status>>
    BY <1>1, <1>5, <1>6, <1>7, <2>1
      DEF SameElsewhere, View, orchestratorVars, IInv, TypeOK, Not_TypeOK
  <2>3. Replaces(s, {NewMessage(event, s, None)})
    BY <1>1, <1>3, <1>4, <2>1, <2>2, ServiceReplaces
  <2>4. View(s)' \in Stage(event) /\ KnowsIds(s, event)'
    BY <1>6, <1>7, <1>9, <2>2 DEF Stage, KnowsIds
  <2>5. <<View(s), View(s)'>> \in Course
    BY <1>7, <1>9, <2>2 DEF Course
  <2> QED
    BY <1>5, <2>3, <2>4, <2>5, HandOn, ReplacesMovesOne
<1> QED
  BY <1>2, <1>8, <1>9 DEF HandleSendCommand

(***************************************************************************)
(* The orchestrator.                                                       *)
(***************************************************************************)
\* A handler that commits replaces the one outstanding message of its saga; the
\* handlers of the other topics work on other sagas.
LEMMA CommitReplaces ==
    ASSUME IInv, OInv, NoOtherTable, NEW c \in Topic, tx[c] # None,
           NEW row, NEW step, NEW commands, Commit(c, row, step, commands),
           NEW s, s = tx[c].msg.saga
    PROVE  /\ Replaces(s, commands)
           /\ saga'[s] = row
           /\ UNCHANGED <<reservation[s], payment[s], notification[s]>>
<1> DEFINE m == tx[c].msg
<1>1. m \in outbox \ inbox /\ s \in Saga /\ TopicOf(m.type) = c /\ Outstanding(s) = {m}
  BY HandlerAtWork DEF OInv, CopiesAreFresh, At
<1>2. saga \in [Saga -> Row] /\ tx \in [Topic -> {None} \cup [msg : Message, row : Row]]
  BY DEF IInv, TypeOK, Orch_TypeOK
<1>3. /\ inbox' = inbox \cup {m}
      /\ saga' = [saga EXCEPT ![s] = row]
      /\ outbox' = outbox \cup commands
      /\ tx' = [tx EXCEPT ![c] = None]
      /\ dead' = dead
  BY DEF Commit, Dedup, OutboxAppend
<1>4. UNCHANGED <<reservation, payment, notification>>
  BY DEF NoOtherTable, inventoryVars
<1>5. SameElsewhere(s) /\ saga'[s] = row
  BY <1>1, <1>2, <1>3, <1>4 DEF SameElsewhere
<1>6. ASSUME NEW d \in Topic, tx'[d] # None
      PROVE  tx'[d] = tx[d] /\ tx[d].msg.saga # s
  <2>1. d # c /\ tx'[d] = tx[d]
    BY <1>2, <1>3, <1>6
  <2>2. tx[d].msg \in outbox \ inbox /\ TopicOf(tx[d].msg.type) = d
    BY <1>6, <2>1 DEF OInv, CopiesAreFresh
  <2>3. tx[d].msg # m
    BY <1>1, <2>1, <2>2
  <2> QED
    BY <1>1, <2>1, <2>2, <2>3 DEF Outstanding
<1>7. Replaces(s, commands)
  BY <1>1, <1>3, <1>5, <1>6 DEF Replaces
<1> QED
  BY <1>4, <1>5, <1>7

\* A reply in time finds the ids that its handler needs, so it is never quarantined.
LEMMA NoReplyIsRefused ==
    ASSUME IInv, OInv, NEW c \in Topic, tx[c] # None
    PROVE  ~PermanentError(tx[c].msg, tx[c].row)
<1> DEFINE m == tx[c].msg
           s == m.saga
<1>1. /\ s \in Saga /\ View(s) \in Stage(m.type) /\ KnowsIds(s, m.type)
      /\ tx[c].row = saga[s]
  BY HandlerAtWork DEF At
<1>2. saga[s].seat # None => reservation[s].seat = saga[s].seat
  BY <1>1 DEF IInv, RowsOK, RowOK, Truthful
<1>3. m.type = "SeatReleased" => reservation[s].seat = m.body
  BY HandlerAtWork DEF IInv, MessageOK, HadSeat
<1> QED
  BY <1>1, <1>2, <1>3 DEF PermanentError, KnowsIds, BeforeSeat, AfterPayment

\* What the event handlers of saga.go do, each one step of its saga's course.
LEMMA HandlerOnTime ==
    ASSUME IInv, OInv, NoOtherTable, NEW c \in Topic, HandleEvent(c)
    PROVE  OInv' /\ OneMoves
<1> DEFINE m == tx[c].msg
           r == tx[c].row
<1> PICK s : s = m.saga
  OBVIOUS
<1>1. tx[c] # None
  BY DEF HandleEvent, Handling, HandleSeatReserved, HandleSeatReservationFailed,
         HandleSeatReleased, HandlePaymentCharged, HandlePaymentFailed,
         HandlePaymentRefunded, HandleNotificationSent, HandleNotificationFailed
<1>2. /\ m \in outbox /\ s \in Saga /\ r = saga[s]
      /\ View(s) \in Stage(m.type) /\ KnowsIds(s, m.type)
      /\ r \in Row /\ r.state = saga[s].state
  BY <1>1, HandlerAtWork DEF At, IInv, TypeOK, Orch_TypeOK
<1>3. ASSUME NEW row, NEW step, NEW type, NEW body,
             Commit(c, row, step, {NewMessage(type, s, body)}),
             <<row.state, View(s)[2], View(s)[3], View(s)[4]>> \in Stage(type),
             type \notin BeforeSeat => row.seat # None,
             type \in AfterPayment => row.payment,
             \/ row.state = r.state
             \/ <<View(s), <<row.state, View(s)[2], View(s)[3], View(s)[4]>> >> \in Course
      PROVE  OInv' /\ OneMoves
  <2>1. /\ Replaces(s, {NewMessage(type, s, body)})
        /\ saga'[s] = row
        /\ UNCHANGED <<reservation[s], payment[s], notification[s]>>
    BY <1>1, <1>3, CommitReplaces
  <2>2. View(s)' = <<row.state, View(s)[2], View(s)[3], View(s)[4]>>
    BY <2>1 DEF View
  <2>3. View(s)' = View(s) \/ <<View(s), View(s)'>> \in Course
    BY <1>2, <1>3, <2>2 DEF View
  <2>4. View(s)' \in Stage(type) /\ KnowsIds(s, type)'
    BY <1>3, <2>1, <2>2 DEF KnowsIds
  <2> QED
    BY <1>2, <2>1, <2>3, <2>4, HandOn, ReplacesMovesOne
<1>4. ASSUME NEW row, NEW step, Commit(c, row, step, {}),
             <<row.state, View(s)[2], View(s)[3], View(s)[4]>> \in AtRest,
             <<View(s), <<row.state, View(s)[2], View(s)[3], View(s)[4]>> >> \in Course
      PROVE  OInv' /\ OneMoves
  <2>1. /\ Replaces(s, {})
        /\ saga'[s] = row
        /\ UNCHANGED <<reservation[s], payment[s], notification[s]>>
    BY <1>1, <1>4, CommitReplaces
  <2>2. View(s)' = <<row.state, View(s)[2], View(s)[3], View(s)[4]>>
    BY <2>1 DEF View
  <2> QED
    BY <1>2, <1>4, <2>1, <2>2, HandIn, ReplacesMovesOne
<1>5. CASE HandleSeatReserved(c)
  <2> DEFINE row == Advance(SetSeat(r, m.body), "ChargePayment")
  <2>1. View(s) = <<"running", "reserved", "none", "none">>
    BY <1>2, <1>5 DEF HandleSeatReserved, Handling, Stage
  <2>2. m.body \in Seat
    BY <1>2, <1>5, MessageBody DEF HandleSeatReserved, Handling, IInv, TypeOK, M_TypeOK
  <2>3. row.state = "running" /\ row.seat = m.body
    BY <1>2 DEF Advance, SetSeat, Row
  <2>4. r.state = "running"
    BY <1>2, <2>1 DEF View
  <2>5. Commit(c, row, NewSagaStep(s, "ReserveSeat", "forward", "succeeded"),
               {NewMessage("Charge", s, r.amount)})
    BY <1>5 DEF HandleSeatReserved
  <2>6. /\ <<row.state, View(s)[2], View(s)[3], View(s)[4]>> \in Stage("Charge")
        /\ "Charge" \notin AfterPayment /\ row.seat # None
    BY <2>1, <2>2, <2>3, NoneAssumption DEF Stage, AfterPayment
  <2> HIDE DEF row
  <2> QED
    BY <1>3, <2>3, <2>4, <2>5, <2>6
<1>6. CASE HandleSeatReservationFailed(c)
  <2> DEFINE row == [r EXCEPT !.state = "failed"]
  <2>1. View(s) = <<"running", "none", "none", "none">>
    BY <1>2, <1>6 DEF HandleSeatReservationFailed, Handling, Stage
  <2>2. row.state = "failed"
    BY <1>2 DEF Row
  <2>3. Commit(c, row, NewSagaStep(s, "ReserveSeat", "forward", "failed"), {})
    BY <1>6 DEF HandleSeatReservationFailed
  <2>4. /\ <<row.state, View(s)[2], View(s)[3], View(s)[4]>> \in AtRest
        /\ <<View(s), <<row.state, View(s)[2], View(s)[3], View(s)[4]>> >> \in Course
    BY <2>1, <2>2 DEF AtRest, Course
  <2> HIDE DEF row
  <2> QED
    BY <1>4, <2>3, <2>4
<1>7. CASE HandleSeatReleased(c)
  <2> DEFINE row == [r EXCEPT !.state = "compensated"]
  <2>1. \/ View(s) = <<"compensating", "released", "refunded", "failed">>
        \/ View(s) = <<"compensating", "released", "failed", "none">>
    BY <1>2, <1>7 DEF HandleSeatReleased, Handling, Stage
  <2>2. IsCompensating(r)
    BY <1>2, <2>1 DEF View, IsCompensating
  <2>3. row.state = "compensated"
    BY <1>2 DEF Row
  <2>4. Commit(c, row, NewSagaStep(s, "ReserveSeat", "compensate", "succeeded"), {})
    BY <1>7, <2>2 DEF HandleSeatReleased
  <2>5. /\ <<row.state, View(s)[2], View(s)[3], View(s)[4]>> \in AtRest
        /\ <<View(s), <<row.state, View(s)[2], View(s)[3], View(s)[4]>> >> \in Course
    BY <2>1, <2>3 DEF AtRest, Course
  <2> HIDE DEF row
  <2> QED
    BY <1>4, <2>4, <2>5
<1>8. CASE HandlePaymentCharged(c)
  <2> DEFINE row == Advance([r EXCEPT !.payment = TRUE], "SendNotification")
  <2>1. View(s) = <<"running", "reserved", "charged", "none">> /\ r.seat # None
    BY <1>2, <1>8 DEF HandlePaymentCharged, Handling, Stage, KnowsIds, BeforeSeat
  <2>2. row.state = "running" /\ row.seat = r.seat /\ row.payment = TRUE
    BY <1>2 DEF Advance, Row
  <2>3. r.state = "running"
    BY <1>2, <2>1 DEF View
  <2>4. Commit(c, row, NewSagaStep(s, "ChargePayment", "forward", "succeeded"),
               {NewMessage("Send", s, r.channel)})
    BY <1>8 DEF HandlePaymentCharged
  <2>5. <<row.state, View(s)[2], View(s)[3], View(s)[4]>> \in Stage("Send")
    BY <2>1, <2>2 DEF Stage
  <2> HIDE DEF row
  <2> QED
    BY <1>3, <2>1, <2>2, <2>3, <2>4, <2>5
<1>9. CASE HandlePaymentFailed(c)
  <2> DEFINE row == TurnBack(r)
  <2>1. View(s) = <<"running", "reserved", "failed", "none">> /\ r.seat # None
    BY <1>2, <1>9 DEF HandlePaymentFailed, Handling, Stage, KnowsIds, BeforeSeat
  <2>2. ~IsCompensated(r) /\ ~IsCompensating(r)
    BY <1>2, <2>1 DEF View, IsCompensated, IsCompensating
  <2>3. row.state = "compensating" /\ row.seat = r.seat
    BY <1>2 DEF TurnBack, Row
  <2>4. Commit(c, row, NewSagaStep(s, "ChargePayment", "forward", "failed"),
               {NewMessage("ReleaseSeat", s, r.seat)})
    BY <1>9, <2>2 DEF HandlePaymentFailed
  <2>5. /\ <<row.state, View(s)[2], View(s)[3], View(s)[4]>> \in Stage("ReleaseSeat")
        /\ "ReleaseSeat" \notin AfterPayment
        /\ <<View(s), <<row.state, View(s)[2], View(s)[3], View(s)[4]>> >> \in Course
    BY <2>1, <2>3 DEF Stage, AfterPayment, Course
  <2> HIDE DEF row
  <2> QED
    BY <1>3, <2>1, <2>3, <2>4, <2>5
<1>10. CASE HandlePaymentRefunded(c)
  <2>1. View(s) = <<"compensating", "reserved", "refunded", "failed">> /\ r.seat # None
    BY <1>2, <1>10 DEF HandlePaymentRefunded, Handling, Stage, KnowsIds, BeforeSeat
  <2>2. IsCompensating(r) /\ r.state = "compensating"
    BY <1>2, <2>1 DEF View, IsCompensating
  <2>3. Commit(c, r, NewSagaStep(s, "ChargePayment", "compensate", "succeeded"),
               {NewMessage("ReleaseSeat", s, r.seat)})
    BY <1>10, <2>2 DEF HandlePaymentRefunded
  <2>4. /\ <<r.state, View(s)[2], View(s)[3], View(s)[4]>> \in Stage("ReleaseSeat")
        /\ "ReleaseSeat" \notin AfterPayment
    BY <2>1, <2>2 DEF Stage, AfterPayment
  <2> QED
    BY <1>3, <2>1, <2>3, <2>4
<1>11. CASE HandleNotificationSent(c)
  <2> DEFINE row == ResetSchedule([r EXCEPT !.notification = TRUE, !.state = "completed"])
  <2>1. View(s) = <<"running", "reserved", "charged", "sent">>
    BY <1>2, <1>11 DEF HandleNotificationSent, Handling, Stage
  <2>2. row.state = "completed"
    BY <1>2 DEF ResetSchedule, Row
  <2>3. Commit(c, row, NewSagaStep(s, "SendNotification", "forward", "succeeded"), {})
    BY <1>11 DEF HandleNotificationSent
  <2>4. /\ <<row.state, View(s)[2], View(s)[3], View(s)[4]>> \in AtRest
        /\ <<View(s), <<row.state, View(s)[2], View(s)[3], View(s)[4]>> >> \in Course
    BY <2>1, <2>2 DEF AtRest, Course
  <2> HIDE DEF row
  <2> QED
    BY <1>4, <2>3, <2>4
<1>12. CASE HandleNotificationFailed(c)
  <2> DEFINE row == TurnBack([r EXCEPT !.notification = TRUE])
  <2>1. /\ View(s) = <<"running", "reserved", "charged", "failed">>
        /\ r.seat # None /\ r.payment
    BY <1>2, <1>12
      DEF HandleNotificationFailed, Handling, Stage, KnowsIds, BeforeSeat, AfterPayment
  <2>2. ~IsCompensated(r) /\ ~IsCompensating(r)
    BY <1>2, <2>1 DEF View, IsCompensated, IsCompensating
  <2>3. row.state = "compensating" /\ row.seat = r.seat /\ row.payment = r.payment
    BY <1>2 DEF TurnBack, Row
  <2>4. Commit(c, row, NewSagaStep(s, "SendNotification", "forward", "failed"),
               {NewMessage("Refund", s, None)})
    BY <1>12, <2>2 DEF HandleNotificationFailed
  <2>5. /\ <<row.state, View(s)[2], View(s)[3], View(s)[4]>> \in Stage("Refund")
        /\ <<View(s), <<row.state, View(s)[2], View(s)[3], View(s)[4]>> >> \in Course
    BY <2>1, <2>3 DEF Stage, Course
  <2> HIDE DEF row
  <2> QED
    BY <1>3, <2>1, <2>3, <2>4, <2>5
<1> QED
  BY <1>5, <1>6, <1>7, <1>8, <1>9, <1>10, <1>11, <1>12 DEF HandleEvent

\* A booking is started.
LEMMA BookOnTime ==
    ASSUME IInv, OInv, BookStep
    PROVE  OInv' /\ OneMoves
<1>1. NoOtherTable
  BY DEF BookStep
<1>2. PICK s \in Saga, amount \in Amount, channel \in Channel :
          /\ saga[s] = NoRow
          /\ saga' = [saga EXCEPT ![s] = NewSaga(amount, channel)]
          /\ OutboxAppend({NewMessage("ReserveSeat", s, None)})
          /\ UNCHANGED <<inbox, steps, tx, dead>>
  BY DEF BookStep, StartBooking
<1>3. View(s)[1] = "none"
  BY <1>2 DEF View, NoRow
<1>4. Ended(s)
  <2>1. ASSUME NEW m \in outbox, At(s, m)
        PROVE  FALSE
    <3>1. m \in Message
      BY DEF IInv, TypeOK, M_TypeOK
    <3>2. \A v \in Stage(m.type) : v[1] # "none"
      BY <3>1 DEF Stage, Message, MessageOf
    <3> QED
      BY <1>3, <2>1, <3>2 DEF At
  <2> QED
    BY <2>1 DEF OInv, Underway
<1>5. Outstanding(s) = {} /\ View(s) = <<"none", "none", "none", "none">>
  BY <1>3, <1>4 DEF Ended, AtRest
<1>6. saga'[s].state = "running" /\ \A t \in Saga \ {s} : saga'[t] = saga[t]
  BY <1>2 DEF IInv, TypeOK, Orch_TypeOK, NewSaga, NoRow
<1>7. UNCHANGED <<reservation, payment, notification>>
  BY <1>1 DEF NoOtherTable, inventoryVars
<1>8. View(s)' = <<"running", "none", "none", "none">>
  BY <1>5, <1>6, <1>7 DEF View
<1>9. ASSUME NEW c \in Topic, tx[c] # None
      PROVE  tx[c].msg.saga # s
  BY <1>5, <1>9, HandlerAtWork DEF Outstanding
<1>10. Replaces(s, {NewMessage("ReserveSeat", s, None)})
  BY <1>2, <1>5, <1>6, <1>7, <1>9 DEF Replaces, SameElsewhere, OutboxAppend
<1>11. View(s)' \in Stage("ReserveSeat") /\ KnowsIds(s, "ReserveSeat")'
  BY <1>8 DEF Stage, KnowsIds, BeforeSeat, AfterPayment
<1>12. <<View(s), View(s)'>> \in Course
  BY <1>5, <1>8 DEF Course
<1> QED
  BY <1>10, <1>11, <1>12, HandOn, ReplacesMovesOne

\* A handler begins, or is cut off.
LEMMA QuietOnTime ==
    ASSUME IInv, OInv, UNCHANGED <<outbox, inbox, saga, dead>>, NoOtherTable, CopiesAreFresh'
    PROVE  OInv' /\ \A s \in Saga : View(s)' = View(s)
<1>1. UNCHANGED <<reservation, payment, notification>>
  BY DEF NoOtherTable, inventoryVars
<1>2. \A s \in Saga : View(s)' = View(s) /\ Outstanding(s)' = Outstanding(s)
  BY <1>1 DEF View, Outstanding
<1>3. (\A s \in Saga : Underway(s) \/ Ended(s))'
  BY <1>2 DEF OInv, Underway, Ended, At, KnowsIds
<1>4. IdsAreFresh'
  BY DEF OInv, IdsAreFresh, Emitted
<1> QED
  BY <1>2, <1>3, <1>4 DEF OInv

LEMMA BeginOnTime ==
    ASSUME IInv, OInv, BeginStep
    PROVE  OInv' /\ \A s \in Saga : View(s)' = View(s)
<1>1. PICK m \in outbox : Begin(m) /\ NoOtherTable
  BY DEF BeginStep
<1> DEFINE c == TopicOf(m.type)
<1>2. /\ m \in outbox \ inbox
      /\ tx' = [tx EXCEPT ![c] = [msg |-> m, row |-> saga[m.saga]]]
      /\ UNCHANGED <<outbox, inbox, saga, dead>>
  BY <1>1 DEF Begin
<1>3. tx \in [Topic -> {None} \cup [msg : Message, row : Row]]
  BY DEF IInv, TypeOK, Orch_TypeOK
<1>4. \A d \in Topic : tx'[d] = tx[d] \/ (d = c /\ tx'[d] = [msg |-> m, row |-> saga[m.saga]])
  BY <1>2, <1>3
<1>5. CopiesAreFresh'
  BY <1>2, <1>4 DEF OInv, CopiesAreFresh
<1> QED
  BY <1>1, <1>2, <1>5, QuietOnTime

LEMMA AbortOnTime ==
    ASSUME IInv, OInv, AbortStep
    PROVE  OInv' /\ \A s \in Saga : View(s)' = View(s)
<1>1. PICK c \in Topic : Abort(c) /\ NoOtherTable
  BY DEF AbortStep
<1>2. tx' = [tx EXCEPT ![c] = None] /\ UNCHANGED <<outbox, inbox, saga, dead>>
  BY <1>1 DEF Abort
<1>3. \A d \in Topic : tx'[d] = tx[d] \/ tx'[d] = None
  BY <1>2 DEF IInv, TypeOK, Orch_TypeOK
<1>4. CopiesAreFresh'
  BY <1>2, <1>3 DEF OInv, CopiesAreFresh
<1> QED
  BY <1>1, <1>2, <1>4, QuietOnTime

(***************************************************************************)
(* The invariant.                                                          *)
(***************************************************************************)
\* What can happen on time can happen.
LEMMA OnTimeIsNext == ASSUME [OnTimeNext]_vars PROVE [Next]_vars
  BY DEF OnTimeNext, BookStep, BeginStep, AbortStep, HandleStep, NoOtherTable,
         Next, OrchestratorStep, OrchestratorNext, ConsumeEvents

LEMMA InitOInv == ASSUME Init PROVE OInv
<1>1. outbox = {} /\ inbox = {} /\ dead = {} /\ \A c \in Topic : tx[c] = None
  BY DEF Init, M_Init, Orch_Init
<1>2. ASSUME NEW s \in Saga
      PROVE  Ended(s)
  <2>1. View(s) = <<"none", "none", "none", "none">>
    BY DEF Init, Inv_Init, Pay_Init, Not_Init, Orch_Init, View, NoRow, NoReservation
  <2> QED
    BY <1>1, <2>1 DEF Ended, Outstanding, AtRest
<1> QED
  BY <1>1, <1>2 DEF OInv, CopiesAreFresh, IdsAreFresh

\* Every step keeps the invariant, and moves one saga at most.
LEMMA StepOInv ==
    ASSUME IInv, OInv, [OnTimeNext]_vars
    PROVE  OInv' /\ (OneMoves \/ \A s \in Saga : View(s)' = View(s))
<1>1. CASE BookStep
  BY <1>1, BookOnTime
<1>2. CASE InventoryStep
  BY <1>2, InventoryOnTime
<1>3. CASE PaymentStep
  BY <1>3, PaymentOnTime
<1>4. CASE NotificationStep
  BY <1>4, NotificationOnTime
<1>5. CASE BeginStep
  BY <1>5, BeginOnTime
<1>6. CASE AbortStep
  BY <1>6, AbortOnTime
<1>7. ASSUME NEW c \in Topic, HandleStep(c)
      PROVE  OInv' /\ OneMoves
  BY <1>7, HandlerOnTime, NoReplyIsRefused DEF HandleStep, DeadLetter
<1>8. CASE UNCHANGED vars
  <2>1. UNCHANGED <<outbox, inbox, saga, dead>> /\ NoOtherTable /\ tx' = tx
    BY <1>8 DEF vars, NoOtherTable, inventoryVars
  <2>2. CopiesAreFresh'
    BY <2>1 DEF OInv, CopiesAreFresh
  <2> QED
    BY <2>1, <2>2, QuietOnTime
<1> QED
  BY <1>1, <1>2, <1>3, <1>4, <1>5, <1>6, <1>7, <1>8 DEF OnTimeNext

\* As long as no reply is late a saga is a token that is handed on: one message at
\* a time about it, no stale copy of its row, and never a dead letter.
THEOREM OnTimeInvariantHolds == OnTimeSpec => [](IInv /\ OInv)
<1>1. Init => IInv /\ OInv
  BY InitIInv, InitOInv
<1>2. IInv /\ OInv /\ [OnTimeNext]_vars => IInv' /\ OInv'
  BY OnTimeIsNext, StepIInv, StepOInv
<1> QED
  BY <1>1, <1>2, PTL DEF OnTimeSpec

(***************************************************************************)
(* The promise.                                                            *)
(***************************************************************************)
\* What SagaPattern sees of a view.
Seen(v) ==
    {what \in {"seat", "money", "notice"} :
        \/ what = "seat" /\ v[2] = "reserved"
        \/ what = "money" /\ v[3] = "charged"
        \/ what = "notice" /\ v[4] = "sent"}

LEMMA SeenIsHeld ==
    ASSUME NEW s \in Saga
    PROVE  /\ HeldBy(s) = Seen(View(s)) /\ saga[s].state = View(s)[1]
           /\ HeldBy(s)' = Seen(View(s)') /\ saga'[s].state = View(s)'[1]
  BY DEF HeldBy, HoldsSeat, Seen, View

\* What each move of the course is to SagaPattern.
LEMMA CourseIsSeen ==
    ASSUME NEW v, NEW w, <<v, w>> \in Course
    PROVE  \/ /\ PhaseOf(v[1]) = "none" /\ PhaseOf(w[1]) = "forward"
              /\ Seen(v) = Seen(w)
           \/ /\ PhaseOf(v[1]) = "forward" /\ PhaseOf(w[1]) = "rejected"
              /\ Seen(v) = {} /\ Seen(w) = {}
           \/ /\ PhaseOf(v[1]) = "forward" /\ PhaseOf(w[1]) = "forward"
              /\ \/ Seen(w) = Seen(v)
                 \/ Seen(v) = {} /\ Seen(w) = {"seat"}
                 \/ Seen(v) = {"seat"} /\ Seen(w) = {"seat", "money"}
                 \/ Seen(v) = {"seat", "money"} /\ Seen(w) = {"seat", "money", "notice"}
           \/ /\ PhaseOf(v[1]) = "forward" /\ PhaseOf(w[1]) = "booked"
              /\ Seen(v) = {"seat", "money", "notice"} /\ Seen(w) = Seen(v)
           \/ /\ PhaseOf(v[1]) = "forward" /\ PhaseOf(w[1]) = "backward"
              /\ Seen(v) # {"seat", "money", "notice"} /\ Seen(w) = Seen(v)
           \/ /\ PhaseOf(v[1]) = "backward" /\ PhaseOf(w[1]) = "backward"
              /\ \/ Seen(v) = {"seat", "money"} /\ Seen(w) = {"seat"}
                 \/ Seen(v) = {"seat"} /\ Seen(w) = {}
           \/ /\ PhaseOf(v[1]) = "backward" /\ PhaseOf(w[1]) = "rejected"
              /\ Seen(v) = {} /\ Seen(w) = {}
  BY DEF Course, PhaseOf, Seen

LEMMA MoveIsPattern ==
    ASSUME NEW s \in Saga, <<View(s), View(s)'>> \in Course,
           \A t \in Saga \ {s} : View(t)' = View(t)
    PROVE  [Pattern!PatternNext]_(Pattern!PatternVars)
<1> DEFINE phase == [t \in Saga |-> PhaseOf(saga[t].state)]
           held  == [t \in Saga |-> HeldBy(t)]
<1> PICK v, w : v = View(s) /\ w = View(s)'
  OBVIOUS
<1>1. /\ phase' = [phase EXCEPT ![s] = PhaseOf(w[1])] /\ phase[s] = PhaseOf(v[1])
      /\ held' = [held EXCEPT ![s] = Seen(w)] /\ held[s] = Seen(v)
  BY SeenIsHeld
<1>2. ASSUME NEW from, NEW to, PhaseOf(v[1]) = from, PhaseOf(w[1]) = to
      PROVE  Pattern!Move(s, from, to)
  BY <1>1, <1>2 DEF Pattern!Move
<1>3. PhaseOf(w[1]) = PhaseOf(v[1]) => phase' = phase
  BY <1>1
<1>4. Seen(w) = Seen(v) => held' = held
  BY <1>1
<1>5. ASSUME NEW from, NEW to, Seen(v) = from, Seen(w) = to
      PROVE  Pattern!Change(s, from, to)
  BY <1>1, <1>5 DEF Pattern!Change
<1>6. /\ Pattern!Taken(0) = {}
      /\ Pattern!Taken(1) = {"seat"}
      /\ Pattern!Taken(2) = {"seat", "money"}
      /\ Pattern!Taken(3) = {"seat", "money", "notice"}
      /\ Pattern!Everything = {"seat", "money", "notice"}
  BY DEF Pattern!Taken, Pattern!Everything
<1>7. CASE PhaseOf(v[1]) = "none" /\ PhaseOf(w[1]) = "forward" /\ Seen(w) = Seen(v)
  BY <1>2, <1>4, <1>7 DEF Pattern!PatternNext, Pattern!Open
<1>8. CASE /\ PhaseOf(v[1]) \in {"forward", "backward"} /\ PhaseOf(w[1]) = "rejected"
           /\ Seen(v) = {} /\ Seen(w) = {}
  BY <1>1, <1>2, <1>4, <1>6, <1>8 DEF Pattern!PatternNext, Pattern!Work, Pattern!Reject
<1>9. CASE PhaseOf(w[1]) = PhaseOf(v[1]) /\ Seen(w) = Seen(v)
  BY <1>3, <1>4, <1>9 DEF Pattern!PatternVars
<1>10. CASE /\ PhaseOf(v[1]) = "forward" /\ PhaseOf(w[1]) = "forward"
            /\ \/ Seen(v) = {} /\ Seen(w) = {"seat"}
               \/ Seen(v) = {"seat"} /\ Seen(w) = {"seat", "money"}
               \/ Seen(v) = {"seat", "money"} /\ Seen(w) = {"seat", "money", "notice"}
  <2>1. \E n \in 1 .. 3 : Pattern!Change(s, Pattern!Taken(n - 1), Pattern!Taken(n))
    <3>1. \E n \in 1 .. 3 : Seen(v) = Pattern!Taken(n - 1) /\ Seen(w) = Pattern!Taken(n)
      BY <1>6, <1>10
    <3> QED
      BY <1>5, <3>1
  <2> QED
    BY <1>1, <1>3, <1>10, <2>1 DEF Pattern!PatternNext, Pattern!Work, Pattern!Take
<1>11. CASE /\ PhaseOf(v[1]) = "forward" /\ PhaseOf(w[1]) = "booked"
            /\ Seen(v) = {"seat", "money", "notice"} /\ Seen(w) = Seen(v)
  BY <1>1, <1>2, <1>4, <1>6, <1>11 DEF Pattern!PatternNext, Pattern!Work, Pattern!Book
<1>12. CASE /\ PhaseOf(v[1]) = "forward" /\ PhaseOf(w[1]) = "backward"
            /\ Seen(v) # {"seat", "money", "notice"} /\ Seen(w) = Seen(v)
  BY <1>1, <1>2, <1>4, <1>6, <1>12 DEF Pattern!PatternNext, Pattern!Work, Pattern!TurnBack
<1>13. CASE /\ PhaseOf(v[1]) = "backward" /\ PhaseOf(w[1]) = "backward"
            /\ \/ Seen(v) = {"seat", "money"} /\ Seen(w) = {"seat"}
               \/ Seen(v) = {"seat"} /\ Seen(w) = {}
  <2>1. \E n \in 1 .. 3 : Pattern!Change(s, Pattern!Taken(n), Pattern!Taken(n - 1))
    <3>1. \E n \in 1 .. 3 : Seen(v) = Pattern!Taken(n) /\ Seen(w) = Pattern!Taken(n - 1)
      BY <1>6, <1>13
    <3> QED
      BY <1>5, <3>1
  <2> QED
    BY <1>1, <1>3, <1>13, <2>1 DEF Pattern!PatternNext, Pattern!Work, Pattern!GiveBack
<1> QED
  BY CourseIsSeen, <1>7, <1>8, <1>9, <1>10, <1>11, <1>12, <1>13

LEMMA StepOfPattern ==
    ASSUME IInv, OInv, [OnTimeNext]_vars
    PROVE  [Pattern!PatternNext]_(Pattern!PatternVars)
<1>1. CASE \A s \in Saga : View(s)' = View(s)
  BY <1>1, SeenIsHeld DEF Pattern!PatternVars
<1>2. ASSUME NEW s \in Saga, View(s)' = View(s) \/ <<View(s), View(s)'>> \in Course,
             \A t \in Saga \ {s} : View(t)' = View(t)
      PROVE  [Pattern!PatternNext]_(Pattern!PatternVars)
  BY <1>1, <1>2, MoveIsPattern
<1> QED
  BY <1>1, <1>2, StepOInv DEF OneMoves

\* As long as no reply is late the services and the orchestrator keep the promise:
\* seat, money and notice are taken in this order, all of them when the booking is
\* completed, and given back, last first, all of them when it is not.
THEOREM OnTimeBookingKeepsPromise == OnTimeSpec => KeepsSafetyPromise
<1>1. Init => Pattern!PatternInit
  BY DEF Init, Inv_Init, Pay_Init, Not_Init, Orch_Init, NoRow, NoReservation,
         Pattern!PatternInit, Pattern!Taken, PhaseOf, HeldBy, HoldsSeat
<1>2. IInv /\ OInv /\ [OnTimeNext]_vars => [Pattern!PatternNext]_(Pattern!PatternVars)
  BY StepOfPattern
<1> QED
  BY <1>1, <1>2, OnTimeInvariantHolds, PTL DEF OnTimeSpec, KeepsSafetyPromise

(***************************************************************************)
(* What the repository says of the program, and what late replies break:   *)
(* on time all three hold.                                                 *)
(***************************************************************************)
\* A saga that has ended is at rest.
LEMMA EndedRests ==
    ASSUME IInv, OInv, NEW s \in Saga, saga[s].state \in FinalStates
    PROVE  View(s) \in AtRest
<1>1. ASSUME NEW m \in outbox, At(s, m)
      PROVE  FALSE
  <2>1. m \in Message
    BY DEF IInv, TypeOK, M_TypeOK
  <2>2. \A v \in Stage(m.type) : v[1] \notin FinalStates
    BY <2>1 DEF Stage, Message, MessageOf, FinalStates
  <2> QED
    BY <1>1, <2>2, SeenIsHeld DEF At
<1> QED
  BY <1>1 DEF OInv, Underway, Ended

\* A booking that HandleNotificationSent completes on time keeps its seat.
THEOREM OnTimeCompletedHoldsSeat == OnTimeSpec => []CompletedHoldsSeat
<1>1. IInv /\ OInv => CompletedHoldsSeat
  BY EndedRests DEF CompletedHoldsSeat, FinalStates, HoldsSeat, AtRest, View
<1> QED
  BY <1>1, OnTimeInvariantHolds, PTL

\* A saga that HandleSeatReleased compensates on time has no charge left standing.
THEOREM OnTimeCompensatedIsRefunded == OnTimeSpec => []CompensatedIsRefunded
<1>1. IInv /\ OInv => CompensatedIsRefunded
  BY EndedRests DEF CompensatedIsRefunded, FinalStates, AtRest, View
<1> QED
  BY <1>1, OnTimeInvariantHolds, PTL

\* No event handler revives a saga that has ended.
THEOREM OnTimeOutcomeIsFinal == OnTimeSpec => OutcomeIsFinal
<1>1. ASSUME IInv, OInv, [OnTimeNext]_vars
      PROVE  StateIsFinal
  <2> SUFFICES ASSUME NEW s \in Saga, saga[s].state \in FinalStates
               PROVE  saga'[s].state = saga[s].state
    BY DEF StateIsFinal
  <2>1. View(s) \in AtRest /\ View(s)[1] \in FinalStates
    BY <1>1, EndedRests, SeenIsHeld
  <2>2. \A w : <<View(s), w>> \notin Course
    BY <2>1 DEF AtRest, FinalStates, Course
  <2>3. View(s)' = View(s)
    BY <1>1, <2>2, StepOInv DEF OneMoves
  <2> QED
    BY <2>3 DEF View
<1>2. IInv /\ OInv /\ [OnTimeNext]_vars => [StateIsFinal]_vars
  BY <1>1
<1> QED
  BY <1>2, OnTimeInvariantHolds, PTL DEF OnTimeSpec, OutcomeIsFinal
=============================================================================
