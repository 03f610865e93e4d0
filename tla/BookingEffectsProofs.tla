-------------------------- MODULE BookingEffectsProofs --------------------------
(***************************************************************************)
(* Proof that BookingSystem implements BookingEffects, for any set of      *)
(* sagas, any set of seats and any limits.                                 *)
(*                                                                         *)
(* The argument.  Only the services' steps are seen, and such a step does  *)
(* what the answered command stands for (ServiceAnswers).  What had to be  *)
(* done before follows from what the command stands for (IInv, and HInv    *)
(* for the charge); that the effect was not done in either way, from the   *)
(* row it leaves, which says one thing only; that the seat was free, from  *)
(* SeatsMatchReservations after the step.                                  *)
(***************************************************************************)
EXTENDS BookingHistoryProofs

\* What had to be done before the answer to a command was done.
LEMMA CommandIsJustified ==
    ASSUME IInv, HInv, NEW m \in outbox, NEW what \in EffectEvent, Answers(m.type, what)
    PROVE  Effects!Before(what) \subseteq DoneFor(m.saga)
<1>1. m.saga \in Saga /\ MessageOK(m)
  BY MessageBody DEF IInv, TypeOK, M_TypeOK
<1>2. CASE what = "SeatReserved"
  BY <1>2 DEF Effects!Before
<1>3. CASE what = "SeatReleased"
  <2>1. Done("SeatReserved", m.saga)
    BY <1>1, <1>3, DoneDef DEF Answers, MessageOK, HadSeat
  <2> QED
    BY <1>3, <2>1, EffectEvents DEF Effects!Before, DoneFor
<1>4. CASE what \in {"Charged", "PaymentFailed"}
  <2>1. m.type = "Charge"
    BY <1>4 DEF Answers
  <2>2. saga[m.saga].seat # None
    BY <2>1 DEF HInv, SeatColumnOK, Downstream, AfterSeat
  <2>3. Done("SeatReserved", m.saga)
    BY <1>1, <2>2, DoneDef DEF IInv, RowsOK, RowOK, Truthful
  <2> QED
    BY <1>4, <2>3, EffectEvents DEF Effects!Before, DoneFor
<1>5. CASE what \in {"Sent", "NotificationFailed"}
  <2>1. Done("Charged", m.saga)
    BY <1>1, <1>5, DoneDef DEF Answers, MessageOK, Paid
  <2> QED
    BY <1>5, <2>1, EffectEvents DEF Effects!Before, DoneFor
<1>6. CASE what = "Refunded"
  <2>1. Done("NotificationFailed", m.saga)
    BY <1>1, <1>6, DoneDef DEF Answers, MessageOK
  <2> QED
    BY <1>6, <2>1, EffectEvents DEF Effects!Before, DoneFor
<1> QED
  BY <1>2, <1>3, <1>4, <1>5, <1>6, EffectEvents

\* An effect was not done before, nor was the one that it is done instead of.
LEMMA EffectIsFirst ==
    ASSUME NEW n, n.saga \in Saga, n.type \in EffectEvent, DoesEffect(n)
    PROVE  Effects!Either(n.type) \cap DoneFor(n.saga) = {}
<1>1. ~Done(n.type, n.saga) /\ Done(n.type, n.saga)'
  BY DEF DoesEffect
<1>2. \A type \in EffectEvent : type # n.type => (Done(type, n.saga)' <=> Done(type, n.saga))
  BY DEF DoesEffect
<1>3. CASE n.type \in {"SeatReserved", "SeatReleased", "Refunded"}
  BY <1>1, <1>3 DEF Effects!Either, DoneFor
<1>4. CASE n.type \in {"Charged", "PaymentFailed"}
  <2>1. ~(Done("Charged", n.saga)' /\ Done("PaymentFailed", n.saga)')
    BY DoneDefNext
  <2> QED
    BY <1>1, <1>2, <1>4, <2>1, EffectEvents DEF Effects!Either, DoneFor
<1>5. CASE n.type \in {"Sent", "NotificationFailed"}
  <2>1. ~(Done("Sent", n.saga)' /\ Done("NotificationFailed", n.saga)')
    BY DoneDefNext
  <2> QED
    BY <1>1, <1>2, <1>5, <2>1, EffectEvents DEF Effects!Either, DoneFor
<1> QED
  BY <1>3, <1>4, <1>5, EffectEvents

\* What is done for the sagas after that.
LEMMA EffectIsDone ==
    ASSUME NEW n, n.saga \in Saga, n.type \in EffectEvent, DoesEffect(n)
    PROVE  /\ DoneFor(n.saga)' = DoneFor(n.saga) \cup {n.type}
           /\ \A s \in Saga \ {n.saga} : DoneFor(s)' = DoneFor(s)
<1>1. DoneFor(n.saga)' = {type \in EffectEvent : Done(type, n.saga)'}
  BY DEF DoneFor
<1> QED
  BY <1>1 DEF DoesEffect, DoneFor

\* A service that answers with an effect does it as BookingEffects allows.
LEMMA AnswerDoes ==
    ASSUME IInv, HInv, NEW m \in outbox, NEW n \in Message, n.saga = m.saga,
           n.type \in EffectEvent, Answers(m.type, n.type), DoesEffect(n)
    PROVE  Effects!Do(n.saga, n.type)
<1>1. n.saga \in Saga
  BY MessageBody
<1>2. Effects!Before(n.type) \subseteq DoneFor(n.saga)
  BY CommandIsJustified
<1>3. Effects!Either(n.type) \cap DoneFor(n.saga) = {}
  BY <1>1, EffectIsFirst
<1>4. /\ DoneFor(n.saga)' = DoneFor(n.saga) \cup {n.type}
      /\ \A s \in Saga \ {n.saga} : DoneFor(s)' = DoneFor(s)
  BY <1>1, EffectIsDone
<1> QED
  BY <1>1, <1>2, <1>3, <1>4 DEF Effects!Do

\* What a saga holds changes with two effects only.
LEMMA EffectMovesSeat ==
    ASSUME IInv, EffectsOnce, IInv', SeatsMatchReservations',
           NEW n, n.saga \in Saga, DoesEffect(n)
    PROVE  /\ \A s \in Saga \ {n.saga} : SeatOf(s)' = SeatOf(s)
           /\ n.type = "SeatReserved" =>
                  /\ SeatOf(n.saga)' \in Seat
                  /\ \A s \in Saga : SeatOf(s) # SeatOf(n.saga)'
           /\ n.type = "SeatReleased" => SeatOf(n.saga)' = None
           /\ n.type \notin {"SeatReserved", "SeatReleased"} =>
                  SeatOf(n.saga)' = SeatOf(n.saga)
<1>1. /\ \A s \in Saga : reservation[s] \in {NoReservation}
                              \cup [status : {"reserved", "released"}, seat : Seat]
      /\ \A s \in Saga : reservation'[s] \in {NoReservation}
                              \cup [status : {"reserved", "released"}, seat : Seat]
  BY DEF IInv, TypeOK, Inv_TypeOK
<1>2. ASSUME NEW s \in Saga,
             Done("SeatReserved", s)' <=> Done("SeatReserved", s),
             Done("SeatReleased", s)' <=> Done("SeatReleased", s)
      PROVE  reservation'[s] = reservation[s]
  <2>1. /\ reservation[s].status = "none" <=> reservation'[s].status = "none"
        /\ reservation[s].status = "released" <=> reservation'[s].status = "released"
    BY <1>2, DoneDef, DoneDefNext
  <2>2. \/ reservation'[s] = reservation[s]
        \/ reservation[s].status = "none" /\ reservation'[s].status = "reserved"
        \/ /\ reservation[s].status = "reserved"
           /\ reservation'[s] = [reservation[s] EXCEPT !.status = "released"]
    BY DEF EffectsOnce
  <2> QED
    BY <1>1, <2>1, <2>2 DEF NoReservation
<1>3. \A s \in Saga : s # n.saga \/ n.type \notin {"SeatReserved", "SeatReleased"} =>
          reservation'[s] = reservation[s]
  BY <1>2, EffectEvents DEF DoesEffect
<1>4. \A s \in Saga : s # n.saga \/ n.type \notin {"SeatReserved", "SeatReleased"} =>
          SeatOf(s)' = SeatOf(s)
  BY <1>3 DEF SeatOf, HoldsSeat
<1>5. CASE n.type = "SeatReserved"
  <2>1. ~Done("SeatReserved", n.saga) /\ Done("SeatReserved", n.saga)'
    BY <1>5, EffectEvents DEF DoesEffect
  <2>2. Done("SeatReleased", n.saga)' <=> Done("SeatReleased", n.saga)
    BY <1>5, EffectEvents DEF DoesEffect
  <2>3. reservation[n.saga].status = "none" /\ reservation'[n.saga].status = "reserved"
    BY <1>1, <2>1, <2>2, DoneDef, DoneDefNext DEF NoReservation
  <2> PICK x : x = reservation'[n.saga].seat
    OBVIOUS
  <2>4. x \in Seat /\ SeatOf(n.saga)' = x
    BY <1>1, <2>3 DEF SeatOf, HoldsSeat, NoReservation
  <2>5. ASSUME NEW s \in Saga
        PROVE  SeatOf(s) # x
    <3>1. CASE s = n.saga
      BY <2>3, <2>4, <3>1, NoneAssumption DEF SeatOf, HoldsSeat
    <3>2. CASE s # n.saga
      <4>1. ~(HoldsSeat(s)' /\ reservation'[s].seat = x)
        BY <2>3, <2>4, <3>2 DEF SeatsMatchReservations, HoldsSeat
      <4>2. reservation'[s] = reservation[s]
        BY <1>3, <3>2
      <4> QED
        BY <2>4, <4>1, <4>2, NoneAssumption DEF SeatOf, HoldsSeat
    <3> QED
      BY <3>1, <3>2
  <2> QED
    BY <1>4, <1>5, <2>4, <2>5
<1>6. CASE n.type = "SeatReleased"
  <2>1. Done("SeatReleased", n.saga)'
    BY <1>6, EffectEvents DEF DoesEffect
  <2>2. SeatOf(n.saga)' = None
    BY <2>1, DoneDefNext DEF SeatOf, HoldsSeat
  <2> QED
    BY <1>4, <1>6, <2>2
<1> QED
  BY <1>4, <1>5, <1>6

\* Tables that do not change show nothing.
LEMMA SameTablesStutter ==
    ASSUME UNCHANGED <<reservation, payment, notification>>
    PROVE  UNCHANGED Effects!EffectsVars
<1>1. \A s \in Saga : DoneFor(s)' = DoneFor(s)
  BY SameEffects DEF DoneFor
<1>2. \A s \in Saga : SeatOf(s)' = SeatOf(s)
  BY DEF SeatOf, HoldsSeat
<1> QED
  BY <1>1, <1>2 DEF Effects!EffectsVars

LEMMA StepOfEffects ==
    ASSUME IInv, HInv, IInv', SeatsMatchReservations', [Next]_vars
    PROVE  [Effects!EffectsNext]_(Effects!EffectsVars)
<1>1. EffectsOnce
  BY StepEffectsOnce DEF IInv
<1>2. CASE OrchestratorStep \/ UNCHANGED vars
  BY <1>2, SameTablesStutter DEF OrchestratorStep, inventoryVars, vars
<1>3. CASE InventoryStep \/ PaymentStep \/ NotificationStep
  <2>1. PICK m \in outbox :
            \/ UNCHANGED <<reservation, payment, notification>>
            \/ \E n \in Message :
                  n.saga = m.saga /\ Answers(m.type, n.type) /\ DoesEffect(n)
    BY <1>3, ServiceAnswers DEF ServiceAnswered
  <2>2. ASSUME NEW n \in Message, n.saga = m.saga, Answers(m.type, n.type), DoesEffect(n)
        PROVE  [Effects!EffectsNext]_(Effects!EffectsVars)
    <3>1. n.saga \in Saga
      BY MessageBody
    <3>2. /\ \A s \in Saga \ {n.saga} : SeatOf(s)' = SeatOf(s)
          /\ n.type = "SeatReserved" =>
                 /\ SeatOf(n.saga)' \in Seat
                 /\ \A s \in Saga : SeatOf(s) # SeatOf(n.saga)'
          /\ n.type = "SeatReleased" => SeatOf(n.saga)' = None
          /\ n.type \notin {"SeatReserved", "SeatReleased"} =>
                 SeatOf(n.saga)' = SeatOf(n.saga)
      BY <1>1, <2>2, <3>1, EffectMovesSeat
    <3>3. CASE n.type = "SeatReservationFailed"
      <4>1. \A s \in Saga : DoneFor(s)' = DoneFor(s)
        BY <2>2, <3>3 DEF DoesEffect, DoneFor, EffectEvent
      <4>2. \A s \in Saga : SeatOf(s)' = SeatOf(s)
        BY <3>2, <3>3
      <4> QED
        BY <4>1, <4>2 DEF Effects!EffectsVars
    <3>4. CASE n.type \in EffectEvent
      <4>1. Effects!Do(n.saga, n.type)
        BY <2>2, <3>4, AnswerDoes
      <4>2. CASE n.type = "SeatReserved"
        <5> PICK x : x = SeatOf(n.saga)'
          OBVIOUS
        <5>1. x \in Seat /\ \A s \in Saga : SeatOf(s) # x
          BY <3>2, <4>2
        <5>2. [s \in Saga |-> SeatOf(s)'] = [[s \in Saga |-> SeatOf(s)] EXCEPT ![n.saga] = x]
          BY <3>1, <3>2
        <5> QED
          BY <3>1, <4>1, <4>2, <5>1, <5>2 DEF Effects!EffectsNext, Effects!Reserve
      <4>3. CASE n.type = "SeatReleased"
        <5>1. [s \in Saga |-> SeatOf(s)'] = [[s \in Saga |-> SeatOf(s)] EXCEPT ![n.saga] = None]
          BY <3>1, <3>2, <4>3
        <5> QED
          BY <3>1, <4>1, <4>3, <5>1 DEF Effects!EffectsNext, Effects!Release
      <4>4. CASE n.type \notin {"SeatReserved", "SeatReleased"}
        <5>1. \A s \in Saga : SeatOf(s)' = SeatOf(s)
          BY <3>2, <4>4
        <5>2. n.type \in Effects!Effect \ {"SeatReserved", "SeatReleased"}
          BY <3>4, <4>4, EffectEvents DEF Effects!Effect
        <5> QED
          BY <3>1, <4>1, <5>1, <5>2 DEF Effects!EffectsNext, Effects!PayOrTell
      <4> QED
        BY <4>2, <4>3, <4>4
    <3> QED
      BY <2>2, <3>3, <3>4, EffectEvents DEF Answers
  <2> QED
    BY <2>1, <2>2, SameTablesStutter
<1> QED
  BY <1>2, <1>3 DEF Next

\* Whatever is delivered late, twice, out of order or never, and however the handlers
\* and the scheduler interleave: the services together do what BookingEffects allows.
THEOREM ServicesKeepOrder == Spec => EffectsInOrder
<1>1. Init => Effects!EffectsInit
  <2> SUFFICES ASSUME Init
               PROVE  Effects!EffectsInit
    OBVIOUS
  <2>1. \A s \in Saga : /\ reservation[s].status = "none"
                        /\ payment[s] = "none" /\ notification[s] = "none"
    BY DEF Init, Inv_Init, Pay_Init, Not_Init, NoReservation
  <2>2. \A s \in Saga : DoneFor(s) = {} /\ SeatOf(s) = None
    BY <2>1, DoneDef, EffectEvents DEF DoneFor, SeatOf, HoldsSeat
  <2> QED
    BY <2>2 DEF Effects!EffectsInit
<1>2. /\ IInv /\ HInv /\ IInv' /\ SeatsMatchReservations' /\ [Next]_vars
      => [Effects!EffectsNext]_(Effects!EffectsVars)
  BY StepOfEffects
<1> QED
  BY <1>1, <1>2, InvariantHolds, HistoryInvariantHolds, SeatsNeverDoubleBooked, PTL
    DEF Spec, EffectsInOrder, Effects!EffectsSpec
=============================================================================
