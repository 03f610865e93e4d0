----------------------------- MODULE BookingEffects -----------------------------
(***************************************************************************)
(* What the three services together do for the sagas, without messages,    *)
(* tables or an orchestrator.  It is what is left of the promise of        *)
(* SagaPattern when replies may be late: nothing is said of how a saga     *)
(* ends, but every effect is done once at most and only after the ones     *)
(* that justify it.                                                        *)
(***************************************************************************)
CONSTANTS Saga, Seat, None

VARIABLES
    done, \* done[s]: the effects done for saga s, named for the events that tell of them
    holds \* holds[s]: the seat that saga s holds, or None

Effect == {"SeatReserved", "SeatReleased", "Charged", "PaymentFailed", "Refunded",
           "Sent", "NotificationFailed"}

\* What was done before: nobody pays who never had a seat, nobody is told who did
\* not pay, and money goes back only if the customer could not be told.
Before(what) ==
    CASE what = "SeatReserved"                                -> {}
      [] what \in {"SeatReleased", "Charged", "PaymentFailed"} -> {"SeatReserved"}
      [] what \in {"Sent", "NotificationFailed"}               -> {"Charged"}
      [] what = "Refunded"                                    -> {"NotificationFailed"}

\* What is done once, in one way.
Either(what) ==
    CASE what \in {"Charged", "PaymentFailed"}                    -> {"Charged", "PaymentFailed"}
      [] what \in {"Sent", "NotificationFailed"}                  -> {"Sent", "NotificationFailed"}
      [] what \in {"SeatReserved", "SeatReleased", "Refunded"} -> {what}

EffectsInit ==
    /\ done = [s \in Saga |-> {}]
    /\ holds = [s \in Saga |-> None]

Do(s, what) ==
    /\ Before(what) \subseteq done[s]
    /\ Either(what) \cap done[s] = {}
    /\ done' = [done EXCEPT ![s] = done[s] \cup {what}]

\* Reserved is a seat that nobody holds.
Reserve(s) ==
    /\ Do(s, "SeatReserved")
    /\ \E x \in Seat :
          /\ \A t \in Saga : holds[t] # x
          /\ holds' = [holds EXCEPT ![s] = x]

Release(s) ==
    /\ Do(s, "SeatReleased")
    /\ holds' = [holds EXCEPT ![s] = None]

PayOrTell(s) ==
    /\ \E what \in Effect \ {"SeatReserved", "SeatReleased"} : Do(s, what)
    /\ UNCHANGED holds

EffectsNext == \E s \in Saga : Reserve(s) \/ Release(s) \/ PayOrTell(s)

EffectsVars == <<done, holds>>

EffectsSpec == EffectsInit /\ [][EffectsNext]_EffectsVars
=============================================================================
