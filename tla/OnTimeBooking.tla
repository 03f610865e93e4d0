----------------------------- MODULE OnTimeBooking -----------------------------
(***************************************************************************)
(* The system when every event reaches the orchestrator before the saga's  *)
(* next attempt is due, so that the scheduler finds nothing to do.         *)
(* Handlers still interleave, messages still come in any order and more    *)
(* than once, and transactions may still fail.  Then the booking keeps the *)
(* promise of SagaPattern, which it breaks once a retry or an escalation   *)
(* meets a late event (CompensatedIsRefunded, CompletedHoldsSeat,          *)
(* OutcomeIsFinal of BookingSystem).                                       *)
(***************************************************************************)
EXTENDS BookingSystem

NoOtherTable == UNCHANGED <<inventoryVars, payment, notification>>

BookStep      == \E s \in Saga : StartBooking(s) /\ NoOtherTable
BeginStep     == \E m \in outbox : Begin(m) /\ NoOtherTable
HandleStep(c) == (HandleEvent(c) \/ DeadLetter(c)) /\ NoOtherTable
AbortStep     == \E c \in Topic : Abort(c) /\ NoOtherTable

OnTimeNext ==
    \/ BookStep \/ InventoryStep \/ PaymentStep \/ NotificationStep
    \/ BeginStep \/ AbortStep
    \/ \E c \in Topic : HandleStep(c)

OnTimeSpec == Init /\ [][OnTimeNext]_vars

\* The process of the orchestrator dies and is started again: its open transactions
\* are gone, and as their offsets were not committed, their messages are handed out
\* again.
Crash ==
    /\ \E c \in Topic : tx[c] # None
    /\ tx' = [c \in Topic |-> None]
    /\ UNCHANGED <<outbox, inbox, saga, steps, dead>>
    /\ NoOtherTable

\* No transaction fails while its process lives: Consumer.Run would commit the offset
\* of its message, which is then lost (NothingIsLost of Delivery), and no saga in the
\* middle of its course could be promised an end.
PunctualNext ==
    \/ BookStep \/ InventoryStep \/ PaymentStep \/ NotificationStep
    \/ BeginStep \/ Crash
    \/ \E c \in Topic : HandleStep(c)

\* Every consumer goes on taking messages: Consumer.Run is a loop that blocks on
\* nothing but the next message, and the relay publishes every committed row.  The
\* orchestrator does not die in the middle of a handler again and again.
\* StartBooking is a client's choice, and has no fairness.
PunctualSpec ==
    /\ Init /\ [][PunctualNext]_vars
    /\ WF_vars(InventoryStep)
    /\ WF_vars(PaymentStep)
    /\ WF_vars(NotificationStep)
    /\ WF_vars(BeginStep)
    /\ \A c \in Topic : SF_vars(HandleStep(c))

(***************************************************************************)
(* The refinement: what a saga holds is read off the tables of the three   *)
(* services, where it stands off the row of the orchestrator.              *)
(***************************************************************************)
HeldBy(s) ==
    {what \in {"seat", "money", "notice"} :
        \/ what = "seat" /\ HoldsSeat(s)
        \/ what = "money" /\ payment[s] = "charged"
        \/ what = "notice" /\ notification[s] = "sent"}

PhaseOf(state) ==
    CASE state = "none"                     -> "none"
      [] state = "running"                  -> "forward"
      [] state = "compensating"             -> "backward"
      [] state = "completed"                -> "booked"
      [] state \in {"compensated", "failed"} -> "rejected"

Pattern == INSTANCE SagaPattern WITH
    phase <- [s \in Saga |-> PhaseOf(saga[s].state)],
    held  <- [s \in Saga |-> HeldBy(s)]

\* The system keeps the promise of the saga pattern: a booking is completed with
\* seat, charge and notice, or it ends with none of them, given back in reverse
\* order, and an outcome is final.
KeepsSafetyPromise ==
    Pattern!PatternInit /\ [][Pattern!PatternNext]_(Pattern!PatternVars)

\* And every booking that was started ends so, as long as no transaction fails but by
\* a crash.
KeepsPromise == Pattern!PatternSpec
=============================================================================
