---------------------------- MODULE BookingInvariant ----------------------------
(***************************************************************************)
(* The inductive invariant behind the safety properties of BookingSystem.  *)
(*                                                                         *)
(* None of them is inductive by itself: the orchestrator writes what a     *)
(* message and an old snapshot of the row say, so what every message that  *)
(* was ever committed and every snapshot that a handler still holds stand  *)
(* for has to be said as well.                                             *)
(***************************************************************************)
EXTENDS BookingSystem

Paid(s) == payment[s] \in {"charged", "refunded"}

HadSeat(s, x) == reservation[s].status \in {"reserved", "released"} /\ reservation[s].seat = x

\* A handler works on a committed event.
HandlersOK ==
    \A c \in Topic : tx[c] # None => tx[c].msg \in outbox /\ tx[c].msg.type \in Event

\* The customer is told after the money was taken, and gets it back only if that
\* failed.
ServicesOK ==
    \A s \in Saga :
        /\ notification[s] # "none" => Paid(s)
        /\ payment[s] = "refunded" => notification[s] = "failed"

\* What a committed message stands for, now and ever after.
MessageOK(m) ==
    /\ m.type \in {"SeatReserved", "ReleaseSeat", "SeatReleased"} => HadSeat(m.saga, m.body)
    /\ m.type = "SeatReleased" => reservation[m.saga].status = "released"
    /\ m.type \in {"Charged", "Send"} => Paid(m.saga)
    /\ m.type = "Sent" => notification[m.saga] = "sent"
    /\ m.type \in {"NotificationFailed", "Refund"} => notification[m.saga] = "failed"

\* What a row of saga s stands for, also when it is a stale copy.
RowOK(s, row) ==
    /\ Truthful(s, row)
    /\ row.state = "running" => row.scheduled /\ row.step # "Initial"
    /\ row.state = "completed" => notification[s] = "sent"
    /\ row.state = "compensated" => reservation[s].status = "released"
    /\ row.step = "SendNotification" => Paid(s)

RowsOK ==
    /\ \A s \in Saga : RowOK(s, saga[s])
    /\ \A c \in Topic : tx[c] # None => RowOK(tx[c].msg.saga, tx[c].row)

\* Every message, row and snapshot stands for something that the services did.
\* The safety properties of BookingSystem follow, because what they did is never
\* done again and undone at most once (EffectsOnce).
IInv ==
    /\ TypeOK
    /\ HandlersOK
    /\ ServicesOK
    /\ \A m \in outbox : MessageOK(m)
    /\ RowsOK
=============================================================================
