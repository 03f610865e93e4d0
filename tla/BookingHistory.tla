----------------------------- MODULE BookingHistory -----------------------------
(***************************************************************************)
(* The inductive invariants behind the properties of BookingSystem that    *)
(* speak of what happened before: the events that tell of every effect,    *)
(* the audit log, and the dead letters.                                    *)
(*                                                                         *)
(* They add to IInv.  The log: which messages and which rows can be there  *)
(* only after which steps were logged.  The dead letters: which columns of *)
(* a row a stale copy can and cannot destroy, hence which handlers can     *)
(* find an id missing.                                                     *)
(***************************************************************************)
EXTENDS BookingInvariant

(***************************************************************************)
(* The effects of the services, by the event that tells of each.           *)
(***************************************************************************)
EffectEvent == Event \ {"SeatReservationFailed"}

Done(type, s) ==
    \/ type = "SeatReserved" /\ reservation[s].status # "none"
    \/ type = "SeatReleased" /\ reservation[s].status = "released"
    \/ type = "Charged" /\ payment[s] \in {"charged", "refunded"}
    \/ type = "PaymentFailed" /\ payment[s] = "failed"
    \/ type = "Refunded" /\ payment[s] = "refunded"
    \/ type = "Sent" /\ notification[s] = "sent"
    \/ type = "NotificationFailed" /\ notification[s] = "failed"

\* OneEventPerEffect, with the effect as a parameter.
EventsOK ==
    \A s \in Saga, type \in EffectEvent : Count(type, s) = IF Done(type, s) THEN 1 ELSE 0

(***************************************************************************)
(* The refinement of BookingEffects: what was done for a saga, and what it *)
(* holds, is read off the tables of the services.                          *)
(***************************************************************************)
DoneFor(s) == {type \in EffectEvent : Done(type, s)}

SeatOf(s) == IF HoldsSeat(s) THEN reservation[s].seat ELSE None

Effects == INSTANCE BookingEffects WITH
    done  <- [s \in Saga |-> DoneFor(s)],
    holds <- [s \in Saga |-> SeatOf(s)]

\* Whatever is late, repeated, reordered or lost, and whatever the orchestrator makes
\* of it: seats are given to one saga at a time, and no service does its part twice,
\* or before the parts of the others that justify it.
EffectsInOrder == Effects!EffectsSpec

(***************************************************************************)
(* The log.                                                                *)
(***************************************************************************)
Succeeded(s, name) == Logged(s, name, "forward", "succeeded")

FailureLogged(s) == \E name \in StepName : Logged(s, name, "forward", "failed")

\* Messages that are sent only after the seat was reserved, or the charge taken,
\* or a step failed.
AfterSeat    == {"Charge", "Charged", "PaymentFailed", "Send", "Sent", "NotificationFailed"}
AfterCharge  == {"Send", "Sent", "NotificationFailed"}
AfterFailure == {"Refund", "Refunded", "ReleaseSeat"}

MessageLogged(m) ==
    /\ m.type \in AfterSeat => Succeeded(m.saga, "ReserveSeat")
    /\ m.type \in AfterCharge => Succeeded(m.saga, "ChargePayment")
    /\ m.type \in AfterFailure => FailureLogged(m.saga)

RowLogged(s, row) ==
    /\ row.step \in {"ChargePayment", "SendNotification"} => Succeeded(s, "ReserveSeat")
    /\ row.step = "SendNotification" => Succeeded(s, "ChargePayment")
    /\ row.state = "completed" => \A name \in StepName : Succeeded(s, name)
    /\ row.state = "compensated" => Logged(s, "ReserveSeat", "compensate", "succeeded")

LogOK ==
    /\ \A m \in outbox : MessageLogged(m)
    /\ \A s \in Saga : RowLogged(s, saga[s])
    /\ \A c \in Topic : tx[c] # None => RowLogged(tx[c].msg.saga, tx[c].row)
    /\ \A s \in Saga : Done("SeatReleased", s) => FailureLogged(s)

(***************************************************************************)
(* The columns of the context, and the dead letters.                       *)
(***************************************************************************)
\* Messages that there are only when a row with the seat was committed.
Downstream == AfterSeat \cup {"Refund", "Refunded", "ReleaseSeat", "SeatReleased"}

AllHandled(type, s) == Emitted(type, s) \subseteq inbox

OnSaga(c, s) == tx[c] # None /\ tx[c].msg.saga = s

\* A consumer works on a message of its topic that is not handled yet.
TopicsOK ==
    \A c \in Topic : tx[c] # None => tx[c].msg \notin inbox /\ TopicOf(tx[c].msg.type) = c

\* The seat is written once, before any handler of another topic can hold a copy
\* without it; so no stale copy destroys it.
SeatColumnOK ==
    /\ \A c \in Topic : tx[c] # None =>
           /\ tx[c].row.seat = saga[tx[c].msg.saga].seat
           /\ tx[c].row.step \in {"ChargePayment", "SendNotification"} => tx[c].row.seat # None
    /\ \A s \in Saga :
           /\ saga[s].step \in {"ChargePayment", "SendNotification"} => saga[s].seat # None
           /\ saga[s].seat # None => AllHandled("SeatReserved", s)
    /\ \A m \in outbox : m.type \in Downstream => saga[m.saga].seat # None

\* The payment may be destroyed by a copy that the inventory topic took before
\* it was set.  Then no copy brings it back: no other has it, and the event that
\* sets it was handled.
PaymentColumnOK ==
    /\ \A m \in outbox : m.type \in AfterCharge => AllHandled("Charged", m.saga)
    /\ \A s \in Saga : saga[s].step = "SendNotification" => AllHandled("Charged", s)
    /\ \A c \in Topic : tx[c] # None /\ tx[c].row.step = "SendNotification" =>
                            AllHandled("Charged", tx[c].msg.saga)
    /\ \A s \in Saga :
           /\ OnSaga("inventory", s) /\ tx["inventory"].row.payment => saga[s].payment
           /\ OnSaga("notification", s) /\ ~tx["notification"].row.payment => ~saga[s].payment

\* A refund is asked for by the one handler of NotificationFailed that has the
\* payment; after that a row without it has ended and does not compensate.
RefundsOK ==
    \A m \in outbox : m.type \in {"Refund", "Refunded"} =>
        /\ AllHandled("NotificationFailed", m.saga)
        /\ saga[m.saga].state \in {"running", "compensating"} => saga[m.saga].payment
        /\ OnSaga("payment", m.saga) /\ tx["payment"].row.state \in {"running", "compensating"} =>
               tx["payment"].row.payment

\* A message is dead because its row lost the payment; nothing refunds it later.
NeverRefunded(m) ==
    /\ m.type = "NotificationFailed"
    /\ ~saga[m.saga].payment
    /\ \A c \in Topic : OnSaga(c, m.saga) => ~tx[c].row.payment
    /\ Emitted("Refund", m.saga) = {}
    /\ ~Done("Refunded", m.saga)

DeadOK == \A m \in dead : NeverRefunded(m)

\* All of it.  Each part relies on the ones before it.
HInv ==
    /\ EventsOK
    /\ LogOK
    /\ TopicsOK
    /\ SeatColumnOK
    /\ PaymentColumnOK
    /\ RefundsOK
    /\ DeadOK
=============================================================================
