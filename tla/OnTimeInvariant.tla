---------------------------- MODULE OnTimeInvariant ----------------------------
(***************************************************************************)
(* The inductive invariant behind the promise of OnTimeBooking.            *)
(*                                                                         *)
(* When no reply is late a saga is a token that is handed on: while it is  *)
(* under way there is exactly one message about it that is not handled,    *)
(* and the type of that message tells what every service has done so far   *)
(* and what the row of the orchestrator knows.  So a handler never meets a *)
(* state that it would have to ignore or to quarantine, and no two         *)
(* handlers hold a copy of the same row.                                   *)
(***************************************************************************)
EXTENDS OnTimeBooking, BookingInvariant

\* Where a saga stands: in the row of the orchestrator and in the tables of the
\* three services.
View(s) == <<saga[s].state, reservation[s].status, payment[s], notification[s]>>

Outstanding(s) == {m \in outbox \ inbox : m.saga = s}

\* Where a saga can stand while a message of a type is outstanding.
Stage(type) ==
    CASE type \in {"ReserveSeat", "SeatReservationFailed"} ->
             {<<"running", "none", "none", "none">>}
      [] type \in {"SeatReserved", "Charge"} ->
             {<<"running", "reserved", "none", "none">>}
      [] type = "PaymentFailed" ->
             {<<"running", "reserved", "failed", "none">>}
      [] type \in {"Charged", "Send"} ->
             {<<"running", "reserved", "charged", "none">>}
      [] type = "Sent" ->
             {<<"running", "reserved", "charged", "sent">>}
      [] type = "NotificationFailed" ->
             {<<"running", "reserved", "charged", "failed">>}
      [] type = "Refund" ->
             {<<"compensating", "reserved", "charged", "failed">>}
      [] type = "Refunded" ->
             {<<"compensating", "reserved", "refunded", "failed">>}
      [] type = "ReleaseSeat" ->
             {<<"compensating", "reserved", "refunded", "failed">>,
              <<"compensating", "reserved", "failed", "none">>}
      [] type = "SeatReleased" ->
             {<<"compensating", "released", "refunded", "failed">>,
              <<"compensating", "released", "failed", "none">>}

\* Where a saga stands that was not started or has ended.
AtRest ==
    {<<"none", "none", "none", "none">>,
     <<"failed", "none", "none", "none">>,
     <<"completed", "reserved", "charged", "sent">>,
     <<"compensated", "released", "refunded", "failed">>,
     <<"compensated", "released", "failed", "none">>}

\* The ids that the row has when a message of a type is outstanding.
BeforeSeat   == {"ReserveSeat", "SeatReserved", "SeatReservationFailed"}
AfterPayment == {"Send", "Sent", "NotificationFailed", "Refund", "Refunded"}

KnowsIds(s, type) ==
    /\ type \notin BeforeSeat => saga[s].seat # None
    /\ type \in AfterPayment => saga[s].payment

At(s, m) ==
    /\ Outstanding(s) = {m}
    /\ View(s) \in Stage(m.type)
    /\ KnowsIds(s, m.type)

Underway(s) == \E m \in outbox : At(s, m)

Ended(s) == Outstanding(s) = {} /\ View(s) \in AtRest

\* A handler works on an outstanding event of its topic, and no one changes the row
\* while it does.
CopiesAreFresh ==
    \A c \in Topic : tx[c] # None =>
        /\ tx[c].msg \in outbox \ inbox
        /\ TopicOf(tx[c].msg.type) = c
        /\ tx[c].row = saga[tx[c].msg.saga]

\* The n of a message was never used before for its type and saga, nor will it be again.
IdsAreFresh == \A m \in outbox : m.n < Cardinality(Emitted(m.type, m.saga))

\* Inductive for OnTimeSpec, together with IInv: one message at a time leads the
\* saga through reservation.go, payment.go, notification.go and saga.go, and
\* nothing is ever quarantined.
OInv ==
    /\ \A s \in Saga : Underway(s) \/ Ended(s)
    /\ CopiesAreFresh
    /\ IdsAreFresh
    /\ dead = {}
=============================================================================
