------------------------------ MODULE Messages ------------------------------
(***************************************************************************)
(* The messages of the booking saga, and the two tables through which a    *)
(* service takes part in the exchange: its outbox (pkg/outbox) and its     *)
(* inbox (pkg/inbox).                                                      *)
(*                                                                         *)
(* The relay publishes a committed outbox row at least once, Kafka may     *)
(* deliver it again, late, or in another order than its neighbours, and a  *)
(* consumer that meets a transient error drops it.  So a committed row is  *)
(* all that matters: outbox is the set of rows ever committed, and at any  *)
(* time any of its messages may be delivered, any number of times, or      *)
(* never.  Redelivery of a message whose id is in the inbox commits        *)
(* nothing: it is a stuttering step.                                       *)
(*                                                                         *)
(* Every message type is consumed by one service under one consumer name,  *)
(* so the inboxes of the four databases are one set here, and so are the   *)
(* outboxes.                                                               *)
(***************************************************************************)
EXTENDS Naturals, FiniteSets

CONSTANTS
    Saga,   \* saga ids
    Seat,   \* seats of the event that is being booked
    None    \* the nil of the pointers of the saga context and of an idle consumer

\* nil is no seat.
ASSUME NoneAssumption == None \notin Seat

VARIABLES
    outbox, \* messages committed to the outbox of some service
    inbox   \* messages whose handling committed

\* What the payload of a booking says of its amount and of its channel, as far
\* as the payment and the notification service tell them apart.
Amount  == {"positive", "negative"}
Channel == {"email", "broken"}

InventoryEvent    == {"SeatReserved", "SeatReservationFailed", "SeatReleased"}
PaymentEvent      == {"Charged", "PaymentFailed", "Refunded"}
NotificationEvent == {"Sent", "NotificationFailed"}
Event             == InventoryEvent \cup PaymentEvent \cup NotificationEvent

MessageOf(types, bodies) == [type : types, saga : Saga, body : bodies, n : Nat]

Message ==
    MessageOf({"ReleaseSeat", "SeatReserved", "SeatReleased"}, Seat)
        \cup MessageOf({"Charge"}, Amount)
        \cup MessageOf({"Send"}, Channel)
        \cup MessageOf({"ReserveSeat", "Refund", "SeatReservationFailed", "Charged",
                        "PaymentFailed", "Refunded", "Sent", "NotificationFailed"}, {None})

\* The messages of a type that were emitted for a saga.
Emitted(type, s) == {m \in outbox : m.type = type /\ m.saga = s}

\* A new message.  n stands for the fresh uuid: it tells the message from the
\* earlier ones of its type and saga.
NewMessage(type, s, body) ==
    [type |-> type, saga |-> s, body |-> body, n |-> Cardinality(Emitted(type, s))]

\* outbox.Repo.Append, as a part of the transaction of the action that uses it.
OutboxAppend(msgs) == outbox' = outbox \cup msgs

\* inbox.Repo.Dedup: the insert is the first statement of every handler, and a
\* handler goes on only if it inserted the row.
Dedup(m) == m \notin inbox /\ inbox' = inbox \cup {m}

\* The messages of a type that a consumer may be handed and would not skip.
Deliverable(type) == {m \in outbox \ inbox : m.type = type}

M_TypeOK ==
    /\ outbox \subseteq Message
    /\ IsFiniteSet(outbox)
    /\ inbox \subseteq outbox

M_Init == outbox = {} /\ inbox = {}
=============================================================================
