------------------------------ MODULE Inventory ------------------------------
(***************************************************************************)
(* The inventory service (inventory/internal): it reserves a free seat for *)
(* a saga and releases it.  One consumer goroutine handles its commands    *)
(* one at a time, each in one SQL transaction over the inbox, the seat and *)
(* reservation tables and the outbox, so a handler is one atomic action.   *)
(* A transaction that fails changes nothing and is not a step.             *)
(***************************************************************************)
EXTENDS Messages

VARIABLES
    seats,       \* seats[x] is the status column of seat x
    reservation  \* reservation[s] is the row with saga_id = s (UNIQUE), if any

inventoryVars == <<seats, reservation>>

NoReservation == [status |-> "none", seat |-> None]

Inv_TypeOK ==
    /\ seats \in [Seat -> {"free", "reserved"}]
    /\ reservation \in [Saga -> {NoReservation}
                                \cup [status : {"reserved", "released"}, seat : Seat]]

Inv_Init ==
    /\ seats = [x \in Seat |-> "free"]
    /\ reservation = [s \in Saga |-> NoReservation]

\* FindFreeSeat picks any one free seat.
FreeSeats == {x \in Seat : seats[x] = "free"}

\* No seat is free: the command is answered with a failure, whether or not the
\* saga already holds a seat from an earlier copy of the command.
ReserveWithoutFreeSeat(m) ==
    /\ FreeSeats = {}
    /\ OutboxAppend({NewMessage("SeatReservationFailed", m.saga, None)})
    /\ UNCHANGED inventoryVars

\* Mutant of ReserveFreeSeat: without the UNIQUE(saga_id) of the table.
ReserveFreeSeatAgain(m) ==
    \E x \in FreeSeats :
        /\ seats' = [seats EXCEPT ![x] = "reserved"]
        /\ reservation' = [reservation EXCEPT ![m.saga] = [status |-> "reserved", seat |-> x]]
        /\ OutboxAppend({NewMessage("SeatReserved", m.saga, x)})

\* Mutant of ReserveFreeSeat: the seat is marked and the event emitted, but the
\* reservation is not created.
ReserveWithoutReservation(m) ==
    \E x \in FreeSeats :
        /\ seats' = [seats EXCEPT ![x] = "reserved"]
        /\ OutboxAppend({NewMessage("SeatReserved", m.saga, x)})
        /\ UNCHANGED reservation

\* A seat is free.  If the saga has a reservation already, the insert breaks
\* UNIQUE(saga_id) and the transaction rolls back: that is not a step.
ReserveFreeSeat(m) ==
    \E x \in FreeSeats :
        /\ reservation[m.saga] = NoReservation
        /\ seats' = [seats EXCEPT ![x] = "reserved"]
        /\ reservation' = [reservation EXCEPT ![m.saga] = [status |-> "reserved", seat |-> x]]
        /\ OutboxAppend({NewMessage("SeatReserved", m.saga, x)})

HandleReserveSeatCommand(m) ==
    /\ m \in Deliverable("ReserveSeat")
    /\ Dedup(m)
    /\ ReserveWithoutFreeSeat(m) \/ ReserveFreeSeat(m)

\* There is nothing to release: the command is swallowed, without an event.
NothingToRelease(m) ==
    /\ reservation[m.saga].status \in {"none", "released"}
    /\ UNCHANGED <<outbox, seats, reservation>>

\* Mutant of ReleaseReservedSeat: without the check of the reservation's status.
ReleaseSeatTwice(m) ==
    /\ reservation[m.saga].seat = m.body
    /\ seats' = [seats EXCEPT ![m.body] = "free"]
    /\ reservation' = [reservation EXCEPT ![m.saga].status = "released"]
    /\ OutboxAppend({NewMessage("SeatReleased", m.saga, m.body)})

\* Mutant of ReleaseReservedSeat: the work is done and nobody is told.
ReleaseWithoutEvent(m) ==
    /\ reservation[m.saga] = [status |-> "reserved", seat |-> m.body]
    /\ seats' = [seats EXCEPT ![m.body] = "free"]
    /\ reservation' = [reservation EXCEPT ![m.saga].status = "released"]
    /\ UNCHANGED outbox

\* The reservation stands and is for the seat the command names (for another
\* one the handler returns ErrSeatsMismatch and rolls back).
ReleaseReservedSeat(m) ==
    /\ reservation[m.saga] = [status |-> "reserved", seat |-> m.body]
    /\ seats' = [seats EXCEPT ![m.body] = "free"]
    /\ reservation' = [reservation EXCEPT ![m.saga].status = "released"]
    /\ OutboxAppend({NewMessage("SeatReleased", m.saga, m.body)})

HandleReleaseSeatCommand(m) ==
    /\ m \in Deliverable("ReleaseSeat")
    /\ Dedup(m)
    /\ NothingToRelease(m) \/ ReleaseReservedSeat(m)

InventoryNext ==
    \E m \in outbox : HandleReserveSeatCommand(m) \/ HandleReleaseSeatCommand(m)
=============================================================================
