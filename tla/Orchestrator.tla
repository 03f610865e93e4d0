----------------------------- MODULE Orchestrator -----------------------------
(***************************************************************************)
(* The orchestrator (orchestrator/internal): it drives the booking saga.   *)
(*                                                                         *)
(* Three consumer goroutines (one per event topic), the scheduler and the  *)
(* HTTP handlers work on the saga table at the same time.  An event        *)
(* handler reads the row with a plain SELECT, changes its copy, and writes *)
(* every column back with Upsert at the end; nothing locks the row in      *)
(* between.  So a handler is two steps here: Begin takes the snapshot, and *)
(* one Handle... action applies the event to the snapshot and commits.     *)
(* Between the two, other consumers and the scheduler commit what they     *)
(* like to the same row.                                                   *)
(*                                                                         *)
(* ProcessExpired holds its rows FOR UPDATE until it commits and a handler *)
(* takes that lock no earlier than its Upsert, so a pass is one step.      *)
(* Whether next_attempt_at has passed is not modelled: a row with a        *)
(* schedule may expire at any time.                                        *)
(***************************************************************************)
EXTENDS Messages

CONSTANTS
    MaxSagaAttempts, \* attempts after which the scheduler escalates (5 in the code)
    BatchLimit       \* rows that one pass of the scheduler takes (10 in the code)

ASSUME MaxSagaAttemptsAssumption == MaxSagaAttempts \in Nat \ {0}
ASSUME BatchLimitAssumption == BatchLimit \in Nat \ {0}

VARIABLES
    saga,  \* saga[s] is the row of saga s
    steps, \* the rows of saga_step, without their ids, times and error texts
    tx,    \* tx[c] is the handler that consumer c runs: its message and its snapshot
    dead   \* messages in dead_message

orchestratorVars == <<saga, steps, tx, dead>>

Topic == {"inventory", "payment", "notification"}

TopicOf(event) ==
    CASE event \in InventoryEvent    -> "inventory"
      [] event \in PaymentEvent      -> "payment"
      [] event \in NotificationEvent -> "notification"

StepName == {"ReserveSeat", "ChargePayment", "SendNotification"}

\* A row of the saga table.  seat stands for the ReservationID and the SeatID
\* of the context, which are only ever set together; payment and notification
\* for the other two ids of the context (UNIQUE(saga_id) leaves one id each);
\* scheduled for next_attempt_at IS NOT NULL; amount and channel for the
\* payload.  State "none" is a row that is not there yet.
Row == [state        : {"none", "running", "completed", "compensating", "compensated", "failed"},
        step         : {"Initial"} \cup StepName,
        seat         : Seat \cup {None},
        payment      : BOOLEAN,
        notification : BOOLEAN,
        attempts     : 0 .. MaxSagaAttempts - 1,
        scheduled    : BOOLEAN,
        amount       : Amount,
        channel      : Channel]

NoRow == [state |-> "none", step |-> "Initial", seat |-> None, payment |-> FALSE,
          notification |-> FALSE, attempts |-> 0, scheduled |-> FALSE,
          amount |-> "positive", channel |-> "email"]

SagaStep == [saga : Saga, name : StepName, direction : {"forward", "compensate"},
             status : {"succeeded", "failed"}]

Orch_TypeOK ==
    /\ saga \in [Saga -> Row]
    /\ steps \subseteq SagaStep
    /\ tx \in [Topic -> {None} \cup [msg : Message, row : Row]]
    /\ dead \subseteq outbox

Orch_Init ==
    /\ saga = [s \in Saga |-> NoRow]
    /\ steps = {}
    /\ tx = [c \in Topic |-> None]
    /\ dead = {}

IsCompensated(row)  == row.state = "compensated"
IsCompensating(row) == row.state = "compensating"
ResetSchedule(row)  == [row EXCEPT !.attempts = 0, !.scheduled = FALSE]

NewSagaStep(s, name, direction, status) ==
    [saga |-> s, name |-> name, direction |-> direction, status |-> status]

(***************************************************************************)
(* POST /bookings.                                                         *)
(***************************************************************************)
NewSaga(amount, channel) ==
    [NoRow EXCEPT !.state = "running", !.step = "ReserveSeat", !.scheduled = TRUE,
                  !.amount = amount, !.channel = channel]

StartBooking(s) ==
    \E amount \in Amount, channel \in Channel :
        /\ saga[s] = NoRow
        /\ saga' = [saga EXCEPT ![s] = NewSaga(amount, channel)]
        /\ OutboxAppend({NewMessage("ReserveSeat", s, None)})
        /\ UNCHANGED <<inbox, steps, tx, dead>>

(***************************************************************************)
(* The transaction of an event handler.                                    *)
(***************************************************************************)
\* Dedup and FindByID: the consumer of the topic is idle, the message was not
\* handled before, and the handler holds a copy of the row from here on.
Begin(m) ==
    /\ m \in outbox \ inbox
    /\ m.type \in Event
    /\ tx[TopicOf(m.type)] = None
    /\ tx' = [tx EXCEPT ![TopicOf(m.type)] = [msg |-> m, row |-> saga[m.saga]]]
    /\ UNCHANGED <<outbox, inbox, saga, steps, dead>>

Handling(c, type) == tx[c] # None /\ tx[c].msg.type = type

\* The transaction fails before or at its commit, or the process dies: nothing
\* of it stays.
Abort(c) ==
    /\ tx[c] # None
    /\ tx' = [tx EXCEPT ![c] = None]
    /\ UNCHANGED <<outbox, inbox, saga, steps, dead>>

\* The handler returned early: only its inbox row is committed.
Ignore(c) ==
    /\ Dedup(tx[c].msg)
    /\ tx' = [tx EXCEPT ![c] = None]
    /\ UNCHANGED <<outbox, saga, steps, dead>>

\* The handler ran to its end: the whole row is overwritten with the handler's
\* copy, a step is logged, and the commands go to the outbox.
Commit(c, row, step, commands) ==
    /\ Dedup(tx[c].msg)
    /\ saga' = [saga EXCEPT ![tx[c].msg.saga] = row]
    /\ steps' = steps \cup {step}
    /\ OutboxAppend(commands)
    /\ tx' = [tx EXCEPT ![c] = None]
    /\ UNCHANGED dead

\* The ids a handler needs are not in the context of its snapshot, or are not
\* those of the event.
PermanentError(m, row) ==
    \/ /\ m.type = "PaymentFailed"
       /\ ~IsCompensated(row) /\ ~IsCompensating(row)
       /\ row.seat = None
    \/ /\ m.type = "Refunded"
       /\ IsCompensating(row)
       /\ row.seat = None \/ ~row.payment
    \/ /\ m.type = "SeatReleased"
       /\ IsCompensating(row)
       /\ row.seat # m.body
    \/ /\ m.type = "NotificationFailed"
       /\ ~IsCompensated(row) /\ ~IsCompensating(row)
       /\ ~row.payment

\* A permanent error: the transaction rolls back and dlq.Wrap puts the message
\* into dead_message (a second time is ON CONFLICT DO NOTHING).
DeadLetter(c) ==
    /\ tx[c] # None
    /\ PermanentError(tx[c].msg, tx[c].row)
    /\ dead' = dead \cup {tx[c].msg}
    /\ tx' = [tx EXCEPT ![c] = None]
    /\ UNCHANGED <<outbox, inbox, saga, steps>>

(***************************************************************************)
(* The event handlers.  r is the snapshot, not the row as it is now.       *)
(***************************************************************************)
\* Mutant of SetSeat: the ids of the event are not stored.
SeatNotSet(r, x) == r

\* SetContext with the reservation and the seat of the event.
SetSeat(r, x) == [r EXCEPT !.seat = x]

\* Mutant of Advance: the schedule is reset and not set anew.
AdvanceUnscheduled(r, step) ==
    [r EXCEPT !.state = "running", !.step = step, !.attempts = 0, !.scheduled = FALSE]

\* A step succeeded: the saga runs on with the next one, and its attempts start
\* anew.
Advance(r, step) ==
    [r EXCEPT !.state = "running", !.step = step, !.attempts = 0, !.scheduled = TRUE]

\* Mutant of TurnBack: the saga does not wait for what it has to give back.
CompensateAtOnce(r) == [r EXCEPT !.state = "compensated"]

\* A step failed: the saga turns to compensation.  Step, attempts and schedule
\* are left as they were.
TurnBack(r) == [r EXCEPT !.state = "compensating"]

HandleSeatReserved(c) ==
    LET m == tx[c].msg
        r == tx[c].row
    IN  /\ Handling(c, "SeatReserved")
        /\ Commit(c, Advance(SetSeat(r, m.body), "ChargePayment"),
                  NewSagaStep(m.saga, "ReserveSeat", "forward", "succeeded"),
                  {NewMessage("Charge", m.saga, r.amount)})

\* The schedule is left as it was.
HandleSeatReservationFailed(c) ==
    LET m == tx[c].msg
        r == tx[c].row
    IN  /\ Handling(c, "SeatReservationFailed")
        /\ Commit(c, [r EXCEPT !.state = "failed"],
                  NewSagaStep(m.saga, "ReserveSeat", "forward", "failed"), {})

HandleSeatReleased(c) ==
    LET m == tx[c].msg
        r == tx[c].row
    IN  /\ Handling(c, "SeatReleased")
        /\ \/ ~IsCompensating(r) /\ Ignore(c)
           \/ /\ IsCompensating(r)
              /\ ~PermanentError(m, r)
              /\ Commit(c, [r EXCEPT !.state = "compensated"],
                        NewSagaStep(m.saga, "ReserveSeat", "compensate", "succeeded"), {})

HandlePaymentCharged(c) ==
    LET m == tx[c].msg
        r == tx[c].row
    IN  /\ Handling(c, "Charged")
        /\ Commit(c, Advance([r EXCEPT !.payment = TRUE], "SendNotification"),
                  NewSagaStep(m.saga, "ChargePayment", "forward", "succeeded"),
                  {NewMessage("Send", m.saga, r.channel)})

HandlePaymentFailed(c) ==
    LET m == tx[c].msg
        r == tx[c].row
    IN  /\ Handling(c, "PaymentFailed")
        /\ \/ (IsCompensated(r) \/ IsCompensating(r)) /\ Ignore(c)
           \/ /\ ~IsCompensated(r) /\ ~IsCompensating(r)
              /\ ~PermanentError(m, r)
              /\ Commit(c, TurnBack(r),
                        NewSagaStep(m.saga, "ChargePayment", "forward", "failed"),
                        {NewMessage("ReleaseSeat", m.saga, r.seat)})

HandlePaymentRefunded(c) ==
    LET m == tx[c].msg
        r == tx[c].row
    IN  /\ Handling(c, "Refunded")
        /\ \/ ~IsCompensating(r) /\ Ignore(c)
           \/ /\ IsCompensating(r)
              /\ ~PermanentError(m, r)
              /\ Commit(c, r,
                        NewSagaStep(m.saga, "ChargePayment", "compensate", "succeeded"),
                        {NewMessage("ReleaseSeat", m.saga, r.seat)})

HandleNotificationSent(c) ==
    LET m == tx[c].msg
        r == tx[c].row
    IN  /\ Handling(c, "Sent")
        /\ Commit(c, ResetSchedule([r EXCEPT !.notification = TRUE, !.state = "completed"]),
                  NewSagaStep(m.saga, "SendNotification", "forward", "succeeded"), {})

\* Mutant of HandleNotificationFailed: the seat is released before the money is
\* given back.
NotificationFailedReleasesFirst(c) ==
    LET m == tx[c].msg
        r == tx[c].row
    IN  /\ Handling(c, "NotificationFailed")
        /\ ~IsCompensated(r) /\ ~IsCompensating(r)
        /\ Commit(c, [r EXCEPT !.notification = TRUE, !.state = "compensating"],
                  NewSagaStep(m.saga, "SendNotification", "forward", "failed"),
                  {NewMessage("ReleaseSeat", m.saga, r.seat)})

HandleNotificationFailed(c) ==
    LET m == tx[c].msg
        r == tx[c].row
    IN  /\ Handling(c, "NotificationFailed")
        /\ \/ (IsCompensated(r) \/ IsCompensating(r)) /\ Ignore(c)
           \/ /\ ~IsCompensated(r) /\ ~IsCompensating(r)
              /\ ~PermanentError(m, r)
              /\ Commit(c, TurnBack([r EXCEPT !.notification = TRUE]),
                        NewSagaStep(m.saga, "SendNotification", "forward", "failed"),
                        {NewMessage("Refund", m.saga, None)})

HandleEvent(c) ==
    \/ HandleSeatReserved(c)
    \/ HandleSeatReservationFailed(c)
    \/ HandleSeatReleased(c)
    \/ HandlePaymentCharged(c)
    \/ HandlePaymentFailed(c)
    \/ HandlePaymentRefunded(c)
    \/ HandleNotificationSent(c)
    \/ HandleNotificationFailed(c)

(***************************************************************************)
(* The scheduler.  The operators give what a tick of saga s does to its    *)
(* row, and what it appends to saga_step and to the outbox.                *)
(***************************************************************************)
Expired(s) == saga[s].state \in {"running", "compensating"} /\ saga[s].scheduled

\* Mutant of Exhausted: one attempt too many.
ExhaustedLate(s) == saga[s].attempts + 1 > MaxSagaAttempts

\* tickSaga: the attempt that is being made would be one too many.
Exhausted(s) == saga[s].attempts + 1 >= MaxSagaAttempts

Running(s) == saga[s].state = "running"

\* Mutant of CommandOf: current_step is taken for the step that is done.
CommandOfNextStep(s) ==
    CASE saga[s].step = "ReserveSeat"   -> NewMessage("Charge", s, saga[s].amount)
      [] saga[s].step # "ReserveSeat"   -> NewMessage("Send", s, saga[s].channel)

\* The command of the step that the saga is at.
CommandOf(s) ==
    CASE saga[s].step = "ReserveSeat"      -> NewMessage("ReserveSeat", s, None)
      [] saga[s].step = "ChargePayment"    -> NewMessage("Charge", s, saga[s].amount)
      [] saga[s].step = "SendNotification" -> NewMessage("Send", s, saga[s].channel)

\* rePublishCurrentCommand returns before the Upsert when the saga is
\* compensating: the attempt is not counted and nothing is sent again.
RePublishedRow(s) ==
    IF Running(s) THEN [saga[s] EXCEPT !.attempts = @ + 1] ELSE saga[s]

RePublishedCommand(s) == IF Running(s) THEN {CommandOf(s)} ELSE {}

\* Mutant of EscalatedRow: a saga without a seat loses its schedule only.
EscalatedRowKeepsState(s) ==
    LET r == ResetSchedule(saga[s])
    IN  IF Running(s) /\ saga[s].seat # None THEN [r EXCEPT !.state = "compensating"] ELSE r

\* escalateSaga: a saga without a seat has nothing to compensate.  A saga that
\* is compensating already fails.
EscalatedRow(s) ==
    LET r == ResetSchedule(saga[s])
    IN  IF Running(s) /\ saga[s].seat # None
        THEN [r EXCEPT !.state = "compensating"]
        ELSE [r EXCEPT !.state = "failed"]

\* Mutant of EscalatedSteps: the escalation is not logged.
EscalatedStepsLost(s) == {}

EscalatedSteps(s) ==
    IF Running(s) THEN {NewSagaStep(s, saga[s].step, "forward", "failed")} ELSE {}

\* Mutant of EscalatedCommand: the charge is refunded without asking whether
\* the notification is under way.
EscalatedCommandRefunds(s) ==
    IF Running(s) /\ saga[s].payment
    THEN {NewMessage("Refund", s, None)}
    ELSE {}

EscalatedCommand(s) ==
    IF Running(s) /\ saga[s].seat # None
    THEN {NewMessage("ReleaseSeat", s, saga[s].seat)}
    ELSE {}

TickedRow(s)     == IF Exhausted(s) THEN EscalatedRow(s) ELSE RePublishedRow(s)
TickedSteps(s)   == IF Exhausted(s) THEN EscalatedSteps(s) ELSE {}
TickedCommand(s) == IF Exhausted(s) THEN EscalatedCommand(s) ELSE RePublishedCommand(s)

\* One pass: FindExpired takes at most BatchLimit of the rows whose time has
\* come and ticks each of them, in one transaction.
ProcessExpired ==
    \E batch \in SUBSET {s \in Saga : Expired(s)} :
        /\ batch # {}
        /\ IsFiniteSet(batch)
        /\ Cardinality(batch) <= BatchLimit
        /\ saga' = [s \in Saga |-> IF s \in batch THEN TickedRow(s) ELSE saga[s]]
        /\ steps' = steps \cup UNION {TickedSteps(s) : s \in batch}
        /\ OutboxAppend(UNION {TickedCommand(s) : s \in batch})
        /\ UNCHANGED <<inbox, tx, dead>>

(***************************************************************************)
(* What the orchestrator does when every reply is in time and no           *)
(* transaction fails, and all that it does.                                *)
(***************************************************************************)
ConsumeEvents ==
    \/ \E m \in outbox : Begin(m)
    \/ \E c \in Topic : HandleEvent(c) \/ DeadLetter(c)

OrchestratorNext ==
    \/ \E s \in Saga : StartBooking(s)
    \/ ConsumeEvents
    \/ \E c \in Topic : Abort(c)
    \/ ProcessExpired
=============================================================================
