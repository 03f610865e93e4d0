# A TLA+ verification of go-saga-outbox

`go-saga-outbox` books a ticket in three steps, each done by a service of its own with a database of its
own: reserve a seat (`inventory`), charge the customer (`payment`), tell the customer (`notification`). The
`orchestrator` drives the steps and, when one fails, undoes the earlier ones. The services talk through
Kafka, with a transactional outbox on the sending and an inbox on the receiving side.

This directory models that system at three levels (the booking, the delivery of one message, the scheduler's clock),
model-checks each on small instances, and proves the safety properties of all three for every number of sagas,
seats, messages, retries, relays, partitions, consumers and faults, and for every limit, batch and timeout.

## 1. The system

### Components

| Component (source) | State | Operations | Hard behaviour | What makes it correct |
|---|---|---|---|---|
| Saga orchestration (`orchestrator/internal/service/saga.go`, `repo`, `model`, `consumer`) | `saga`, `saga_step`, the copy of a row that a running handler holds | `StartBooking`, eight event handlers | three consumers, the scheduler and HTTP work on one row without a lock; the handler writes every column back; events are applied whatever the state is | an outcome is backed by what the services did; a stale copy never claims what did not happen; an outcome is final |
| Saga scheduler (`ProcessExpired`, `tickSaga`, `rePublishCurrentCommand`, `escalateSaga`) | `attempts`, `next_attempt_at` | one pass per tick | a retry races the late answer; escalation compensates while the answer is on its way | every saga is resolved; what was done is undone |
| Inventory (`inventory/internal`) | `seat`, `reservation` | `HandleReserveSeatCommand`, `HandleReleaseSeatCommand` | bookings compete for seats; a command comes under an old id, or under a new one | no double booking, no lost seat; one event per effect |
| Payment (`payment/internal`) | `payment` | `HandleChargeCommand`, `HandleRefundCommand` | as above | charged once, refunded once, and only if the notification failed |
| Notification (`notification/internal`) | `notification` | `HandleSendCommand` | as above | notified once |
| Outbox and relay (`pkg/outbox`) | `outbox`, the relay's open transaction | `Append`, the relay's pass: `FetchUnpublished`, `Publish` row by row, `MarkPublished` | two relays; published and not marked; one row of a batch fails; a row that is committed late goes before rows that are out | business write and event are one transaction; what is marked was published; every row is published |
| Kafka producer and consumer (`pkg/kafka`) | topics, offsets | `Publish`, `Consumer.Run` | two consumers hold one message; an offset committed late; a transient error is followed by a commit of the offset; `LeastBytes` ignores the key | the offset passes nothing that is still to be handled; no message blocks those behind it |
| Inbox (`pkg/inbox`) | `inbox` | `Insert`, `Dedup` | the same message again | a message is handled once |
| Transactions (`pkg/trx`) | the transaction | `Run` | crash between statements; a commit that fails and is reported as success | all or nothing |
| Dead letter queue (`pkg/dlq`, `handler/dlq.go`, `ReplayDeadMessage`) | `dead_message` | `Wrap`, `writeDLQ`, `Insert`, `CanReplay`, `MarkReplayed` | a quarantined message is a step of some saga that did not happen | only messages that cannot be handled are quarantined; replay works |
| HTTP API, metrics, start-up, configuration, tests | – | – | – | not modelled: no behaviour of the saga depends on them |

### How they interact

A booking is a row of `saga` and a `ReserveSeat` command in the outbox of the orchestrator, written in one
transaction. The relay of a service publishes its outbox. A consumer hands each message to a handler, which
in one SQL transaction inserts into the inbox, reads and writes its tables, and appends to its outbox.

    orchestrator                inventory       payment         notification
       | ReserveSeat ------------> |
       | <---- SeatReserved ------ |                                        (or SeatReservationFailed: failed)
       | Charge ---------------------------------> |
       | <---- Charged --------------------------- |                        (or PaymentFailed: ReleaseSeat)
       | Send ----------------------------------------------------> |
       | <---- Sent ----------------------------------------------- |       (or NotificationFailed: Refund,
       completed                                                                then ReleaseSeat: compensated)

The scheduler sends the command of the current step again when `next_attempt_at` has passed and, at the fifth
attempt, escalates: a saga with a seat is set to compensating with a `ReleaseSeat`, one without is failed.

## 2. The modules

There are three models. They meet in `Mailbox`, which says what the first takes for granted and the second
implements, and in the schedule of a saga row, which the first keeps as a flag and the third as a time.

| Module | What it is |
|---|---|
| **The booking** | |
| `Messages` | the messages; `outbox` and `inbox`, and what a transaction does to them |
| `Inventory`, `Payment`, `Notification` | one service each; one action per command handler, one disjunct per outcome |
| `Orchestrator` | the saga row, the step log, the running handlers, the dead letters; one action per event handler; the scheduler |
| `BookingSystem` | the composition, and its properties |
| `BookingInvariant`, `BookingHistory` | the inductive invariants behind them |
| `BookingSystemProofs`, `BookingHistoryProofs` | the theorems and their proofs |
| `BookingEffects`, `BookingEffectsProofs` | the abstract specification that holds however late a reply is: what the services together do, and in which order; the proof that `BookingSystem` implements it |
| `SagaPattern` | the abstract specification: what a saga promises, without messages, tables or handlers |
| `OnTimeBooking` | the system when replies are in time, also with crashes and without failing transactions (`PunctualSpec`), and the refinement mapping to `SagaPattern` |
| `OnTimeInvariant`, `OnTimeProofs` | the inductive invariant behind the refinement, the theorems and their proofs |
| `MCBooking` | the instances for TLC |
| **The delivery of a message** | |
| `Kafka` | one topic and its consumer group: partitions, owners, cursors, committed offsets |
| `OutboxRelay` | the outbox tables and the relays' passes |
| `InboxConsumer` | `Consumer.Run` with a handler's transaction, the inbox and `writeDLQ`, and every way these fail |
| `DeadLetters` | the operator's replays |
| `Delivery` | the composition, its faults, and its properties |
| `Mailbox` | the abstract specification: what was sent may take effect at any time, in any order, once at most |
| `DeliveryInvariant`, `DeliveryProofs` | the inductive invariant, the theorems and their proofs |
| `MCDelivery` | the instances for TLC |
| **The scheduler's clock** | |
| `Scheduler` | `next_attempt_at`, `StepTimeout`, the ticker, the batch in its order |
| `SchedulerInvariant`, `SchedulerProofs` | the inductive invariant, the theorems and their proofs |
| `MCScheduler` | the instances for TLC |

### How the model of the booking stands for the code

*A transaction.* A command handler of a service runs in one transaction, and each service has one consumer
goroutine for its commands, so the handler is one action. A transaction that returns an error rolls back and is
not a step (for example `ErrSeatsMismatch`, `ErrCannotRefundNotCharged`, or the insert that breaks
`UNIQUE (saga_id)`).

*A handler of the orchestrator is two steps.* It reads the row with a plain `SELECT`, works on its copy, and
`Upsert`s every column of it. Three consumer goroutines, one per event topic, and the scheduler do so
concurrently under READ COMMITTED, so another transaction may commit to the row between the two. `Begin`
takes the snapshot (`tx[c]`), and the handler's action applies the event to the snapshot and commits. `Abort`
is the transaction that fails, or the crash of the process, at any point in between. The scheduler locks its
rows with `FOR UPDATE` for the whole pass, and a handler asks for the row's lock only with its `Upsert`; a pass
is therefore one step. A handler that began before it commits its copy over the scheduler's writes.

*Delivery.* `outbox` is the set of all rows ever committed. Any of them may be handed to its consumer at any
time, repeatedly, or never; a message whose id is in the inbox changes nothing. That this covers what relays,
partitions, consumers and replays do is what `Delivery` shows (`ImplementsMailbox`). `n` in a message stands for its
uuid; a command that is sent again has a new one, as in the code.

*The context.* `ReservationID` and `SeatID` are only ever set together and become `seat`; `PaymentID` and
`NotificationID` become Booleans, because `UNIQUE (saga_id)` leaves one possible id for each.

*Time.* A row with a `next_attempt_at` may expire at any moment. The delay and the order in which expired rows
are taken are in `Scheduler`.

*Payload.* The amount is positive or negative, the channel is `broken` or another one: this is all that
`NewPayment` and `HandleSendCommand` tell apart. Bookings are for one event.

*The log.* `saga_step` is a set: its rows lose their ids, times and error texts.

*The promise.* `SagaPattern` knows of a saga a phase and the set of what it holds. `OnTimeBooking` maps the state of the
orchestrator's row to the phase (`PhaseOf`), and the reservation, the charge and the notice in the tables of the services
to the set (`HeldBy`). A payment or a notification that failed takes nothing: that step is a stutter of the pattern.

*Punctuality.* `PunctualNext` is `OnTimeNext` without `Abort`, and with `Crash`. A transaction that fails while the process
lives loses its message, because `Consumer.Run` commits the offset all the same (finding 5); nothing can be promised of a
saga to which that happens, so the liveness half of the promise is stated without such failures. A crash commits no offset:
the open transactions are gone and their messages are handed out again.

`BookingEffects` knows even less, and asks for no reply in time: of a saga, the effects that were done for it and the seat
it holds. `BookingHistory` reads both off the tables of the services (`DoneFor`, `SeatOf`), so every step of the
orchestrator is a stutter there, and a refund, say, is allowed only after a failed notification.

### How the model of the delivery stands for the code

*A message* is a source (what a service meant to send) and a copy number: 0 for the row that the service's
transaction appended, 1, 2, ... for the replays, each of which has a new message id. The topic is one that the
orchestrator consumes; the orchestrator's own outbox feeds it with replays.

*A row of an outbox* has its place by `created_at`. That is taken before the transaction commits, so `AppendRow`
inserts at any place.

*A pass of a relay* is a transaction of several steps: `Poll` locks a batch (`FOR UPDATE SKIP LOCKED`), `Publish` sends
the rows one by one in order, `EndPass` marks and commits. `PublishFails` is an error with or without a message in the
topic; `RollBackPass` is a crash, a failed `MarkPublished` or a failed commit, after which what was sent stays sent.

*A consumer* goes through the phases of one turn of `Consumer.Run`'s loop: `FetchMessage`; `InsertInbox`, which waits
while another transaction inserts the same row (`ON CONFLICT` on the unique index); `CommitHandler`, or `RefuseMessage`
and `WriteDLQ` for an error that `IsPermanent` knows (a panic goes the same way); `CommitMessages`. `Refused` are
messages that no handler takes, `Conditional` those that a handler takes or refuses for the state of its row.

*The group* gives each partition to one consumer. A consumer that loses a partition (`Rebalance`) goes on with the
message it is at, and may commit its offset late, which can set the group's offset back; the new owner starts at the
committed offset. `Crash` rolls back the open transaction and reassigns the partitions.

*The three swallowed errors* are actions of their own, which lead to the phase `done` like a success: `FailTransiently`
(`consumer.go:110-119`), `FailToCommitHandler` (`trx.go:85-86`) and `FailToWriteDLQ` (`wrapper.go:65-70`). The history
variable `spoiled` remembers what they lost. `FailToCommitOffset` is the loop's `continue` after a failed commit.

*A replay* reads the dead message without a lock (`RequestReplay`), and appends a copy and marks it (`CommitReplay`).
`HeadersDecode` is what `json.Unmarshal` does with the stored headers: it fails when `schema_version` is there, because a
string is not an int, and does not when a foreign producer left it out.

### How the model of the scheduler stands for the code

`due[s]` is `next_attempt_at - now` in the unit of `Clock`; so `now` itself, which would grow without end, is not there.
The event handlers are what they do to state, attempts and schedule: `StartOrAdvance` (lines 141-149 and 286-294 of
`saga.go`, and `NewSaga`), `TurnBack` (353-357 and 595-599, which write back the schedule of the snapshot, whatever it
was), `Finish`. They come in any state that `Orchestrator` lets them come in, and more; nothing limits how many sagas are
compensating at once. `Pass` is `ProcessExpired`: the rows that are due, in order, up to the batch's limit, each ticked with
a random jitter.

`waited`, `missed` and `lost` are history: how long a saga has been in its step, how many passes it missed since it became
due, and how many it missed in the earlier attempts of the step. It misses a pass that fails (`FailedPass`), and a pass
that did not take it because compensating rows left fewer than `Room` places of the batch (`Crowded`). `Room` is a
parameter of the account and not of the code: the more room a pass must have to count as a fair one, the sooner those
passes reach a saga (`Rounds`).

## 3. What the runs show

The configurations of the booking and of the delivery say `CHECK_DEADLOCK FALSE`, because the system may stop: a saga
ends, every message is handled, and without fairness nothing has to happen. The scheduler's does not: its clock goes on.

| Run | Instance | Shows |
|---|---|---|
| `one_booking` | 1 saga, 1 seat, 2 attempts, fair scheduler | everything that holds of a saga under loss, repetition, reordering, stale snapshots, failing transactions, retries and escalation; and that it does not run forever |
| `two_bookings` | 2 sagas, 1 seat, 1 attempt, batches of 2 | a seat is never double booked or lost; the services do what `BookingEffects` allows, in its order |
| `on_time` | 2 sagas, 1 seat, no expiry, crashes but no failing transaction, fair consumers | the system refines `SagaPattern`, its safety and its liveness: every started booking ends |
| `delivery` | 2 messages of a service with 2 instances, 1 foreign message, 1 partition, 2 consumers, 1 replay, 1 fault | messages take effect once; the offset passes only what is settled; relays and consumers never get stuck; the promise of `Mailbox` |
| `scheduler` | 3 sagas, 2 attempts, jitter, batches of 2, any number of compensating rows and of failed passes | how late a running saga is served and how long it stays in a step |
| the seven runs that end in a violation | the smallest instance that shows it | section 4 |

### The properties

| Property | What would break it |
|---|---|
| `CompletedIsPaidAndTold` | `HandleNotificationSent` looks at neither the state nor the context |
| `CompensatedHasNoSeat` | a saga is compensated, revived by a late event, and compensated again |
| `RefundOnlyWhenNotificationFailed` | a refund sent on a guess while the notification is under way |
| `SeatsMatchReservations` | `MarkSeatReleased` does not look at the seat's status; a second release would free another saga's seat |
| `ContextIsTruthful` | the ids of a row or of a snapshot stand for something that did not happen |
| `OneEventPerEffect` | a repeated command is answered again, or an effect is not announced |
| `RunningIsScheduled` | a stale copy without a schedule is written over a running saga, which `FindExpired` then never sees |
| `LogExplainsOutcome` | an outcome, or a seat given back, that the audit log does not account for |
| `DeadLetterIsUnrefundedCharge` | the only message that is ever quarantined is a `NotificationFailed` whose `PaymentID` a stale copy has erased; the charge then stands. Any other dead letter, or a refund after all, breaks it. That the refund should have been made is finding 7 |
| `EffectsInOrder` | a charge, a notice or a refund without what justifies it; an effect done twice, or in both ways; a seat that is reserved while another saga holds it |
| `EffectsHappenOnce` | an action property: no step reserves, charges, notifies or undoes a second time |
| `RunningIsResolved` | a tick that neither counts an attempt nor ends the saga |
| `KeepsSafetyPromise` | a booking that ends with a part of what it took, gives it back in another order, or ends twice |
| `KeepsPromise` | a booking that stops on its way for want of a message: one that a service does not send, or that a crash takes away |
| `CommittedIsSettled` | an offset committed by a consumer that has lost the partition, or for more than the message it is at, passes a message that nobody has handled |
| `HandledOnce` | two consumers with the same message, of which the second does not wait for the first one's inbox row |
| `MarkedWasPublished` | a batch of which one row failed, or a pass that begins again, marks a row that never got out |
| `RowIsPublished` | a row behind one that the broker refuses, or one committed late, is never published |
| `PublishedIsSettled` | a message that every handler refuses, or an inbox row whose transaction hangs, stops a partition |
| `ImplementsMailbox` | a message that takes effect twice, or without having been sent |
| `RunningIsServed` | a pass that does not take the oldest rows first, or a row that it leaves at the head of the queue, holds up a running saga for longer than the passes that failed, or that compensating rows crowded, account for |
| `StepIsGivenUp` | an attempt that is not counted, a timeout without a cap: a saga that stays in a step longer than its timeouts and the passes it missed add up to |
| `IInv`, `HInv`, `OInv`, `DInv`, `Sched_Inv` | the inductive invariants of section 5, checked before they are proved |

Each has a mutant, defined next to the operator it replaces (*Mutant of ...*), that TLC finds to violate it.

### The bounds, and why they are enough

* `MaxSagaAttempts` is 5 in the code and 2 in the runs: a saga is retried, then escalated, at each step that
  it reaches, and the attempts are reset between steps, so a retry and an escalation occur at every step. With 1,
  in `two_bookings`, the first tick escalates. (The proofs are for every limit.)
* One saga is enough for all but the seats, because services and handlers look at the rows of one saga only.
  Two sagas meet at the seat: one seat is the case in which they compete.
* `SecondStopsAtSeat` (a constraint of `two_bookings`) stops exploring where the second saga's row has got to
  the charge: the second booking can reserve, be escalated, be revived and fail on the full house, and holds or
  waits for the seat while the first goes through everything.
* Nothing else of the booking is bounded: messages are created by handlers and by attempts, and both come to an end.
* `MaxFaults` (`delivery`) bounds the faults of a behaviour. One is enough to put any of them at any step, and
  `TwoRelays` publish rows twice when one rolls back; liveness holds because faults end. `MaxCopies` bounds the replays of
  a source: a copy has the headers of the system, so its own replay is turned down. One partition is the case in which
  consumers compete and positions have an order; a message of another partition does not touch this one (the proofs are
  for any number). `BatchSize` is 2, so that a batch can hold a row that is refused and one that is not;
  `Unpublishable` has one row, since as many of them as a batch holds would fill every batch. That the liveness properties
  of this run could be stated as `[]<>` of a state is because `Published` and `Settled` only grow.
* The times of `scheduler` are small multiples of the ticker's interval in the proportions that matter: the first timeout is
  below the cap, the second is cut by it, the jitter moves rows past each other, and several rows can be due at once. A
  batch holds two of three sagas, so that none, one or two compensating rows can be in it: one leaves a place, which is
  `Room`, and two crowd the pass.
* `MaxMissed` is how far missed passes are told apart, and bounds nothing that happens: a saga may miss more passes, of which
  the properties then say nothing. The theorems are for every `MaxMissed`, so for every number of missed passes.
  `LongPast` and `LongWait` cut times off beyond what the properties look at.

### Fairness

* `SchedulerSpec` of `BookingSystem`: weak fairness of the scheduler alone. `runScheduler` ticks for as long as the
  process runs, and `ProcessExpired` needs nobody else.
* `PunctualSpec`: weak fairness of the three services and of taking an event, strong fairness of each handler that
  was begun: `Consumer.Run` is a loop that blocks on nothing but the next message, the relay publishes every committed
  row in time, and a message whose handler a crash cut off is handed out again, since its offset was not committed. The
  strong fairness says that crashes do not cut off every one of these handlers. Transactions that fail without a crash are
  excluded: the code does not begin them again. `StartBooking` is the client's choice and has no fairness.
* `FairSpec` of `Delivery`: weak fairness of each relay's and each consumer's loop. Services, operators, foreign
  producers and faults have none.
* `TickingSpec` of `Scheduler`: weak fairness of the clock and strong fairness of a pass that commits, since the ticker goes
  on after a pass that failed. Under it TLC refutes `OverdueIsServed`.
* `Spec`, `OnTimeSpec` and the `SchedulerSpec` of `Scheduler` assume none; the properties of the last bound time instead.

## 4. Where the code departs from what the repository says

Each of these is a run whose property TLC finds violated.

1. **`CompensatedIsRefunded`** (`compensated_not_refunded`). The saga has its seat and its charge, and waits for
   the notification. Its attempts run out. `escalateSaga` sends `ReleaseSeat` and no `Refund`
   (`saga.go:765-778`), although the context has the `PaymentID`; `SeatReleased` makes the saga compensated. The
   money is kept. The README promises *compensation in reverse order*.
2. **`CompletedHoldsSeat`** (`completed_without_seat`). The notification was sent, and `HandleNotificationSent` has
   read the row or not yet begun, when the attempts run out. The seat is released. Then `HandleNotificationSent`,
   which does not look at the state, completes the saga (`saga.go:533`). The customer has paid, was told so, and has
   no seat.
3. **`CompletionIsFinal`** (`completed_then_failed`). A `ReserveSeat` is sent again while the answer is on its way. It has a new
   message id, and its handler asks `FindFreeSeat` before anything looks for a reservation of the saga
   (`reservation.go:74`): the saga itself has the last seat, so the answer is that there is none. The booking goes on and is
   completed. Then the refusal is handled, and `HandleSeatReservationFailed` sets the saga to failed, whatever its state was
   (`saga.go:411`). The customer has the seat, has paid and was told so. The README calls the inbox *effectively exactly-once*
   and says that handlers check the state against *out-of-order delivery and replays*. It is one way to break
   `OutcomeIsFinal`; another is a late `SeatReserved` that sets a failed saga running again (`saga.go:141`).
4. **`OverdueIsServed`** (`starved_saga`). A payment or notification failed, the saga is compensating, and its schedule is left
   as it was. The `ReleaseSeat` or its answer is lost. Each pass of the scheduler finds the row, and
   `rePublishCurrentCommand` returns in its `default` branch before the `Upsert` (`saga.go:721`): nothing is sent again
   and the attempt is not counted. (The branch of `escalateSaga` that would fail the saga is reached only by one that turned
   to compensation in its last attempt.) So the row keeps its place at the head of `ORDER BY next_attempt_at`, and ten of them
   are every batch: a running saga behind them is due and neither retried nor escalated. The run has a batch of one, and
   assumes that the clock goes on, that passes succeed again and again, and that the handlers come to rest.
5. **`NothingIsLost`** (`lost_message`). A handler fails with an error that is not permanent: the connection to the
   database is gone, a row was not found. `Consumer.Run` goes on to `CommitMessages` (`consumer.go:119`), and the message is
   neither in the inbox nor in `dead_message`. The README relies on *Kafka redelivery for transient errors*. A failed
   `Commit`, whose error does not reach the caller of `runInTx` (`trx.go:86`), and a failed insert into `dead_message`, which is
   only logged (`wrapper.go:67`), lose a message in the same way.
6. **`InOrderDelivery`** (`out_of_order`). Two rows of one outbox go to different partitions, because `LeastBytes`
   (`producer.go:33`) does not look at the key, and the later one is handled first. No fault is needed. The README says that
   the key *guarantees in-order delivery for a single saga* within a topic.
7. **`NotificationFailureIsUndone`** (`refund_never_sent`). A `ReserveSeat` that was sent again is refused. Its handler reads
   the row before `HandlePaymentCharged` commits and writes its copy after it, so the `PaymentID` is erased
   (`repo/saga.go:27-47`). The notification fails, `HandleNotificationFailed` finds no `PaymentID` (`saga.go:586`), and the event is
   quarantined: no `Refund` and no `ReleaseSeat` is sent. The README says that *we must roll back both the charge and the
   seat*.

`OnTimeBooking` is the other side of 1 to 3: as long as the scheduler has nothing to do, the promise is kept, and so are
the first two and `OutcomeIsFinal`, of which the third is a part (`OnTimeCompensatedIsRefunded`,
`OnTimeCompletedHoldsSeat`, `OnTimeOutcomeIsFinal` of section 5).
`CommittedIsSettled` is the other side of 5: nothing is lost in any other way. `RunningIsServed` is the other side of 4:
nothing else holds a saga up.

One more departure needs no run. `writeDLQ` stores the Kafka headers, which are strings; `ReplayDeadMessage` decodes them into
`MessageHeaders`, in which `schema_version` is an int, and fails (`saga.go:634`). The README speaks of *manual replay*, but only a
message without that header can be replayed, and every message that went through an outbox has it. `HeadersDecode` is
that decoding.

## 5. What is proved

### The booking

`BookingSystemProofs`, `BookingHistoryProofs` and `BookingEffectsProofs` prove, of `Spec`, for any `Saga` and `Seat`, any `MaxSagaAttempts` and
`BatchLimit` that are positive numbers, and a `None` that is no seat (`MaxSagaAttemptsAssumption`, `BatchLimitAssumption`,
`NoneAssumption`, the only assumptions):

| Theorem | Property |
|---|---|
| `InvariantHolds` | `IInv` |
| `TypeCorrect` | `TypeOK` |
| `CompletedWasPaid` | `CompletedIsPaidAndTold` |
| `CompensatedGaveSeatBack` | `CompensatedHasNoSeat` |
| `RefundIsJustified` | `RefundOnlyWhenNotificationFailed` |
| `ContextNeverLies` | `ContextIsTruthful` |
| `RunningHasSchedule` | `RunningIsScheduled` |
| `EffectsNeverRepeat` | `EffectsHappenOnce` |
| `SeatsNeverDoubleBooked` | `SeatsMatchReservations` |
| `HistoryInvariantHolds` | `HInv` |
| `OneEventEach` | `OneEventPerEffect` |
| `LogIsComplete` | `LogExplainsOutcome` |
| `DeadLetterKeepsCharge` | `DeadLetterIsUnrefundedCharge` |
| `ServicesKeepOrder` | `EffectsInOrder` |

*The argument of `BookingSystemProofs`.* None of the properties is inductive, not even `TypeOK` (that an inbox row is for
a committed message follows from the message that the handler holds). The orchestrator acts on messages that may be
old and on copies that may be stale, so the invariant `IInv` says what every committed message (`MessageOK`) and every row
and snapshot (`RowOK`) stands for. All of that is about effects of the services, and `EffectsOnce`
says that an effect stays (lemma `StepEffectsOnce`): a reservation may become released, a charge refunded, but none
goes away. So what was true of a message or a copy when it was made is true for good (`MessageStaysOK`,
`RowStaysOK`), however late it is used. What is left is what a step makes: `ServiceKeepsRest` reduces the
services to their own table and their events, `HandlerCommits` summarises the eight event handlers, and `TickOK`
the scheduler. `ServicesOK` closes the circle for money: a notification follows a charge, a refund follows a failed
notification, and a notification is never made anew, so a saga whose notification was sent cannot be refunded.
`SeatsNeverDoubleBooked` needs an induction of its own, in which `IInv` supplies the types.

*The argument of `BookingHistoryProofs`.* What is said of the past needs an invariant about history, `HInv`, on top of
`IInv`. Three lemmas reduce every step: a service does one effect and emits the one event that tells of it, or neither
(`ServiceAnswers`); a handler that commits has one of a few outcomes (`HandlerOutcome`); a tick leaves the context alone
(`TickOutcome`). `EventsOK`, which is `OneEventPerEffect` with the effect as a parameter (`EventsAreEffects`), follows by
counting. `LogOK` says which messages and rows can be there only after which steps were logged, and the log only grows.
The dead letters need to know what a stale copy can destroy: the seat is written once, before any handler of another
topic can hold a copy without it (`SeatColumnOK`), so no handler finds it missing; the payment can be erased by a copy
that the inventory topic took before it was set, but then no copy brings it back (`PaymentColumnOK`), because the event
that sets it was handled; so a `NotificationFailed` that finds it missing is never followed by a refund (`RefundsOK`,
`DeadOK`). `NeverBoth` (a notification is not both sent and failed) excludes the rest.

*The argument of `BookingEffectsProofs`.* `ServicesKeepOrder` is the refinement of `BookingEffects`. A step of the
orchestrator leaves the tables of the services alone and is a stutter (`SameTablesStutter`); by `ServiceAnswers`, a step of
a service does nothing or the one effect that its command asks for. What has to come before it follows from what the
command stands for (`CommandIsJustified`: `MessageOK`, and `SeatColumnOK` for a charge); that it is the first of
its kind, from the row that it leaves, which says one thing only (`EffectIsFirst`); and that a reserved seat was
free, from `EffectsOnce` and from `SeatsMatchReservations` after the step (`EffectMovesSeat`).

### The booking on time

`OnTimeProofs` proves, of `OnTimeSpec`, under the same assumptions:

| Theorem | Property |
|---|---|
| `OnTimeInvariantHolds` | `IInv` and `OInv` |
| `OnTimeBookingKeepsPromise` | `KeepsSafetyPromise`: the refinement of `SagaPattern` |
| `OnTimeCompletedHoldsSeat` | `CompletedHoldsSeat` |
| `OnTimeCompensatedIsRefunded` | `CompensatedIsRefunded` |
| `OnTimeOutcomeIsFinal` | `OutcomeIsFinal` |

The last three are violated in `Spec`, as section 4 shows. The only steps of `Spec` that `OnTimeSpec` does
without are those of the scheduler; redelivery, reordering, interleaving, failing transactions and dead letters are all
there. So it takes a retry or an escalation to break them. The run `on_time` checks `PunctualSpec` for the sake of liveness; its
`Crash` is an `AbortStep` of each handler that is under way, one after the other.

*The argument.* On time a saga is a token that is handed on. `OInv` says that a saga under way has exactly one message that
is not handled, that the type of this message tells what each service has done (`Stage`) and which ids the row has
(`KnowsIds`), and that no handler's copy of the row is stale (`CopiesAreFresh`). For that the message that a step sends must be
a new one, which `IdsAreFresh` says by counting. Every step about a saga handles the one message and puts one in its
place, or none (`Replaces`); lemmas `HandOn` and `HandIn` say what is then left to show of the step: where the saga goes.
No reply finds an id missing (`NoReplyIsRefused`), so nothing is quarantined, and the branches that ignore an event are
never taken. Where a saga can go from where it stands is a table of fifteen moves (`Course`), and `MoveIsPattern` shows
that each is a step of `SagaPattern`, or stutters.

### The delivery

`DeliveryProofs` proves, of `Delivery`'s `Spec`, for any sets of sources, services, relays, partitions, consumers and operators, any
batch size, and any number of copies and faults, under the assumptions that `Kafka`, `OutboxRelay`, `DeadLetters` and `Delivery` name:

| Theorem | Property |
|---|---|
| `DeliveryInvariantHolds` | `DInv` |
| `DeliveryTypeCorrect` | `Delivery_TypeOK` |
| `OffsetNeverOvertakes` | `CommittedIsSettled` |
| `HandledAtMostOnce` | `HandledOnce` |
| `MarkedRowsArePublished` | `MarkedWasPublished` |
| `DeliveryIsMailbox` | `ImplementsMailbox` |

*The argument.* An offset may be committed by a consumer that lost the partition long ago, so `DInv` says of every
consumer that all positions before the one it is at are settled (`WorkOK`), of every owner that what it has fetched is
settled or in its hands (`CursorOK`), and of the committed offset that what is before it is settled (`OffsetOK`). Settled
messages stay settled and a partition is only appended to, so all three survive whatever others do. `InsertedOK` is
the unique index: of all consumers that hold a message, one at most has its inbox row uncommitted, which makes
`HandledOnce` inductive. The relays need only that what a pass has sent is published. The refinement of `Mailbox` then takes
one look at each actor: `CommitHandler` is the only step in which anything takes effect (`OnlyHandlersTakeEffect`).

### The scheduler

`SchedulerProofs` proves, of `SchedulerSpec`, for any finite number of sagas, any attempt limit, timeouts, jitter and interval, any
batch, any number of compensating rows and any number of failed passes (`TimeAssumption`, `BatchAssumption`):

| Theorem | Property |
|---|---|
| `SchedulerInvariantHolds` | `Sched_Inv` |
| `SchedulerTypeCorrect` | `Sched_TypeOK` |
| `RunningIsServedInTime` | `RunningIsServed` |
| `StepIsGivenUpInTime` | `StepIsGivenUp` |

Compensating rows that every pass finds can keep a running saga from being served for ever (finding 4), so no
bound on its lateness holds as such. The theorems say what holds instead: late by more than `MaxLate` is a saga only by
the passes that it missed, one `RepublisherInterval` each, and it missed only passes that failed or that compensating rows
left fewer than `Room` places of. Where such rows are few, this is a bound on time; where they fill batches, it says that
nothing else delays a saga.

*The argument.* How late a row can be depends on the rows before it. `Sched_Inv` says of every overdue saga (`QueueMoves`)
that there is a number `q` of passes that it did not miss and that did not reach it, such that it has waited for no more
than those passes and the missed ones, and that enough rows were served by them (`PassedOver`): the batch of each was full
of rows that were due before it (`FullBatch`), of which `Room` at least were running ones that are now behind it, so
fewer are `Ahead` of it than before (`QueueShrinks`, `OneMorePass`). The rows run out before `Rounds` passes. Then each
attempt takes no longer than its capped timeout, jitter and `MaxLate`; `BudgetIsKept` adds them up, with what is left of the
current attempt. `Budget` is a recursive function, so the proof needs induction over the attempts: it is made without an
induction theorem, from the least natural number that would be a counterexample (`LeastNatural`, `SumsExist`, `BudgetSums`).
That a timeout is positive although `2^a` is known to the provers for given numbers only follows by counting the subsets of
`1 .. a` (`PowerOfTwo`).

### Only model-checked

All liveness (`RunningIsResolved`, `KeepsPromise`, `RowIsPublished`, `PublishedIsSettled`), because fairness and ENABLED are out of
the proof system's reach. The seven properties of section 4 are refuted by their runs and not stated by a theorem of `Spec`.
RECURSIVE operators are out of reach too; the modules do without them.

## 6. What is not modelled, and what comes next

Not modelled, and why:

* HTTP decoding, metrics, configuration, start-up and shutdown, the collectors: no behaviour of the saga depends on them.
* JSON, except for the headers of a replay: a message that does not decode is one of `Refused`.
* A message without a `saga_id` (it is quarantined and cannot be replayed), without a valid `message_id` (all such
  messages share one inbox row), or of an unknown `event_type` (the router drops it): none of the services sends one.
* More than one event. Two instances of the inventory service at once, whose handlers would meet in `SKIP LOCKED`. Two
  schedulers, or a pass that skips a row which a handler is just committing: it finds the row at the next tick, if it is
  still due. A time in which the orchestrator is not running is not bounded by `Scheduler`.
* The topology of topics in `Delivery`: one topic, the orchestrator's side of the dead letters. A worker service is the same
  consumer without `Wrap`, for which every error is transient.

What a continuation would do, in order:

1. `InventoryWorkers`: several instances of the inventory service, each handler in the steps of its SQL statements.
2. A shorter account of `PassInv` in `SchedulerProofs`, by its three kinds of row: served, passed over, not yet due.
