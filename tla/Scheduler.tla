------------------------------- MODULE Scheduler -------------------------------
(***************************************************************************)
(* The scheduler of the orchestrator with its clock.  Orchestrator lets a  *)
(* row expire at any time; here next_attempt_at is a time, a pass comes    *)
(* once per RepublisherInterval, and FindExpired serves the rows in the    *)
(* order of next_attempt_at.  So this module can say how late a saga is.   *)
(*                                                                         *)
(* Times are relative to now: due[s] is next_attempt_at - now, and one     *)
(* step of Clock takes one from each.  Of a saga only its schedule is      *)
(* kept; the event handlers are what they do to it, at any time and in any *)
(* order, as Orchestrator has the details.                                 *)
(*                                                                         *)
(* A compensating row that still has a schedule is found by every pass and *)
(* left as it is, and nothing bounds how many there are: BatchLimit of     *)
(* them and no other row is served again.  A pass is crowded if they leave *)
(* fewer than Room places of its batch.  How late a running saga is        *)
(* depends on how many passes it missed, because they failed or were       *)
(* crowded; those are counted.                                             *)
(***************************************************************************)
EXTENDS Integers, FiniteSets

CONSTANTS
    Saga,
    None,
    MaxSagaAttempts,    \* attempts after which the scheduler escalates (5 in the code)
    InitialStepTimeout, \* 5 s in the code
    MaxStepTimeout,     \* 60 s in the code
    MaxJitter,          \* the most that rand.Intn adds to a timeout (below 1 s in the code)
    RepublisherInterval,\* time between two passes (1 s by default)
    BatchLimit,         \* rows that one pass takes (10 in the code)
    Room,               \* places of a batch that a pass should have for running sagas
    MaxMissed           \* bound: as far as missed passes are counted

ASSUME TimeAssumption ==
    /\ {MaxSagaAttempts, InitialStepTimeout, MaxStepTimeout, RepublisherInterval, MaxMissed}
           \subseteq Nat \ {0}
    /\ MaxJitter \in Nat

ASSUME BatchAssumption ==
    /\ IsFiniteSet(Saga)
    /\ BatchLimit \in Nat
    /\ Room \in 1 .. BatchLimit
    /\ None \notin Int

VARIABLES
    state,    \* the state column of each row
    attempts, \* the attempts column
    due,      \* next_attempt_at - now, None for NULL
    idle,     \* time since the ticker fired
    waited,   \* history: time since the saga entered its step
    missed,   \* history: passes that the saga missed since it became due
    lost      \* history: passes that it missed in the earlier attempts of its step

vars == <<state, attempts, due, idle, waited, missed, lost>>

SmallerOf(a, b) == IF a < b THEN a ELSE b
LargerOf(a, b)  == IF a > b THEN a ELSE b

Jitter == 0 .. MaxJitter

\* Mutant of StepTimeout: the timeout is not capped.
UncappedTimeout(a, jitter) == InitialStepTimeout * 2^a + jitter

StepTimeout(a, jitter) == SmallerOf(InitialStepTimeout * 2^a, MaxStepTimeout) + jitter

\* Passes until a due row is served, of those that are not missed: the first
\* takes a full batch of the rows before it, and each other one at least Room
\* running sagas that stop being due.
Rounds == 1 + LargerOf(0, (Cardinality(Saga) - BatchLimit + Room - 1) \div Room)

\* How late a running saga is served that missed no pass, in whole units (it is due
\* just after a pass).
MaxLate == Rounds * RepublisherInterval - 1

\* The longest time that the first n attempts of a step take together.
Budget[n \in 0 .. MaxSagaAttempts] ==
    IF n = 0 THEN 0
    ELSE Budget[n - 1] + SmallerOf(InitialStepTimeout * 2^(n - 1), MaxStepTimeout)
                       + MaxJitter + MaxLate

Patience == Budget[MaxSagaAttempts]

\* How far the model tells times apart, and counts missed passes.
LongPast   == -(MaxLate + MaxMissed * RepublisherInterval)
LongWait   == Patience + 2 * MaxMissed * RepublisherInterval
Time       == LongPast .. MaxStepTimeout + MaxJitter
Counted(n) == SmallerOf(n, MaxMissed)

\* "over" is a row that no pass looks at: completed, compensated or failed.  The
\* schedule that some of them keep is not told: TurnBack allows for any.
SagaState == {"none", "running", "compensating", "over"}

Sched_TypeOK ==
    /\ state \in [Saga -> SagaState]
    /\ attempts \in [Saga -> 0 .. MaxSagaAttempts - 1]
    /\ due \in [Saga -> Time \cup {None}]
    /\ idle \in 0 .. RepublisherInterval
    /\ waited \in [Saga -> 0 .. LongWait]
    /\ missed \in [Saga -> 0 .. MaxMissed]
    /\ lost \in [Saga -> 0 .. MaxMissed]

Sched_Init ==
    /\ state = [s \in Saga |-> "none"]
    /\ attempts = [s \in Saga |-> 0]
    /\ due = [s \in Saga |-> None]
    /\ idle = 0
    /\ waited = [s \in Saga |-> 0]
    /\ missed = [s \in Saga |-> 0]
    /\ lost = [s \in Saga |-> 0]

Past(d)      == IF d = None THEN None ELSE LargerOf(d - 1, LongPast)
Scheduled(s) == due[s] # None
Overdue(s)   == state[s] = "running" /\ Scheduled(s) /\ due[s] <= 0

\* A unit of time passes.  The scheduler does not sleep through a tick of its
\* ticker.
Clock ==
    /\ idle < RepublisherInterval
    /\ idle' = idle + 1
    /\ due' = [s \in Saga |-> Past(due[s])]
    /\ waited' = [s \in Saga |-> IF state[s] = "running"
                                 THEN SmallerOf(waited[s] + 1, LongWait)
                                 ELSE 0]
    /\ UNCHANGED <<state, attempts, missed, lost>>

(***************************************************************************)
(* What the handlers do to a schedule.  A handler works on a snapshot that *)
(* may be old by the time it commits, so each may find any state.          *)
(***************************************************************************)
\* The history of a saga that enters a step, or leaves its last one.
ForgetHistory(s) ==
    /\ waited' = [waited EXCEPT ![s] = 0]
    /\ missed' = [missed EXCEPT ![s] = 0]
    /\ lost' = [lost EXCEPT ![s] = 0]

\* POST /bookings, HandleSeatReserved, HandlePaymentCharged: the saga enters a
\* step.
StartOrAdvance(s) ==
    \E j \in Jitter :
        /\ state' = [state EXCEPT ![s] = "running"]
        /\ attempts' = [attempts EXCEPT ![s] = 0]
        /\ due' = [due EXCEPT ![s] = StepTimeout(0, j)]
        /\ ForgetHistory(s)
        /\ UNCHANGED idle

\* HandlePaymentFailed, HandleNotificationFailed: the attempts and the schedule
\* of the snapshot are written back, whatever they were.  Of a compensating row's
\* attempts it matters only whether they are exhausted.
TurnBack(s) ==
    \E a \in {0, MaxSagaAttempts - 1}, d \in Time \cup {None} :
        /\ state[s] # "none"
        /\ state' = [state EXCEPT ![s] = "compensating"]
        /\ attempts' = [attempts EXCEPT ![s] = a]
        /\ due' = [due EXCEPT ![s] = d]
        /\ ForgetHistory(s)
        /\ UNCHANGED idle

\* HandleSeatReservationFailed, HandleSeatReleased, HandleNotificationSent.
Finish(s) ==
    /\ state[s] \in {"running", "compensating"}
    /\ state' = [state EXCEPT ![s] = "over"]
    /\ attempts' = [attempts EXCEPT ![s] = 0]
    /\ due' = [due EXCEPT ![s] = None]
    /\ ForgetHistory(s)
    /\ UNCHANGED idle

(***************************************************************************)
(* A pass: runScheduler, ProcessExpired, FindExpired, tickSaga.            *)
(***************************************************************************)
Expired == {s \in Saga : state[s] \in {"running", "compensating"} /\ Scheduled(s) /\ due[s] <= 0}

\* Mutant of FoundExpired: no ORDER BY.
FoundInAnyOrder(batch) ==
    /\ batch \subseteq Expired
    /\ Cardinality(batch) = SmallerOf(BatchLimit, Cardinality(Expired))

\* ORDER BY next_attempt_at LIMIT BatchLimit; of rows due at the same time any.
FoundExpired(batch) ==
    /\ batch \subseteq Expired
    /\ Cardinality(batch) = SmallerOf(BatchLimit, Cardinality(Expired))
    /\ \A s \in batch, t \in Expired \ batch : due[s] <= due[t]

Exhausted(s) == attempts[s] + 1 >= MaxSagaAttempts

\* Mutant of RePublished: the attempt is not counted.
RePublishedUncounted(s, d) == [state |-> state[s], attempts |-> attempts[s], due |-> d]

\* rePublishCurrentCommand: the timeout grows with the attempts.  A compensating
\* row is left as it is.
RePublished(s, d) ==
    IF state[s] = "running"
    THEN [state |-> "running", attempts |-> attempts[s] + 1, due |-> d]
    ELSE [state |-> state[s], attempts |-> attempts[s], due |-> due[s]]

\* escalateSaga, with ResetSchedule.
Escalated(s, hasSeat) ==
    [state    |-> IF state[s] = "running" /\ hasSeat THEN "compensating" ELSE "over",
     attempts |-> 0,
     due      |-> None]

\* The row of s after tickSaga: next is the timeout that is drawn, hasSeat says
\* whether the context has a reservation.
Ticked(s, next, hasSeat) ==
    IF Exhausted(s) THEN Escalated(s, hasSeat) ELSE RePublished(s, next)

\* The compensating rows of a batch leave fewer than Room places.
Crowded(batch) == Cardinality({s \in batch : state[s] = "compensating"}) > BatchLimit - Room

\* The count of s after a pass that it missed, if it was due.
MissedBy(s) == IF Overdue(s) THEN Counted(missed[s] + 1) ELSE missed[s]

Pass ==
    /\ idle = RepublisherInterval
    /\ \E batch \in SUBSET Saga :
         /\ FoundExpired(batch)
         /\ \E draw \in [batch -> Jitter], seated \in SUBSET batch :
              LET row(s) == Ticked(s, StepTimeout(attempts[s] + 1, draw[s]), s \in seated)
              IN  /\ state' = [s \in Saga |-> IF s \in batch THEN row(s).state ELSE state[s]]
                  /\ attempts' = [s \in Saga |-> IF s \in batch THEN row(s).attempts
                                                                ELSE attempts[s]]
                  /\ due' = [s \in Saga |-> IF s \in batch THEN row(s).due ELSE due[s]]
         /\ missed' = [s \in Saga |-> CASE s \in batch -> 0
                                       [] s \notin batch /\ Crowded(batch) -> MissedBy(s)
                                       [] s \notin batch /\ ~Crowded(batch) -> missed[s]]
         /\ lost' = [s \in Saga |-> CASE state'[s] # "running" -> 0
                                     [] state'[s] = "running" /\ s \in batch ->
                                            Counted(lost[s] + missed[s])
                                     [] state'[s] = "running" /\ s \notin batch -> lost[s]]
    /\ waited' = [s \in Saga |-> IF state'[s] = "running" THEN waited[s] ELSE 0]
    /\ idle' = 0

\* The transaction of a pass fails: all of it is rolled back, the error is
\* logged, and the ticker goes on.
FailedPass ==
    /\ idle = RepublisherInterval
    /\ missed' = [s \in Saga |-> MissedBy(s)]
    /\ idle' = 0
    /\ UNCHANGED <<state, attempts, due, waited, lost>>

Sched_Next ==
    \/ Clock
    \/ Pass
    \/ FailedPass
    \/ \E s \in Saga :
         \/ StartOrAdvance(s)
         \/ TurnBack(s)
         \/ Finish(s)

SchedulerSpec == Sched_Init /\ [][Sched_Next]_vars

\* The clock goes on, and not every pass fails.
TickingSpec == SchedulerSpec /\ WF_vars(Clock) /\ SF_vars(Pass)

(***************************************************************************)
(* Properties.                                                             *)
(***************************************************************************)
\* A running saga is overdue for no longer than it takes the passes to get through
\* the rows before it, and a RepublisherInterval for each pass that failed or that
\* compensating rows crowded (saga.go:669, repo/saga.go:77).  No other saga, however
\* often it is due, holds it up.
RunningIsServed ==
    \A s \in Saga : state[s] = "running" /\ missed[s] < MaxMissed =>
        due[s] # None /\ due[s] >= -(MaxLate + missed[s] * RepublisherInterval)

\* A saga is in one step for no longer than its timeouts and the passes it missed add
\* up to (README:22, model/saga.go:101): by then the step is done or the saga was
\* escalated.
StepIsGivenUp ==
    \A s \in Saga :
        state[s] = "running" /\ missed[s] < MaxMissed /\ lost[s] < MaxMissed =>
            waited[s] <= Patience + (lost[s] + missed[s]) * RepublisherInterval

\* What the repository says of the scheduler and it does not do: once the handlers
\* are at rest, a saga that is due has its command sent again, or is escalated.
\* BatchLimit compensating rows that are due on every pass keep the passes from it.
OverdueIsServed ==
    <>[][Clock \/ Pass \/ FailedPass]_vars => \A s \in Saga : Overdue(s) ~> ~Overdue(s)
=============================================================================
