--------------------------- MODULE SchedulerInvariant ---------------------------
(***************************************************************************)
(* The inductive invariant behind RunningIsServed and StepIsGivenUp.       *)
(*                                                                         *)
(* That a running saga is served in time cannot be read off its row: it    *)
(* depends on how many passes went by and on what is due before it.  The   *)
(* invariant counts both.                                                  *)
(***************************************************************************)
EXTENDS Scheduler

\* The running sagas that a pass takes before s, or may take instead of it.
Ahead(s) == {t \in Saga \ {s} : state[t] = "running" /\ Scheduled(t) /\ due[t] <= due[s]}

\* Since s became due q passes that it did not miss went by and did not reach it.
\* The passes and the missed ones between them took no longer than that; the first
\* took a full batch from before s, and each other one at least Room running sagas.
PassedOver(s, q) ==
    /\ -due[s] <= (q + missed[s]) * RepublisherInterval + idle - 1
    /\ q > 0 => Cardinality(Ahead(s)) + BatchLimit + (q - 1) * Room < Cardinality(Saga)

QueueMoves ==
    \A s \in Saga : Overdue(s) /\ missed[s] < MaxMissed =>
        \E q \in 0 .. Rounds - 1 : PassedOver(s, q)

\* A saga misses no pass before it is due.
NothingMissedEarly == \A s \in Saga : ~Overdue(s) => missed[s] = 0

\* How long the saga can have waited when its current timeout is over.
BudgetIsKept ==
    \A s \in Saga : state[s] = "running" /\ missed[s] < MaxMissed /\ lost[s] < MaxMissed =>
        waited[s] + due[s] + MaxLate
            <= Budget[attempts[s] + 1] + lost[s] * RepublisherInterval

\* Inductive: FindExpired (repo/saga.go:69) serves in the order of next_attempt_at,
\* tickSaga (saga.go:682) moves what it serves behind what waits, and every attempt
\* stays within its share of the time.
Sched_Inv ==
    /\ Sched_TypeOK
    /\ \A s \in Saga : state[s] = "running" => Scheduled(s)
    /\ NothingMissedEarly
    /\ QueueMoves
    /\ BudgetIsKept
=============================================================================
