---------------------------- MODULE SchedulerProofs ----------------------------
(***************************************************************************)
(* Theorems about Scheduler and their proofs.                              *)
(***************************************************************************)
EXTENDS SchedulerInvariant, FiniteSetTheorems, WellFoundedInduction, TLAPS

(***************************************************************************)
(* The natural numbers.  Facts that need induction are proved from the     *)
(* least counterexample.                                                   *)
(***************************************************************************)
\* A set of natural numbers that is not empty has a least element.
LEMMA LeastNatural ==
    ASSUME NEW T \in SUBSET Nat, T # {}
    PROVE  \E n \in T : \A k \in T : n <= k
  <1>1. PICK n \in T : \A k \in T : ~ (<<k, n>> \in OpToRel(<, Nat))
    BY NatLessThanWellFounded, WFMin
  <1>2. ASSUME NEW k \in T, k < n PROVE <<k, n>> \in OpToRel(<, Nat)
    BY <1>2 DEF OpToRel
  <1>3. \A k \in T : ~ (k < n)
    BY <1>1, <1>2, Zenon
  <1>4. \A k \in T : n <= k
    BY <1>3, SMT
  <1> QED BY <1>4

\* A power of two is positive: it counts the subsets of a set.
LEMMA PowerOfTwo == \A n \in Nat : 2^n \in Nat \ {0}
  <1> SUFFICES ASSUME NEW n \in Nat PROVE 2^n \in Nat \ {0}
    OBVIOUS
  <1>1. IsFiniteSet(1 .. n) /\ Cardinality(1 .. n) = n
    BY FS_Interval, SMT
  <1>2. IsFiniteSet(SUBSET (1 .. n)) /\ Cardinality(SUBSET (1 .. n)) = 2^n
    BY <1>1, FS_SUBSET
  <1>3. Cardinality(SUBSET (1 .. n)) \in Nat
    BY <1>2, FS_CardinalityType
  <1>4. Cardinality(SUBSET (1 .. n)) # 0
    <2>1. {} \in SUBSET (1 .. n)
      OBVIOUS
    <2> QED BY <2>1, <1>2, FS_EmptySet
  <1> QED BY <1>2, <1>3, <1>4

\* Rounding down loses no whole part.
LEMMA DivisionBound ==
    ASSUME NEW a \in Int, NEW b \in Nat \ {0}
    PROVE  /\ a \div b \in Int
           /\ \A q \in Int : q * b <= a => q <= a \div b
  <1>1. a \div b \in Int
    BY SMT
  <1>2. ASSUME NEW q \in Int, q * b <= a PROVE q <= a \div b
    BY <1>2, SMT
  <1> QED BY <1>1, <1>2

\* The sums of a sequence of numbers exist as a function.
LEMMA SumsExist ==
    ASSUME NEW m \in Nat, NEW g \in [Nat -> Nat]
    PROVE  \E f \in [0 .. m -> Nat] :
               f[0] = 0 /\ \A n \in 1 .. m : f[n] = f[n - 1] + g[n - 1]
  <1> DEFINE Sums(f, n) == /\ f \in [0 .. n -> Nat]
                           /\ f[0] = 0
                           /\ \A i \in 1 .. n : f[i] = f[i - 1] + g[i - 1]
             Without == {n \in Nat : ~ \E f \in [0 .. n -> Nat] : Sums(f, n)}
  <1>1. 0 \notin Without
    <2>1. Sums([i \in 0 .. 0 |-> 0], 0)
      OBVIOUS
    <2> QED BY <2>1
  <1>2. ASSUME NEW n \in Nat, n \notin Without PROVE n + 1 \notin Without
    <2>1. PICK f \in [0 .. n -> Nat] : Sums(f, n)
      BY <1>2
    <2> DEFINE h == [i \in 0 .. n + 1 |-> IF i <= n THEN f[i] ELSE f[n] + g[n]]
    <2>2. h \in [0 .. n + 1 -> Nat]
      OBVIOUS
    <2>3. h[0] = 0
      BY <2>1
    <2>4. ASSUME NEW i \in 1 .. n + 1 PROVE h[i] = h[i - 1] + g[i - 1]
      <3>1. CASE i <= n
        <4>1. i \in 1 .. n /\ h[i] = f[i] /\ h[i - 1] = f[i - 1]
          BY <3>1
        <4> QED BY <4>1, <2>1
      <3>2. CASE i = n + 1
        <4>1. h[i] = f[n] + g[n] /\ h[i - 1] = f[n] /\ i - 1 = n
          BY <3>2
        <4> QED BY <4>1
      <3> QED BY <3>1, <3>2
    <2> QED BY <2>2, <2>3, <2>4
  <1>3. Without = {}
    <2> SUFFICES ASSUME Without # {} PROVE FALSE
      OBVIOUS
    <2>1. Without \in SUBSET Nat
      OBVIOUS
    <2>2. PICK n \in Without : \A k \in Without : n <= k
      BY <2>1, LeastNatural
    <2> HIDE DEF Without
    <2>3. n \in Nat /\ n # 0
      BY <2>1, <1>1
    <2>4. n - 1 \in Nat /\ ~(n <= n - 1) /\ n - 1 + 1 = n
      BY <2>3
    <2>5. n - 1 \notin Without
      BY <2>4, <2>2
    <2> QED BY <2>4, <2>5, <1>2
  <1> QED BY <1>3

(***************************************************************************)
(* The constants.                                                          *)
(***************************************************************************)
\* The assumptions, taken apart.
LEMMA ConstantTypes ==
    /\ MaxSagaAttempts \in Nat \ {0}
    /\ InitialStepTimeout \in Nat \ {0}
    /\ MaxStepTimeout \in Nat \ {0}
    /\ RepublisherInterval \in Nat \ {0}
    /\ MaxMissed \in Nat \ {0}
    /\ MaxJitter \in Nat
    /\ BatchLimit \in Nat
    /\ Room \in Nat \ {0}
    /\ Room <= BatchLimit
    /\ IsFiniteSet(Saga)
    /\ Cardinality(Saga) \in Nat
    /\ None \notin Int
  BY TimeAssumption, BatchAssumption, FS_CardinalityType DEF TimeAssumption, BatchAssumption

\* The time that n passes take.
Span(n) == n * RepublisherInterval

LEMMA RoundsBound ==
    /\ Rounds \in Nat \ {0}
    /\ \A q \in Nat :
           Cardinality(Saga) > BatchLimit + (q - 1) * Room => q + 1 <= Rounds
  <1> DEFINE total == Cardinality(Saga) - BatchLimit + Room - 1
  <1>1. Room \in Nat \ {0} /\ total \in Int
    BY ConstantTypes
  <1>2. total \div Room \in Int /\ \A q \in Int : q * Room <= total => q <= total \div Room
    BY <1>1, DivisionBound
  <1>3. Rounds = 1 + LargerOf(0, total \div Room)
    BY DEF Rounds
  <1>4. ASSUME NEW q \in Nat, Cardinality(Saga) > BatchLimit + (q - 1) * Room
        PROVE  q + 1 <= Rounds
    <2>1. q * Room = (q - 1) * Room + Room /\ (q - 1) * Room \in Int
      BY <1>1
    <2>2. q * Room <= total
      BY <2>1, <1>1, <1>4, ConstantTypes
    <2>3. q <= total \div Room
      BY <2>2, <1>2
    <2> QED BY <2>3, <1>2, <1>3 DEF LargerOf
  <1>5. Rounds \in Nat \ {0}
    BY <1>2, <1>3 DEF LargerOf
  <1> QED BY <1>4, <1>5

LEMMA MaxLateType == MaxLate \in Nat /\ MaxLate = Span(Rounds) - 1
  <1>1. Rounds * RepublisherInterval \in Nat \ {0}
    BY RoundsBound, ConstantTypes
  <1> QED BY <1>1 DEF MaxLate, Span

LEMMA LongPastType == LongPast \in Int /\ LongPast = -(MaxLate + Span(MaxMissed)) /\ LongPast <= 0
  <1>1. MaxMissed * RepublisherInterval \in Nat
    BY ConstantTypes
  <1> QED BY <1>1, MaxLateType DEF LongPast, Span

LEMMA TimeType == Time \subseteq Int /\ None \notin Time
                  /\ \A d \in Int : 0 <= d /\ d <= MaxStepTimeout + MaxJitter => d \in Time
  BY LongPastType, ConstantTypes DEF Time

\* The timeout of an attempt without its jitter.
Capped(a) == SmallerOf(InitialStepTimeout * 2^a, MaxStepTimeout)

LEMMA CappedType == \A a \in Nat : Capped(a) \in Nat \ {0} /\ Capped(a) <= MaxStepTimeout
  <1> SUFFICES ASSUME NEW a \in Nat
               PROVE  Capped(a) \in Nat \ {0} /\ Capped(a) <= MaxStepTimeout
    OBVIOUS
  <1>1. 2^a \in Nat \ {0}
    BY PowerOfTwo
  <1>2. InitialStepTimeout * 2^a \in Nat \ {0}
    BY <1>1, ConstantTypes
  <1> QED BY <1>2, ConstantTypes DEF Capped, SmallerOf

\* What StepTimeout returns.
LEMMA TimeoutBounds ==
    ASSUME NEW a \in Nat, NEW j \in Jitter
    PROVE  /\ StepTimeout(a, j) \in Nat \ {0}
           /\ StepTimeout(a, j) <= Capped(a) + MaxJitter
           /\ StepTimeout(a, j) \in Time
  <1>1. StepTimeout(a, j) = Capped(a) + j
    BY DEF StepTimeout, Capped
  <1>2. j \in Nat /\ j <= MaxJitter
    BY ConstantTypes DEF Jitter
  <1>3. Capped(a) \in Nat \ {0} /\ Capped(a) <= MaxStepTimeout
    BY CappedType
  <1>4. StepTimeout(a, j) \in Nat \ {0} /\ StepTimeout(a, j) <= Capped(a) + MaxJitter
        /\ StepTimeout(a, j) <= MaxStepTimeout + MaxJitter
    BY <1>1, <1>2, <1>3, ConstantTypes
  <1> QED BY <1>4, TimeType

\* Budget is the function that its recursive definition describes.
LEMMA BudgetSums ==
    /\ Budget \in [0 .. MaxSagaAttempts -> Nat]
    /\ \A n \in 0 .. MaxSagaAttempts - 1 :
           Budget[n + 1] = Budget[n] + Capped(n) + MaxJitter + MaxLate
    /\ Budget[0] = 0
  <1> DEFINE share == [n \in Nat |-> Capped(n) + MaxJitter + MaxLate]
             Next(f, n) == IF n = 0 THEN 0
                           ELSE f[n - 1] + SmallerOf(InitialStepTimeout * 2^(n - 1), MaxStepTimeout)
                                         + MaxJitter + MaxLate
             Solves(f) == f = [n \in 0 .. MaxSagaAttempts |-> Next(f, n)]
  <1>1. share \in [Nat -> Nat]
    BY CappedType, ConstantTypes, MaxLateType
  <1>2. PICK f \in [0 .. MaxSagaAttempts -> Nat] :
            f[0] = 0 /\ \A n \in 1 .. MaxSagaAttempts : f[n] = f[n - 1] + share[n - 1]
    <2> HIDE DEF share
    <2> QED BY <1>1, SumsExist, ConstantTypes
  <1>3. Solves(f)
    <2>1. ASSUME NEW n \in 0 .. MaxSagaAttempts PROVE f[n] = Next(f, n)
      <3>1. CASE n = 0
        BY <3>1, <1>2
      <3>2. CASE n # 0
        <4>1. n - 1 \in Nat /\ n \in 1 .. MaxSagaAttempts /\ n - 1 \in 0 .. MaxSagaAttempts
          BY <3>2, ConstantTypes
        <4>2. f[n] = f[n - 1] + (Capped(n - 1) + MaxJitter + MaxLate)
          BY <4>1, <1>2
        <4>3. Next(f, n) = f[n - 1] + Capped(n - 1) + MaxJitter + MaxLate
          BY <3>2 DEF Capped
        <4>4. f[n - 1] \in Nat /\ Capped(n - 1) \in Nat
          BY <4>1, CappedType
        <4>5. MaxLate \in Int /\ MaxJitter \in Int
          BY MaxLateType, ConstantTypes
        <4> HIDE DEF Next, Solves, share
        <4> QED BY <4>2, <4>3, <4>4, <4>5
      <3> QED BY <3>1, <3>2
    <2> QED BY <2>1
  <1>4. Solves(Budget)
    <2>1. Budget = CHOOSE h : Solves(h)
      BY Zenon DEF Budget
    <2> QED BY <2>1, <1>3, Zenon
  <1>5. ASSUME NEW n \in 0 .. MaxSagaAttempts PROVE Budget[n] = Next(Budget, n)
    <2>1. Budget = [i \in 0 .. MaxSagaAttempts |-> Next(Budget, i)]
      BY <1>4
    <2> HIDE DEF Next
    <2> QED BY <2>1, Zenon
  <1>6. Budget[0] = 0
    BY <1>5, ConstantTypes
  <1>7. ASSUME NEW n \in 0 .. MaxSagaAttempts - 1
        PROVE  Budget[n + 1] = Budget[n] + Capped(n) + MaxJitter + MaxLate
    <2>1. n + 1 \in 0 .. MaxSagaAttempts /\ n + 1 # 0 /\ n + 1 - 1 = n
      BY ConstantTypes
    <2>2. Budget[n + 1] = Next(Budget, n + 1)
      BY <2>1, <1>5
    <2> QED BY <2>1, <2>2 DEF Capped
  <1> DEFINE Wrong == {n \in Nat : n \in 0 .. MaxSagaAttempts /\ Budget[n] \notin Nat}
  <1>8. Wrong = {}
    <2> SUFFICES ASSUME Wrong # {} PROVE FALSE
      OBVIOUS
    <2>1. PICK n \in Wrong : \A k \in Wrong : n <= k
      BY LeastNatural
    <2>2. n # 0 /\ n \in 0 .. MaxSagaAttempts
      BY <1>6, <2>1
    <2>3. /\ n - 1 \in 0 .. MaxSagaAttempts - 1 /\ n - 1 \in Nat
          /\ ~(n <= n - 1) /\ n - 1 + 1 = n
      BY <2>2, ConstantTypes
    <2>4. n - 1 \notin Wrong
      BY <2>1, <2>3
    <2>5. Budget[n - 1] \in Nat
      BY <2>3, <2>4, ConstantTypes
    <2>6. Budget[n] = Budget[n - 1] + Capped(n - 1) + MaxJitter + MaxLate
      BY <1>7, <2>3
    <2>7. Capped(n - 1) \in Nat
      <3> HIDE DEF Wrong
      <3> QED BY <2>3, CappedType
    <2>8. Budget[n] \in Nat
      <3> HIDE DEF Wrong, Next, Solves, share
      <3> QED BY <2>5, <2>6, <2>7, MaxLateType, ConstantTypes
    <2> QED BY <2>8
  <1>9. Budget \in [0 .. MaxSagaAttempts -> Nat]
    <2>1. Budget = [i \in 0 .. MaxSagaAttempts |-> Next(Budget, i)]
      BY <1>4
    <2>2. Budget = [i \in 0 .. MaxSagaAttempts |-> Budget[i]]
      <3> HIDE DEF Next
      <3> QED BY <2>1, Zenon
    <2>3. \A n \in 0 .. MaxSagaAttempts : Budget[n] \in Nat
      BY <1>8, ConstantTypes
    <2> HIDE DEF Next, Wrong, Solves
    <2> QED BY <2>2, <2>3, Zenon
  <1> QED BY <1>6, <1>7, <1>9

\* The first attempts of a step take no longer than all of them.
LEMMA BudgetGrows ==
    /\ Patience \in Nat
    /\ \A n \in 0 .. MaxSagaAttempts : Budget[n] <= Patience
  <1> DEFINE Beyond == {k \in Nat : k <= MaxSagaAttempts /\ ~(Budget[MaxSagaAttempts - k] <= Patience)}
  <1>1. Patience \in Nat /\ Patience = Budget[MaxSagaAttempts]
    BY BudgetSums, ConstantTypes DEF Patience
  <1>2. Beyond = {}
    <2> SUFFICES ASSUME Beyond # {} PROVE FALSE
      OBVIOUS
    <2>1. PICK k \in Beyond : \A i \in Beyond : k <= i
      BY LeastNatural
    <2>2. k # 0
      BY <2>1, <1>1, ConstantTypes
    <2> DEFINE n == MaxSagaAttempts - k
    <2>3. /\ k - 1 \in Nat /\ k - 1 <= MaxSagaAttempts /\ ~(k <= k - 1)
          /\ n \in 0 .. MaxSagaAttempts - 1 /\ MaxSagaAttempts - (k - 1) = n + 1
      BY <2>2, ConstantTypes
    <2>4. Budget[n + 1] <= Patience
      BY <2>1, <2>3
    <2>5. Budget[n + 1] = Budget[n] + Capped(n) + MaxJitter + MaxLate /\ Budget[n] \in Nat
      BY <2>3, BudgetSums, ConstantTypes
    <2>6. Capped(n) \in Nat
      BY <2>3, CappedType, ConstantTypes
    <2>7. Budget[n] <= Patience
      BY <2>4, <2>5, <2>6, <1>1, MaxLateType, ConstantTypes
    <2> QED BY <2>7
  <1>3. ASSUME NEW n \in 0 .. MaxSagaAttempts PROVE Budget[n] <= Patience
    <2>1. MaxSagaAttempts - n \in Nat /\ MaxSagaAttempts - n <= MaxSagaAttempts
          /\ MaxSagaAttempts - (MaxSagaAttempts - n) = n
      BY ConstantTypes
    <2> QED BY <2>1, <1>2
  <1> QED BY <1>1, <1>3

(***************************************************************************)
(* What the invariant says of one saga.                                    *)
(***************************************************************************)
\* The schedule of a running saga is a time.
LEMMA RunningHasTime ==
    ASSUME Sched_Inv, NEW s \in Saga, state[s] = "running"
    PROVE  due[s] \in Int /\ Scheduled(s) /\ due[s] \in Time
  <1>1. due[s] \in Time \cup {None} /\ due[s] # None
    BY DEF Sched_Inv, Sched_TypeOK, Scheduled
  <1> QED BY <1>1, TimeType DEF Scheduled

\* The sagas before another one can be counted.
LEMMA AheadCounts ==
    ASSUME NEW s
    PROVE  /\ IsFiniteSet(Ahead(s)) /\ Cardinality(Ahead(s)) \in Nat
           /\ \A T \in SUBSET Ahead(s) :
                  /\ IsFiniteSet(T) /\ Cardinality(T) \in Nat
                  /\ Cardinality(T) <= Cardinality(Ahead(s))
  <1>1. Ahead(s) \subseteq Saga
    BY DEF Ahead
  <1>2. IsFiniteSet(Ahead(s))
    BY <1>1, ConstantTypes, FS_Subset
  <1> QED BY <1>2, FS_Subset, FS_CardinalityType

LEMMA LongWaitType == LongWait \in Nat
  <1>1. 2 * MaxMissed * RepublisherInterval \in Nat
    BY ConstantTypes
  <1> QED BY <1>1, BudgetGrows DEF LongWait

\* The types of the history of one saga.
LEMMA HistoryTypes ==
    ASSUME Sched_TypeOK, NEW s \in Saga
    PROVE  /\ waited[s] \in Nat
           /\ missed[s] \in 0 .. MaxMissed
           /\ lost[s] \in 0 .. MaxMissed
           /\ attempts[s] \in 0 .. MaxSagaAttempts - 1
           /\ idle \in Nat /\ idle <= RepublisherInterval
  BY LongWaitType, ConstantTypes DEF Sched_TypeOK

\* The bound of RunningIsServed, from the number of passes that went by.
LEMMA ServedInTime ==
    ASSUME Sched_Inv, NEW s \in Saga, state[s] = "running", missed[s] < MaxMissed
    PROVE  due[s] \in Int /\ -(MaxLate + Span(missed[s])) <= due[s]
  <1>0. Sched_TypeOK
    BY DEF Sched_Inv
  <1>1. due[s] \in Int /\ Scheduled(s)
    BY RunningHasTime
  <1>2. missed[s] \in Nat /\ Span(missed[s]) \in Nat
    <2>1. missed[s] \in Nat
      BY <1>0, HistoryTypes, ConstantTypes
    <2> QED BY <2>1, ConstantTypes DEF Span
  <1>3. CASE due[s] > 0
    BY <1>1, <1>2, <1>3, MaxLateType
  <1>4. CASE due[s] <= 0
    <2>1. Overdue(s)
      BY <1>1, <1>4 DEF Overdue
    <2>2. PICK q \in 0 .. Rounds - 1 : PassedOver(s, q)
      BY <2>1 DEF Sched_Inv, QueueMoves
    <2>3. q \in Int /\ q + 1 <= Rounds /\ Rounds \in Int
      BY <2>2, RoundsBound
    <2>4. idle \in Nat /\ idle <= RepublisherInterval
      BY <1>0, HistoryTypes
    <2>5. -due[s] <= Span(q + missed[s]) + idle - 1
      BY <2>2 DEF PassedOver, Span
    <2>6. Span(q + missed[s]) = Span(q) + Span(missed[s]) /\ Span(q + 1) = Span(q) + RepublisherInterval
          /\ Span(q + 1) <= Span(Rounds) /\ Span(q) \in Int /\ Span(Rounds) \in Int
      BY <2>3, <1>2, ConstantTypes DEF Span
    <2> QED BY <1>1, <1>2, <2>4, <2>5, <2>6, MaxLateType, ConstantTypes
  <1> QED BY <1>1, <1>3, <1>4

\* The bound of StepIsGivenUp, from the budget of the current attempt.
LEMMA WaitedInTime ==
    ASSUME Sched_Inv, NEW s \in Saga, state[s] = "running",
           missed[s] < MaxMissed, lost[s] < MaxMissed
    PROVE  waited[s] <= Patience + Span(lost[s] + missed[s])
  <1>0. Sched_TypeOK
    BY DEF Sched_Inv
  <1>1. /\ waited[s] \in Nat /\ missed[s] \in Nat /\ lost[s] \in Nat
        /\ attempts[s] + 1 \in 0 .. MaxSagaAttempts
    BY <1>0, HistoryTypes, ConstantTypes
  <1>2. waited[s] + due[s] + MaxLate <= Budget[attempts[s] + 1] + Span(lost[s])
    BY DEF Sched_Inv, BudgetIsKept, Span
  <1>3. Budget[attempts[s] + 1] \in Nat /\ Budget[attempts[s] + 1] <= Patience /\ Patience \in Nat
    BY <1>1, BudgetSums, BudgetGrows
  <1>4. due[s] \in Int /\ -(MaxLate + Span(missed[s])) <= due[s]
    BY ServedInTime
  <1>5. /\ Span(lost[s] + missed[s]) = Span(lost[s]) + Span(missed[s])
        /\ Span(lost[s]) \in Int /\ Span(missed[s]) \in Int
    BY <1>1, ConstantTypes DEF Span
  <1> QED BY <1>1, <1>2, <1>3, <1>4, <1>5, MaxLateType

(***************************************************************************)
(* The invariant: the initial state, then one lemma per action.            *)
(***************************************************************************)
LEMMA InitInv == Sched_Init => Sched_Inv
  <1> SUFFICES ASSUME Sched_Init PROVE Sched_Inv
    OBVIOUS
  <1> USE DEF Sched_Init
  <1>1. Sched_TypeOK
    BY ConstantTypes, LongWaitType DEF Sched_TypeOK, SagaState
  <1>2. QueueMoves /\ BudgetIsKept /\ NothingMissedEarly
        /\ \A s \in Saga : state[s] = "running" => Scheduled(s)
    BY DEF QueueMoves, BudgetIsKept, NothingMissedEarly, Overdue
  <1> QED BY <1>1, <1>2 DEF Sched_Inv

LEMMA ClockInv == ASSUME Sched_Inv, Clock PROVE Sched_Inv'
  <1>0. Sched_TypeOK
    BY DEF Sched_Inv
  <1>1. ASSUME NEW s \in Saga
        PROVE  /\ due'[s] = Past(due[s])
               /\ waited'[s] = IF state[s] = "running" THEN SmallerOf(waited[s] + 1, LongWait) ELSE 0
               /\ state'[s] = state[s] /\ attempts'[s] = attempts[s]
               /\ missed'[s] = missed[s] /\ lost'[s] = lost[s]
    BY DEF Clock
  <1>2. ASSUME NEW s \in Saga
        PROVE  /\ Past(due[s]) \in Time \cup {None}
               /\ Scheduled(s)' <=> Scheduled(s)
               /\ due[s] # None => due[s] \in Int /\ due'[s] \in Int /\ due'[s] >= due[s] - 1
                                   /\ (due'[s] <= 0 <=> due[s] - 1 <= 0)
    <2>1. due[s] \in Time \cup {None}
      BY <1>0 DEF Sched_TypeOK
    <2>2. CASE due[s] = None
      BY <2>2, <1>1 DEF Scheduled, Past
    <2>3. CASE due[s] # None
      <3>1. due[s] \in Time /\ due[s] \in Int /\ LongPast \in Int /\ LongPast <= 0
        BY <2>1, <2>3, TimeType, LongPastType
      <3>2. due'[s] = LargerOf(due[s] - 1, LongPast)
        BY <2>3, <1>1 DEF Past
      <3>3. due'[s] \in Time /\ due'[s] \in Int /\ due'[s] >= due[s] - 1
            /\ (due'[s] <= 0 <=> due[s] - 1 <= 0)
        BY <3>1, <3>2, ConstantTypes DEF LargerOf, Time
      <3> QED BY <3>1, <3>3, <2>3, <1>1, ConstantTypes DEF Scheduled
    <2> QED BY <2>2, <2>3
  <1>3. ASSUME NEW s \in Saga, state[s] = "running", missed[s] < MaxMissed
        PROVE  due[s] \in Int /\ due'[s] = due[s] - 1
    <2>1. due[s] \in Int /\ -(MaxLate + Span(missed[s])) <= due[s]
      BY <1>3, ServedInTime
    <2>2. missed[s] + 1 <= MaxMissed /\ missed[s] \in Int /\ MaxMissed \in Int
      BY <1>0, <1>3, HistoryTypes, ConstantTypes
    <2>3. Span(missed[s]) + RepublisherInterval <= Span(MaxMissed)
          /\ Span(missed[s]) \in Int /\ Span(MaxMissed) \in Int
      <3>1. Span(missed[s] + 1) = Span(missed[s]) + RepublisherInterval
        BY <2>2, ConstantTypes DEF Span
      <3>2. Span(missed[s] + 1) <= Span(MaxMissed)
        BY <2>2, ConstantTypes DEF Span
      <3>3. Span(missed[s]) \in Int /\ Span(MaxMissed) \in Int
        BY <2>2, ConstantTypes DEF Span
      <3> QED BY <3>1, <3>2, <3>3
    <2>4. LongPast <= due[s] - 1
      BY <2>1, <2>3, LongPastType, MaxLateType, ConstantTypes
    <2>5. due'[s] = LargerOf(due[s] - 1, LongPast)
      BY <2>1, <1>1, ConstantTypes DEF Past
    <2> QED BY <2>1, <2>4, <2>5, LongPastType DEF LargerOf
  <1>4. Sched_TypeOK'
    <2>1. due' \in [Saga -> Time \cup {None}]
      BY <1>2 DEF Clock
    <2>2. ASSUME NEW s \in Saga PROVE waited'[s] \in 0 .. LongWait
      <3>1. waited[s] \in Nat
        BY <1>0, HistoryTypes
      <3> QED BY <3>1, <1>1, LongWaitType DEF SmallerOf
    <2>3. waited' \in [Saga -> 0 .. LongWait]
      BY <2>2 DEF Clock
    <2>4. idle' \in 0 .. RepublisherInterval
      BY <1>0, ConstantTypes DEF Sched_TypeOK, Clock
    <2> QED BY <1>0, <2>1, <2>3, <2>4 DEF Sched_TypeOK, Clock
  <1>5. \A s \in Saga : state'[s] = "running" => Scheduled(s)'
    BY <1>1, <1>2 DEF Sched_Inv
  <1>6. NothingMissedEarly'
    <2> SUFFICES ASSUME NEW s \in Saga, ~Overdue(s)' PROVE missed'[s] = 0
      BY DEF NothingMissedEarly
    <2>1. ~Overdue(s)
      <3> SUFFICES ASSUME Overdue(s) PROVE FALSE
        OBVIOUS
      <3>1. Scheduled(s)' /\ state'[s] = "running" /\ due[s] \in Int /\ due[s] <= 0
        BY <1>1, <1>2 DEF Overdue, Scheduled
      <3>2. due'[s] <= 0
        BY <3>1, <1>2, ConstantTypes
      <3> QED BY <3>1, <3>2 DEF Overdue
    <2> QED BY <2>1, <1>1 DEF Sched_Inv, NothingMissedEarly
  <1>7. QueueMoves'
    <2> SUFFICES ASSUME NEW s \in Saga, Overdue(s)', missed'[s] < MaxMissed
                 PROVE  \E q \in 0 .. Rounds - 1 : PassedOver(s, q)'
      BY DEF QueueMoves
    <2>1. /\ state[s] = "running" /\ due[s] \in Int /\ due'[s] = due[s] - 1 /\ due'[s] <= 0
          /\ missed'[s] = missed[s] /\ missed[s] < MaxMissed
      BY <1>1, <1>3 DEF Overdue
    <2>2. idle \in Nat /\ idle' = idle + 1 /\ missed[s] \in Int
      BY <1>0, HistoryTypes DEF Clock
    <2>3. CASE due[s] = 1
      <3>1. missed[s] = 0
        BY <2>3 DEF Sched_Inv, NothingMissedEarly, Overdue
      <3>2. PassedOver(s, 0)'
        BY <2>1, <2>2, <2>3, <3>1, ConstantTypes DEF PassedOver
      <3>3. 0 \in 0 .. Rounds - 1
        BY RoundsBound
      <3> QED BY <3>2, <3>3
    <2>4. CASE due[s] <= 0
      <3>1. Overdue(s)
        BY <2>1, <2>4, <1>2 DEF Overdue
      <3>2. PICK q \in 0 .. Rounds - 1 : PassedOver(s, q)
        BY <3>1, <2>1 DEF Sched_Inv, QueueMoves
      <3>3. Ahead(s)' \subseteq Ahead(s)
        <4> SUFFICES ASSUME NEW t \in Saga \ {s}, state'[t] = "running", Scheduled(t)',
                            due'[t] <= due'[s]
                     PROVE  t \in Ahead(s)
          BY DEF Ahead
        <4>1. state[t] = "running" /\ Scheduled(t) /\ due[t] # None
          BY <1>1, <1>2 DEF Scheduled
        <4>2. due[t] \in Int /\ due'[t] \in Int /\ due'[t] >= due[t] - 1
          BY <4>1, <1>2
        <4> QED BY <4>1, <4>2, <2>1 DEF Ahead
      <3>4. Cardinality(Ahead(s)') <= Cardinality(Ahead(s))
            /\ Cardinality(Ahead(s)') \in Nat /\ Cardinality(Ahead(s)) \in Nat
        BY <3>3, AheadCounts
      <3>5. q \in Nat /\ Span(q + missed[s]) \in Int /\ (q - 1) * Room \in Int
        BY <2>2, RoundsBound, ConstantTypes DEF Span
      <3>6. -due'[s] <= (q + missed'[s]) * RepublisherInterval + idle' - 1
        <4>1. -due[s] <= Span(q + missed[s]) + idle - 1
          BY <3>2 DEF PassedOver, Span
        <4>2. -due'[s] <= Span(q + missed[s]) + idle' - 1
          BY <4>1, <3>5, <2>1, <2>2
        <4> QED BY <4>2, <2>1 DEF Span
      <3>7. q > 0 => Cardinality(Ahead(s)') + BatchLimit + (q - 1) * Room < Cardinality(Saga)
        <4>1. q > 0 => Cardinality(Ahead(s)) + BatchLimit + (q - 1) * Room < Cardinality(Saga)
          BY <3>2 DEF PassedOver
        <4> QED BY <4>1, <3>4, <3>5, ConstantTypes
      <3>8. PassedOver(s, q)'
        BY <3>6, <3>7 DEF PassedOver
      <3> QED BY <3>8
    <2> QED BY <2>1, <2>3, <2>4
  <1>8. BudgetIsKept'
    <2> SUFFICES ASSUME NEW s \in Saga, state'[s] = "running",
                        missed'[s] < MaxMissed, lost'[s] < MaxMissed
                 PROVE  waited'[s] + due'[s] + MaxLate
                            <= Budget[attempts'[s] + 1] + lost'[s] * RepublisherInterval
      BY DEF BudgetIsKept
    <2>1. waited[s] + due[s] + MaxLate <= Budget[attempts[s] + 1] + Span(lost[s])
      BY <1>1 DEF Sched_Inv, BudgetIsKept, Span
    <2>2. waited[s] \in Nat /\ attempts[s] + 1 \in 0 .. MaxSagaAttempts /\ lost[s] \in Int
      BY <1>0, HistoryTypes, ConstantTypes
    <2>3. waited'[s] \in Int /\ waited'[s] <= waited[s] + 1
      BY <2>2, <1>1, LongWaitType DEF SmallerOf
    <2>4. due[s] \in Int /\ due'[s] = due[s] - 1 /\ attempts'[s] = attempts[s] /\ lost'[s] = lost[s]
      BY <1>1, <1>3
    <2>5. Budget[attempts[s] + 1] \in Nat /\ Span(lost[s]) \in Int
      BY <2>2, BudgetSums, ConstantTypes DEF Span
    <2>6. waited'[s] + due'[s] + MaxLate <= Budget[attempts'[s] + 1] + Span(lost'[s])
      BY <2>1, <2>2, <2>3, <2>4, <2>5, MaxLateType
    <2> QED BY <2>6 DEF Span
  <1> QED BY <1>4, <1>5, <1>6, <1>7, <1>8 DEF Sched_Inv

\* A step that writes one row, and does not leave it overdue, holds up no other.
LEMMA OthersWait ==
    ASSUME Sched_Inv, NEW s \in Saga,
           idle' = idle, missed'[s] = 0,
           \A t \in Saga \ {s} :
               state'[t] = state[t] /\ due'[t] = due[t] /\ missed'[t] = missed[t],
           state'[s] = "running" => due'[s] \in Int /\ due'[s] > 0
    PROVE  QueueMoves' /\ NothingMissedEarly'
  <1>1. ASSUME NEW t \in Saga, Overdue(t)', missed'[t] < MaxMissed
        PROVE  \E q \in 0 .. Rounds - 1 : PassedOver(t, q)'
    <2>1. t # s
      BY <1>1 DEF Overdue
    <2>2. Overdue(t) /\ due'[t] = due[t] /\ missed'[t] = missed[t]
      BY <1>1, <2>1 DEF Overdue, Scheduled
    <2>3. due[t] \in Int /\ due[t] <= 0
      BY <2>2, RunningHasTime DEF Overdue
    <2>4. PICK q \in 0 .. Rounds - 1 : PassedOver(t, q)
      BY <1>1, <2>2 DEF Sched_Inv, QueueMoves
    <2>5. Ahead(t)' \subseteq Ahead(t)
      <3> SUFFICES ASSUME NEW u \in Saga \ {t}, state'[u] = "running", Scheduled(u)',
                          due'[u] <= due'[t]
                   PROVE  u \in Ahead(t)
        BY DEF Ahead
      <3>1. u # s
        BY <2>2, <2>3
      <3> QED BY <3>1, <2>2 DEF Ahead, Scheduled
    <2>6. Cardinality(Ahead(t)') <= Cardinality(Ahead(t))
          /\ Cardinality(Ahead(t)') \in Nat /\ Cardinality(Ahead(t)) \in Nat
      BY <2>5, AheadCounts
    <2>7. (q - 1) * Room \in Int
      BY RoundsBound, ConstantTypes
    <2>8. PassedOver(t, q)'
      BY <2>2, <2>4, <2>6, <2>7, ConstantTypes DEF PassedOver
    <2> QED BY <2>8
  <1>2. ASSUME NEW t \in Saga, ~Overdue(t)' PROVE missed'[t] = 0
    <2>1. CASE t # s
      BY <2>1, <1>2 DEF Sched_Inv, NothingMissedEarly, Overdue, Scheduled
    <2> QED BY <2>1
  <1> QED BY <1>1, <1>2 DEF QueueMoves, NothingMissedEarly

LEMMA StartOrAdvanceInv == ASSUME Sched_Inv, NEW s \in Saga, StartOrAdvance(s) PROVE Sched_Inv'
  <1>0. Sched_TypeOK
    BY DEF Sched_Inv
  <1>1. PICK j \in Jitter :
            /\ state' = [state EXCEPT ![s] = "running"]
            /\ attempts' = [attempts EXCEPT ![s] = 0]
            /\ due' = [due EXCEPT ![s] = StepTimeout(0, j)]
            /\ waited' = [waited EXCEPT ![s] = 0]
            /\ missed' = [missed EXCEPT ![s] = 0]
            /\ lost' = [lost EXCEPT ![s] = 0]
            /\ UNCHANGED idle
    BY DEF StartOrAdvance, ForgetHistory
  <1>2. /\ StepTimeout(0, j) \in Nat \ {0} /\ StepTimeout(0, j) \in Time
        /\ StepTimeout(0, j) <= Capped(0) + MaxJitter
    BY TimeoutBounds
  <1>3. Sched_TypeOK'
    BY <1>0, <1>1, <1>2, ConstantTypes, LongWaitType DEF Sched_TypeOK, SagaState
  <1>4. /\ state'[s] = "running" /\ due'[s] = StepTimeout(0, j) /\ waited'[s] = 0
        /\ attempts'[s] = 0 /\ missed'[s] = 0 /\ lost'[s] = 0
    BY <1>0, <1>1 DEF Sched_TypeOK
  <1>5. \A t \in Saga \ {s} :
            /\ state'[t] = state[t] /\ due'[t] = due[t] /\ attempts'[t] = attempts[t]
            /\ waited'[t] = waited[t] /\ missed'[t] = missed[t] /\ lost'[t] = lost[t]
    BY <1>0, <1>1 DEF Sched_TypeOK
  <1>6. \A t \in Saga : state'[t] = "running" => Scheduled(t)'
    BY <1>2, <1>4, <1>5, ConstantTypes DEF Sched_Inv, Scheduled
  <1>7. QueueMoves' /\ NothingMissedEarly'
    BY <1>1, <1>2, <1>4, <1>5, OthersWait
  <1>8. BudgetIsKept'
    <2>1. Budget[1] = Budget[0] + Capped(0) + MaxJitter + MaxLate /\ Budget[0] = 0
      BY BudgetSums, ConstantTypes
    <2>2. waited'[s] + due'[s] + MaxLate
              <= Budget[attempts'[s] + 1] + lost'[s] * RepublisherInterval
      BY <2>1, <1>2, <1>4, CappedType, ConstantTypes, MaxLateType
    <2> QED BY <2>2, <1>5 DEF Sched_Inv, BudgetIsKept
  <1> QED BY <1>3, <1>6, <1>7, <1>8 DEF Sched_Inv

LEMMA TurnBackInv == ASSUME Sched_Inv, NEW s \in Saga, TurnBack(s) PROVE Sched_Inv'
  <1>0. Sched_TypeOK
    BY DEF Sched_Inv
  <1>1. PICK a \in {0, MaxSagaAttempts - 1}, d \in Time \cup {None} :
            /\ state' = [state EXCEPT ![s] = "compensating"]
            /\ attempts' = [attempts EXCEPT ![s] = a]
            /\ due' = [due EXCEPT ![s] = d]
            /\ waited' = [waited EXCEPT ![s] = 0]
            /\ missed' = [missed EXCEPT ![s] = 0]
            /\ lost' = [lost EXCEPT ![s] = 0]
            /\ UNCHANGED idle
    BY DEF TurnBack, ForgetHistory
  <1>2. Sched_TypeOK'
    BY <1>0, <1>1, ConstantTypes, LongWaitType DEF Sched_TypeOK, SagaState
  <1>3. state'[s] = "compensating" /\ missed'[s] = 0
    BY <1>0, <1>1 DEF Sched_TypeOK
  <1>4. \A t \in Saga \ {s} :
            /\ state'[t] = state[t] /\ due'[t] = due[t] /\ attempts'[t] = attempts[t]
            /\ waited'[t] = waited[t] /\ missed'[t] = missed[t] /\ lost'[t] = lost[t]
    BY <1>0, <1>1 DEF Sched_TypeOK
  <1>5. \A t \in Saga : state'[t] = "running" => Scheduled(t)'
    BY <1>3, <1>4 DEF Sched_Inv, Scheduled
  <1>6. QueueMoves' /\ NothingMissedEarly'
    BY <1>1, <1>3, <1>4, OthersWait
  <1>7. BudgetIsKept'
    BY <1>3, <1>4 DEF Sched_Inv, BudgetIsKept
  <1> QED BY <1>2, <1>5, <1>6, <1>7 DEF Sched_Inv

LEMMA FinishInv == ASSUME Sched_Inv, NEW s \in Saga, Finish(s) PROVE Sched_Inv'
  <1>0. Sched_TypeOK
    BY DEF Sched_Inv
  <1> USE DEF Finish, ForgetHistory
  <1>1. Sched_TypeOK'
    BY <1>0, ConstantTypes, LongWaitType DEF Sched_TypeOK, SagaState
  <1>2. state'[s] = "over" /\ missed'[s] = 0
    BY <1>0 DEF Sched_TypeOK
  <1>3. \A t \in Saga \ {s} :
            /\ state'[t] = state[t] /\ due'[t] = due[t] /\ attempts'[t] = attempts[t]
            /\ waited'[t] = waited[t] /\ missed'[t] = missed[t] /\ lost'[t] = lost[t]
    BY <1>0 DEF Sched_TypeOK
  <1>4. \A t \in Saga : state'[t] = "running" => Scheduled(t)'
    BY <1>2, <1>3 DEF Sched_Inv, Scheduled
  <1>5. QueueMoves' /\ NothingMissedEarly'
    BY <1>2, <1>3, OthersWait
  <1>6. BudgetIsKept'
    BY <1>2, <1>3 DEF Sched_Inv, BudgetIsKept
  <1> QED BY <1>1, <1>4, <1>5, <1>6 DEF Sched_Inv

\* A pass that a saga misses counts as one more, until the count is full.
LEMMA MissedCounts ==
    ASSUME Sched_TypeOK, NEW s \in Saga
    PROVE  /\ MissedBy(s) \in 0 .. MaxMissed
           /\ missed[s] <= MissedBy(s)
           /\ ~Overdue(s) => MissedBy(s) = missed[s]
           /\ Overdue(s) /\ MissedBy(s) < MaxMissed => MissedBy(s) = missed[s] + 1
  <1>1. missed[s] \in 0 .. MaxMissed
    BY HistoryTypes
  <1> QED BY <1>1, ConstantTypes DEF MissedBy, Counted, SmallerOf

\* The wait of a due saga that missed a whole interval, counted as one more pass.
LEMMA OneMorePass ==
    ASSUME NEW n \in Int, NEW d \in Int, -d <= n * RepublisherInterval + RepublisherInterval - 1
    PROVE  -d <= (n + 1) * RepublisherInterval + 0 - 1
  <1>1. Span(n + 1) = Span(n) + RepublisherInterval /\ Span(n) \in Int
    BY ConstantTypes DEF Span
  <1>2. -d <= Span(n) + RepublisherInterval - 1
    BY DEF Span
  <1>3. -d <= Span(n + 1) + 0 - 1
    BY <1>1, <1>2, ConstantTypes
  <1> QED BY <1>3 DEF Span

LEMMA FailedPassInv == ASSUME Sched_Inv, FailedPass PROVE Sched_Inv'
  <1>0. Sched_TypeOK
    BY DEF Sched_Inv
  <1>1. /\ state' = state /\ attempts' = attempts /\ due' = due /\ waited' = waited /\ lost' = lost
        /\ idle = RepublisherInterval /\ idle' = 0
        /\ \A s \in Saga : missed'[s] = MissedBy(s)
    BY DEF FailedPass
  <1>2. Sched_TypeOK'
    <2>1. missed' \in [Saga -> 0 .. MaxMissed]
      BY <1>0, MissedCounts DEF FailedPass
    <2> QED BY <1>0, <1>1, <2>1, ConstantTypes DEF Sched_TypeOK
  <1>3. \A s \in Saga : (Scheduled(s)' <=> Scheduled(s)) /\ (Overdue(s)' <=> Overdue(s))
    BY <1>1 DEF Scheduled, Overdue
  <1>4. NothingMissedEarly'
    BY <1>0, <1>1, <1>3, MissedCounts DEF Sched_Inv, NothingMissedEarly
  <1>5. QueueMoves'
    <2> SUFFICES ASSUME NEW s \in Saga, Overdue(s)', missed'[s] < MaxMissed
                 PROVE  \E q \in 0 .. Rounds - 1 : PassedOver(s, q)'
      BY DEF QueueMoves
    <2>1. Overdue(s) /\ Ahead(s)' = Ahead(s)
      BY <1>1, <1>3 DEF Ahead, Scheduled
    <2>2. missed'[s] = missed[s] + 1 /\ missed[s] < MaxMissed /\ missed[s] \in Int
      BY <2>1, <1>0, <1>1, MissedCounts, HistoryTypes, ConstantTypes
    <2>3. PICK q \in 0 .. Rounds - 1 : PassedOver(s, q)
      BY <2>1, <2>2 DEF Sched_Inv, QueueMoves
    <2>4. q + missed[s] \in Int /\ due[s] \in Int /\ q + missed'[s] = q + missed[s] + 1
      BY <2>1, <2>2, <2>3, RoundsBound, RunningHasTime DEF Overdue
    <2>5. -due[s] <= (q + missed[s]) * RepublisherInterval + RepublisherInterval - 1
      BY <2>3, <1>1 DEF PassedOver
    <2>6. -due[s] <= (q + missed[s] + 1) * RepublisherInterval + 0 - 1
      BY <2>4, <2>5, OneMorePass
    <2>7. -due'[s] <= (q + missed'[s]) * RepublisherInterval + idle' - 1
      BY <2>4, <2>6, <1>1
    <2>8. PassedOver(s, q)'
      BY <2>1, <2>3, <2>7 DEF PassedOver
    <2> QED BY <2>8
  <1>6. BudgetIsKept'
    <2> SUFFICES ASSUME NEW s \in Saga, state[s] = "running",
                        missed'[s] < MaxMissed, lost[s] < MaxMissed
                 PROVE  waited[s] + due[s] + MaxLate
                            <= Budget[attempts[s] + 1] + lost[s] * RepublisherInterval
      BY <1>1 DEF BudgetIsKept
    <2>1. missed[s] < MaxMissed
      BY <1>0, <1>1, MissedCounts, HistoryTypes, ConstantTypes
    <2> QED BY <2>1 DEF Sched_Inv, BudgetIsKept
  <1>7. \A s \in Saga : state'[s] = "running" => Scheduled(s)'
    BY <1>1, <1>3 DEF Sched_Inv
  <1> QED BY <1>2, <1>4, <1>5, <1>6, <1>7 DEF Sched_Inv

\* What tickSaga leaves in a row.
LEMMA TickedRow ==
    ASSUME Sched_TypeOK, NEW s \in Saga, s \in Expired, NEW next \in Time, NEW seated
    PROVE  LET row == Ticked(s, next, s \in seated)
           IN  /\ row.state \in SagaState
               /\ row.attempts \in 0 .. MaxSagaAttempts - 1
               /\ row.due \in Time \cup {None}
               /\ row.state = "running" =>
                      /\ state[s] = "running" /\ attempts[s] + 1 < MaxSagaAttempts
                      /\ row.attempts = attempts[s] + 1 /\ row.due = next
  <1>1. /\ state[s] \in {"running", "compensating"} /\ state[s] \in SagaState
        /\ attempts[s] \in 0 .. MaxSagaAttempts - 1 /\ due[s] \in Time \cup {None}
    BY DEF Expired, Sched_TypeOK
  <1>2. CASE Exhausted(s)
    BY <1>1, <1>2, ConstantTypes DEF Ticked, Escalated, SagaState
  <1>3. CASE ~Exhausted(s)
    BY <1>1, <1>3, ConstantTypes DEF Ticked, RePublished, Exhausted, SagaState
  <1> QED BY <1>2, <1>3

\* A pass that a due saga is not in is full.  Unless it is crowded, at least Room of
\* its rows are running sagas that were due before that saga.
LEMMA FullBatch ==
    ASSUME NEW batch \in SUBSET Saga, FoundExpired(batch),
           NEW s \in Saga, s \notin batch, Overdue(s)
    PROVE  /\ IsFiniteSet(batch)
           /\ Cardinality(batch) = BatchLimit
           /\ Cardinality(batch \cap Ahead(s)) \in Nat
           /\ ~Crowded(batch) => Cardinality(batch \cap Ahead(s)) >= Room
  <1>1. s \in Expired
    BY DEF Overdue, Expired
  <1>2. IsFiniteSet(Expired) /\ IsFiniteSet(batch)
        /\ Cardinality(Expired) \in Nat /\ Cardinality(batch) \in Nat
    BY ConstantTypes, FS_Subset, FS_CardinalityType DEF Expired
  <1>3. Cardinality(batch) = BatchLimit
    <2>1. batch # Expired /\ batch \in SUBSET Expired
      BY <1>1 DEF FoundExpired
    <2>2. Cardinality(batch) # Cardinality(Expired)
      BY <2>1, <1>2, FS_Subset
    <2> QED BY <2>2 DEF FoundExpired, SmallerOf
  <1> DEFINE ahead == batch \cap Ahead(s)
             back  == {t \in batch : state[t] = "compensating"}
  <1>4. batch = ahead \cup back
    <2> SUFFICES ASSUME NEW t \in batch PROVE t \in ahead \cup back
      OBVIOUS
    <2>1. t \in Expired /\ due[t] <= due[s] /\ t # s
      BY <1>1 DEF FoundExpired
    <2> QED BY <2>1 DEF Expired, Ahead
  <1>5. ahead \cap back = {}
    BY DEF Ahead
  <1>6. ahead \subseteq batch /\ back \subseteq batch
    OBVIOUS
  <1>7. Crowded(batch) <=> Cardinality(back) > BatchLimit - Room
    BY DEF Crowded
  <1>8. Cardinality(ahead) \in Nat /\ (~Crowded(batch) => Cardinality(ahead) >= Room)
    <2> HIDE DEF ahead, back
    <2>1. IsFiniteSet(ahead) /\ IsFiniteSet(back)
          /\ Cardinality(ahead) \in Nat /\ Cardinality(back) \in Nat
      BY <1>2, <1>6, FS_Subset, FS_CardinalityType
    <2>2. Cardinality(ahead \cup back)
              = Cardinality(ahead) + Cardinality(back) - Cardinality(ahead \cap back)
      BY <2>1, FS_Union
    <2>3. Cardinality(ahead \cap back) = 0
      BY <1>5, FS_EmptySet
    <2>4. Cardinality(batch) = Cardinality(ahead \cup back)
      BY <1>4, Zenon
    <2> QED BY <1>3, <1>7, <2>1, <2>2, <2>3, <2>4, ConstantTypes
  <1> QED BY <1>2, <1>3, <1>8

\* What a pass that left room did for a due saga it did not reach: if q such passes
\* went by before, now it is one more, and the queue before the saga is as short as
\* PassedOver says.
LEMMA QueueShrinks ==
    ASSUME NEW batch \in SUBSET Saga, FoundExpired(batch), ~Crowded(batch),
           NEW s \in Saga, s \notin batch, Overdue(s),
           Ahead(s)' \subseteq Ahead(s) \ batch,
           NEW q \in 0 .. Rounds - 1, PassedOver(s, q)
    PROVE  /\ q + 1 \in 0 .. Rounds - 1
           /\ Cardinality(Ahead(s)') + BatchLimit + (q + 1 - 1) * Room < Cardinality(Saga)
  <1>1. /\ IsFiniteSet(batch) /\ Cardinality(batch) = BatchLimit
        /\ Cardinality(batch \cap Ahead(s)) \in Nat /\ Cardinality(batch \cap Ahead(s)) >= Room
    BY FullBatch
  <1>2. q \in Nat /\ Rounds \in Nat /\ Cardinality(Saga) \in Nat /\ Room \in Nat
    BY RoundsBound, ConstantTypes
  <1>3. /\ IsFiniteSet(Ahead(s)) /\ IsFiniteSet(Ahead(s)')
        /\ Cardinality(Ahead(s)) \in Nat /\ Cardinality(Ahead(s)') \in Nat
    BY AheadCounts
  <1>4. Cardinality(Ahead(s)') + BatchLimit + q * Room < Cardinality(Saga)
    <2>1. CASE q = 0
      <3>1. Ahead(s)' \cap batch = {} /\ Ahead(s)' \cup batch \in SUBSET (Saga \ {s})
        BY DEF Ahead
      <3>2. IsFiniteSet(Saga \ {s}) /\ Cardinality(Saga \ {s}) = Cardinality(Saga) - 1
        BY ConstantTypes, FS_RemoveElement
      <3>3. Cardinality(Ahead(s)' \cup batch) <= Cardinality(Saga) - 1
        BY <3>1, <3>2, FS_Subset
      <3>4. Cardinality(Ahead(s)' \cup batch)
                = Cardinality(Ahead(s)') + Cardinality(batch) - Cardinality(Ahead(s)' \cap batch)
        BY <1>1, <1>3, FS_Union
      <3>5. Cardinality(Ahead(s)' \cap batch) = 0
        BY <3>1, FS_EmptySet
      <3>6. q * Room = 0
        BY <2>1, <1>2
      <3>7. Cardinality(Ahead(s)') + BatchLimit <= Cardinality(Saga) - 1
        BY <3>3, <3>4, <3>5, <1>1, <1>3, ConstantTypes
      <3> QED BY <3>6, <3>7, <1>2, <1>3, ConstantTypes
    <2>2. CASE q > 0
      <3>1. Cardinality(Ahead(s)) + BatchLimit + (q - 1) * Room < Cardinality(Saga)
        BY <2>2 DEF PassedOver
      <3>2. IsFiniteSet(Ahead(s) \ batch)
            /\ Cardinality(Ahead(s) \ batch)
                   = Cardinality(Ahead(s)) - Cardinality(Ahead(s) \cap batch)
        BY <1>3, FS_Difference
      <3>3. Cardinality(Ahead(s)') <= Cardinality(Ahead(s) \ batch)
        BY <3>2, FS_Subset
      <3>4. Ahead(s) \cap batch = batch \cap Ahead(s)
        OBVIOUS
      <3>5. Cardinality(Ahead(s) \ batch)
                = Cardinality(Ahead(s)) - Cardinality(batch \cap Ahead(s))
        BY <3>2, <3>4, Zenon
      <3>6. Cardinality(Ahead(s)') <= Cardinality(Ahead(s)) - Room
        BY <1>1, <1>2, <1>3, <3>3, <3>5
      <3>7. q * Room = (q - 1) * Room + Room /\ (q - 1) * Room \in Int
        BY <1>2
      <3> QED BY <3>1, <3>7, <3>6, <1>2, <1>3, ConstantTypes
    <2> QED BY <2>1, <2>2, <1>2
  <1>5. q + 1 - 1 = q /\ q * Room \in Nat
    BY <1>2
  <1>6. q + 1 + 1 <= Rounds
    <2>1. q + 1 \in Nat /\ Cardinality(Saga) > BatchLimit + (q + 1 - 1) * Room
      BY <1>2, <1>3, <1>4, <1>5, ConstantTypes
    <2> QED BY <2>1, RoundsBound
  <1> QED BY <1>2, <1>4, <1>5, <1>6

LEMMA PassInv == ASSUME Sched_Inv, Pass PROVE Sched_Inv'
  <1>0. Sched_TypeOK
    BY DEF Sched_Inv
  <1> DEFINE Rows(batch, draw, seated) ==
                 LET row(s) == Ticked(s, StepTimeout(attempts[s] + 1, draw[s]), s \in seated)
                 IN  /\ state' = [s \in Saga |-> IF s \in batch THEN row(s).state ELSE state[s]]
                     /\ attempts' = [s \in Saga |-> IF s \in batch THEN row(s).attempts
                                                                   ELSE attempts[s]]
                     /\ due' = [s \in Saga |-> IF s \in batch THEN row(s).due ELSE due[s]]
  <1>1. PICK batch \in SUBSET Saga :
            /\ FoundExpired(batch)
            /\ \E draw \in [batch -> Jitter], seated \in SUBSET batch : Rows(batch, draw, seated)
            /\ missed' = [s \in Saga |-> CASE s \in batch -> 0
                                          [] s \notin batch /\ Crowded(batch) -> MissedBy(s)
                                          [] s \notin batch /\ ~Crowded(batch) -> missed[s]]
            /\ lost' = [s \in Saga |-> CASE state'[s] # "running" -> 0
                                        [] state'[s] = "running" /\ s \in batch ->
                                               Counted(lost[s] + missed[s])
                                        [] state'[s] = "running" /\ s \notin batch -> lost[s]]
    BY DEF Pass
  <1>2. PICK draw \in [batch -> Jitter], seated \in SUBSET batch : Rows(batch, draw, seated)
    BY <1>1
  <1> DEFINE next(s) == StepTimeout(attempts[s] + 1, draw[s])
             row(s)  == Ticked(s, next(s), s \in seated)
  <1>3. \A s \in Saga \ batch : state'[s] = state[s] /\ attempts'[s] = attempts[s] /\ due'[s] = due[s]
    BY <1>2
  <1>4. \A s \in batch : state'[s] = row(s).state /\ attempts'[s] = row(s).attempts
                         /\ due'[s] = row(s).due
    BY <1>2
  <1>5. /\ state' = [s \in Saga |-> state'[s]]
        /\ attempts' = [s \in Saga |-> attempts'[s]]
        /\ due' = [s \in Saga |-> due'[s]]
    BY <1>2
  <1> HIDE DEF Rows
  <1>6. ASSUME NEW s \in batch
        PROVE  /\ next(s) \in Nat \ {0} /\ next(s) <= Capped(attempts[s] + 1) + MaxJitter
               /\ state'[s] \in SagaState
               /\ attempts'[s] \in 0 .. MaxSagaAttempts - 1
               /\ due'[s] \in Time \cup {None}
               /\ state'[s] = "running" =>
                      /\ state[s] = "running" /\ attempts[s] + 1 < MaxSagaAttempts
                      /\ attempts'[s] = attempts[s] + 1 /\ due'[s] = next(s)
    <2>1. s \in Saga /\ s \in Expired
      BY <1>1 DEF FoundExpired
    <2>2. attempts[s] + 1 \in Nat /\ draw[s] \in Jitter
      BY <1>0, <2>1, ConstantTypes DEF Sched_TypeOK
    <2>3. next(s) \in Nat \ {0} /\ next(s) \in Time /\ next(s) <= Capped(attempts[s] + 1) + MaxJitter
      BY <2>2, TimeoutBounds
    <2> HIDE DEF next
    <2> QED BY <1>0, <1>4, <2>1, <2>3, TickedRow
  <1> HIDE DEF next, row
  <1>7. \A s \in Saga : waited'[s] = IF state'[s] = "running" THEN waited[s] ELSE 0
    BY DEF Pass
  <1>8. idle = RepublisherInterval /\ idle' = 0
    BY DEF Pass
  <1>9. ASSUME NEW s \in Saga
        PROVE  /\ missed'[s] \in 0 .. MaxMissed /\ lost'[s] \in 0 .. MaxMissed
               /\ s \in batch => missed'[s] = 0
               /\ s \notin batch /\ Crowded(batch) => missed'[s] = MissedBy(s)
               /\ s \notin batch /\ ~Crowded(batch) => missed'[s] = missed[s]
               /\ s \notin batch => missed[s] <= missed'[s]
               /\ state'[s] = "running" /\ s \in batch => lost'[s] = Counted(lost[s] + missed[s])
               /\ state'[s] = "running" /\ s \notin batch => lost'[s] = lost[s]
    <2>1. /\ MissedBy(s) \in 0 .. MaxMissed /\ missed[s] <= MissedBy(s)
          /\ missed[s] \in 0 .. MaxMissed /\ lost[s] \in 0 .. MaxMissed
          /\ Counted(lost[s] + missed[s]) \in 0 .. MaxMissed
      BY <1>0, MissedCounts, HistoryTypes, ConstantTypes DEF Counted, SmallerOf
    <2>2. missed'[s] = CASE s \in batch -> 0
                         [] s \notin batch /\ Crowded(batch) -> MissedBy(s)
                         [] s \notin batch /\ ~Crowded(batch) -> missed[s]
      BY <1>1
    <2>3. lost'[s] = CASE state'[s] # "running" -> 0
                       [] state'[s] = "running" /\ s \in batch -> Counted(lost[s] + missed[s])
                       [] state'[s] = "running" /\ s \notin batch -> lost[s]
      BY <1>1
    <2>4. /\ s \in batch => missed'[s] = 0
          /\ s \notin batch /\ Crowded(batch) => missed'[s] = MissedBy(s)
          /\ s \notin batch /\ ~Crowded(batch) => missed'[s] = missed[s]
      BY <2>2
    <2>5. /\ state'[s] = "running" /\ s \in batch => lost'[s] = Counted(lost[s] + missed[s])
          /\ state'[s] = "running" /\ s \notin batch => lost'[s] = lost[s]
          /\ state'[s] # "running" => lost'[s] = 0
      BY <2>3
    <2> QED BY <2>1, <2>4, <2>5, ConstantTypes
  <1>10. \A s \in Saga : state'[s] = "running" => state[s] = "running" /\ Scheduled(s)'
    <2> SUFFICES ASSUME NEW s \in Saga, state'[s] = "running"
                 PROVE  state[s] = "running" /\ Scheduled(s)'
      OBVIOUS
    <2>1. CASE s \in batch
      BY <2>1, <1>6, ConstantTypes DEF Scheduled
    <2>2. CASE s \notin batch
      BY <2>2, <1>3 DEF Sched_Inv, Scheduled
    <2> QED BY <2>1, <2>2
  <1>11. Sched_TypeOK'
    <2>1. ASSUME NEW s \in Saga
          PROVE  /\ state'[s] \in SagaState /\ attempts'[s] \in 0 .. MaxSagaAttempts - 1
                 /\ due'[s] \in Time \cup {None} /\ waited'[s] \in 0 .. LongWait
      <3>1. waited'[s] \in 0 .. LongWait
        BY <1>0, <1>7, LongWaitType DEF Sched_TypeOK
      <3>2. CASE s \in batch
        BY <3>1, <3>2, <1>6
      <3>3. CASE s \notin batch
        BY <3>1, <3>3, <1>0, <1>3 DEF Sched_TypeOK
      <3> QED BY <3>2, <3>3
    <2>2. waited' = [s \in Saga |-> waited'[s]] /\ missed' = [s \in Saga |-> missed'[s]]
          /\ lost' = [s \in Saga |-> lost'[s]]
      <3>1. waited' = [s \in Saga |-> waited'[s]]
        BY DEF Pass
      <3>2. missed' = [s \in Saga |-> missed'[s]]
        BY <1>1, Zenon
      <3>3. lost' = [s \in Saga |-> lost'[s]]
        BY <1>1, Zenon
      <3> QED BY <3>1, <3>2, <3>3
    <2>3. /\ state' \in [Saga -> SagaState]
          /\ attempts' \in [Saga -> 0 .. MaxSagaAttempts - 1]
          /\ due' \in [Saga -> Time \cup {None}]
          /\ waited' \in [Saga -> 0 .. LongWait]
      BY <2>1, <2>2, <1>5
    <2>4. missed' \in [Saga -> 0 .. MaxMissed] /\ lost' \in [Saga -> 0 .. MaxMissed]
      BY <2>2, <1>9
    <2> QED BY <2>3, <2>4, <1>8, ConstantTypes DEF Sched_TypeOK
  <1>12. \A s \in Saga : Overdue(s)' => s \notin batch /\ Overdue(s) /\ due'[s] = due[s]
    <2> SUFFICES ASSUME NEW s \in Saga, Overdue(s)'
                 PROVE  s \notin batch /\ Overdue(s) /\ due'[s] = due[s]
      OBVIOUS
    <2>1. s \notin batch
      <3> SUFFICES ASSUME s \in batch PROVE FALSE
        OBVIOUS
      <3>1. due'[s] = next(s) /\ next(s) \in Nat \ {0}
        BY <1>6 DEF Overdue
      <3> QED BY <3>1 DEF Overdue
    <2> QED BY <2>1, <1>3 DEF Overdue, Scheduled
  <1>13. NothingMissedEarly'
    <2> SUFFICES ASSUME NEW s \in Saga, ~Overdue(s)' PROVE missed'[s] = 0
      BY DEF NothingMissedEarly
    <2>1. CASE s \in batch
      BY <2>1, <1>9
    <2>2. CASE s \notin batch
      <3>1. ~Overdue(s)
        BY <2>2, <1>3 DEF Overdue, Scheduled
      <3>2. missed[s] = 0 /\ MissedBy(s) = missed[s]
        BY <3>1, <1>0, MissedCounts DEF Sched_Inv, NothingMissedEarly
      <3> QED BY <2>2, <3>2, <1>9
    <2> QED BY <2>1, <2>2
  <1>14. QueueMoves'
    <2> SUFFICES ASSUME NEW s \in Saga, Overdue(s)', missed'[s] < MaxMissed
                 PROVE  \E q \in 0 .. Rounds - 1 : PassedOver(s, q)'
      BY DEF QueueMoves
    <2>1. s \notin batch /\ Overdue(s) /\ due'[s] = due[s]
      BY <1>12
    <2>2. due[s] \in Int /\ due[s] <= 0 /\ missed[s] \in Int /\ missed[s] < MaxMissed
      <3>1. missed[s] <= missed'[s] /\ missed'[s] \in Int
        BY <2>1, <1>9
      <3>2. missed[s] \in Int
        BY <1>0, HistoryTypes
      <3> QED BY <3>1, <3>2, <2>1, RunningHasTime, ConstantTypes DEF Overdue
    <2>3. PICK q \in 0 .. Rounds - 1 : PassedOver(s, q)
      BY <2>1, <2>2 DEF Sched_Inv, QueueMoves
    <2>4. q + missed[s] \in Int /\ q \in Nat
      BY <2>2, RoundsBound
    <2>5. -due'[s] <= (q + missed[s] + 1) * RepublisherInterval + idle' - 1
      <3>1. -due[s] <= (q + missed[s]) * RepublisherInterval + RepublisherInterval - 1
        BY <2>3, <1>8 DEF PassedOver
      <3>2. -due[s] <= (q + missed[s] + 1) * RepublisherInterval + 0 - 1
        BY <3>1, <2>2, <2>4, OneMorePass
      <3> QED BY <3>2, <2>1, <1>8
    <2>6. Ahead(s)' \subseteq Ahead(s) \ batch
      <3> SUFFICES ASSUME NEW t \in Saga \ {s}, state'[t] = "running", Scheduled(t)', due'[t] <= due'[s]
                   PROVE  t \in Ahead(s) /\ t \notin batch
        BY DEF Ahead
      <3>1. t \notin batch
        <4> SUFFICES ASSUME t \in batch PROVE FALSE
          OBVIOUS
        <4>1. due'[t] = next(t) /\ next(t) \in Nat \ {0}
          BY <1>6
        <4> QED BY <4>1, <2>1, <2>2
      <3> QED BY <3>1, <1>3, <2>1 DEF Ahead, Scheduled
    <2>7. CASE Crowded(batch)
      <3>1. missed'[s] = missed[s] + 1
        BY <2>1, <2>7, <1>0, <1>9, MissedCounts
      <3>2. Cardinality(Ahead(s)') <= Cardinality(Ahead(s))
            /\ Cardinality(Ahead(s)') \in Nat /\ Cardinality(Ahead(s)) \in Nat
        <4>1. Ahead(s)' \in SUBSET Ahead(s)
          BY <2>6
        <4> QED BY <4>1, AheadCounts
      <3>3. q > 0 => Cardinality(Ahead(s)') + BatchLimit + (q - 1) * Room < Cardinality(Saga)
        <4>1. q > 0 => Cardinality(Ahead(s)) + BatchLimit + (q - 1) * Room < Cardinality(Saga)
          BY <2>3 DEF PassedOver
        <4>2. (q - 1) * Room \in Int
          BY <2>4, ConstantTypes
        <4> QED BY <4>1, <4>2, <3>2, ConstantTypes
      <3>4. q + missed'[s] = q + missed[s] + 1
        BY <3>1, <2>2, <2>4
      <3>5. PassedOver(s, q)'
        BY <3>3, <3>4, <2>5 DEF PassedOver
      <3> QED BY <3>5
    <2>8. CASE ~Crowded(batch)
      <3>1. missed'[s] = missed[s]
        BY <2>1, <2>8, <1>9
      <3>2. /\ q + 1 \in 0 .. Rounds - 1
            /\ Cardinality(Ahead(s)') + BatchLimit + (q + 1 - 1) * Room < Cardinality(Saga)
        BY <1>1, <2>1, <2>3, <2>6, <2>8, QueueShrinks
      <3>3. q + 1 + missed'[s] = q + missed[s] + 1
        BY <3>1, <2>2, <2>4
      <3>4. PassedOver(s, q + 1)'
        BY <3>2, <3>3, <2>5 DEF PassedOver
      <3> QED BY <3>2, <3>4
    <2> QED BY <2>7, <2>8
  <1>15. BudgetIsKept'
    <2> SUFFICES ASSUME NEW s \in Saga, state'[s] = "running",
                        missed'[s] < MaxMissed, lost'[s] < MaxMissed
                 PROVE  waited'[s] + due'[s] + MaxLate
                            <= Budget[attempts'[s] + 1] + lost'[s] * RepublisherInterval
      BY DEF BudgetIsKept
    <2>1. state[s] = "running" /\ waited'[s] = waited[s]
      BY <1>7, <1>10
    <2>2. waited[s] \in Nat /\ missed[s] \in Nat /\ lost[s] \in Nat
      BY <1>0, HistoryTypes, ConstantTypes
    <2>3. CASE s \notin batch
      <3>1. lost'[s] = lost[s] /\ missed[s] <= missed'[s] /\ missed'[s] \in Int
        BY <2>3, <1>9
      <3>2. missed[s] < MaxMissed /\ lost[s] < MaxMissed
        BY <3>1, <2>2, ConstantTypes
      <3> QED BY <2>1, <2>3, <3>1, <3>2, <1>3 DEF Sched_Inv, BudgetIsKept
    <2>4. CASE s \in batch
      <3>1. /\ next(s) \in Nat /\ next(s) <= Capped(attempts[s] + 1) + MaxJitter
            /\ attempts[s] + 1 < MaxSagaAttempts
            /\ attempts'[s] = attempts[s] + 1 /\ due'[s] = next(s)
        BY <2>4, <1>6
      <3>2. attempts[s] \in Nat /\ attempts[s] + 1 \in 0 .. MaxSagaAttempts - 1 /\ attempts[s] + 1 \in Nat
            /\ attempts[s] + 1 \in 0 .. MaxSagaAttempts
        BY <3>1, <1>0, ConstantTypes DEF Sched_TypeOK
      <3>3. lost'[s] = lost[s] + missed[s] /\ missed[s] < MaxMissed /\ lost[s] < MaxMissed
        BY <2>2, <2>4, <1>9, ConstantTypes DEF Counted, SmallerOf
      <3> DEFINE b == attempts[s] + 1
      <3>4. Budget[b + 1] = Budget[b] + Capped(b) + MaxJitter + MaxLate /\ Budget[b] \in Nat
        BY <3>2, BudgetSums
      <3>5. waited[s] + due[s] + MaxLate <= Budget[b] + Span(lost[s])
        BY <2>1, <3>3 DEF Sched_Inv, BudgetIsKept, Span
      <3>6. due[s] \in Int /\ -(MaxLate + Span(missed[s])) <= due[s]
        BY <2>1, <3>3, ServedInTime
      <3>7. Span(lost'[s]) = Span(lost[s]) + Span(missed[s])
            /\ Span(lost[s]) \in Int /\ Span(missed[s]) \in Int
        BY <2>2, <3>3, ConstantTypes DEF Span
      <3>8. Capped(b) \in Nat
        BY <3>2, CappedType
      <3>9. next(s) <= Capped(b) + MaxJitter /\ next(s) \in Nat
        BY <3>1
      <3> HIDE DEF b
      <3>10. waited[s] + next(s) + MaxLate <= Budget[b + 1] + Span(lost'[s])
        BY <2>2, <3>4, <3>5, <3>6, <3>7, <3>8, <3>9, MaxLateType, ConstantTypes
      <3> QED BY <3>1, <3>10, <2>1 DEF b, Span
    <2> QED BY <2>3, <2>4
  <1> QED BY <1>10, <1>11, <1>13, <1>14, <1>15 DEF Sched_Inv

LEMMA StepInv == Sched_Inv /\ [Sched_Next]_vars => Sched_Inv'
  <1> SUFFICES ASSUME Sched_Inv, [Sched_Next]_vars PROVE Sched_Inv'
    OBVIOUS
  <1>1. CASE Clock
    BY <1>1, ClockInv
  <1>2. CASE Pass
    BY <1>2, PassInv
  <1>3. CASE FailedPass
    BY <1>3, FailedPassInv
  <1>4. ASSUME NEW s \in Saga, StartOrAdvance(s) PROVE Sched_Inv'
    BY <1>4, StartOrAdvanceInv
  <1>5. ASSUME NEW s \in Saga, TurnBack(s) PROVE Sched_Inv'
    BY <1>5, TurnBackInv
  <1>6. ASSUME NEW s \in Saga, Finish(s) PROVE Sched_Inv'
    BY <1>6, FinishInv
  <1>7. CASE UNCHANGED vars
    BY <1>7 DEF vars, Sched_Inv, Sched_TypeOK, Scheduled, QueueMoves, Overdue, NothingMissedEarly,
                PassedOver, Ahead, BudgetIsKept
  <1> QED BY <1>1, <1>2, <1>3, <1>4, <1>5, <1>6, <1>7 DEF Sched_Next

(***************************************************************************)
(* The theorems.                                                           *)
(***************************************************************************)
\* The invariant of the scheduler holds, whatever the handlers do, however many
\* sagas are compensating and however many passes fail.
THEOREM SchedulerInvariantHolds == SchedulerSpec => []Sched_Inv
  BY InitInv, StepInv, PTL DEF SchedulerSpec

\* Every row of the scheduler has its type.
THEOREM SchedulerTypeCorrect == SchedulerSpec => []Sched_TypeOK
  <1>1. Sched_Inv => Sched_TypeOK
    BY DEF Sched_Inv
  <1> QED BY SchedulerInvariantHolds, <1>1, PTL

\* A running saga is overdue by MaxLate and a RepublisherInterval for each pass that
\* failed or that compensating rows crowded, at the most, when ProcessExpired takes it.
\* It holds for any number of sagas, of either kind, and counts of missed passes up to
\* any MaxMissed.
THEOREM RunningIsServedInTime == SchedulerSpec => []RunningIsServed
  <1>1. Sched_Inv => RunningIsServed
    <2> SUFFICES ASSUME Sched_Inv, NEW s \in Saga, state[s] = "running", missed[s] < MaxMissed
                 PROVE  due[s] # None
                        /\ due[s] >= -(MaxLate + missed[s] * RepublisherInterval)
      BY DEF RunningIsServed
    <2>1. due[s] \in Int /\ -(MaxLate + Span(missed[s])) <= due[s]
      BY ServedInTime
    <2>2. Span(missed[s]) \in Int
      <3>1. missed[s] \in Int
        BY HistoryTypes, ConstantTypes DEF Sched_Inv
      <3> QED BY <3>1, ConstantTypes DEF Span
    <2>3. due[s] >= -(MaxLate + Span(missed[s]))
      BY <2>1, <2>2, MaxLateType
    <2> QED BY <2>1, <2>3, ConstantTypes DEF Span
  <1> QED BY SchedulerInvariantHolds, <1>1, PTL

\* The timeouts of StepTimeout, their jitter, the lateness of every pass and an
\* interval for each missed one add up to a bound on the time a saga spends in a step.
THEOREM StepIsGivenUpInTime == SchedulerSpec => []StepIsGivenUp
  <1>1. Sched_Inv => StepIsGivenUp
    BY WaitedInTime DEF StepIsGivenUp, Span
  <1> QED BY SchedulerInvariantHolds, <1>1, PTL
=============================================================================
