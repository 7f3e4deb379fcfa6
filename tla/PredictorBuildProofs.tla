------------------------ MODULE PredictorBuildProofs ------------------------
(***************************************************************************)
(* Proofs about PredictorBuild, for every configuration: the number of     *)
(* retries, the durations, the slice and the width of the counter.         *)
(***************************************************************************)
EXTENDS PredictorBuild, FiniteSetTheorems, FunctionTheorems, TLAPS

LEMMA AttemptsPositive ==
  ASSUME retries \in 0 .. MaxU8
  PROVE  total_attempts \in Nat \ {0}
  BY BuildAssumption DEF total_attempts, Least

(* Every variable keeps its type.                                          *)
THEOREM BuildTypeCorrect == Spec => []TypeOK
<1>1. Init => TypeOK
  <2> SUFFICES ASSUME Init PROVE TypeOK
    OBVIOUS
  <2>1. total_attempts \in Nat \ {0}
    BY AttemptsPositive DEF Init
  <2>2. next \in Nat
    BY BuildAssumption DEF Init, Least
  <2>3. i \in 0 .. total_attempts
    BY <2>1 DEF Init
  <2>4. QED
    BY <2>2, <2>3 DEF Init, TypeOK
<1>2. TypeOK /\ [Next]_vars => TypeOK'
  <2> SUFFICES ASSUME TypeOK, [Next]_vars PROVE TypeOK'
    OBVIOUS
  <2> USE BuildAssumption DEF TypeOK, config
  <2>1. total_attempts \in Nat \ {0}
    BY AttemptsPositive
  <2>2. CASE Close
    BY <2>2 DEF Close, total_attempts
  <2>3. CASE Attempt
    <3>1. Least(2 * next, max_wait) \in Nat
      BY DEF Least
    <3>2. i' \in 0 .. total_attempts'
      BY <2>1, <2>3 DEF Attempt, total_attempts
    <3>3. wait' \in Nat /\ next' \in Nat
      BY <2>3, <3>1 DEF Attempt
    <3>4. QED
      BY <2>3, <3>2, <3>3 DEF Attempt, Return
  <2>4. CASE GiveUp
    BY <2>4 DEF GiveUp, Return, total_attempts
  <2>5. CASE FactoryBuilds
    BY <2>5 DEF FactoryBuilds, Return, total_attempts
  <2>6. CASE FactoryFails
    BY <2>6 DEF FactoryFails, total_attempts
  <2>7. CASE Nap
    BY <2>7 DEF Nap, total_attempts
  <2>8. CASE Poll
    <3>1. slept' \in Nat
      BY <2>8 DEF Poll, Least
    <3>2. wait' \in Nat
      BY <2>8 DEF Poll
    <3>3. QED
      BY <2>8, <3>1, <3>2 DEF Poll, total_attempts
  <2>9. CASE SleepOver
    BY <2>9 DEF SleepOver, total_attempts
  <2>3a. CASE UNCHANGED vars
    BY <2>3a DEF vars, total_attempts
  <2>3b. QED
    BY <2>2, <2>3, <2>4, <2>5, <2>6, <2>7, <2>8, <2>9, <2>3a
       DEF Next, Work, Returned
<1>3. QED
  BY <1>1, <1>2, PTL DEF Spec

LEMMA BuildInvHolds == Spec => []BuildInv
<1>1. Init => BuildInv
  BY DEF Init, BuildInv
<1>2. TypeOK /\ BuildInv /\ [Next]_vars => BuildInv'
  <2> SUFFICES ASSUME TypeOK, BuildInv, [Next]_vars PROVE BuildInv'
    OBVIOUS
  <2> USE DEF TypeOK, BuildInv
  <2>1. CASE Close
    BY <2>1 DEF Close
  <2>2. CASE Attempt
    BY <2>2 DEF Attempt, Return
  <2>3. CASE GiveUp
    BY <2>3, AttemptsPositive DEF GiveUp, Return
  <2>4. CASE FactoryBuilds
    BY <2>4 DEF FactoryBuilds, Return
  <2>5. CASE FactoryFails
    BY <2>5 DEF FactoryFails
  <2>6. CASE Nap
    BY <2>6 DEF Nap
  <2>7. CASE Poll
    BY <2>7 DEF Poll
  <2>8. CASE SleepOver
    BY <2>8 DEF SleepOver
  <2>9. CASE UNCHANGED vars
    BY <2>9 DEF vars
  <2>3a. QED
    BY <2>1, <2>2, <2>3, <2>4, <2>5, <2>6, <2>7, <2>8, <2>9
       DEF Next, Work, Returned
<1>3. QED
  BY <1>1, <1>2, BuildTypeCorrect, PTL DEF Spec

(* A cancelled build goes to sleep at most once more, however long the     *)
(* configured waits are.                                                   *)
THEOREM CancelsPromptly == Spec => []PromptCancel
<1>1. BuildInv => PromptCancel
  BY DEF BuildInv, PromptCancel
<1>2. QED
  BY <1>1, BuildInvHolds, PTL

(* Every step of a build is a step of its promise: no factory call after   *)
(* the condition is met, never more than saturating retries + 1, an error  *)
(* only after all of them, Cancelled only when nobody waits.               *)
THEOREM BuildRefinesPromise ==
  Spec => Promise!Init /\ [][Promise!Next]_(Promise!promiseVars)
<1>1. Init => Promise!Init
  BY AttemptsPositive DEF Init, Promise!Init, total_attempts
<1>2. TypeOK /\ BuildInv /\ [Next]_vars
        => [Promise!Next]_(Promise!promiseVars)
  <2> SUFFICES ASSUME TypeOK, BuildInv, [Next]_vars
               PROVE  [Promise!Next]_(Promise!promiseVars)
    OBVIOUS
  <2> USE DEF Promise!promiseVars, config
  <2>1. CASE Close
    BY <2>1 DEF Close, Promise!Next, Promise!Close
  <2>2. CASE Attempt
    <3>1. CASE closed
      BY <2>2, <3>1
         DEF Attempt, Return, BuildInv, Promise!Next, Promise!Return
    <3>2. CASE ~closed
      BY <2>2, <3>2 DEF Attempt, Return, TypeOK, BuildInv, total_attempts,
                        Promise!Next, Promise!Call
    <3>3. QED
      BY <3>1, <3>2
  <2>3. CASE GiveUp
    BY <2>3, AttemptsPositive DEF GiveUp, Return, TypeOK, BuildInv,
       total_attempts, Promise!Next, Promise!Return
  <2>4. CASE FactoryBuilds
    BY <2>4 DEF FactoryBuilds, Return, TypeOK, BuildInv, Promise!Next,
       Promise!Return
  <2>5. CASE FactoryFails
    BY <2>5 DEF FactoryFails
  <2>6. CASE Nap
    BY <2>6 DEF Nap
  <2>7. CASE Poll
    BY <2>7 DEF Poll
  <2>8. CASE SleepOver
    BY <2>8 DEF SleepOver
  <2>9. CASE UNCHANGED vars
    BY <2>9 DEF vars
  <2>3a. QED
    BY <2>1, <2>2, <2>3, <2>4, <2>5, <2>6, <2>7, <2>8, <2>9
       DEF Next, Work, Returned
<1>3. QED
  BY <1>1, <1>2, BuildTypeCorrect, BuildInvHolds, PTL DEF Spec

-----------------------------------------------------------------------------
(***************************************************************************)
(* The backoff.  The powers of two are sizes of sets of subsets, which is  *)
(* how the library knows them.                                             *)
(***************************************************************************)

(* One element more doubles the number of subsets.                         *)
LEMMA SubsetsDouble ==
  ASSUME NEW S, IsFiniteSet(S), NEW x, x \notin S
  PROVE  Cardinality(SUBSET (S \cup {x})) = 2 * Cardinality(SUBSET S)
<1> DEFINE Without == SUBSET S
           With    == {T \in SUBSET (S \cup {x}) : x \in T}
           Add     == [T \in Without |-> T \cup {x}]
<1>1. IsFiniteSet(Without) /\ Cardinality(Without) \in Nat
  BY FS_SUBSET, FS_CardinalityType
<1>2. Add \in Bijection(Without, With)
  <2>1. Add \in [Without -> With]
    OBVIOUS
  <2>2. ASSUME NEW T \in Without, NEW U \in Without, Add[T] = Add[U] PROVE T = U
    BY <2>2
  <2>3. ASSUME NEW T \in With PROVE \E U \in Without : Add[U] = T
    <3>1. T \ {x} \in Without /\ Add[T \ {x}] = T
      BY <2>3
    <3> QED
      BY <3>1
  <2> HIDE DEF Add, With, Without
  <2> QED
    BY <2>1, <2>2, <2>3, Fun_IsBij
<1>3. IsFiniteSet(With) /\ Cardinality(With) = Cardinality(Without)
  BY <1>1, <1>2, FS_Bijection DEF ExistsBijection
<1>4. SUBSET (S \cup {x}) = Without \cup With /\ Without \cap With = {}
  OBVIOUS
<1> HIDE DEF Without, With
<1>5. Cardinality(Without \cup With)
        = Cardinality(Without) + Cardinality(With) - Cardinality({})
  BY <1>1, <1>3, <1>4, FS_Union
<1>6. Cardinality({}) = 0
  BY FS_EmptySet
<1>7. Cardinality(Without \cup With) = 2 * Cardinality(Without)
  BY <1>1, <1>3, <1>5, <1>6
<1> QED
  BY <1>4, <1>7 DEF Without

LEMMA PowersOfTwo ==
  ASSUME NEW n \in Nat
  PROVE  2^0 = 1 /\ 2^n \in Nat /\ 2^(n + 1) = 2 * 2^n
<1>1. Cardinality({}) = 0 /\ IsFiniteSet({}) /\ Cardinality({{}}) = 1
  BY FS_EmptySet, FS_Singleton
<1>2. IsFiniteSet(1 .. n) /\ Cardinality(1 .. n) = n
  BY FS_Interval
<1>3. IsFiniteSet(1 .. n + 1) /\ Cardinality(1 .. n + 1) = n + 1
  BY FS_Interval
<1>4. 1 .. n + 1 = (1 .. n) \cup {n + 1} /\ n + 1 \notin 1 .. n
  OBVIOUS
<1>5. Cardinality(SUBSET (1 .. n + 1)) = 2 * Cardinality(SUBSET (1 .. n))
  BY <1>2, <1>4, SubsetsDouble
<1>6. SUBSET {} = {{}} /\ Cardinality(SUBSET {}) = 2^Cardinality({})
  BY <1>1, FS_SUBSET
<1>7. /\ Cardinality(SUBSET (1 .. n)) = 2^Cardinality(1 .. n)
      /\ Cardinality(SUBSET (1 .. n + 1)) = 2^Cardinality(1 .. n + 1)
      /\ Cardinality(SUBSET (1 .. n)) \in Nat
  BY <1>2, <1>3, FS_SUBSET, FS_CardinalityType
<1> QED
  BY <1>1, <1>2, <1>3, <1>5, <1>6, <1>7

LEMMA WaitDoubles ==
  ASSUME TypeOK, NEW n \in Nat
  PROVE  /\ WaitAfter(n) \in Nat
         /\ WaitAfter(0) = Least(backoff, max_wait)
         /\ WaitAfter(n + 1) = Least(2 * WaitAfter(n), max_wait)
<1>1. backoff \in Nat /\ max_wait \in Nat
  BY BuildAssumption DEF TypeOK
<1>2. \A b \in Nat : b * 2^n \in Nat /\ b * 2^(n + 1) = 2 * (b * 2^n) /\ b * 2^0 = b
  BY PowersOfTwo
<1> QED
  BY <1>1, <1>2 DEF WaitAfter, Least

LEMMA NextBackoffInv ==
  ASSUME TypeOK, BackoffInv, [Next]_vars
  PROVE  BackoffInv'
<1> USE BuildAssumption DEF TypeOK, config
<1>1. total_attempts \in Nat \ {0}
  BY AttemptsPositive
<1>2. \A n \in Nat : WaitAfter(n) \in Nat
  BY WaitDoubles
<1>3. CASE Attempt
  <2>1. /\ i' = i + 1 /\ next' = Least(2 * next, max_wait) /\ i \in 0 .. total_attempts - 1
        /\ wait' = IF i = total_attempts - 1 THEN 0 ELSE next
        /\ UNCHANGED <<config, closed, slept>> /\ at = "attempt"
        /\ total_attempts' = total_attempts
    BY <1>1, <1>3 DEF Attempt, total_attempts
  <2>2. next' = WaitAfter(i + 1)
    BY <2>1, WaitDoubles DEF BackoffInv
  <2>3. next' = WaitAfter(i)'
    BY <2>1, <2>2 DEF WaitAfter
  <2>4. at' = "factory" => calls' = i' /\ ~closed
    BY <1>3, <2>1 DEF Attempt, Return, BackoffInv
  <2>5. at' \in {"factory", "done"} /\ (at' # "done" => at' = "factory")
    BY <1>3 DEF Attempt, Return
  <2>6. i' \in 1 .. total_attempts - 1 => wait' = WaitAfter(i)
    BY <2>1 DEF BackoffInv
  <2>7. at' = "factory" => slept' = IF calls' = 1 THEN 0 ELSE WaitAfter(calls' - 2)
    BY <1>1, <2>1, <2>4 DEF BackoffInv
  <2>8. /\ outcome' \notin {"Error", "Panic"}
        /\ at' # "done" => outcome' = "none"
    BY <1>3 DEF Attempt, Return, BackoffInv
  <2>9. i' = total_attempts' => wait' = 0
    BY <1>1, <2>1
  <2> QED
    BY <1>1, <2>1, <2>3, <2>4, <2>5, <2>6, <2>7, <2>8, <2>9
    DEF BackoffInv, BackoffLaw, WaitAfter
<1>4. CASE ~Attempt
  <2>1. /\ UNCHANGED <<config, i, next, calls>> /\ total_attempts' = total_attempts
    BY <1>4 DEF Next, Work, Returned, Close, GiveUp, FactoryBuilds, FactoryFails,
                Nap, Poll, SleepOver, vars, total_attempts
  <2>2. next' = WaitAfter(i)'
    BY <2>1 DEF BackoffInv, WaitAfter
  <2>3. at' = "factory" => at = "factory" /\ slept' = slept /\ wait' = wait
    BY <1>4 DEF Next, Work, Returned, Close, GiveUp, FactoryBuilds, FactoryFails,
                Nap, Poll, SleepOver, vars, Return
  <2>3a. i = total_attempts =>
           /\ at' # "nap"
           /\ at' \in {"factory", "sleep"} => wait' = 0
           /\ at' \in {"sleep", "attempt"} => slept' = 0
    BY <1>4 DEF BackoffInv, Next, Work, Returned, Close, GiveUp, FactoryBuilds,
                FactoryFails, Nap, Poll, SleepOver, vars, Return
  <2>3b. outcome' \in {"Error", "Panic"} => slept' = 0
    BY <1>4 DEF BackoffInv, BackoffLaw, Next, Work, Returned, Close, GiveUp,
                FactoryBuilds, FactoryFails, Nap, Poll, SleepOver, vars, Return
  <2>4. BackoffLaw'
    BY <2>1, <2>3, <2>3b DEF BackoffInv, BackoffLaw, Least
  <2>5. at' \in {"factory", "sleep", "nap"} => i' > 0
    BY <1>4, <2>1 DEF BackoffInv, Next, Work, Returned, Close, GiveUp,
       FactoryBuilds, FactoryFails, Nap, Poll, SleepOver, vars, Return
  <2>6. at' # "done" => calls' = i' /\ outcome' = "none"
    BY <1>4, <2>1 DEF BackoffInv, Next, Work, Returned, Close, GiveUp,
       FactoryBuilds, FactoryFails, Nap, Poll, SleepOver, vars, Return
  <2>7. CASE i \notin 1 .. total_attempts - 1
    <3>1. i = 0 => slept' = 0
      BY <1>4, <2>1 DEF BackoffInv, Next, Work, Returned, Close, GiveUp,
         FactoryBuilds, FactoryFails, Nap, Poll, SleepOver, vars
    <3> QED
      BY <2>1, <2>2, <2>4, <2>7, <2>6, <2>5, <2>3a, <3>1 DEF BackoffInv, WaitAfter
  <2>8. CASE i \in 1 .. total_attempts - 1
    <3>1. WaitAfter(i - 1) \in Nat /\ i \in Nat /\ i # 0
      BY <1>1, <1>2, <2>8
    <3>2. \/ UNCHANGED <<at, closed, wait, slept>>
          \/ Close \/ GiveUp \/ FactoryBuilds \/ FactoryFails
          \/ Nap \/ Poll \/ SleepOver
      BY <1>4 DEF Next, Work, Returned, vars
    <3>3. /\ at' = "factory" => wait' = WaitAfter(i - 1)
          /\ at' \in {"sleep", "nap"} => slept' + wait' = WaitAfter(i - 1)
          /\ at' = "attempt" /\ ~closed' => slept' = WaitAfter(i - 1)
      <4>1. CASE UNCHANGED <<at, closed, wait, slept>>
        BY <2>8, <4>1 DEF BackoffInv
      <4>2. CASE Close \/ GiveUp \/ FactoryBuilds
        BY <2>8, <4>2 DEF BackoffInv, Close, GiveUp, FactoryBuilds, Return
      <4>3. CASE FactoryFails
        BY <2>8, <4>3 DEF BackoffInv, FactoryFails
      <4>4. CASE Nap
        BY <2>8, <4>4 DEF BackoffInv, Nap
      <4>5. CASE Poll
        BY <2>8, <4>5 DEF BackoffInv, Poll, Least
      <4>6. CASE SleepOver
        BY <2>8, <4>6 DEF BackoffInv, SleepOver
      <4> QED
        BY <3>2, <4>1, <4>2, <4>3, <4>4, <4>5, <4>6
    <3> QED
      BY <2>1, <2>2, <2>4, <2>8, <2>6, <2>5, <2>3a, <3>1, <3>3
      DEF BackoffInv, WaitAfter
  <2>9. i \in 1 .. total_attempts - 1 \/ i \notin 1 .. total_attempts - 1
    OBVIOUS
  <2> QED
    BY <2>7, <2>8, <2>9
<1> QED
  BY <1>3, <1>4

(* However the wait is sliced, the n-th factory call begins after exactly  *)
(* the start doubled n - 2 times and clamped, for every number of retries, *)
(* every start, every maximum and every slice; and a build that fails      *)
(* returns right after its last failure.                                   *)
THEOREM BackoffDoubles == Spec => []BackoffLaw
<1>1. Init => BackoffInv
  <2> SUFFICES ASSUME Init PROVE BackoffInv
    OBVIOUS
  <2>1. backoff \in Nat /\ 2^0 = 1
    BY BuildAssumption, PowersOfTwo DEF Init
  <2>2. retries \in Nat /\ 0 # total_attempts
    BY BuildAssumption DEF Init, total_attempts, Least
  <2> QED
    BY <2>1, <2>2 DEF Init, BackoffInv, BackoffLaw, WaitAfter
<1>2. TypeOK /\ BackoffInv /\ [Next]_vars => BackoffInv'
  BY NextBackoffInv
<1>3. BackoffInv => BackoffLaw
  BY DEF BackoffInv
<1> QED
  BY <1>1, <1>2, <1>3, BuildTypeCorrect, PTL DEF Spec
=============================================================================
