----------------------------- MODULE BarrierProofs -----------------------------
(***************************************************************************)
(* Barrier, for any finite set of callers, any number of rounds and any    *)
(* width of the generation counter. And Poisson, which solves with it, for *)
(* any number of threads and any grid: the threads leave the loop of       *)
(* solve_poisson after the same iteration, and every column they compute   *)
(* and every file they write is that of the serial solver.                 *)
(***************************************************************************)
EXTENDS Poisson, FiniteSetTheorems, TLAPS

LEMMA CallersAreCounted == n_threads \in Nat \ {0}
  BY ThreadsAssumption, FS_CardinalityType, FS_EmptySet DEF n_threads

(* Incrementing the unsigned times_used always changes it (barrier.c:32). *)
LEMMA IncrementChanges ==
  ASSUME NEW used \in 0 .. UINT_MAX
  PROVE  /\ Increment(used) \in 0 .. UINT_MAX
         /\ Increment(used) # used
  BY UintAssumption DEF Increment

(* Whoever enters is not among those already waiting for this use, and with *)
(* it they are one more.                                                    *)
LEMMA EnteringIsCounted ==
  ASSUME IInv, NEW t \in Threads, pc[t] = "out"
  PROVE  /\ t \notin ArrivedNow
         /\ arrived[t] = trips
         /\ ArrivedNow \subseteq Threads
         /\ ArrivedNow \cup {t} \subseteq Threads
         /\ Cardinality(ArrivedNow \cup {t}) = count + 1
  <1>1. arrived[t] = trips /\ t \notin ArrivedNow
    BY DEF IInv, RoundsInStep, ArrivedNow
  <1>2. ArrivedNow \subseteq Threads
    BY DEF ArrivedNow
  <1>3. IsFiniteSet(ArrivedNow)
    BY <1>2, ThreadsAssumption, FS_Subset
  <1>4. count = Cardinality(ArrivedNow)
    BY DEF IInv, RoundsInStep
  <1> QED
    BY <1>1, <1>2, <1>3, <1>4, FS_AddElement

-----------------------------------------------------------------------------
(* The inductive invariant holds at first. *)
LEMMA InitIInv == Init => IInv
  <1> SUFFICES ASSUME Init PROVE IInv
    OBVIOUS
  <1> USE DEF Init, barrier_init
  <1>1. TypeOK
    BY CallersAreCounted, UintAssumption DEF TypeOK, PCs
  <1>2. RoundsInStep
    <2>1. ArrivedNow = {}
      BY DEF ArrivedNow
    <2> QED
      BY <2>1, FS_EmptySet DEF RoundsInStep
  <1>3. NeverLapped /\ NoLostWakeup
    BY DEF NeverLapped, NoLostWakeup
  <1> QED
    BY <1>1, <1>2, <1>3 DEF IInv

(* One step lemma per action of the code. *)
LEMMA ArriveAndSleepKeepsIInv ==
  ASSUME IInv, NEW t \in Threads, ArriveAndSleep(t)
  PROVE  IInv'
  <1> USE DEF ArriveAndSleep, Enter
  <1>1. /\ arrived[t] = trips /\ t \notin ArrivedNow
        /\ Cardinality(ArrivedNow \cup {t}) = count + 1
    BY EnteringIsCounted
  <1>2. TypeOK'
    BY CallersAreCounted DEF IInv, TypeOK, PCs
  <1>3. ArrivedNow' = ArrivedNow \cup {t}
    BY <1>1 DEF IInv, TypeOK, ArrivedNow
  <1>4. RoundsInStep'
    <2>1. \A u \in Threads :
            /\ arrived'[u] \in {trips, trips + 1}
            /\ passed[u] = arrived'[u] - (IF pc'[u] = "out" THEN 0 ELSE 1)
            /\ arrived'[u] = trips + 1 => pc'[u] = "in"
      BY <1>1 DEF IInv, TypeOK, RoundsInStep
    <2> QED
      BY <1>1, <1>3, <2>1 DEF RoundsInStep
  <1>5. NeverLapped'
    BY <1>1 DEF IInv, TypeOK, NeverLapped
  <1>6. NoLostWakeup'
    BY <1>1 DEF IInv, TypeOK, NoLostWakeup
  <1> QED
    BY <1>2, <1>4, <1>5, <1>6 DEF IInv

LEMMA ArriveLastKeepsIInv ==
  ASSUME IInv, NEW t \in Threads, ArriveLast(t)
  PROVE  IInv'
  <1> USE DEF ArriveLast, Enter
  <1>1. /\ arrived[t] = trips
        /\ ArrivedNow \cup {t} \subseteq Threads
        /\ Cardinality(ArrivedNow \cup {t}) = n_threads
    BY EnteringIsCounted
  <1>2. ArrivedNow \cup {t} = Threads
    BY <1>1, ThreadsAssumption, FS_Subset DEF n_threads
  <1>3. \A u \in Threads \ {t} :
          /\ arrived[u] = trips + 1 /\ pc[u] = "in"
          /\ passed[u] = trips
          /\ snapshot[u] = times_used
    BY <1>2 DEF IInv, TypeOK, RoundsInStep, NeverLapped, ArrivedNow
  <1>4. times_used' \in 0 .. UINT_MAX /\ times_used' # times_used
    BY IncrementChanges DEF IInv, TypeOK
  <1>5. TypeOK'
    BY <1>4, CallersAreCounted DEF IInv, TypeOK, PCs
  <1>6. \A u \in Threads : arrived'[u] = trips'
    BY <1>1, <1>3 DEF IInv, TypeOK
  <1>7. RoundsInStep'
    <2>1. ArrivedNow' = {}
      BY <1>6 DEF IInv, TypeOK, ArrivedNow
    <2>2. \A u \in Threads :
            passed[u] = arrived'[u] - (IF pc'[u] = "out" THEN 0 ELSE 1)
      BY <1>1, <1>3, <1>6 DEF IInv, TypeOK, RoundsInStep
    <2> QED
      BY <1>6, <2>1, <2>2, FS_EmptySet DEF IInv, TypeOK, RoundsInStep
  <1>8. NeverLapped'
    BY <1>3, <1>4, <1>6 DEF IInv, TypeOK, NeverLapped
  <1>9. NoLostWakeup'
    BY DEF NoLostWakeup
  <1> QED
    BY <1>5, <1>7, <1>8, <1>9 DEF IInv

(* The steps that neither enter nor open leave ArrivedNow as it is. *)
LEMMA SpuriousWakeupKeepsIInv ==
  ASSUME IInv, NEW t \in Threads, SpuriousWakeup(t)
  PROVE  IInv'
  <1> USE DEF SpuriousWakeup, shared
  <1>1. TypeOK'
    BY DEF IInv, TypeOK
  <1>2. RoundsInStep'
    BY DEF IInv, RoundsInStep, ArrivedNow
  <1>3. NeverLapped' /\ NoLostWakeup'
    BY DEF IInv, NeverLapped, NoLostWakeup
  <1> QED
    BY <1>1, <1>2, <1>3 DEF IInv

LEMMA SleepAgainKeepsIInv ==
  ASSUME IInv, NEW t \in Threads, SleepAgain(t)
  PROVE  IInv'
  <1> USE DEF SleepAgain, shared
  <1>1. TypeOK'
    BY DEF IInv, TypeOK
  <1>2. RoundsInStep'
    BY DEF IInv, RoundsInStep, ArrivedNow
  <1>3. NeverLapped'
    BY DEF IInv, NeverLapped
  <1>4. arrived[t] = trips + 1
    BY DEF IInv, NeverLapped
  <1>5. NoLostWakeup'
    BY <1>4 DEF IInv, NoLostWakeup
  <1> QED
    BY <1>1, <1>2, <1>3, <1>5 DEF IInv

LEMMA LeaveLoopKeepsIInv ==
  ASSUME IInv, NEW t \in Threads, LeaveLoop(t)
  PROVE  IInv'
  <1> USE DEF LeaveLoop, shared
  <1>1. arrived[t] # trips + 1
    BY DEF IInv, NeverLapped
  <1>2. TypeOK'
    BY DEF IInv, TypeOK, PCs
  <1>3. RoundsInStep'
    <2>1. ArrivedNow' = ArrivedNow
      BY DEF ArrivedNow
    <2> QED
      BY <1>1, <2>1 DEF IInv, TypeOK, RoundsInStep
  <1>4. NeverLapped' /\ NoLostWakeup'
    BY <1>1 DEF IInv, TypeOK, NeverLapped, NoLostWakeup
  <1> QED
    BY <1>2, <1>3, <1>4 DEF IInv

LEMMA ReturnKeepsIInv ==
  ASSUME IInv, NEW t \in Threads, Return(t)
  PROVE  IInv'
  <1> USE DEF Return, shared
  <1>1. TypeOK'
    BY DEF IInv, TypeOK, RoundsInStep, PCs
  <1>2. RoundsInStep'
    <2>1. ArrivedNow' = ArrivedNow
      BY DEF ArrivedNow
    <2> QED
      BY <2>1 DEF IInv, TypeOK, RoundsInStep
  <1>3. NeverLapped' /\ NoLostWakeup'
    BY DEF IInv, TypeOK, NeverLapped, NoLostWakeup
  <1> QED
    BY <1>1, <1>2, <1>3 DEF IInv

LEMMA StepKeepsIInv == IInv /\ [Next]_vars => IInv'
  <1> SUFFICES ASSUME IInv, [Next]_vars PROVE IInv'
    OBVIOUS
  <1>1. ASSUME UNCHANGED vars PROVE IInv'
    BY <1>1 DEF vars, IInv, TypeOK, RoundsInStep, ArrivedNow, NeverLapped,
                NoLostWakeup
  <1>2. ASSUME NEW t \in Threads, Step(t) PROVE IInv'
    BY <1>2, ArriveAndSleepKeepsIInv, ArriveLastKeepsIInv, SleepAgainKeepsIInv,
       LeaveLoopKeepsIInv, ReturnKeepsIInv DEF Step
  <1> QED
    BY <1>1, <1>2, SpuriousWakeupKeepsIInv DEF Next

(* IInv is an invariant of the barrier. *)
THEOREM Invariance == Spec => []IInv
  BY InitIInv, StepKeepsIInv, PTL DEF Spec

(* The variables keep their types; count stays below n_threads. *)
THEOREM TypeCorrect == Spec => []TypeOK
  BY Invariance, PTL DEF IInv

(* All threads are in the same use of the barrier or in two adjacent ones. *)
THEOREM StaysInStep == Spec => []RoundsInStep
  BY Invariance, PTL DEF IInv

(* A counter of any width, even one bit, tells the openings apart. *)
THEOREM SleeperNeverLapped == Spec => []NeverLapped
  BY Invariance, PTL DEF IInv

(* No thread is left asleep when the barrier has opened for it. *)
THEOREM WakeupNeverLost == Spec => []NoLostWakeup
  BY Invariance, PTL DEF IInv

(* No call returns before every thread has entered the same use. *)
THEOREM EarlyReturnNever == Spec => []NoEarlyReturn
  <1>1. IInv => NoEarlyReturn
    BY DEF IInv, TypeOK, RoundsInStep, NoEarlyReturn
  <1> QED
    BY <1>1, Invariance, PTL

-----------------------------------------------------------------------------
(* Every step of the code is a step of the promise or changes nothing in it. *)
LEMMA StepRefines == IInv /\ [Next]_vars => [Promise!Next]_(Promise!vars)
  <1> SUFFICES ASSUME IInv, [Next]_vars PROVE [Promise!Next]_(Promise!vars)
    OBVIOUS
  <1> USE DEF Promise!vars
  <1>1. ASSUME NEW t \in Threads, Enter(t), UNCHANGED passed
        PROVE  Promise!Arrive(t)
    BY <1>1 DEF Enter, Promise!Arrive, IInv, TypeOK, RoundsInStep
  <1>2. ASSUME NEW t \in Threads, Return(t)
        PROVE  Promise!Leave(t)
    <2>1. arrived[t] = trips /\ passed[t] = arrived[t] - 1
      BY <1>2 DEF Return, IInv, RoundsInStep
    <2>2. \A u \in Threads : arrived[t] <= arrived[u]
      BY <2>1 DEF IInv, TypeOK, RoundsInStep
    <2> QED
      BY <1>2, <2>1, <2>2 DEF Return, Promise!Leave, IInv, TypeOK
  <1>3. ASSUME NEW t \in Threads, Step(t)
        PROVE  [Promise!Next]_(Promise!vars)
    BY <1>1, <1>2, <1>3 DEF Step, ArriveAndSleep, ArriveLast, SleepAgain,
       LeaveLoop, Promise!Next
  <1> QED
    BY <1>3 DEF Next, SpuriousWakeup, vars

(* The barrier implements the abstract barrier. *)
THEOREM Refinement == Spec => ImplementsPromise
  <1>1. Init => Promise!Init
    BY DEF Init, Promise!Init
  <1> QED
    BY <1>1, StepRefines, Invariance, PTL DEF Spec, ImplementsPromise, Promise!Spec

-----------------------------------------------------------------------------
(* Poisson: what holds while the threads solve                              *)

Started == {t \in Threads : at[t] # "index"}

BeforeHelper == {"index", "clear", "wait 1", "helper"}
AfterHelper  == {"wait 2", "file", "swap", "wait 3"}

SolveTypeOK ==
    /\ lastIter \in Nat \ {0}
    /\ at \in [Threads -> BeforeHelper \cup AfterHelper \cup {"final", "done"}]
    /\ index \in [Threads -> Int]
    /\ iter \in [Threads -> Nat]
    /\ error \in [Threads -> SUBSET (Int \X Nat)]
    /\ index_count \in Nat

\* How often a thread has come back from the barrier tells where it is in its
\* iteration, and it only is in a call where the code makes one.
UsesCounted ==
    \A t \in Threads :
        /\ at[t] \in {"index", "clear", "wait 1", "final", "done"} => passed[t] = 3 * iter[t]
        /\ at[t] = "helper" => passed[t] = 3 * iter[t] + 1
        /\ at[t] = "wait 2" => passed[t] = 3 * iter[t] - 2
        /\ at[t] \in {"file", "swap", "wait 3"} => passed[t] = 3 * iter[t] - 1
        /\ at[t] \notin {"wait 1", "wait 2", "wait 3"} => pc[t] = "out"

\* The threads that have an index have the first ones, each its own.
IndicesTaken ==
    /\ index_count = Cardinality(Started)
    /\ {index[t] : t \in Started} = 0 .. index_count - 1
    /\ \A t, u \in Started : index[t] = index[u] => t = u
    /\ \A t \in Threads : at[t] = "clear" => index[t] = 0

\* What the threads that have done k iterations added in the last of them.
Sum(k) == {<<index[t], k>> : t \in {u \in Threads : iter[u] = k}}

\* The iteration that the thread with index 0 last cleared the sum for.
Iteration(z) == IF at[z] \in {"wait 1", "helper"} THEN iter[z] + 1 ELSE iter[z]

SumExact ==
    \A z \in Started :
        index[z] = 0 /\ at[z] # "clear" => error_count = Sum(Iteration(z))

\* A thread that is about to compare has the whole sum.
SumCompared ==
    \A t \in Threads : at[t] = "wait 3" => error[t] = (0 .. NUM_THREADS - 1) \X {iter[t]}

InTime ==
    \A t \in Threads :
        /\ at[t] = "index" => iter[t] = 0
        /\ at[t] \in BeforeHelper => iter[t] < lastIter
        /\ at[t] \in AfterHelper  => iter[t] \in 1 .. lastIter

Solving == SolveTypeOK /\ UsesCounted /\ IndicesTaken /\ SumExact /\ SumCompared
           /\ InTime /\ StopTogether

SolveInv == IInv /\ Solving

-----------------------------------------------------------------------------
(* What a thread does to the barrier is a call of barrier_wait. *)
LEMMA CallsOnly == [SolveNext]_<<solver, vars>> => [Next]_vars
  <1> SUFFICES ASSUME [SolveNext]_<<solver, vars>> PROVE [Next]_vars
    OBVIOUS
  <1>1. ASSUME NEW t \in Threads, SolveStep(t) PROVE [Next]_vars
    BY <1>1 DEF SolveStep, TakeIndex, Clear, Column, AddError, WriteIterate, Swap,
       Final, Call, InCall, ReturnToHelper, ReturnToSwap, ReturnToTest, Next, Step
  <1>2. ASSUME NEW t \in Threads, WakeUp(t) PROVE [Next]_vars
    BY <1>2 DEF WakeUp, Next
  <1> QED
    BY <1>1, <1>2 DEF SolveNext, Solved

(* IInv, which was proved of the barrier and any callers, holds here. *)
LEMMA BarrierHolds == SolveSpec => []IInv
  <1>1. SolveInit => IInv
    BY InitIInv DEF SolveInit
  <1>2. IInv /\ [SolveNext]_<<solver, vars>> => IInv'
    BY CallsOnly, StepKeepsIInv
  <1> QED
    BY <1>1, <1>2, PTL DEF SolveSpec

(* All threads stay in the same use of the barrier or in two adjacent ones,  *)
(* in solve_poisson too.                                                     *)
THEOREM SolversStayInStep == SolveSpec => []RoundsInStep
  BY BarrierHolds, PTL DEF IInv

(* Of two threads, what one has returned from the other has entered, and who *)
(* is in no call has entered only what it returned from.                     *)
LEMMA TwoThreads ==
  ASSUME SolveInv, NEW t \in Threads, NEW u \in Threads
  PROVE  /\ passed[t] \in Nat /\ iter[t] \in Nat
         /\ passed[t] <= passed[u] + 1
         /\ pc[u] = "out" => passed[t] <= passed[u]
  BY DEF SolveInv, Solving, SolveTypeOK, IInv, TypeOK, RoundsInStep, PCs

(* UsesCounted, for one thread. *)
LEMMA WhereItIs ==
  ASSUME SolveInv, NEW u \in Threads
  PROVE  \/ /\ at[u] \in {"index", "clear", "wait 1", "final", "done"}
            /\ passed[u] = 3 * iter[u]
         \/ at[u] = "helper" /\ passed[u] = 3 * iter[u] + 1
         \/ at[u] = "wait 2" /\ passed[u] = 3 * iter[u] - 2
         \/ at[u] \in {"file", "swap", "wait 3"} /\ passed[u] = 3 * iter[u] - 1
  BY DEF SolveInv, Solving, UsesCounted, SolveTypeOK, BeforeHelper, AfterHelper

LEMMA AllOfThem == NUM_THREADS = Cardinality(Threads) /\ NUM_THREADS \in Nat \ {0}
  BY CallersAreCounted DEF NUM_THREADS, n_threads

LEMMA InitSolveInv == SolveInit => SolveInv
  <1> SUFFICES ASSUME SolveInit PROVE SolveInv
    OBVIOUS
  <1> USE DEF SolveInit
  <1>1. IInv
    BY InitIInv
  <1>2. Started = {}
    BY DEF Started
  <1>3. lastIter \in Nat \ {0}
    BY RoundsAssumption DEF MaxIter
  <1>4. SolveTypeOK
    BY <1>3 DEF SolveTypeOK, BeforeHelper
  <1>5. UsesCounted
    BY DEF UsesCounted, Init
  <1>6. IndicesTaken
    BY <1>2, FS_EmptySet DEF IndicesTaken
  <1>7. SumExact /\ SumCompared /\ StopTogether
    BY <1>2 DEF SumExact, SumCompared, StopTogether
  <1>8. InTime
    BY <1>3 DEF InTime, AfterHelper
  <1> QED
    BY <1>1, <1>4, <1>5, <1>6, <1>7, <1>8 DEF SolveInv, Solving

-----------------------------------------------------------------------------
(* The thread with index 0 has done nothing to the iteration it cleared the   *)
(* sum for, and no other has added to the sum.                                *)
LEMMA SumKept ==
  ASSUME SumExact, UNCHANGED <<index, iter, error_count>>, Started' = Started,
         \A z \in Started : index[z] = 0 /\ at'[z] # "clear" =>
            at[z] # "clear" /\ Iteration(z)' = Iteration(z)
  PROVE  SumExact'
  <1> SUFFICES ASSUME NEW z \in Started', index'[z] = 0, at'[z] # "clear"
               PROVE  error_count' = Sum(Iteration(z))'
    BY DEF SumExact
  <1>1. z \in Started /\ index[z] = 0 /\ at[z] # "clear" /\ Iteration(z)' = Iteration(z)
    OBVIOUS
  <1>2. Sum(Iteration(z))' = Sum(Iteration(z))
    BY <1>1 DEF Sum
  <1> QED
    BY <1>1, <1>2 DEF SumExact

LEMMA IndicesKept ==
  ASSUME IndicesTaken, UNCHANGED <<index, index_count>>, Started' = Started,
         \A t \in Threads : at'[t] = "clear" => index[t] = 0
  PROVE  IndicesTaken'
  BY DEF IndicesTaken

(* A call of barrier_wait, or a wakeup in it, touches nothing else. *)
LEMMA CallingKeepsSolving ==
  ASSUME SolveInv, NEW t \in Threads, Call(t) \/ InCall(t) \/ WakeUp(t)
  PROVE  Solving'
  <1> USE DEF SolveInv, Solving
  <1>1. UNCHANGED <<lastIter, index_count, error_count, at, index, iter, error>>
    BY DEF Call, InCall, WakeUp, solver, common, locals
  <1>2. UNCHANGED passed
    BY DEF Call, InCall, WakeUp, ArriveAndSleep, ArriveLast, SleepAgain, LeaveLoop,
       SpuriousWakeup, Enter
  <1>3. \A u \in Threads : pc'[u] = pc[u] \/ (u = t /\ (at[t] \in {"wait 1", "wait 2", "wait 3"}))
    <2>1. CASE Call(t)
      BY <2>1 DEF Call, ArriveAndSleep, ArriveLast, IInv, TypeOK
    <2>2. CASE InCall(t)
      BY <2>2 DEF InCall, SleepAgain, LeaveLoop, IInv, TypeOK, UsesCounted
    <2>3. CASE WakeUp(t)
      BY <2>3 DEF WakeUp, SpuriousWakeup
    <2> QED
      BY <2>1, <2>2, <2>3
  <1>4. UsesCounted'
    BY <1>1, <1>2, <1>3 DEF UsesCounted
  <1>5. Started' = Started
    BY <1>1 DEF Started
  <1>6. SumExact'
    BY <1>1, <1>5, SumKept DEF Iteration
  <1>7. SolveTypeOK' /\ SumCompared' /\ InTime' /\ StopTogether'
    BY <1>1 DEF SolveTypeOK, SumCompared, InTime, StopTogether
  <1>8. IndicesTaken'
    BY <1>1, <1>5 DEF IndicesTaken
  <1> QED
    BY <1>4, <1>6, <1>7, <1>8

LEMMA ColumnKeepsSolving ==
  ASSUME SolveInv, NEW t \in Threads, Column(t)
  PROVE  Solving'
  <1> USE DEF SolveInv, Solving
  <1>1. UNCHANGED <<lastIter, index_count, error_count, at, index, iter, error, pc, passed>>
    BY DEF Column, vars
  <1>2. Started' = Started
    BY <1>1 DEF Started
  <1>3. SumExact'
    BY <1>1, <1>2, SumKept DEF Iteration
  <1>4. SolveTypeOK' /\ UsesCounted' /\ SumCompared' /\ InTime' /\ StopTogether'
    BY <1>1 DEF SolveTypeOK, UsesCounted, SumCompared, InTime, StopTogether
  <1>5. IndicesTaken'
    BY <1>1, <1>2 DEF IndicesTaken
  <1> QED
    BY <1>3, <1>4, <1>5

(* A step of t to `place` that neither adds to the sum nor clears it: what is  *)
(* left to show of each such step is that the place is right for its iteration, *)
(* its error and its uses of the barrier.                                      *)
LEMMA MovingKeepsSolving ==
  ASSUME SolveInv, NEW t \in Threads, at[t] # "index",
         NEW place \in (BeforeHelper \cup AfterHelper \cup {"final", "done"}) \ {"index"},
         at' = [at EXCEPT ![t] = place],
         UNCHANGED <<lastIter, index_count, index, iter, error_count>>,
         UsesCounted',
         error' \in [Threads -> SUBSET (Int \X Nat)],
         \A u \in Threads \ {t} : error'[u] = error[u],
         place = "wait 3" => error'[t] = (0 .. NUM_THREADS - 1) \X {iter[t]},
         place = "clear" => index[t] = 0,
         place # "clear" =>
            at[t] # "clear" /\ (index[t] = 0 => Iteration(t)' = Iteration(t)),
         place \in BeforeHelper => iter[t] < lastIter,
         place \in AfterHelper => iter[t] \in 1 .. lastIter,
         place \in {"final", "done"} => iter[t] = lastIter
  PROVE  Solving'
  <1> USE DEF SolveInv, Solving
  <1>1. at'[t] = place /\ \A u \in Threads \ {t} : at'[u] = at[u]
    BY DEF SolveTypeOK
  <1>2. SolveTypeOK'
    BY DEF SolveTypeOK
  <1>3. Started' = Started
    BY <1>1 DEF Started
  <1>4. IndicesTaken'
    <2>1. \A u \in Threads : at'[u] = "clear" => index[u] = 0
      BY <1>1 DEF IndicesTaken
    <2> QED
      BY <2>1, <1>3, IndicesKept
  <1>5. SumExact'
    <2>1. \A z \in Started \ {t} : Iteration(z)' = Iteration(z)
      BY <1>1 DEF Iteration, Started
    <2> QED
      BY <2>1, <1>1, <1>3, SumKept DEF Started
  <1>6. SumCompared'
    BY <1>1 DEF SumCompared
  <1>7. InTime' /\ StopTogether'
    BY <1>1 DEF InTime, StopTogether
  <1> QED
    BY <1>2, <1>4, <1>5, <1>6, <1>7

LEMMA TakeIndexKeepsSolving ==
  ASSUME SolveInv, NEW t \in Threads, TakeIndex(t)
  PROVE  Solving'
  <1> USE DEF SolveInv, Solving
  <1>1. /\ at[t] = "index" /\ at'[t] = Loop(index_count)
        /\ index'[t] = index_count /\ index_count' = index_count + 1
        /\ \A u \in Threads \ {t} : at'[u] = at[u] /\ index'[u] = index[u]
        /\ UNCHANGED <<lastIter, iter, error, error_count, pc, passed>>
    BY DEF TakeIndex, Goto, SolveTypeOK, vars
  <1>2. /\ Loop(index_count) \in {"clear", "wait 1"}
        /\ Loop(index_count) = "clear" <=> index_count = 0
    BY DEF Loop
  <1>3. SolveTypeOK'
    <2>1. Loop(index_count) \in BeforeHelper
      BY <1>2 DEF BeforeHelper
    <2>2. /\ at' = [at EXCEPT ![t] = Loop(index_count)]
          /\ index' = [index EXCEPT ![t] = index_count]
      BY DEF TakeIndex, Goto
    <2> QED
      BY <1>1, <2>1, <2>2 DEF SolveTypeOK
  <1>4. UsesCounted'
    BY <1>1, <1>2 DEF UsesCounted
  <1>5. Started' = Started \cup {t} /\ t \notin Started
    BY <1>1, <1>2 DEF Started
  <1>6. \A u \in Started : index'[u] = index[u] /\ index[u] \in 0 .. index_count - 1
    BY <1>1, <1>5 DEF IndicesTaken, Started
  <1>7. IndicesTaken'
    <2>1. Cardinality(Started') = index_count + 1
      <3>1. IsFiniteSet(Started)
        BY ThreadsAssumption, FS_Subset DEF Started
      <3> QED
        BY <3>1, <1>5, FS_AddElement DEF IndicesTaken
    <2>2. {index'[u] : u \in Started'} = 0 .. index_count
      <3>1. {index'[u] : u \in Started'} = {index[u] : u \in Started} \cup {index_count}
        BY <1>1, <1>5, <1>6
      <3>2. (0 .. index_count - 1) \cup {index_count} = 0 .. index_count
        BY DEF SolveTypeOK
      <3> QED
        BY <3>1, <3>2 DEF IndicesTaken
    <2>3. \A u, v \in Started' : index'[u] = index'[v] => u = v
      <3>1. index_count \notin 0 .. index_count - 1
        BY DEF SolveTypeOK
      <3> QED
        BY <3>1, <1>1, <1>5, <1>6 DEF IndicesTaken
    <2>4. \A u \in Threads : at'[u] = "clear" => index'[u] = 0
      BY <1>1, <1>2 DEF IndicesTaken
    <2>5. index_count' - 1 = index_count
      BY <1>1 DEF SolveTypeOK
    <2> QED
      BY <1>1, <2>1, <2>2, <2>3, <2>4, <2>5 DEF IndicesTaken
  <1>8. SumExact'
    <2> SUFFICES ASSUME NEW z \in Started', index'[z] = 0, at'[z] # "clear"
                 PROVE  error_count' = Sum(Iteration(z))'
      BY DEF SumExact
    <2>1. z # t
      BY <1>1, <1>2
    <2>2. z \in Started /\ z \in Threads
      BY <2>1, <1>5 DEF Started
    <2>3. index[z] = 0 /\ at[z] = at'[z] /\ iter' = iter /\ at[z] \notin {"index", "clear"}
      BY <2>1, <2>2, <1>1 DEF Started
    <2>4. Iteration(z)' = Iteration(z)
      BY <2>3 DEF Iteration
    <2>5. Iteration(z) # 0
      <3>1. iter[z] \in Nat /\ lastIter \in Nat \ {0}
        BY <2>2 DEF SolveTypeOK
      <3>2. at[z] \in {"wait 1", "helper", "final", "done"} \cup AfterHelper
        BY <2>2, <2>3 DEF SolveTypeOK, BeforeHelper
      <3>3. at[z] \in AfterHelper => iter[z] # 0
        BY <2>2 DEF InTime
      <3>4. at[z] \in {"final", "done"} => iter[z] # 0
        BY <2>2, <3>1 DEF StopTogether
      <3>5. CASE at[z] \in {"wait 1", "helper"}
        <4>1. iter[z] + 1 # 0
          BY <3>1
        <4> QED
          BY <3>5, <4>1 DEF Iteration
      <3>6. CASE at[z] \notin {"wait 1", "helper"}
        <4>1. iter[z] # 0
          BY <3>2, <3>3, <3>4, <3>6
        <4> QED
          BY <3>6, <4>1 DEF Iteration
      <3> QED
        BY <3>5, <3>6
    <2>6. iter[t] = 0
      BY <1>1 DEF InTime
    <2>7. \A u \in Threads : iter[u] = Iteration(z) => index'[u] = index[u]
      BY <1>1, <2>5, <2>6
    <2>8. Sum(Iteration(z))' = Sum(Iteration(z))
      BY <2>3, <2>4, <2>7 DEF Sum
    <2> QED
      BY <1>1, <2>2, <2>3, <2>8 DEF SumExact
  <1>9. SumCompared' /\ InTime' /\ StopTogether'
    BY <1>1, <1>2 DEF SumCompared, InTime, StopTogether, AfterHelper, BeforeHelper
  <1> QED
    BY <1>3, <1>4, <1>7, <1>8, <1>9

LEMMA ClearKeepsSolving ==
  ASSUME SolveInv, NEW t \in Threads, Clear(t)
  PROVE  Solving'
  <1> USE DEF SolveInv, Solving
  <1>1. /\ at[t] = "clear" /\ at' = [at EXCEPT ![t] = "wait 1"] /\ at'[t] = "wait 1"
        /\ \A u \in Threads \ {t} : at'[u] = at[u]
        /\ error_count' = {}
        /\ UNCHANGED <<lastIter, index_count, index, iter, error, pc, passed>>
    BY DEF Clear, Goto, SolveTypeOK, vars
  <1>2. SolveTypeOK'
    <2>1. "wait 1" \in BeforeHelper
      BY DEF BeforeHelper
    <2> QED
      BY <1>1, <2>1 DEF SolveTypeOK
  <1>3. UsesCounted'
    BY <1>1 DEF UsesCounted
  <1>4. Started' = Started /\ t \in Started
    BY <1>1 DEF Started
  <1>5. IndicesTaken'
    BY <1>1, <1>4, IndicesKept DEF IndicesTaken
  <1>6. SumExact'
    <2>1. index[t] = 0 /\ pc[t] = "out" /\ passed[t] = 3 * iter[t]
      BY <1>1 DEF IndicesTaken, UsesCounted
    <2>2. \A z \in Started : index[z] = 0 => z = t
      BY <2>1, <1>4 DEF IndicesTaken
    <2>3. \A u \in Threads : iter[u] # iter[t] + 1
      <3> SUFFICES ASSUME NEW u \in Threads, iter[u] = iter[t] + 1 PROVE FALSE
        OBVIOUS
      <3>1. passed[u] <= 3 * iter[t] /\ iter[t] \in Nat
        BY <2>1, TwoThreads
      <3>2. passed[u] \in Nat /\ iter[u] \in Nat
        BY TwoThreads
      <3>3. passed[u] \in {3 * iter[u], 3 * iter[u] + 1, 3 * iter[u] - 2, 3 * iter[u] - 1}
        BY WhereItIs
      <3>4. passed[u] >= 3 * iter[u] - 2
        BY ONLY <3>2, <3>3
      <3> QED
        BY <3>1, <3>2, <3>4
    <2>4. Iteration(t)' = iter[t] + 1
      BY <1>1 DEF Iteration
    <2>5. Sum(Iteration(t))' = {}
      BY <1>1, <2>3, <2>4 DEF Sum
    <2> QED
      BY <1>1, <1>4, <2>2, <2>5 DEF SumExact
  <1>7. SumCompared' /\ InTime' /\ StopTogether'
    BY <1>1 DEF SumCompared, InTime, StopTogether, BeforeHelper, AfterHelper
  <1> QED
    BY <1>2, <1>3, <1>5, <1>6, <1>7

(* While a thread adds its error, the one with index 0 is in the same         *)
(* iteration or has not cleared the sum since.                                *)
LEMMA AddsToItsIteration ==
  ASSUME SolveInv, NEW t \in Threads, NEW z \in Threads,
         at[t] = "helper", at[z] \notin {"index", "clear"}
  PROVE  Iteration(z) = iter[t] + 1
  <1> USE DEF SolveInv, Solving
  <1>1. /\ passed[t] = 3 * iter[t] + 1 /\ pc[t] = "out"
        /\ iter[t] \in Nat /\ iter[z] \in Nat /\ passed[t] \in Nat /\ passed[z] \in Nat
    BY TwoThreads DEF UsesCounted
  <1>2. passed[t] <= passed[z] + 1 /\ passed[z] <= passed[t]
    BY <1>1, TwoThreads
  <1>3. at[z] \notin {"wait 1", "wait 2", "wait 3"} => passed[t] <= passed[z]
    BY TwoThreads DEF UsesCounted
  <1>4. CASE at[z] \in {"wait 1", "final", "done"} /\ passed[z] = 3 * iter[z]
    <2>1. passed[z] = 3 * iter[z]
      BY <1>4
    <2>2. iter[z] = iter[t] /\ ~ (passed[t] <= passed[z])
      BY ONLY <1>1, <1>2, <2>1
    <2>3. at[z] = "wait 1"
      BY <1>3, <1>4, <2>2
    <2> QED
      BY <2>2, <2>3 DEF Iteration
  <1>5. CASE at[z] = "helper" /\ passed[z] = 3 * iter[z] + 1
    <2>1. iter[z] = iter[t]
      BY ONLY <1>1, <1>2, <1>5
    <2> QED
      BY <2>1, <1>5 DEF Iteration
  <1>6. CASE at[z] = "wait 2" /\ passed[z] = 3 * iter[z] - 2
    <2>1. passed[z] = 3 * iter[z] - 2
      BY <1>6
    <2>2. iter[z] = iter[t] + 1
      BY ONLY <1>1, <1>2, <2>1
    <2> QED
      BY <2>2, <1>6 DEF Iteration
  <1>7. CASE at[z] \in {"file", "swap", "wait 3"} /\ passed[z] = 3 * iter[z] - 1
    <2>1. passed[z] = 3 * iter[z] - 1
      BY <1>7
    <2> QED
      BY ONLY <1>1, <1>2, <2>1
  <1> QED
    BY <1>4, <1>5, <1>6, <1>7, WhereItIs

LEMMA AddErrorKeepsSolving ==
  ASSUME SolveInv, NEW t \in Threads, AddError(t)
  PROVE  Solving'
  <1> USE DEF SolveInv, Solving
  <1> DEFINE k == iter[t] + 1
  <1>1. /\ at[t] = "helper" /\ at' = [at EXCEPT ![t] = "wait 2"] /\ at'[t] = "wait 2"
        /\ iter' = [iter EXCEPT ![t] = k] /\ iter'[t] = k
        /\ \A u \in Threads \ {t} : at'[u] = at[u] /\ iter'[u] = iter[u]
        /\ error_count' = error_count \cup {<<index[t], k>>}
        /\ UNCHANGED <<lastIter, index_count, index, error, pc, passed>>
    BY DEF AddError, Goto, SolveTypeOK, vars
  <1>2. iter[t] \in Nat /\ k \in Nat /\ iter[t] # k
    BY TwoThreads
  <1> HIDE DEF k
  <1>3. SolveTypeOK'
    <2>1. "wait 2" \in AfterHelper
      BY DEF AfterHelper
    <2> QED
      BY <1>1, <1>2, <2>1 DEF SolveTypeOK
  <1>4. UsesCounted'
    <2>1. passed[t] = 3 * iter[t] + 1
      BY <1>1 DEF UsesCounted
    <2>2. passed[t] = 3 * k - 2
      BY ONLY <1>2, <2>1 DEF k
    <2> QED
      BY <1>1, <2>2 DEF UsesCounted
  <1>5. Started' = Started
    BY <1>1 DEF Started
  <1>6. IndicesTaken'
    BY <1>1, <1>5, IndicesKept DEF IndicesTaken
  <1>7. SumExact'
    <2> SUFFICES ASSUME NEW z \in Started', index'[z] = 0, at'[z] # "clear"
                 PROVE  error_count' = Sum(Iteration(z))'
      BY DEF SumExact
    <2>1. z \in Started /\ z \in Threads /\ index[z] = 0 /\ at[z] \notin {"index", "clear"}
      BY <1>1, <1>5 DEF Started
    <2>2. Iteration(z) = k
      BY <1>1, <2>1, AddsToItsIteration DEF k
    <2>3. Iteration(z)' = k
      <3>1. CASE z = t
        BY <3>1, <1>1 DEF Iteration
      <3>2. CASE z # t
        <4>1. at'[z] = at[z] /\ iter'[z] = iter[z]
          BY <3>2, <1>1, <2>1
        <4> QED
          BY <4>1, <2>2 DEF Iteration
      <3> QED
        BY <3>1, <3>2
    <2>4. error_count = Sum(k)
      BY <2>1, <2>2 DEF SumExact
    <2>5. {u \in Threads : iter'[u] = k} = {u \in Threads : iter[u] = k} \cup {t}
      BY <1>1
    <2>6. Sum(Iteration(z))' = {<<index[u], k>> : u \in {v \in Threads : iter'[v] = k}}
      BY <1>1, <2>3 DEF Sum
    <2>7. Sum(Iteration(z))' = Sum(k) \cup {<<index[t], k>>}
      BY <2>5, <2>6 DEF Sum
    <2> QED
      BY <1>1, <2>4, <2>7
  <1>8. SumCompared'
    BY <1>1 DEF SumCompared
  <1>9. InTime' /\ StopTogether'
    <2>1. k \in 1 .. lastIter
      <3>1. iter[t] < lastIter /\ lastIter \in Nat
        BY <1>1 DEF InTime, BeforeHelper, SolveTypeOK
      <3> QED
        BY ONLY <1>2, <3>1 DEF k
    <2> QED
      BY <1>1, <2>1 DEF InTime, StopTogether, BeforeHelper, AfterHelper
  <1> QED
    BY <1>3, <1>4, <1>6, <1>7, <1>8, <1>9

-----------------------------------------------------------------------------
(* A thread that reads the sum for its comparison finds what all of them      *)
(* added in its iteration, and nothing else.                                  *)
LEMMA ReadsWholeSum ==
  ASSUME SolveInv, NEW t \in Threads, at[t] = "swap"
  PROVE  error_count = (0 .. NUM_THREADS - 1) \X {iter[t]}
  <1> USE DEF SolveInv, Solving
  <1> DEFINE k == iter[t]
  <1>1. passed[t] = 3 * k - 1 /\ pc[t] = "out" /\ k \in Nat
    BY TwoThreads DEF UsesCounted
  <1> HIDE DEF k
  <1>2. \A u \in Threads : at[u] \in AfterHelper /\ iter[u] = k
    <2> SUFFICES ASSUME NEW u \in Threads PROVE at[u] \in AfterHelper /\ iter[u] = k
      OBVIOUS
    <2>1. /\ iter[u] \in Nat /\ passed[u] \in Nat /\ passed[t] \in Nat
          /\ passed[t] <= passed[u] + 1 /\ passed[u] <= passed[t]
      BY <1>1, TwoThreads
    <2>2. CASE at[u] \in {"index", "clear", "wait 1", "final", "done"} /\ passed[u] = 3 * iter[u]
      <3>1. passed[u] = 3 * iter[u]
        BY <2>2
      <3> QED
        BY ONLY <1>1, <2>1, <3>1
    <2>3. CASE at[u] = "helper" /\ passed[u] = 3 * iter[u] + 1
      <3>1. passed[t] <= passed[u]
        BY <2>3, TwoThreads DEF UsesCounted
      <3> QED
        BY ONLY <1>1, <2>1, <2>3, <3>1
    <2>4. CASE at[u] = "wait 2" /\ passed[u] = 3 * iter[u] - 2
      <3>1. passed[u] = 3 * iter[u] - 2
        BY <2>4
      <3>2. 3 * k <= 3 * iter[u] /\ 3 * iter[u] <= 3 * k + 1
        BY ONLY <1>1, <2>1, <3>1
      <3>3. iter[u] = k
        BY ONLY <1>1, <2>1, <3>2
      <3> QED
        BY <2>4, <3>3 DEF AfterHelper
    <2>5. CASE at[u] \in {"file", "swap", "wait 3"} /\ passed[u] = 3 * iter[u] - 1
      <3>1. passed[u] = 3 * iter[u] - 1
        BY <2>5
      <3>2. 3 * iter[u] <= 3 * k /\ 3 * k <= 3 * iter[u] + 1
        BY ONLY <1>1, <2>1, <3>1
      <3>3. iter[u] = k
        BY ONLY <1>1, <2>1, <3>2
      <3> QED
        BY <2>5, <3>3 DEF AfterHelper
    <2> QED
      BY <2>2, <2>3, <2>4, <2>5, WhereItIs
  <1>3. Started = Threads
    BY <1>2 DEF Started, AfterHelper
  <1>4. {index[u] : u \in Threads} = 0 .. NUM_THREADS - 1
    BY <1>3, AllOfThem DEF IndicesTaken
  <1>5. PICK z \in Threads : index[z] = 0
    <2>1. 0 \in 0 .. NUM_THREADS - 1
      BY AllOfThem
    <2> QED
      BY <2>1, <1>4
  <1>6. Iteration(z) = k /\ at[z] # "clear"
    BY <1>2 DEF Iteration, AfterHelper
  <1>7. error_count = Sum(k)
    BY <1>3, <1>5, <1>6 DEF SumExact
  <1>8. Sum(k) = {<<index[u], k>> : u \in Threads}
    BY <1>2 DEF Sum
  <1>9. {<<index[u], k>> : u \in Threads} = (0 .. NUM_THREADS - 1) \X {k}
    BY <1>4
  <1> QED
    BY <1>7, <1>8, <1>9 DEF k

(* The comparison with EPSILON decides for all alike. *)
LEMMA Decides ==
  ASSUME SolveInv, NEW t \in Threads, at[t] = "wait 3",
         NEW goesOn \in GoesOn(error[t], iter[t])
  PROVE  /\ goesOn <=> iter[t] < lastIter
         /\ iter[t] \in 1 .. lastIter
  <1>1. error[t] = (0 .. NUM_THREADS - 1) \X {iter[t]}
    BY DEF SolveInv, Solving, SumCompared
  <1>2. iter[t] \in 1 .. lastIter
    BY DEF SolveInv, Solving, InTime, AfterHelper
  <1> QED
    BY <1>1, <1>2 DEF GoesOn

LEMMA WriteIterateKeepsSolving ==
  ASSUME SolveInv, NEW t \in Threads, WriteIterate(t)
  PROVE  Solving'
  <1> USE DEF SolveInv, Solving
  <1>1. /\ at[t] = "file" /\ at' = [at EXCEPT ![t] = "swap"]
        /\ UNCHANGED <<lastIter, index_count, index, iter, error, error_count, pc, passed>>
    BY DEF WriteIterate, Goto, vars
  <1>2. UsesCounted'
    BY <1>1 DEF UsesCounted, SolveTypeOK
  <1>3. iter[t] \in 1 .. lastIter /\ "swap" \in AfterHelper /\ "swap" \notin BeforeHelper
    BY <1>1 DEF InTime, AfterHelper, BeforeHelper
  <1>4. Iteration(t)' = Iteration(t)
    BY <1>1 DEF Iteration, SolveTypeOK
  <1>5. error \in [Threads -> SUBSET (Int \X Nat)]
    BY DEF SolveTypeOK
  <1> QED
    BY <1>1, <1>2, <1>3, <1>4, <1>5, MovingKeepsSolving

LEMMA SwapKeepsSolving ==
  ASSUME SolveInv, NEW t \in Threads, Swap(t)
  PROVE  Solving'
  <1> USE DEF SolveInv, Solving
  <1>1. /\ at[t] = "swap" /\ at' = [at EXCEPT ![t] = "wait 3"]
        /\ error' = [error EXCEPT ![t] = error_count]
        /\ UNCHANGED <<lastIter, index_count, index, iter, error_count, pc, passed>>
    BY DEF Swap, Goto, common, vars
  <1>2. UsesCounted'
    BY <1>1 DEF UsesCounted, SolveTypeOK
  <1>3. iter[t] \in 1 .. lastIter /\ "wait 3" \in AfterHelper /\ "wait 3" \notin BeforeHelper
    BY <1>1 DEF InTime, AfterHelper, BeforeHelper
  <1>4. Iteration(t)' = Iteration(t)
    BY <1>1 DEF Iteration, SolveTypeOK
  <1>5. error_count = (0 .. NUM_THREADS - 1) \X {iter[t]}
    BY <1>1, ReadsWholeSum
  <1>6. error_count \in SUBSET (Int \X Nat)
    <2>1. iter[t] \in Nat
      BY TwoThreads
    <2> QED
      BY <2>1, <1>5, AllOfThem
  <1>7. /\ error' \in [Threads -> SUBSET (Int \X Nat)]
        /\ error'[t] = error_count /\ \A u \in Threads \ {t} : error'[u] = error[u]
    BY <1>1, <1>6 DEF SolveTypeOK
  <1> QED
    BY <1>1, <1>2, <1>3, <1>4, <1>5, <1>7, MovingKeepsSolving

LEMMA FinalKeepsSolving ==
  ASSUME SolveInv, NEW t \in Threads, Final(t)
  PROVE  Solving'
  <1> USE DEF SolveInv, Solving
  <1>1. /\ at[t] = "final" /\ at' = [at EXCEPT ![t] = "done"]
        /\ UNCHANGED <<lastIter, index_count, index, iter, error, error_count, pc, passed>>
    BY DEF Final, Goto, vars
  <1>2. UsesCounted'
    BY <1>1 DEF UsesCounted, SolveTypeOK
  <1>3. iter[t] = lastIter /\ "done" \notin AfterHelper \cup BeforeHelper
    BY <1>1 DEF StopTogether, AfterHelper, BeforeHelper
  <1>4. Iteration(t)' = Iteration(t)
    BY <1>1 DEF Iteration, SolveTypeOK
  <1>5. error \in [Threads -> SUBSET (Int \X Nat)]
    BY DEF SolveTypeOK
  <1> QED
    BY <1>1, <1>2, <1>3, <1>4, <1>5, MovingKeepsSolving

(* A call that returns moves its thread on by one use of the barrier. *)
LEMMA ReturnIsOut ==
  ASSUME SolveInv, NEW t \in Threads, Return(t)
  PROVE  /\ pc'[t] = "out" /\ passed'[t] = passed[t] + 1
         /\ \A u \in Threads \ {t} : pc'[u] = pc[u] /\ passed'[u] = passed[u]
  BY DEF Return, SolveInv, IInv, TypeOK

LEMMA ReturnToHelperKeepsSolving ==
  ASSUME SolveInv, NEW t \in Threads, ReturnToHelper(t)
  PROVE  Solving'
  <1> USE DEF SolveInv, Solving
  <1>1. /\ at[t] = "wait 1" /\ at' = [at EXCEPT ![t] = "helper"]
        /\ at'[t] = "helper" /\ \A u \in Threads \ {t} : at'[u] = at[u]
        /\ UNCHANGED <<lastIter, index_count, index, iter, error, error_count>>
    BY DEF ReturnToHelper, Goto, common, SolveTypeOK
  <1>2. UsesCounted'
    <2>1. passed[t] = 3 * iter[t]
      BY <1>1 DEF UsesCounted
    <2>2. /\ pc'[t] = "out" /\ passed'[t] = 3 * iter[t] + 1
          /\ \A u \in Threads \ {t} : pc'[u] = pc[u] /\ passed'[u] = passed[u]
      BY <2>1, ReturnIsOut DEF ReturnToHelper
    <2> QED
      BY <1>1, <2>2 DEF UsesCounted
  <1>3. iter[t] < lastIter /\ "helper" \notin AfterHelper /\ "helper" \in BeforeHelper
    BY <1>1 DEF InTime, AfterHelper, BeforeHelper
  <1>4. Iteration(t)' = Iteration(t)
    BY <1>1 DEF Iteration
  <1>5. error \in [Threads -> SUBSET (Int \X Nat)]
    BY DEF SolveTypeOK
  <1> QED
    BY <1>1, <1>2, <1>3, <1>4, <1>5, MovingKeepsSolving

LEMMA ReturnToSwapKeepsSolving ==
  ASSUME SolveInv, NEW t \in Threads, ReturnToSwap(t)
  PROVE  Solving'
  <1> USE DEF SolveInv, Solving
  <1>1. PICK place \in {"file", "swap"} : at' = [at EXCEPT ![t] = place]
    BY DEF ReturnToSwap, Goto
  <1>2. /\ at[t] = "wait 2" /\ at'[t] = place /\ \A u \in Threads \ {t} : at'[u] = at[u]
        /\ UNCHANGED <<lastIter, index_count, index, iter, error, error_count>>
    BY <1>1 DEF ReturnToSwap, common, SolveTypeOK
  <1>3. UsesCounted'
    <2>1. passed[t] = 3 * iter[t] - 2 /\ iter[t] \in Nat
      BY <1>2, TwoThreads DEF UsesCounted
    <2>2. /\ pc'[t] = "out" /\ passed'[t] = passed[t] + 1
          /\ \A u \in Threads \ {t} : pc'[u] = pc[u] /\ passed'[u] = passed[u]
      BY ReturnIsOut DEF ReturnToSwap
    <2>3. passed'[t] = 3 * iter[t] - 1
      BY ONLY <2>1, <2>2
    <2> QED
      BY <1>2, <2>2, <2>3 DEF UsesCounted
  <1>4. iter[t] \in 1 .. lastIter /\ place \in AfterHelper /\ place \notin BeforeHelper
    BY <1>2 DEF InTime, AfterHelper, BeforeHelper
  <1>5. Iteration(t)' = Iteration(t)
    BY <1>2 DEF Iteration
  <1>6. error \in [Threads -> SUBSET (Int \X Nat)]
    BY DEF SolveTypeOK
  <1> QED
    BY <1>1, <1>2, <1>3, <1>4, <1>5, <1>6, MovingKeepsSolving

LEMMA ReturnToTestKeepsSolving ==
  ASSUME SolveInv, NEW t \in Threads, ReturnToTest(t)
  PROVE  Solving'
  <1> USE DEF SolveInv, Solving
  <1>1. PICK goesOn \in GoesOn(error[t], iter[t]) :
          at' = [at EXCEPT ![t] = IF goesOn THEN Loop(index[t]) ELSE "final"]
    BY DEF ReturnToTest, Goto
  <1> DEFINE place == IF goesOn THEN Loop(index[t]) ELSE "final"
  <1>2. /\ at[t] = "wait 3"
        /\ UNCHANGED <<lastIter, index_count, index, iter, error, error_count>>
    BY DEF ReturnToTest, common
  <1>3. /\ goesOn <=> iter[t] < lastIter
        /\ iter[t] \in 1 .. lastIter
    BY <1>2, Decides
  <1>4. \/ place = "clear" /\ index[t] = 0 /\ iter[t] < lastIter
        \/ place = "wait 1" /\ index[t] # 0 /\ iter[t] < lastIter
        \/ place = "final" /\ iter[t] = lastIter
    <2>1. CASE goesOn
      BY <2>1, <1>3 DEF Loop
    <2>2. CASE ~goesOn
      <3>1. iter[t] = lastIter
        BY <2>2, <1>3 DEF SolveTypeOK
      <3> QED
        BY <2>2, <3>1
    <2> QED
      BY <2>1, <2>2
  <1>5. at' = [at EXCEPT ![t] = place]
    BY <1>1
  <1> HIDE DEF place
  <1>6. at'[t] = place /\ \A u \in Threads \ {t} : at'[u] = at[u]
    BY <1>5 DEF SolveTypeOK
  <1>7. UsesCounted'
    <2>1. passed[t] = 3 * iter[t] - 1 /\ iter[t] \in Nat
      BY <1>2, TwoThreads DEF UsesCounted
    <2>2. /\ pc'[t] = "out" /\ passed'[t] = passed[t] + 1
          /\ \A u \in Threads \ {t} : pc'[u] = pc[u] /\ passed'[u] = passed[u]
      BY ReturnIsOut DEF ReturnToTest
    <2>3. passed'[t] = 3 * iter[t]
      BY ONLY <2>1, <2>2
    <2> QED
      BY <1>2, <1>4, <1>6, <2>2, <2>3 DEF UsesCounted
  <1>8. /\ place \in (BeforeHelper \cup AfterHelper \cup {"final", "done"}) \ {"index"}
        /\ place \in BeforeHelper => iter[t] < lastIter
        /\ place \notin AfterHelper
    BY <1>4 DEF BeforeHelper, AfterHelper
  <1>9. index[t] = 0 /\ place # "clear" => Iteration(t)' = Iteration(t)
    BY <1>2, <1>4, <1>6 DEF Iteration
  <1>10. error \in [Threads -> SUBSET (Int \X Nat)]
    BY DEF SolveTypeOK
  <1> QED
    BY <1>2, <1>4, <1>5, <1>7, <1>8, <1>9, <1>10, MovingKeepsSolving

-----------------------------------------------------------------------------
LEMMA StepKeepsSolveInv == SolveInv /\ [SolveNext]_<<solver, vars>> => SolveInv'
  <1> SUFFICES ASSUME SolveInv, [SolveNext]_<<solver, vars>> PROVE SolveInv'
    OBVIOUS
  <1>1. IInv'
    BY CallsOnly, StepKeepsIInv DEF SolveInv
  <1>2. ASSUME NEW t \in Threads, SolveStep(t) PROVE Solving'
    BY <1>2, TakeIndexKeepsSolving, ClearKeepsSolving, ColumnKeepsSolving,
       AddErrorKeepsSolving, WriteIterateKeepsSolving, SwapKeepsSolving,
       FinalKeepsSolving, CallingKeepsSolving, ReturnToHelperKeepsSolving,
       ReturnToSwapKeepsSolving, ReturnToTestKeepsSolving DEF SolveStep
  <1>3. ASSUME NEW t \in Threads, WakeUp(t) PROVE Solving'
    BY <1>3, CallingKeepsSolving
  <1>4. ASSUME UNCHANGED <<solver, vars>> PROVE Solving'
    <2>1. UNCHANGED <<lastIter, index_count, error_count, at, index, iter, error, pc, passed>>
      BY <1>4 DEF solver, common, locals, vars
    <2>2. Started' = Started
      BY <2>1 DEF Started
    <2>3. SumExact'
      BY <2>1, <2>2, SumKept DEF Iteration, SolveInv, Solving
    <2>4. IndicesTaken'
      BY <2>1, <2>2, IndicesKept DEF SolveInv, Solving, IndicesTaken
    <2>5. SolveTypeOK' /\ UsesCounted' /\ SumCompared' /\ InTime' /\ StopTogether'
      BY <2>1 DEF SolveInv, Solving, SolveTypeOK, UsesCounted, SumCompared, InTime, StopTogether
    <2> QED
      BY <2>3, <2>4, <2>5 DEF Solving
  <1> QED
    BY <1>1, <1>2, <1>3, <1>4 DEF SolveInv, SolveNext, Solved

(* All threads leave the loop after the iteration in which the error is small *)
(* enough, whatever their number: the first one clears the sum only when the  *)
(* others have read it (poisson.c:86).                                        *)
THEOREM AllStopTogether == SolveSpec => []StopTogether
  <1>1. SolveInv => StopTogether
    BY DEF SolveInv, Solving
  <1> QED
    BY <1>1, InitSolveInv, StepKeepsSolveInv, PTL DEF SolveSpec

-----------------------------------------------------------------------------
(* The values in the grid                                                   *)

Grids == {"a", "b"}

Columns(i) == startx(i) .. ends(i)

\* How many iterates thread t has computed of a column of its own.
Computed(t, c) == IF at[t] = "helper" /\ c < x[t] THEN iter[t] + 1 ELSE iter[t]

\* The array that iterate k is written to, and what array g has of a column with
\* k iterates: the last of its own.
ArrayOf(k) == IF k % 2 = 1 THEN "a" ELSE "b"
Holds(g, k) == IF k = 0 \/ g = ArrayOf(k) THEN k ELSE k - 1

GridTypeOK ==
    /\ n \in Sizes
    /\ grid \in [Grids -> [0 .. n + 2 -> Int]]
    /\ x \in [Threads -> Int]
    /\ current \in [Threads -> Grids]

\* current is what the thread writes next until the iterate is complete.
CurrentIs ==
    \A t \in Threads :
        current[t] = ArrayOf(IF at[t] \in {"wait 2", "file", "swap", "done"}
                             THEN iter[t] ELSE iter[t] + 1)

InsideItsColumns ==
    \A t \in Threads :
        at[t] = "helper" => x[t] \in startx(index[t]) .. ends(index[t]) + 1

EdgesAreZero == \A g \in Grids : grid[g][0] = Edge /\ grid[g][n + 1] = Edge

ColumnsHold ==
    \A t \in Started : \A c \in Columns(index[t]) : \A g \in Grids :
        grid[g][c] = Holds(g, Computed(t, c))

\* Nobody writes before the last thread has its index.
NothingYet ==
    Started # Threads => \A g \in Grids, c \in 1 .. n : grid[g][c] = 0

GridRight == InsideItsColumns /\ EdgesAreZero /\ ColumnsHold /\ NothingYet
             /\ image.columns = {image.iter}

GridInv == GridTypeOK /\ CurrentIs /\ (Fits => GridRight)

-----------------------------------------------------------------------------
(* The split of the columns *)

LEMMA TimesIsMonotone ==
  ASSUME NEW w \in Nat, NEW i \in Int, NEW j \in Int, i <= j
  PROVE  w * i <= w * j
  OBVIOUS

LEMMA TimesPlusOne ==
  ASSUME NEW w \in Nat, NEW i \in Int
  PROVE  w * (i + 1) = w * i + w
  OBVIOUS

LEMMA WidthIs ==
  ASSUME n \in Sizes
  PROVE  width \in Nat \ {0} /\ n \in Nat \ {0}
  <1>1. n \in Nat \ {0} /\ NUM_THREADS \in Nat \ {0}
    BY SizesAssumption, AllOfThem
  <1> QED
    BY <1>1 DEF width

LEMMA BoundsAreNumbers ==
  ASSUME n \in Sizes, NEW i \in Int
  PROVE  startx(i) \in Int /\ ends(i) \in Int
  BY WidthIs DEF startx, ends

(* The columns of a thread lie in the grid, and x, which counts through them, *)
(* ends one behind the last.                                                 *)
LEMMA SplitInside ==
  ASSUME n \in Sizes, Fits, NEW i \in 0 .. NUM_THREADS - 1
  PROVE  Columns(i) \subseteq 1 .. n /\ startx(i) <= ends(i) + 1
  <1>1. width \in Nat \ {0} /\ n \in Nat \ {0} /\ NUM_THREADS \in Nat \ {0}
    BY WidthIs, AllOfThem
  <1>2. width * i \in Nat /\ width * (NUM_THREADS - 1) <= n
    BY <1>1 DEF Fits
  <1>3. CASE i = NUM_THREADS - 1
    BY <1>1, <1>2, <1>3 DEF Columns, startx, ends
  <1>4. CASE i # NUM_THREADS - 1
    <2>1. width * (i + 1) <= width * (NUM_THREADS - 1)
      BY <1>1, <1>4, TimesIsMonotone
    <2>2. width * i + width <= n
      BY <1>1, <1>2, <2>1, TimesPlusOne
    <2> QED
      BY <1>1, <1>2, <1>4, <2>2 DEF Columns, startx, ends
  <1> QED
    BY <1>3, <1>4

LEMMA SplitInOrder ==
  ASSUME n \in Sizes, NEW i \in 0 .. NUM_THREADS - 1, NEW j \in 0 .. NUM_THREADS - 1,
         i < j, NEW c \in Columns(i), NEW d \in Columns(j)
  PROVE  c < d
  <1>1. width \in Nat \ {0} /\ n \in Nat \ {0} /\ NUM_THREADS \in Nat \ {0}
    BY WidthIs, AllOfThem
  <1>2. width * (i + 1) <= width * j
    BY <1>1, TimesIsMonotone
  <1>3. width * i + width <= width * j /\ width * i \in Int /\ width * j \in Int
    BY <1>1, <1>2, TimesPlusOne
  <1> QED
    BY <1>1, <1>3 DEF Columns, startx, ends

(* No column is left out. *)
LEMMA SplitCovers ==
  ASSUME n \in Sizes, NEW c \in 1 .. n
  PROVE  \E i \in 0 .. NUM_THREADS - 1 : c \in Columns(i)
  <1>1. width \in Nat \ {0} /\ n \in Nat \ {0} /\ NUM_THREADS \in Nat \ {0}
    BY WidthIs, AllOfThem
  <1>2. CASE c > width * (NUM_THREADS - 1)
    <2>1. c \in Columns(NUM_THREADS - 1)
      BY <1>1, <1>2 DEF Columns, startx, ends
    <2> QED
      BY <1>1, <2>1
  <1>3. CASE ~ (c > width * (NUM_THREADS - 1))
    <2> DEFINE i == (c - 1) \div width
    <2>1. i \in Nat /\ width * i <= c - 1 /\ c - 1 < width * i + width
      BY <1>1
    <2> HIDE DEF i
    <2>2. i < NUM_THREADS - 1
      <3>1. CASE NUM_THREADS - 1 <= i
        <4>1. width * (NUM_THREADS - 1) <= width * i
          BY <1>1, <2>1, <3>1, TimesIsMonotone
        <4>2. width * (NUM_THREADS - 1) \in Int /\ width * i \in Int
          BY <1>1, <2>1
        <4> QED
          BY <1>1, <1>3, <2>1, <4>1, <4>2
      <3> QED
        BY <1>1, <2>1, <3>1
    <2>3. c \in Columns(i)
      BY <1>1, <2>1, <2>2 DEF Columns, startx, ends
    <2> QED
      BY <1>1, <2>1, <2>2, <2>3
  <1> QED
    BY <1>2, <1>3

(* An iterate goes into the array that does not hold the one before. *)
LEMMA ArraysAlternate ==
  ASSUME NEW k \in Nat
  PROVE  /\ ArrayOf(k) \in Grids /\ ArrayOf(k + 1) \in Grids
         /\ ArrayOf(k + 1) = Other(ArrayOf(k)) /\ ArrayOf(k) = Other(ArrayOf(k + 1))
         /\ ArrayOf(k) # ArrayOf(k + 1)
  BY DEF ArrayOf, Other, Grids

LEMMA ComputedIs ==
  ASSUME SolveInv, GridTypeOK, NEW t \in Threads, NEW c \in Int
  PROVE  Computed(t, c) \in Nat /\ Computed(t, c) \in {iter[t], iter[t] + 1}
  BY DEF Computed, GridTypeOK, SolveInv, Solving, SolveTypeOK

(* Every thread has taken its index, so all of them are taken.             *)
LEMMA AllIndices ==
  ASSUME SolveInv, Started = Threads
  PROVE  /\ \A t \in Threads : index[t] \in 0 .. NUM_THREADS - 1
         /\ \A i \in 0 .. NUM_THREADS - 1 : \E t \in Threads : index[t] = i
  BY DEF SolveInv, Solving, IndicesTaken, NUM_THREADS

LEMMA IndexOfStarted ==
  ASSUME SolveInv, NEW t \in Started
  PROVE  t \in Threads /\ index[t] \in 0 .. NUM_THREADS - 1
  <1>1. index[t] \in 0 .. index_count - 1 /\ t \in Threads
    BY DEF SolveInv, Solving, IndicesTaken, Started
  <1>2. index_count <= NUM_THREADS /\ index_count \in Nat /\ NUM_THREADS \in Nat
    <2>1. IsFiniteSet(Threads) /\ Started \subseteq Threads
      BY ThreadsAssumption DEF Started
    <2>2. Cardinality(Started) <= Cardinality(Threads)
      BY <2>1, FS_Subset
    <2> QED
      BY <2>2, AllOfThem DEF SolveInv, Solving, IndicesTaken, SolveTypeOK
  <1> QED
    BY <1>1, <1>2

(* Once a thread has returned from the barrier all have an index. *)
LEMMA ReturnedMeansStarted ==
  ASSUME SolveInv, NEW t \in Threads, passed[t] > 0
  PROVE  Started = Threads
  <1> SUFFICES ASSUME NEW u \in Threads, at[u] = "index" PROVE FALSE
    BY DEF Started
  <1>1. iter[u] = 0 /\ passed[u] = 3 * iter[u] /\ pc[u] = "out"
    BY DEF SolveInv, Solving, InTime, UsesCounted
  <1>2. passed[t] \in Nat /\ passed[t] <= passed[u]
    BY <1>1, TwoThreads
  <1> QED
    BY <1>1, <1>2

(* Uses of the barrier, 3 * j of them after j iterations, that are at most  *)
(* one apart.                                                              *)
LEMMA UsesWhileHelping ==
  ASSUME NEW k \in Nat, NEW j \in Nat, NEW q \in Int, NEW p \in {3 * k + 1},
         q <= p, p <= q + 1
  PROVE  /\ q \in {3 * j, 3 * j + 1} => j = k
         /\ q \in {3 * j - 2} => j = k + 1
         /\ q \notin {3 * j - 1}
  OBVIOUS

LEMMA UsesWhileWriting ==
  ASSUME NEW k \in Nat, NEW j \in Nat, NEW q \in Int, NEW p \in {3 * k, 3 * k - 1},
         q <= p, p <= q + 1
  PROVE  /\ q \in {3 * j, 3 * j - 1, 3 * j - 2} => j = k
         /\ q = 3 * j + 1 => p # q
  OBVIOUS

(* While a thread computes iterate k + 1 the others are in it too: nobody   *)
(* computes the next one, and iterate k is complete.                       *)
LEMMA OthersWhileHelping ==
  ASSUME SolveInv, GridTypeOK, NEW t \in Threads, at[t] = "helper"
  PROVE  /\ Started = Threads
         /\ \A u \in Threads, c \in Int : Computed(u, c) \in {iter[t], iter[t] + 1}
  <1>1. /\ passed[t] = 3 * iter[t] + 1 /\ pc[t] = "out"
        /\ iter[t] \in Nat /\ passed[t] \in Nat
    BY TwoThreads DEF SolveInv, Solving, UsesCounted
  <1>2. Started = Threads
    <2>1. passed[t] > 0
      BY ONLY <1>1
    <2> QED
      BY <2>1, ReturnedMeansStarted
  <1>3. ASSUME NEW u \in Threads, NEW c \in Int
        PROVE  Computed(u, c) \in {iter[t], iter[t] + 1}
    <2>1. /\ iter[u] \in Nat /\ passed[u] \in Nat
          /\ passed[t] <= passed[u] + 1 /\ passed[u] <= passed[t]
      BY <1>1, TwoThreads
    <2>2. passed[t] \in {3 * iter[t] + 1} /\ passed[u] \in Int
      BY ONLY <1>1, <2>1
    <2>3. /\ passed[u] \in {3 * iter[u], 3 * iter[u] + 1} => iter[u] = iter[t]
          /\ passed[u] \in {3 * iter[u] - 2} => iter[u] = iter[t] + 1
          /\ passed[u] \notin {3 * iter[u] - 1}
      BY ONLY <1>1, <2>1, <2>2, UsesWhileHelping
    <2>4. \/ iter[u] = iter[t]
          \/ at[u] = "wait 2" /\ iter[u] = iter[t] + 1
      BY <2>3, WhereItIs
    <2> QED
      BY <2>4, ComputedIs DEF Computed
  <1> QED
    BY <1>2, <1>3

(* While a thread writes iterate k to a file every thread has computed it,  *)
(* and none the next one.                                                  *)
LEMMA OthersWhileWriting ==
  ASSUME SolveInv, GridTypeOK, NEW t \in Threads, at[t] \in {"file", "final"}
  PROVE  /\ Started = Threads
         /\ iter[t] \in Nat \ {0}
         /\ \A u \in Threads, c \in Int : Computed(u, c) = iter[t]
  <1>1. /\ pc[t] = "out" /\ iter[t] \in Nat /\ passed[t] \in Nat
        /\ passed[t] \in {3 * iter[t], 3 * iter[t] - 1}
    BY TwoThreads DEF SolveInv, Solving, UsesCounted
  <1>2. iter[t] # 0
    <2>1. at[t] = "file" => iter[t] \in 1 .. lastIter
      BY DEF SolveInv, Solving, InTime, AfterHelper
    <2>2. at[t] = "final" => iter[t] = lastIter
      BY DEF SolveInv, Solving, StopTogether
    <2>3. lastIter \in Nat \ {0}
      BY DEF SolveInv, Solving, SolveTypeOK
    <2> QED
      BY <2>1, <2>2, <2>3
  <1>3. Started = Threads
    <2>1. passed[t] > 0
      BY ONLY <1>1, <1>2
    <2> QED
      BY <2>1, ReturnedMeansStarted
  <1>4. ASSUME NEW u \in Threads, NEW c \in Int PROVE Computed(u, c) = iter[t]
    <2>1. /\ iter[u] \in Nat /\ passed[u] \in Nat
          /\ passed[t] <= passed[u] + 1 /\ passed[u] <= passed[t]
      BY <1>1, TwoThreads
    <2>2. /\ passed[u] \in {3 * iter[u], 3 * iter[u] - 1, 3 * iter[u] - 2} => iter[u] = iter[t]
          /\ passed[u] = 3 * iter[u] + 1 => passed[t] # passed[u]
      BY ONLY <1>1, <2>1, UsesWhileWriting
    <2>3. at[u] = "helper" => pc[u] = "out"
      BY DEF SolveInv, Solving, UsesCounted
    <2>4. ASSUME at[u] = "helper" PROVE passed[t] = passed[u]
      <3>1. passed[t] <= passed[u]
        BY <2>3, <2>4, TwoThreads
      <3> QED
        BY ONLY <1>1, <2>1, <3>1
    <2>5. at[u] # "helper" /\ iter[u] = iter[t]
      BY <2>2, <2>4, WhereItIs
    <2> QED
      BY <2>5 DEF Computed
  <1> QED
    BY <1>1, <1>2, <1>3, <1>4

(* Each column has one owner once all have an index, and then it holds what *)
(* the owner has computed.                                                 *)
LEMMA OwnerOf ==
  ASSUME SolveInv, GridInv, Fits, Started = Threads, NEW c \in 1 .. n
  PROVE  \E u \in Threads : c \in Columns(index[u])
                           /\ \A g \in Grids : grid[g][c] = Holds(g, Computed(u, c))
  <1>1. n \in Sizes
    BY DEF GridInv, GridTypeOK
  <1>2. PICK i \in 0 .. NUM_THREADS - 1 : c \in Columns(i)
    BY <1>1, SplitCovers
  <1>3. PICK u \in Threads : index[u] = i
    BY AllIndices
  <1> QED
    BY <1>2, <1>3 DEF GridInv, GridRight, ColumnsHold

(* A file that is written now shows one iterate. *)
LEMMA ShowsOneIterate ==
  ASSUME SolveInv, GridInv, Fits, NEW t \in Threads, at[t] \in {"file", "final"},
         Show(ArrayOf(iter[t]), iter[t])
  PROVE  image'.columns = {image'.iter}
  <1> DEFINE k == iter[t]
             g == ArrayOf(k)
  <1>1. /\ GridTypeOK /\ n \in Nat \ {0}
        /\ Started = Threads /\ k \in Nat \ {0}
        /\ \A u \in Threads, c \in Int : Computed(u, c) = k
    BY OthersWhileWriting, WidthIs DEF GridInv, GridTypeOK
  <1>2. g \in Grids /\ Holds(g, k) = k
    BY <1>1, ArraysAlternate DEF Holds
  <1> HIDE DEF k, g
  <1>3. \A c \in 1 .. n : grid[g][c] = k
    <2> TAKE c \in 1 .. n
    <2>1. PICK u \in Threads : \A h \in Grids : grid[h][c] = Holds(h, Computed(u, c))
      BY <1>1, OwnerOf
    <2>2. Computed(u, c) = k
      BY <1>1
    <2> QED
      BY <1>2, <2>1, <2>2
  <1>4. {grid[g][c] : c \in 1 .. n} = {k}
    <2>1. 1 \in 1 .. n
      BY <1>1
    <2> QED
      BY <1>3, <2>1
  <1> QED
    BY <1>4 DEF Show, k, g

-----------------------------------------------------------------------------
(* GridInv is kept by every step. *)

LEMMA SplitIsKept ==
  ASSUME UNCHANGED n
  PROVE  /\ width' = width /\ (Fits <=> Fits')
         /\ \A i \in Int : startx(i)' = startx(i) /\ ends(i)' = ends(i)
                            /\ Columns(i)' = Columns(i)
  BY DEF width, Fits, startx, ends, Columns, NUM_THREADS

(* A step of t that writes no column. *)
LEMMA MovingKeepsGridInv ==
  ASSUME SolveInv, GridInv, NEW t \in Threads,
         UNCHANGED <<n, grid, index>>, Started' = Started,
         x' \in [Threads -> Int], current' \in [Threads -> Grids],
         \A u \in Threads \ {t} : /\ at'[u] = at[u] /\ iter'[u] = iter[u]
                                  /\ x'[u] = x[u] /\ current'[u] = current[u],
         current'[t] = ArrayOf(IF at'[t] \in {"wait 2", "file", "swap", "done"}
                               THEN iter'[t] ELSE iter'[t] + 1),
         Fits /\ at'[t] = "helper" => x'[t] \in startx(index[t]) .. ends(index[t]) + 1,
         Fits => \A c \in Columns(index[t]) : Computed(t, c)' = Computed(t, c),
         Fits => image'.columns = {image'.iter}
  PROVE  GridInv'
  <1>1. GridTypeOK'
    BY DEF GridInv, GridTypeOK
  <1>2. CurrentIs'
    BY DEF GridInv, CurrentIs
  <1>3. ASSUME Fits PROVE GridRight'
    <2>1. GridRight
      BY <1>3 DEF GridInv
    <2>2. index \in [Threads -> Int]
      BY DEF SolveInv, Solving, SolveTypeOK
    <2>3. InsideItsColumns'
      <3> SUFFICES ASSUME NEW u \in Threads, at'[u] = "helper"
                   PROVE  x'[u] \in startx(index[u])' .. ends(index[u])' + 1
        BY DEF InsideItsColumns
      <3>1. startx(index[u])' = startx(index[u]) /\ ends(index[u])' = ends(index[u])
        BY <2>2, SplitIsKept DEF startx, ends, width, NUM_THREADS
      <3> QED
        BY <1>3, <2>1, <3>1 DEF GridRight, InsideItsColumns
    <2>4. ColumnsHold'
      <3> SUFFICES ASSUME NEW u \in Started', NEW c \in Columns(index[u])', NEW g \in Grids
                   PROVE  grid'[g][c] = Holds(g, Computed(u, c)')
        BY DEF ColumnsHold
      <3>1. u \in Started /\ u \in Threads
        BY DEF Started
      <3>2. c \in Columns(index[u])
        BY DEF Columns, startx, ends, width, NUM_THREADS
      <3>3. Computed(u, c)' = Computed(u, c)
        BY <1>3, <3>1, <3>2 DEF Computed
      <3>4. grid[g][c] = Holds(g, Computed(u, c))
        BY <2>1, <3>1, <3>2 DEF GridRight, ColumnsHold
      <3> QED
        BY <3>3, <3>4
    <2>5. EdgesAreZero' /\ NothingYet'
      BY <2>1 DEF GridRight, EdgesAreZero, NothingYet
    <2> QED
      BY <1>3, <2>3, <2>4, <2>5 DEF GridRight
  <1> QED
    BY <1>1, <1>2, <1>3, SplitIsKept DEF GridInv

LEMMA InitGridInv == SolveInit => GridInv
  <1> SUFFICES ASSUME SolveInit PROVE GridInv
    OBVIOUS
  <1> USE DEF SolveInit, Grids
  <1>1. n \in Nat \ {0}
    BY WidthIs
  <1>2. \A g \in Grids : /\ grid[g] \in [0 .. n + 2 -> Int]
                         /\ grid[g][0] = Edge /\ grid[g][n + 1] = Edge
                         /\ \A c \in 1 .. n : grid[g][c] = 0
    BY <1>1 DEF Edge, Wrong
  <1>3. GridTypeOK
    BY <1>2 DEF GridTypeOK
  <1>4. CurrentIs
    BY DEF CurrentIs, ArrayOf
  <1>5. Started = {}
    BY DEF Started
  <1>6. GridRight
    BY <1>2, <1>5 DEF GridRight, InsideItsColumns, EdgesAreZero, ColumnsHold, NothingYet
  <1> QED
    BY <1>3, <1>4, <1>6 DEF GridInv

(* Steps in which no thread moves in the grid. *)
LEMMA RestingKeepsGridInv ==
  ASSUME SolveInv, GridInv, NEW t \in Threads, UNCHANGED solver
  PROVE  GridInv'
  <1>1. UNCHANGED <<n, grid, index, at, iter, x, current, image>>
    BY DEF solver, common, locals
  <1>2. /\ Started' = Started /\ x' \in [Threads -> Int] /\ current' \in [Threads -> Grids]
        /\ \A c \in Columns(index[t]) : Computed(t, c)' = Computed(t, c)
    BY <1>1 DEF Started, Computed, GridInv, GridTypeOK
  <1>3. current'[t] = ArrayOf(IF at'[t] \in {"wait 2", "file", "swap", "done"}
                              THEN iter'[t] ELSE iter'[t] + 1)
    BY <1>1 DEF GridInv, CurrentIs
  <1>4. /\ Fits /\ at'[t] = "helper" => x'[t] \in startx(index[t]) .. ends(index[t]) + 1
        /\ Fits => image'.columns = {image'.iter}
    BY <1>1 DEF GridInv, GridRight, InsideItsColumns
  <1> QED
    BY <1>1, <1>2, <1>3, <1>4, MovingKeepsGridInv

LEMMA TakeIndexKeepsGridInv ==
  ASSUME SolveInv, GridInv, NEW t \in Threads, TakeIndex(t)
  PROVE  GridInv'
  <1>1. /\ at[t] = "index" /\ at'[t] \in {"clear", "wait 1"}
        /\ \A u \in Threads \ {t} : at'[u] = at[u] /\ index'[u] = index[u]
        /\ index'[t] = index_count
        /\ UNCHANGED <<n, grid, image, x, current, iter>>
    BY DEF TakeIndex, Goto, Loop, SolveInv, Solving, SolveTypeOK
  <1>2. iter[t] = 0 /\ current[t] = ArrayOf(iter[t] + 1)
    BY <1>1 DEF SolveInv, Solving, InTime, GridInv, CurrentIs
  <1>3. GridTypeOK' /\ (Fits <=> Fits')
    BY <1>1, SplitIsKept DEF GridInv, GridTypeOK
  <1>4. CurrentIs'
    BY <1>1, <1>2 DEF GridInv, CurrentIs
  <1>5. Started # Threads /\ Started' = Started \cup {t} /\ t \notin Started
    BY <1>1 DEF Started
  <1>6. ASSUME Fits PROVE GridRight'
    <2>1. GridRight
      BY <1>6 DEF GridInv
    <2>2. /\ index_count \in 0 .. NUM_THREADS - 1
          /\ \A u \in Started : index[u] \in Int
      <3>1. Cardinality(Started) + 1 <= Cardinality(Threads) /\ Cardinality(Started) \in Nat
        <4>1. IsFiniteSet(Threads) /\ Started' \subseteq Threads /\ Started \subseteq Threads
          BY ThreadsAssumption, <1>5 DEF Started
        <4>2. IsFiniteSet(Started) /\ Cardinality(Started \cup {t}) <= Cardinality(Threads)
          BY <1>5, <4>1, FS_Subset
        <4>3. Cardinality(Started \cup {t}) = Cardinality(Started) + 1
          BY <1>5, <4>2, FS_AddElement
        <4>4. Cardinality(Started) \in Nat
          BY <4>2, FS_CardinalityType
        <4> QED
          BY <4>2, <4>3, <4>4
      <3> QED
        BY <3>1, AllOfThem, IndexOfStarted DEF SolveInv, Solving, IndicesTaken
    <2>3. InsideItsColumns'
      <3> SUFFICES ASSUME NEW u \in Threads, at'[u] = "helper"
                   PROVE  x'[u] \in startx(index[u])' .. ends(index[u])' + 1
        BY DEF InsideItsColumns
      <3>1. u # t /\ at[u] = "helper"
        BY <1>1
      <3> QED
        BY <1>1, <2>1, <3>1 DEF GridRight, InsideItsColumns, startx, ends, width, NUM_THREADS
    <2>4. ColumnsHold'
      <3> SUFFICES ASSUME NEW u \in Started', NEW c \in Columns(index[u])', NEW g \in Grids
                   PROVE  grid'[g][c] = Holds(g, Computed(u, c)')
        BY DEF ColumnsHold
      <3>1. CASE u = t
        <4>1. c \in Columns(index_count)
          BY <1>1, <3>1 DEF Columns, startx, ends, width, NUM_THREADS
        <4>2. c \in 1 .. n
          BY <1>6, <2>2, <4>1, SplitInside DEF GridInv, GridTypeOK
        <4>3. grid'[g][c] = 0
          BY <1>1, <1>5, <2>1, <4>2 DEF GridRight, NothingYet
        <4>4. Computed(u, c)' = 0
          BY <1>1, <1>2, <3>1 DEF Computed
        <4> QED
          BY <4>3, <4>4 DEF Holds
      <3>2. CASE u # t
        <4>1. u \in Started /\ u \in Threads
          BY <1>5, <3>2 DEF Started
        <4>2. c \in Columns(index[u]) /\ Computed(u, c)' = Computed(u, c)
          BY <1>1, <3>2, <4>1 DEF Columns, startx, ends, width, NUM_THREADS, Computed
        <4> QED
          BY <1>1, <2>1, <4>1, <4>2 DEF GridRight, ColumnsHold
      <3> QED
        BY <3>1, <3>2
    <2>5. EdgesAreZero' /\ NothingYet'
      BY <1>1, <1>5, <2>1 DEF GridRight, EdgesAreZero, NothingYet
    <2> QED
      BY <1>1, <2>1, <2>3, <2>4, <2>5 DEF GridRight
  <1> QED
    BY <1>3, <1>4, <1>6 DEF GridInv

(* The steps that change only where a thread is, and neither what it has    *)
(* computed nor its arrays.                                                *)
LEMMA PlaceKeepsGridInv ==
  ASSUME SolveInv, GridInv, NEW t \in Threads, NEW place,
         at[t] \notin {"index", "helper"}, place \notin {"index", "helper"},
         at' = [at EXCEPT ![t] = place],
         UNCHANGED <<n, grid, index, x, iter>>, current' \in [Threads -> Grids],
         \A u \in Threads \ {t} : current'[u] = current[u],
         current'[t] = ArrayOf(IF place \in {"wait 2", "file", "swap", "done"}
                               THEN iter[t] ELSE iter[t] + 1),
         Fits => image'.columns = {image'.iter}
  PROVE  GridInv'
  <1>1. at'[t] = place /\ \A u \in Threads \ {t} : at'[u] = at[u]
    BY DEF SolveInv, Solving, SolveTypeOK
  <1>2. Started' = Started
    BY <1>1 DEF Started
  <1>3. \A c \in Columns(index[t]) : Computed(t, c)' = Computed(t, c)
    BY <1>1 DEF Computed
  <1>4. x' \in [Threads -> Int]
    BY DEF GridInv, GridTypeOK
  <1> QED
    BY <1>1, <1>2, <1>3, <1>4, MovingKeepsGridInv

(* How a thread reads its current array. *)
LEMMA CurrentOf ==
  ASSUME SolveInv, GridInv, NEW t \in Threads
  PROVE  /\ iter[t] \in Nat /\ current \in [Threads -> Grids]
         /\ at[t] \in {"wait 2", "file", "swap", "done"} => current[t] = ArrayOf(iter[t])
         /\ at[t] \notin {"wait 2", "file", "swap", "done"} => current[t] = ArrayOf(iter[t] + 1)
         /\ Fits => image.columns = {image.iter}
  BY DEF SolveInv, Solving, SolveTypeOK, GridInv, GridTypeOK, CurrentIs, GridRight

LEMMA LocalStepKeepsGridInv ==
  ASSUME SolveInv, GridInv, NEW t \in Threads,
         Clear(t) \/ WriteIterate(t) \/ ReturnToSwap(t) \/ ReturnToTest(t)
  PROVE  GridInv'
  <1>1. CASE Clear(t)
    BY <1>1, CurrentOf, PlaceKeepsGridInv DEF Clear, Goto
  <1>2. CASE WriteIterate(t)
    <2>1. at[t] = "file" /\ Show(current[t], iter[t])
      BY <1>2 DEF WriteIterate
    <2>2. current[t] = ArrayOf(iter[t])
      BY <2>1, CurrentOf
    <2>3. Fits => image'.columns = {image'.iter}
      BY <2>1, <2>2, ShowsOneIterate
    <2> QED
      BY <1>2, <2>1, <2>2, <2>3, CurrentOf, PlaceKeepsGridInv DEF WriteIterate, Goto
  <1>3. CASE ReturnToSwap(t)
    <2>1. PICK place \in {"file", "swap"} : at' = [at EXCEPT ![t] = place]
      BY <1>3 DEF ReturnToSwap, Goto
    <2>2. at[t] = "wait 2" /\ UNCHANGED <<n, grid, image, index, x, current, iter>>
      BY <1>3 DEF ReturnToSwap, common
    <2> QED
      BY <2>1, <2>2, CurrentOf, PlaceKeepsGridInv
  <1>4. CASE ReturnToTest(t)
    <2>1. PICK place \in {"clear", "wait 1", "final"} : at' = [at EXCEPT ![t] = place]
      BY <1>4 DEF ReturnToTest, Goto, Loop
    <2>2. at[t] = "wait 3" /\ UNCHANGED <<n, grid, image, index, x, current, iter>>
      BY <1>4 DEF ReturnToTest, common
    <2> QED
      BY <2>1, <2>2, CurrentOf, PlaceKeepsGridInv
  <1> QED
    BY <1>1, <1>2, <1>3, <1>4

LEMMA SwapKeepsGridInv ==
  ASSUME SolveInv, GridInv, NEW t \in Threads, Swap(t)
  PROVE  GridInv'
  <1>1. /\ at[t] = "swap" /\ at' = [at EXCEPT ![t] = "wait 3"]
        /\ UNCHANGED <<n, grid, image, index, x, iter>>
        /\ current' = [current EXCEPT ![t] = Other(@)]
    BY DEF Swap, Goto, common
  <1>2. /\ current'[t] = Other(current[t]) /\ \A u \in Threads \ {t} : current'[u] = current[u]
        /\ current' \in [Threads -> Grids]
    BY <1>1 DEF GridInv, GridTypeOK, Other, Grids
  <1>3. current'[t] = ArrayOf(iter[t] + 1)
    BY <1>1, <1>2, CurrentOf, ArraysAlternate
  <1> QED
    BY <1>1, <1>2, <1>3, CurrentOf, PlaceKeepsGridInv

LEMMA FinalKeepsGridInv ==
  ASSUME SolveInv, GridInv, NEW t \in Threads, Final(t)
  PROVE  GridInv'
  <1>1. /\ at[t] = "final" /\ at' = [at EXCEPT ![t] = "done"]
        /\ UNCHANGED <<n, grid, index, x, iter>>
        /\ current' = [current EXCEPT ![t] = Other(@)]
        /\ Show(Other(current[t]), iter[t]) \/ UNCHANGED image
    BY DEF Final, Goto
  <1>2. /\ current'[t] = Other(current[t]) /\ \A u \in Threads \ {t} : current'[u] = current[u]
        /\ current' \in [Threads -> Grids]
    BY <1>1 DEF GridInv, GridTypeOK, Other, Grids
  <1>3. Other(current[t]) = ArrayOf(iter[t])
    BY <1>1, CurrentOf, ArraysAlternate
  <1>4. Fits => image'.columns = {image'.iter}
    BY <1>1, <1>3, CurrentOf, ShowsOneIterate
  <1> QED
    BY <1>1, <1>2, <1>3, <1>4, PlaceKeepsGridInv

(* The thread begins with its first column. *)
LEMMA ReturnToHelperKeepsGridInv ==
  ASSUME SolveInv, GridInv, NEW t \in Threads, ReturnToHelper(t)
  PROVE  GridInv'
  <1>1. /\ at[t] = "wait 1" /\ at' = [at EXCEPT ![t] = "helper"]
        /\ x' = [x EXCEPT ![t] = startx(index[t])]
        /\ UNCHANGED <<n, grid, image, index, current, iter>>
    BY DEF ReturnToHelper, Goto, common
  <1>2. /\ at'[t] = "helper" /\ \A u \in Threads \ {t} : at'[u] = at[u]
        /\ x'[t] = startx(index[t]) /\ \A u \in Threads \ {t} : x'[u] = x[u]
    BY <1>1 DEF SolveInv, Solving, SolveTypeOK, GridInv, GridTypeOK
  <1>3. index[t] \in 0 .. NUM_THREADS - 1
    BY <1>1, IndexOfStarted DEF Started
  <1>4. startx(index[t]) \in Int /\ ends(index[t]) \in Int /\ n \in Sizes
    BY BoundsAreNumbers DEF GridInv, GridTypeOK, SolveInv, Solving, SolveTypeOK
  <1>5. x' \in [Threads -> Int] /\ Started' = Started
    BY <1>1, <1>2, <1>4 DEF GridInv, GridTypeOK, Started
  <1>6. Fits => x'[t] \in startx(index[t]) .. ends(index[t]) + 1
    BY <1>2, <1>3, <1>4, SplitInside
  <1>7. \A c \in Columns(index[t]) : Computed(t, c)' = Computed(t, c)
    <2> TAKE c \in Columns(index[t])
    <2>1. ~ (c < x'[t])
      BY <1>2, <1>4 DEF Columns
    <2> QED
      BY <1>1, <1>2, <2>1 DEF Computed
  <1> QED
    BY <1>1, <1>2, <1>5, <1>6, <1>7, CurrentOf, MovingKeepsGridInv

(* All columns of the thread are computed when it adds its error. *)
LEMMA AddErrorKeepsGridInv ==
  ASSUME SolveInv, GridInv, NEW t \in Threads, AddError(t)
  PROVE  GridInv'
  <1>1. /\ at[t] = "helper" /\ x[t] > ends(index[t])
        /\ at' = [at EXCEPT ![t] = "wait 2"] /\ iter' = [iter EXCEPT ![t] = @ + 1]
        /\ UNCHANGED <<n, grid, image, index, x, current>>
    BY DEF AddError, Goto
  <1>2. /\ at'[t] = "wait 2" /\ \A u \in Threads \ {t} : at'[u] = at[u]
        /\ iter'[t] = iter[t] + 1 /\ \A u \in Threads \ {t} : iter'[u] = iter[u]
    BY <1>1 DEF SolveInv, Solving, SolveTypeOK
  <1>3. startx(index[t]) \in Int /\ ends(index[t]) \in Int /\ x[t] \in Int
    BY BoundsAreNumbers DEF GridInv, GridTypeOK, SolveInv, Solving, SolveTypeOK
  <1>4. Started' = Started
    BY <1>1, <1>2 DEF Started
  <1>5. \A c \in Columns(index[t]) : Computed(t, c)' = Computed(t, c)
    <2> TAKE c \in Columns(index[t])
    <2>1. c \in Int /\ c <= ends(index[t])
      BY <1>3 DEF Columns
    <2>2. ends(index[t]) < x[t]
      BY <1>1, <1>3
    <2>3. c < x[t]
      BY ONLY <1>3, <2>1, <2>2
    <2> QED
      BY <1>1, <1>2, <2>3 DEF Computed
  <1>6. x' \in [Threads -> Int] /\ current' \in [Threads -> Grids]
    BY <1>1 DEF GridInv, GridTypeOK
  <1> QED
    BY <1>1, <1>2, <1>4, <1>5, <1>6, CurrentOf, MovingKeepsGridInv

(* One column: the thread reads its own column and the two beside it in the  *)
(* array it does not write. The two may be another thread's, which may have  *)
(* computed the iterate already, but into the array that is not read.       *)
LEMMA ReadsPrevious ==
  ASSUME SolveInv, GridInv, Fits, NEW t \in Threads, at[t] = "helper",
         NEW c \in 0 .. n + 1
  PROVE  grid[Other(current[t])][c] \in {iter[t], Edge}
  <1>1. /\ n \in Nat \ {0} /\ GridTypeOK /\ EdgesAreZero /\ Started = Threads
        /\ \A u \in Threads, d \in Int : Computed(u, d) \in {iter[t], iter[t] + 1}
    BY OthersWhileHelping, WidthIs DEF GridInv, GridTypeOK, GridRight
  <1>2. Other(current[t]) = ArrayOf(iter[t]) /\ iter[t] \in Nat
    BY CurrentOf, ArraysAlternate
  <1> DEFINE g == ArrayOf(iter[t])
  <1>3. g \in Grids /\ Holds(g, iter[t]) = iter[t] /\ Holds(g, iter[t] + 1) = iter[t]
    BY <1>2, ArraysAlternate DEF Holds
  <1> HIDE DEF g
  <1>4. CASE c \in {0, n + 1}
    BY <1>1, <1>2, <1>3, <1>4 DEF EdgesAreZero, g
  <1>5. CASE c \in 1 .. n
    <2>1. PICK u \in Threads : \A h \in Grids : grid[h][c] = Holds(h, Computed(u, c))
      BY <1>1, <1>5, OwnerOf
    <2>2. Computed(u, c) \in {iter[t], iter[t] + 1}
      BY <1>1, <1>5
    <2>3. grid[g][c] = iter[t]
      BY <1>3, <2>1, <2>2
    <2> QED
      BY <1>2, <2>3 DEF g
  <1> QED
    BY <1>1, <1>4, <1>5

LEMMA ColumnKeepsGridInv ==
  ASSUME SolveInv, GridInv, NEW t \in Threads, Column(t)
  PROVE  GridInv'
  <1> DEFINE old == grid[Other(current[t])]
             k   == iter[t] + 1
             new == IF /\ old[x[t]] = k - 1
                       /\ {old[x[t] - 1], old[x[t] + 1]} \subseteq {k - 1, Edge}
                    THEN k ELSE Wrong
  <1>1. /\ at[t] = "helper" /\ x[t] <= ends(index[t])
        /\ grid' = [grid EXCEPT ![current[t]][x[t]] = new]
        /\ x' = [x EXCEPT ![t] = @ + 1]
        /\ UNCHANGED <<n, image, at, index, current, iter>>
    BY DEF Column
  <1>2. iter[t] \in Nat /\ new \in Int /\ x[t] \in Int
    BY DEF Wrong, SolveInv, Solving, SolveTypeOK, GridInv, GridTypeOK
  <1> HIDE DEF new, old, k
  <1>3. GridTypeOK' /\ CurrentIs'
    <2>1. x' \in [Threads -> Int]
      BY <1>1, <1>2 DEF GridInv, GridTypeOK
    <2>2. grid' \in [Grids -> [0 .. n + 2 -> Int]]
      BY <1>1, <1>2 DEF GridInv, GridTypeOK
    <2> QED
      BY <1>1, <2>1, <2>2 DEF GridInv, GridTypeOK, CurrentIs
  <1>4. ASSUME Fits PROVE GridRight'
    <2>1. GridRight /\ GridTypeOK
      BY <1>4 DEF GridInv
    <2>2. Started = Threads /\ Started' = Threads
      BY <1>1, <2>1, OthersWhileHelping DEF Started
    <2>3. /\ \A u \in Threads : index[u] \in 0 .. NUM_THREADS - 1
          /\ \A u, v \in Threads : index[u] = index[v] => u = v
      BY <2>2, AllIndices DEF SolveInv, Solving, IndicesTaken
    <2>4. x[t] \in Columns(index[t])
      BY <1>1, <1>2, <2>1 DEF GridRight, InsideItsColumns, Columns
    <2>5. /\ n \in Nat \ {0} /\ x[t] \in 1 .. n /\ x[t] - 1 \in 0 .. n + 1 /\ x[t] + 1 \in 0 .. n + 1
      <3>1. n \in Nat \ {0} /\ Columns(index[t]) \subseteq 1 .. n
        BY <1>4, <2>1, <2>3, WidthIs, SplitInside DEF GridTypeOK
      <3> QED
        BY <2>4, <3>1
    <2>6. new = k
      <3>1. old[x[t]] = iter[t]
        <4>1. old[x[t]] = Holds(Other(current[t]), Computed(t, x[t]))
          <5>1. Other(current[t]) \in Grids
            BY DEF Other, Grids
          <5> QED
            BY <2>1, <2>2, <2>4, <5>1 DEF GridRight, ColumnsHold, old
        <4>2. Computed(t, x[t]) = iter[t]
          BY <1>2 DEF Computed
        <4>3. Other(current[t]) = ArrayOf(iter[t])
          BY <1>1, CurrentOf, ArraysAlternate
        <4> QED
          BY <4>1, <4>2, <4>3 DEF Holds
      <3>2. old[x[t] - 1] \in {iter[t], Edge} /\ old[x[t] + 1] \in {iter[t], Edge}
        BY <1>1, <1>4, <2>5, ReadsPrevious DEF old
      <3>3. k - 1 = iter[t]
        BY <1>2 DEF k
      <3> QED
        BY <3>1, <3>2, <3>3 DEF new
    <2>7. current[t] \in Grids /\ current[t] = ArrayOf(k)
      BY <1>1, <2>1, CurrentOf DEF GridTypeOK, k
    <2>8. /\ grid'[current[t]][x[t]] = k
          /\ \A g \in Grids, c \in 0 .. n + 2 :
                g # current[t] \/ c # x[t] => grid'[g][c] = grid[g][c]
      BY <1>1, <2>1, <2>5, <2>6, <2>7 DEF GridTypeOK
    <2>9. x'[t] = x[t] + 1 /\ \A u \in Threads \ {t} : x'[u] = x[u]
      BY <1>1, <2>1 DEF GridTypeOK
    <2>10. \A u \in Threads : /\ startx(index[u])' = startx(index[u])
                              /\ ends(index[u])' = ends(index[u])
                              /\ Columns(index[u])' = Columns(index[u])
                              /\ startx(index[u]) \in Int /\ ends(index[u]) \in Int
      <3> TAKE u \in Threads
      <3>1. startx(index[u]) \in Int /\ ends(index[u]) \in Int
        <4>1. n \in Sizes /\ index[u] \in Int
          BY <2>1 DEF GridTypeOK, SolveInv, Solving, SolveTypeOK
        <4> QED
          BY <4>1, BoundsAreNumbers
      <3> QED
        BY <1>1, <3>1 DEF Columns, startx, ends, width, NUM_THREADS
    <2>11. InsideItsColumns'
      BY <1>1, <1>2, <2>1, <2>9, <2>10 DEF GridRight, InsideItsColumns
    <2>12. ColumnsHold'
      <3> SUFFICES ASSUME NEW u \in Threads, NEW c \in Columns(index[u]), NEW g \in Grids
                   PROVE  grid'[g][c] = Holds(g, Computed(u, c)')
        BY <2>2, <2>10 DEF ColumnsHold
      <3>1. grid[g][c] = Holds(g, Computed(u, c)) /\ c \in 1 .. n /\ c \in 0 .. n + 2
        <4>1. Columns(index[u]) \subseteq 1 .. n
          BY <1>4, <2>1, <2>3, SplitInside DEF GridTypeOK
        <4> QED
          BY <2>1, <2>2, <2>5, <4>1 DEF GridRight, ColumnsHold
      <3>2. CASE u = t /\ c = x[t]
        <4>1. Computed(u, c) = iter[t] /\ Computed(u, c)' = k
          <5>1. c < x'[t] /\ ~ (c < x[t])
            BY <1>2, <2>9, <3>2
          <5> QED
            BY <1>1, <3>2, <5>1 DEF Computed, k
        <4>2. Holds(g, k) = IF g = current[t] THEN k ELSE iter[t]
          BY <1>2, <2>7 DEF Holds, k
        <4>3. g # current[t] => Holds(g, iter[t]) = iter[t]
          <5>1. ArrayOf(iter[t]) = Other(current[t])
            BY <1>1, CurrentOf, ArraysAlternate
          <5> QED
            BY <2>7, <5>1 DEF Holds, Other, Grids
        <4> QED
          BY <2>8, <3>1, <3>2, <4>1, <4>2, <4>3
      <3>3. CASE u = t /\ c # x[t]
        <4>1. c < x'[t] <=> c < x[t]
          BY <1>2, <2>9, <3>1, <3>3
        <4>2. Computed(u, c)' = Computed(u, c)
          BY <1>1, <3>3, <4>1 DEF Computed
        <4> QED
          BY <2>8, <3>1, <3>3, <4>2
      <3>4. CASE u # t
        <4>1. c # x[t]
          <5>1. index[u] < index[t] \/ index[t] < index[u]
            BY <2>3, <3>4
          <5>2. index[u] < index[t] => c < x[t]
            BY <2>1, <2>3, <2>4, SplitInOrder DEF GridTypeOK
          <5>3. index[t] < index[u] => x[t] < c
            BY <2>1, <2>3, <2>4, SplitInOrder DEF GridTypeOK
          <5> QED
            BY <1>2, <3>1, <5>1, <5>2, <5>3
        <4>2. Computed(u, c)' = Computed(u, c)
          BY <1>1, <2>9, <3>4 DEF Computed
        <4> QED
          BY <2>8, <3>1, <4>1, <4>2
      <3> QED
        BY <3>2, <3>3, <3>4
    <2>13. EdgesAreZero'
      <3>1. 0 \in 0 .. n + 2 /\ n + 1 \in 0 .. n + 2 /\ x[t] \notin {0, n + 1}
        BY <2>5
      <3> QED
        BY <1>1, <2>1, <2>8, <3>1 DEF GridRight, EdgesAreZero
    <2>14. NothingYet' /\ image'.columns = {image'.iter}
      BY <1>1, <2>1, <2>2 DEF GridRight, NothingYet
    <2> QED
      BY <2>11, <2>12, <2>13, <2>14 DEF GridRight
  <1> QED
    BY <1>1, <1>3, <1>4, SplitIsKept DEF GridInv

-----------------------------------------------------------------------------
LEMMA StepKeepsGridInv ==
  SolveInv /\ GridInv /\ [SolveNext]_<<solver, vars>> => GridInv'
  <1> SUFFICES ASSUME SolveInv, GridInv, [SolveNext]_<<solver, vars>> PROVE GridInv'
    OBVIOUS
  <1>1. ASSUME NEW t \in Threads, SolveStep(t) PROVE GridInv'
    <2>1. CASE UNCHANGED solver
      BY <2>1, RestingKeepsGridInv
    <2>2. CASE ~ UNCHANGED solver
      BY <1>1, <2>2, TakeIndexKeepsGridInv, LocalStepKeepsGridInv, ColumnKeepsGridInv,
         AddErrorKeepsGridInv, SwapKeepsGridInv, FinalKeepsGridInv, ReturnToHelperKeepsGridInv
      DEF SolveStep, Call, InCall
    <2> QED
      BY <2>1, <2>2
  <1>2. ASSUME NEW t \in Threads, WakeUp(t) PROVE GridInv'
    BY <1>2, RestingKeepsGridInv DEF WakeUp
  <1>3. ASSUME UNCHANGED <<solver, vars>> PROVE GridInv'
    BY <1>3, ThreadsAssumption, RestingKeepsGridInv
  <1> QED
    BY <1>1, <1>2, <1>3 DEF SolveNext, Solved

LEMMA GridIsSerial == SolveInv /\ GridInv => SameAsSerial
  <1> SUFFICES ASSUME SolveInv, GridInv, Fits
               PROVE  /\ \A g \in Grids, c \in 1 .. n : grid[g][c] # Wrong
                      /\ image.columns = {image.iter}
    BY DEF SameAsSerial, Grids
  <1>1. ASSUME NEW g \in Grids, NEW c \in 1 .. n PROVE grid[g][c] # Wrong
    <2>1. CASE Started # Threads
      <3>1. grid[g][c] = 0
        BY <2>1 DEF GridInv, GridRight, NothingYet
      <3> QED
        BY <3>1 DEF Wrong
    <2>2. CASE Started = Threads
      <3>1. PICK u \in Threads : grid[g][c] = Holds(g, Computed(u, c))
        BY <2>2, OwnerOf
      <3>2. Computed(u, c) \in Nat
        BY ComputedIs DEF GridInv
      <3>3. Holds(g, Computed(u, c)) \in Nat
        BY <3>2 DEF Holds
      <3> QED
        BY <3>1, <3>3 DEF Wrong
    <2> QED
      BY <2>1, <2>2
  <1>2. image.columns = {image.iter}
    BY DEF GridInv, GridRight
  <1> QED
    BY <1>1, <1>2

(* With any number of threads and a grid that the split fits, every value is  *)
(* computed from the iterate before and every file shows one iterate, as when *)
(* one thread solves alone (poisson.c:191): nobody runs ahead of a neighbour *)
(* by more than the array that the neighbour does not read.                 *)
THEOREM ParallelIsSerial == SolveSpec => []SameAsSerial
  <1>1. SolveInit => SolveInv /\ GridInv
    BY InitSolveInv, InitGridInv
  <1>2. SolveInv /\ GridInv /\ [SolveNext]_<<solver, vars>> => (SolveInv /\ GridInv)'
    BY StepKeepsSolveInv, StepKeepsGridInv
  <1> QED
    BY <1>1, <1>2, GridIsSerial, PTL DEF SolveSpec
=============================================================================
