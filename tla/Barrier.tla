------------------------------- MODULE Barrier -------------------------------
(***************************************************************************)
(* The reusable barrier of Lab/Broken_Barriers/barrier.c and the threads   *)
(* that call barrier_wait on it, each of them Rounds times.                *)
(*                                                                         *)
(* barrier_wait holds mtx except while it sleeps in pthread_cond_wait, so  *)
(* an action is a stretch of it from one acquisition of mtx to the release *)
(* that follows: nobody else sees a state in between.                      *)
(***************************************************************************)
EXTENDS Integers, FiniteSets

CONSTANTS Threads,   \* the callers; the barrier is made for all of them
          Rounds,    \* how many times each of them calls barrier_wait
          UINT_MAX   \* the largest value of the unsigned times_used

ASSUME ThreadsAssumption == IsFiniteSet(Threads) /\ Threads # {}
ASSUME RoundsAssumption  == Rounds \in Nat
ASSUME UintAssumption    == UINT_MAX \in Nat \ {0}

VARIABLES
    count,       \* barrier->count
    times_used,  \* barrier->times_used, wraps at UINT_MAX
    asleep,      \* the threads blocked on barrier->cv
    pc,          \* where each thread is, see PCs
    snapshot,    \* the local new_n_threads: times_used when the call began
    arrived,     \* history: calls entered by each thread
    passed,      \* history: calls returned to each thread
    trips        \* history: how often the barrier has opened

shared == <<count, times_used>>
vars == <<count, times_used, asleep, pc, snapshot, arrived, passed, trips>>

\* "out": not in a call; "in": in the wait loop (asleep, or awake and about to
\* have mtx again); "done": past the loop and mtx unlocked, about to return.
PCs == {"out", "in", "done"}

\* Variant: the barrier is made for one caller too few.
n_threads_OneShort == Cardinality(Threads) - 1

n_threads == Cardinality(Threads)

Increment(n) == IF n = UINT_MAX THEN 0 ELSE n + 1

barrier_init ==
    /\ count = 0
    /\ times_used = 0
    /\ asleep = {}

Init ==
    /\ barrier_init
    /\ pc       = [t \in Threads |-> "out"]
    /\ snapshot = [t \in Threads |-> 0]
    /\ arrived  = [t \in Threads |-> 0]
    /\ passed   = [t \in Threads |-> 0]
    /\ trips    = 0

-----------------------------------------------------------------------------
(* A call of barrier_wait from its lock to its unlock or first sleep.      *)

Enter(t) ==
    /\ pc[t] = "out"
    /\ arrived[t] < Rounds
    /\ snapshot' = [snapshot EXCEPT ![t] = times_used]
    /\ arrived'  = [arrived EXCEPT ![t] = @ + 1]

\* Not the last to arrive: the loop's condition holds at once, so it sleeps.
ArriveAndSleep(t) ==
    /\ Enter(t)
    /\ count + 1 # n_threads
    /\ count'  = count + 1
    /\ asleep' = asleep \cup {t}
    /\ pc'     = [pc EXCEPT ![t] = "in"]
    /\ UNCHANGED <<times_used, passed, trips>>

\* Variant: count keeps its value when the barrier opens.
ArriveLast_NoReset(t) ==
    /\ Enter(t)
    /\ count + 1 = n_threads
    /\ times_used' = Increment(times_used)
    /\ count'  = count + 1
    /\ asleep' = {}
    /\ pc'     = [pc EXCEPT ![t] = "done"]
    /\ trips'  = trips + 1
    /\ UNCHANGED passed

\* Variant: pthread_cond_signal instead of pthread_cond_broadcast.
ArriveLast_Signal(t) ==
    /\ Enter(t)
    /\ count + 1 = n_threads
    /\ times_used' = Increment(times_used)
    /\ count'  = 0
    /\ \/ asleep = {} /\ UNCHANGED asleep
       \/ \E u \in asleep : asleep' = asleep \ {u}
    /\ pc'     = [pc EXCEPT ![t] = "done"]
    /\ trips'  = trips + 1
    /\ UNCHANGED passed

\* The last to arrive opens the barrier for everybody and does not sleep.
ArriveLast(t) ==
    /\ Enter(t)
    /\ count + 1 = n_threads
    /\ times_used' = Increment(times_used)
    /\ count'  = 0
    /\ asleep' = {}
    /\ pc'     = [pc EXCEPT ![t] = "done"]
    /\ trips'  = trips + 1
    /\ UNCHANGED passed

\* pthread_cond_wait may return without a broadcast.
SpuriousWakeup(t) ==
    /\ t \in asleep
    /\ asleep' = asleep \ {t}
    /\ UNCHANGED <<shared, pc, snapshot, arrived, passed, trips>>

\* Awake with mtx held again: the loop tests its condition once more.
SleepAgain(t) ==
    /\ pc[t] = "in" /\ t \notin asleep
    /\ times_used = snapshot[t]
    /\ asleep' = asleep \cup {t}
    /\ UNCHANGED <<shared, pc, snapshot, arrived, passed, trips>>

\* Variant: `if` in place of `while`, so a wakeup is taken as the opening.
LeaveLoop_NoRecheck(t) ==
    /\ pc[t] = "in" /\ t \notin asleep
    /\ pc' = [pc EXCEPT ![t] = "done"]
    /\ UNCHANGED <<shared, asleep, snapshot, arrived, passed, trips>>

LeaveLoop(t) ==
    /\ pc[t] = "in" /\ t \notin asleep
    /\ times_used # snapshot[t]
    /\ pc' = [pc EXCEPT ![t] = "done"]
    /\ UNCHANGED <<shared, asleep, snapshot, arrived, passed, trips>>

Return(t) ==
    /\ pc[t] = "done"
    /\ pc'     = [pc EXCEPT ![t] = "out"]
    /\ passed' = [passed EXCEPT ![t] = @ + 1]
    /\ UNCHANGED <<shared, asleep, snapshot, arrived, trips>>

Step(t) ==
    \/ ArriveAndSleep(t)
    \/ ArriveLast(t)
    \/ SleepAgain(t)
    \/ LeaveLoop(t)
    \/ Return(t)

Terminated == \A t \in Threads : passed[t] = Rounds

Next ==
    \/ \E t \in Threads : Step(t) \/ SpuriousWakeup(t)
    \/ Terminated /\ UNCHANGED vars

Spec == Init /\ [][Next]_vars

-----------------------------------------------------------------------------
TypeOK ==
    /\ count \in 0 .. n_threads - 1
    /\ times_used \in 0 .. UINT_MAX
    /\ asleep \subseteq Threads
    /\ pc \in [Threads -> PCs]
    /\ snapshot \in [Threads -> 0 .. UINT_MAX]
    /\ arrived \in [Threads -> Nat]
    /\ passed \in [Threads -> Nat]
    /\ trips \in Nat

\* The current use of the barrier, numbered from 1, and who has entered it.
ArrivedNow == {t \in Threads : arrived[t] = trips + 1}

\* A thread is in its call for the use that just opened, or for the current
\* one, never further behind or ahead; and the code's own count agrees with it.
RoundsInStep ==
    /\ \A t \in Threads :
          /\ arrived[t] \in {trips, trips + 1}
          /\ passed[t] = arrived[t] - (IF pc[t] = "out" THEN 0 ELSE 1)
          /\ arrived[t] = trips + 1 => pc[t] = "in"
    /\ count = Cardinality(ArrivedNow)

\* The snapshot tells the current use from the one before it even when
\* times_used has wrapped in between: a sleeper is never lapped (barrier.c:37).
NeverLapped ==
    \A t \in Threads : pc[t] = "in" =>
        IF arrived[t] = trips + 1 THEN snapshot[t] = times_used
        ELSE /\ Increment(snapshot[t]) = times_used
             /\ snapshot[t] # times_used

\* No thread sleeps through the opening it waits for: whoever is blocked on cv
\* waits for the current use, so the broadcast of barrier.c:34 is still to come.
NoLostWakeup == \A t \in asleep : pc[t] = "in" /\ arrived[t] = trips + 1

\* The inductive invariant of the proofs.
IInv == TypeOK /\ RoundsInStep /\ NeverLapped /\ NoLostWakeup

\* No call returns before every thread has entered the same use.
NoEarlyReturn == \A t, u \in Threads : passed[t] <= arrived[u]

\* The barrier implements what AbstractBarrier promises, step by step.
Promise == INSTANCE AbstractBarrier
ImplementsPromise == Promise!Spec
=============================================================================
