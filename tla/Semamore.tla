------------------------------- MODULE Semamore -------------------------------
(***************************************************************************)
(* The top-bounded semaphore of Lab/Terrible_Threads/semamore.c, with the  *)
(* threads that wait on it and those that post to it. Both calls hold m    *)
(* except while they sleep on the one cv, so an action is a stretch of a   *)
(* call that ends with m given up.                                         *)
(***************************************************************************)
EXTENDS Integers, FiniteSets

CONSTANTS Waiters, Posters,    \* who calls semm_wait, who calls semm_post
          value0, max_val      \* the arguments of semm_init

Threads == Waiters \cup Posters

\* What the theorems assume of the parameters.
Parameters ==
    /\ IsFiniteSet(Threads) /\ Waiters \cap Posters = {}
    /\ max_val \in Nat /\ value0 \in 0 .. max_val

VARIABLES value,    \* s->value
          asleep,   \* the threads blocked on cv
          inside    \* the threads in the middle of a call: blocked, or awake
                    \* and about to have m again

vars == <<value, asleep, inside>>

\* v, a and i are the three fields, now or in the next state.
semm_init(v, a, i) == v = value0 /\ a = {} /\ i = {}

-----------------------------------------------------------------------------
Sleep(t) ==
    /\ t \notin inside
    /\ asleep' = asleep \cup {t}
    /\ inside' = inside \cup {t}
    /\ UNCHANGED value

\* Variant: the change is made and nobody is told.
Finish_Silently(t, open, d) ==
    /\ t \notin asleep
    /\ t \in inside \/ open
    /\ value'  = value + d
    /\ inside' = inside \ {t}
    /\ UNCHANGED asleep

\* The call changes the value by d, wakes everybody and returns. It gets here
\* without sleeping if `open`, or whenever it wakes: the `if` looks only once.
Finish(t, open, d) ==
    /\ t \notin asleep
    /\ t \in inside \/ open
    /\ value'  = value + d
    /\ asleep' = {}
    /\ inside' = inside \ {t}

\* Variant: a wait goes through at zero.
WaitReturns_AtZero(t) == Finish(t, value >= 0, -1)

WaitBlocks(t)  == value <= 0 /\ Sleep(t)
WaitReturns(t) == Finish(t, value > 0, -1)

PostBlocks(t)  == value >= max_val /\ Sleep(t)
PostReturns(t) == Finish(t, value < max_val, 1)

SpuriousWakeup(t) ==
    /\ t \in asleep
    /\ asleep' = asleep \ {t}
    /\ UNCHANGED <<value, inside>>

semm_wait(t) == WaitBlocks(t) \/ WaitReturns(t)
semm_post(t) == PostBlocks(t) \/ PostReturns(t)

Init == semm_init(value, asleep, inside)

\* Every caller calls again and again, and nothing wakes it but a broadcast.
Next ==
    \/ \E t \in Waiters : semm_wait(t)
    \/ \E t \in Posters : semm_post(t)

Fairness ==
    /\ \A t \in Waiters : WF_vars(semm_wait(t))
    /\ \A t \in Posters : WF_vars(semm_post(t))

Spec == Init /\ [][Next]_vars
FairSpec == Spec /\ Fairness

-----------------------------------------------------------------------------
TypeOK ==
    /\ value \in Int
    /\ inside \subseteq Threads
    /\ asleep \subseteq inside

\* What semamore.c:13 and :25 say: a wait blocks at 0, a post at max_val.
InBounds == value \in 0 .. max_val

\* With one caller on each side it does: whoever is inside awake was woken by
\* the other side's change, and only it can undo that change.
OnePair == Cardinality(Waiters) <= 1 /\ Cardinality(Posters) <= 1
OnePairInBounds == OnePair => InBounds

\* The inductive invariant of the proof: a caller that is asleep sleeps at its
\* bound, and one that is awake in its call may take its step.
CallersJustified ==
    \A t \in inside :
        /\ t \in Waiters => IF t \in asleep THEN value = 0 ELSE value > 0
        /\ t \in Posters => IF t \in asleep THEN value = max_val ELSE value < max_val
IInv == TypeOK /\ (OnePair => InBounds /\ CallersJustified)
=============================================================================
