--------------------------- MODULE AbstractBarrier ---------------------------
(***************************************************************************)
(* What a reusable barrier promises its callers, whatever it is made of:   *)
(* nobody leaves use k of the barrier before everybody has entered use k.  *)
(* Only the calls and the returns of each thread are visible.              *)
(***************************************************************************)
EXTENDS Integers

CONSTANTS Threads,  \* the callers
          Rounds    \* how many times each of them uses the barrier

VARIABLES arrived,  \* arrived[t]: calls of barrier_wait that t has entered
          passed    \* passed[t]: calls of barrier_wait that have returned to t

vars == <<arrived, passed>>

Init ==
    /\ arrived = [t \in Threads |-> 0]
    /\ passed  = [t \in Threads |-> 0]

Arrive(t) ==
    /\ arrived[t] = passed[t]
    /\ arrived[t] < Rounds
    /\ arrived' = [arrived EXCEPT ![t] = @ + 1]
    /\ UNCHANGED passed

Leave(t) ==
    /\ passed[t] < arrived[t]
    /\ \A u \in Threads : arrived[t] <= arrived[u]
    /\ passed' = [passed EXCEPT ![t] = @ + 1]
    /\ UNCHANGED arrived

Next == \E t \in Threads : Arrive(t) \/ Leave(t)

Spec == Init /\ [][Next]_vars
=============================================================================
