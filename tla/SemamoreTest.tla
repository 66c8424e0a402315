---------------------------- MODULE SemamoreTest ----------------------------
(***************************************************************************)
(* Lab/Terrible_Threads/semamoreTest.c: three threads that must print      *)
(* First, Second, Third whatever the order they are started in, with two   *)
(* semamores between them. main tries the six orders one after the other.  *)
(* BarrierTest puts the steps together, and its own program beside them.   *)
(***************************************************************************)
EXTENDS Algorithm

VARIABLES
    seq,       \* the order in which main starts the threads
    main,      \* "create", "join", "check", "end" or "aborted"
    k,         \* main's loop index
    cnt,       \* how many orders it has begun
    at,        \* where each thread is
    buffer,    \* obj->buffer, as the names printed
    race,      \* two threads have used buffer and len at the same time
    quiet,     \* no spurious wakeups in this run
    value1, asleep1, inside1,   \* obj->firstJobDone
    value2, asleep2, inside2    \* obj->secondJobDone

sem1 == <<value1, asleep1, inside1>>
sem2 == <<value2, asleep2, inside2>>
sems == <<sem1, sem2>>
loop == <<seq, main, k, cnt>>
vars == <<loop, at, buffer, race, quiet, sems>>

Threads == 1 .. 3       \* first, second and third

firstJobDone == INSTANCE Semamore
    WITH Waiters <- {2}, Posters <- {1}, value0 <- 0, max_val <- 4,
         value <- value1, asleep <- asleep1, inside <- inside1

secondJobDone == INSTANCE Semamore
    WITH Waiters <- {3}, Posters <- {2}, value0 <- 0, max_val <- 4,
         value <- value2, asleep <- asleep2, inside <- inside2

Init ==
    /\ seq = <<1, 2, 3>>
    /\ main = "create" /\ k = 1 /\ cnt = 1
    /\ at = [t \in Threads |-> "none"]
    /\ buffer = << >> /\ race = FALSE
    /\ quiet \in BOOLEAN
    /\ firstJobDone!semm_init(value1, asleep1, inside1)
    /\ secondJobDone!semm_init(value2, asleep2, inside2)

-----------------------------------------------------------------------------
(* The threads. A thread that waits does so first, one that posts last.    *)

Goto(t, place) == at' = [at EXCEPT ![t] = place]

WaitCall(t) ==
    /\ at[t] = "wait"
    /\ \/ t = 2 /\ firstJobDone!WaitBlocks(2) /\ UNCHANGED <<at, sem2>>
       \/ t = 2 /\ firstJobDone!WaitReturns(2) /\ Goto(2, "print") /\ UNCHANGED sem2
       \/ t = 3 /\ secondJobDone!WaitBlocks(3) /\ UNCHANGED <<at, sem1>>
       \/ t = 3 /\ secondJobDone!WaitReturns(3) /\ Goto(3, "print") /\ UNCHANGED sem1
    /\ UNCHANGED <<loop, buffer, race, quiet>>

\* sprintf at buffer + len, then len grows: two prints at a time are a race.
PrintBegins(t) ==
    /\ at[t] = "print"
    /\ race' = (race \/ \E u \in Threads : at[u] = "printing")
    /\ Goto(t, "printing")
    /\ UNCHANGED <<loop, buffer, quiet, sems>>

PrintEnds(t) ==
    /\ at[t] = "printing"
    /\ buffer' = Append(buffer, t)
    /\ Goto(t, IF t = 3 THEN "done" ELSE "post")
    /\ UNCHANGED <<loop, race, quiet, sems>>

PostCall(t) ==
    /\ at[t] = "post"
    /\ \/ t = 1 /\ firstJobDone!PostReturns(1) /\ Goto(1, "done") /\ UNCHANGED sem2
       \/ t = 2 /\ secondJobDone!PostReturns(2) /\ Goto(2, "done") /\ UNCHANGED sem1
    /\ UNCHANGED <<loop, buffer, race, quiet>>

SpuriousWakeup ==
    /\ ~quiet
    /\ \/ firstJobDone!SpuriousWakeup(2) /\ UNCHANGED sem2
       \/ secondJobDone!SpuriousWakeup(3) /\ UNCHANGED sem1
    /\ UNCHANGED <<loop, at, buffer, race, quiet>>

Step(t) == WaitCall(t) \/ PrintBegins(t) \/ PrintEnds(t) \/ PostCall(t)

-----------------------------------------------------------------------------
(* main: one pass of its do-while per order *)

CreateThread ==
    /\ main = "create"
    /\ Goto(seq[k], IF seq[k] = 1 THEN "print" ELSE "wait")
    /\ IF k < 3 THEN k' = k + 1 /\ UNCHANGED main ELSE k' = 1 /\ main' = "join"
    /\ UNCHANGED <<seq, cnt, buffer, race, quiet, sems>>

JoinThread ==
    /\ main = "join"
    /\ at[seq[k]] = "done"
    /\ IF k < 3 THEN k' = k + 1 /\ UNCHANGED main ELSE k' = 1 /\ main' = "check"
    /\ UNCHANGED <<seq, cnt, at, buffer, race, quiet, sems>>

AssertFails ==
    /\ main = "check" /\ buffer # <<1, 2, 3>>
    /\ main' = "aborted"
    /\ UNCHANGED <<seq, k, cnt, at, buffer, race, quiet, sems>>

\* Past the assert: the Foo is destroyed and, if there is an order left, the
\* next one created.
NextOrder ==
    /\ main = "check" /\ buffer = <<1, 2, 3>>
    /\ seq' = next_permutation(seq)
    /\ IF has_next(seq) THEN /\ main' = "create" /\ cnt' = cnt + 1
                             /\ buffer' = << >>
                             /\ at' = [t \in Threads |-> "none"]
                             /\ firstJobDone!semm_init(value1', asleep1', inside1')
                             /\ secondJobDone!semm_init(value2', asleep2', inside2')
                        ELSE /\ main' = "end"
                             /\ UNCHANGED <<cnt, buffer, at, sems>>
    /\ UNCHANGED <<k, race, quiet>>

MainStep == CreateThread \/ JoinThread \/ AssertFails \/ NextOrder

Finished == main \in {"end", "aborted"} /\ UNCHANGED vars

-----------------------------------------------------------------------------
TypeOK ==
    /\ {seq[j] : j \in 1 .. 3} = Threads
    /\ main \in {"create", "join", "check", "end", "aborted"} /\ k \in 1 .. 3
    /\ cnt \in 1 .. 6
    /\ at \in [Threads -> {"none", "wait", "print", "printing", "post", "done"}]
    /\ buffer \in BoundedSeq(Threads, 3)
    /\ firstJobDone!TypeOK /\ secondJobDone!TypeOK

\* Each of the two semamores has one waiter and one poster, and so stays
\* within the bounds its comments promise (semamore.c:13 and :25).
BothInBounds ==
    /\ TypeOK
    /\ quiet => firstJobDone!OnePairInBounds /\ secondJobDone!OnePairInBounds
=============================================================================
