----------------------------- MODULE BarrierTest -----------------------------
(***************************************************************************)
(* Lab/Broken_Barriers/barrier_test.c: the threads and the main of         *)
(* semamoreTest.c, with a barrier for two in place of each semamore, which *)
(* both threads wait at: one after it has printed, one before it prints.   *)
(* program says which of the two runs.                                     *)
(***************************************************************************)
EXTENDS SemamoreTest

VARIABLES
    program,       \* "semamore" or "barrier"
    count1, times1, sleeping1, pc1, snapshot1, arrived1, passed1, trips1,
    count2, times2, sleeping2, pc2, snapshot2, arrived2, passed2, trips2

bar1 == <<count1, times1, sleeping1, pc1, snapshot1, arrived1, passed1, trips1>>
bar2 == <<count2, times2, sleeping2, pc2, snapshot2, arrived2, passed2, trips2>>
bars == <<bar1, bar2>>
testVars == <<vars, program, bars>>

\* The two threads that obj->barrier1, obj->barrier2 is made for.
Callers1 == {1, 2}
Callers2 == {2, 3}

barrier1 == INSTANCE Barrier
    WITH Threads <- Callers1, Rounds <- 1, UINT_MAX <- 1, count <- count1,
         times_used <- times1, asleep <- sleeping1, pc <- pc1, snapshot <- snapshot1,
         arrived <- arrived1, passed <- passed1, trips <- trips1

barrier2 == INSTANCE Barrier
    WITH Threads <- Callers2, Rounds <- 1, UINT_MAX <- 1, count <- count2,
         times_used <- times2, asleep <- sleeping2, pc <- pc2, snapshot <- snapshot2,
         arrived <- arrived2, passed <- passed2, trips <- trips2

TestInit ==
    /\ Init
    /\ program \in {"semamore", "barrier"}
    /\ program = "barrier" => quiet      \* of semamores, which it has none of
    /\ barrier1!Init /\ barrier2!Init

-----------------------------------------------------------------------------
\* A step of barrier_wait, at a place from which thread t calls it. A call
\* that returns adds to passed1 or passed2.
BarrierCall(t) ==
    /\ \/ <<t, at[t]>> \in {<<1, "post">>, <<2, "wait">>} /\ barrier1!Step(t) /\ UNCHANGED bar2
       \/ <<t, at[t]>> \in {<<2, "post">>, <<3, "wait">>} /\ barrier2!Step(t) /\ UNCHANGED bar1
    /\ IF <<passed1, passed2>>' = <<passed1, passed2>> THEN UNCHANGED at
       ELSE Goto(t, IF at[t] = "wait" THEN "print" ELSE "done")
    /\ UNCHANGED <<loop, buffer, race, quiet, sems, program>>

BarrierWakeup ==
    /\ program = "barrier"
    /\ \/ \E t \in Callers1 : barrier1!SpuriousWakeup(t) /\ UNCHANGED bar2
       \/ \E t \in Callers2 : barrier2!SpuriousWakeup(t) /\ UNCHANGED bar1
    /\ UNCHANGED <<vars, program>>

\* Two fresh barriers for each Foo: the fields of one, as in barrier_init, and
\* the threads that are to call it.
NewBarrier(callers, count, times, sleeping, pc, snapshot, arrived, passed, trips) ==
    /\ count = 0 /\ times = 0 /\ sleeping = {} /\ trips = 0
    /\ pc = [t \in callers |-> "out"]
    /\ snapshot = [t \in callers |-> 0]
    /\ arrived = snapshot /\ passed = snapshot

create ==
    /\ NewBarrier(Callers1, count1', times1', sleeping1', pc1', snapshot1', arrived1', passed1', trips1')
    /\ NewBarrier(Callers2, count2', times2', sleeping2', pc2', snapshot2', arrived2', passed2', trips2')

MainTurn ==
    \/ program = "semamore" /\ MainStep /\ UNCHANGED <<program, bars>>
    \/ /\ program = "barrier"
       /\ \/ (CreateThread \/ JoinThread \/ AssertFails) /\ UNCHANGED <<program, bars>>
          \/ NextOrder /\ UNCHANGED program
             /\ IF main' = "create" THEN create ELSE UNCHANGED bars

ThreadTurn(t) ==
    \/ program = "semamore" /\ Step(t) /\ UNCHANGED <<program, bars>>
    \/ program = "barrier" /\ (PrintBegins(t) \/ PrintEnds(t)) /\ UNCHANGED <<program, bars>>
    \/ program = "barrier" /\ BarrierCall(t)

TestNext ==
    \/ MainTurn
    \/ \E t \in Threads : ThreadTurn(t)
    \/ BarrierWakeup
    \/ program = "semamore" /\ SpuriousWakeup /\ UNCHANGED <<program, bars>>
    \/ Finished /\ UNCHANGED <<program, bars>>

TestFairness == WF_testVars(MainTurn) /\ \A t \in Threads : WF_testVars(ThreadTurn(t))

TestFairSpec == TestInit /\ [][TestNext]_testVars /\ TestFairness

-----------------------------------------------------------------------------
\* The threads of both programs are never in sprintf on the one buffer at the
\* same time and main's assert holds, whatever the order they are started in
\* (semamoreTest.c:114, barrier_test.c:112): with semamores if pthread_cond_wait
\* only returns when told to, with barriers always.
PrintsInOrder == quiet => ~race /\ main # "aborted"

\* All six orders are tried and main ends: nobody sleeps through a post, nor
\* through the opening of a barrier that its caller then abandons.
AllOrdersPass == quiet => <>(main = "end" /\ cnt = 6)
=============================================================================
