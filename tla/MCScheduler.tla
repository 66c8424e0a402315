------------------------------ MODULE MCScheduler ------------------------------
(* Three jobs that arrive in any order or together and run for any short time,  *)
(* 0 included; three jobs one after the other with any priorities; four jobs    *)
(* one after the other, so that on one core a job goes between two that wait.   *)
EXTENDS SchedulerSim

Files(n, arrivals, runs, ranks) ==
    {[i \in 1 .. n |-> [arrival_time |-> a[i], run_time |-> r[i], priority |-> p[i]]] :
        a \in arrivals, r \in [1 .. n -> runs], p \in [1 .. n -> ranks]}

InputFiles ==
    Files(3, [1 .. 3 -> 0 .. 2], 0 .. 3, {1})
    \cup Files(3, {<<0, 1, 2>>, <<1, 2, 0>>}, {1, 2}, {-1, 2, 3})
    \cup Files(4, {<<0, 1, 2, 3>>}, {2, 3, 4}, {1})
    \cup Files(4, {<<0, 1, 2, 3>>}, {4}, {1, 2, 3})
================================================================================
