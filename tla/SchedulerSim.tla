----------------------------- MODULE SchedulerSim -----------------------------
(***************************************************************************)
(* Lab/Scheduler/simulator.c: main reads a list of jobs, then plays one    *)
(* time unit after the other against the scheduler of LibScheduler. A pass *)
(* of its loop is finish, quantum (RR only), arrive, run. The timing       *)
(* diagram it prints is kept as ran, the times each job ran at.            *)
(***************************************************************************)
EXTENDS LibScheduler

CONSTANTS
    Inputs,             \* the input files, as sequences of lines
    MaxCores, MaxQuantum

\* A job with a negative arrival time would never arrive, one with a negative
\* run time never end; the columns are otherwise whatever atoi makes of them.
ASSUME Parameters ==
    /\ Inputs \subseteq Seq([arrival_time : Nat, run_time : Nat, priority : Int])
    /\ MaxCores \in Nat \ {0} /\ MaxQuantum \in Nat \ {0}
    /\ NULL \notin Int                     \* it is not a job

VARIABLES
    scheme, quantum,
    jobs,           \* the first active_jobs entries of jobs[]
    jobs_alive,
    quantum_clock,
    time,
    phase,          \* where in the loop main is, or how it ended
    sched,          \* the scheduler's own variables
    ran,            \* the timing diagram
    freed           \* how often each job_t has been freed

options == <<scheme, quantum>>
vars == <<options, jobs, jobs_alive, quantum_clock, time, phase, sched, ran, freed>>

Ids == DOMAIN ran
Cores == DOMAIN quantum_clock
active_jobs == Len(jobs)

Init ==
    \E cores \in 1 .. MaxCores, file \in Inputs :
        /\ scheme \in Schemes
        /\ quantum \in IF scheme = "RR" THEN 1 .. MaxQuantum ELSE {0}
        /\ jobs = [i \in DOMAIN file |->
                     [job_id |-> i - 1, arrival_time |-> file[i].arrival_time,
                      run_time |-> file[i].run_time, priority |-> file[i].priority,
                      core_id |-> -1, arrived |-> FALSE]]
        /\ jobs_alive = 0
        /\ quantum_clock = [c \in 0 .. cores - 1 |-> -1]
        /\ time = 0 /\ phase = "finish"
        /\ sched = scheduler_start_up(cores)
        /\ ran = [n \in 0 .. Len(file) - 1 |-> {}]
        /\ freed = [n \in 0 .. Len(file) - 1 |-> 0]

-----------------------------------------------------------------------------
Indices == 1 .. active_jobs

\* Variant: the last entry is lost and entry i stays.
Without_DropsLast(i) == SubSeq(jobs, 1, active_jobs - 1)

\* The last entry takes the place of entry i.
Without(i) ==
    LET last == active_jobs
    IN  SubSeq(IF i # last THEN [jobs EXCEPT ![i] = jobs[last]] ELSE jobs, 1, last - 1)

\* The entries that set_active_job finds for the job.
ActiveEntry(id, list) ==
    {i \in DOMAIN list : list[i].job_id = id /\ list[i].arrived}

set_active_job(id, core, list) ==
    [list EXCEPT ![Min(ActiveEntry(id, list))].core_id = core]

\* main puts the job the scheduler has chosen on the core, or gives up.
Dispatch(id, core, list) ==
    IF id = -1 THEN jobs' = list /\ UNCHANGED phase
    ELSE IF ActiveEntry(id, list) # {}
         THEN jobs' = set_active_job(id, core, list) /\ UNCHANGED phase
         ELSE jobs' = list /\ phase' = "failed"

-----------------------------------------------------------------------------
(* 1. Jobs that finished in the last time unit *)

JustFinished == {i \in Indices : jobs[i].run_time = 0}

\* Variant: the next job is left with what the finished one had of its quantum.
FinishJob_OldClock ==
    /\ phase = "finish" /\ JustFinished # {}
    /\ LET i      == Min(JustFinished)
           core   == jobs[i].core_id
           result == scheduler_job_finished(sched, core, time)
       IN  /\ core \in Cores
           /\ sched' = result.state
           /\ UNCHANGED quantum_clock
           /\ Dispatch(result.returns, core, Without(i))
    /\ jobs_alive' = jobs_alive - 1
    /\ UNCHANGED <<options, time, ran, freed>>

FinishJob ==
    /\ phase = "finish" /\ JustFinished # {}
    /\ LET i      == Min(JustFinished)
           core   == jobs[i].core_id
           result == scheduler_job_finished(sched, core, time)
       IN  /\ core \in Cores
           /\ sched' = result.state
           /\ quantum_clock' = IF scheme = "RR" THEN [quantum_clock EXCEPT ![core] = quantum]
                               ELSE quantum_clock
           /\ Dispatch(result.returns, core, Without(i))
    /\ jobs_alive' = jobs_alive - 1
    /\ UNCHANGED <<options, time, ran, freed>>

\* cores[-1].job: the job has "finished" without ever having been on a core.
FinishOffCore ==
    /\ phase = "finish" /\ JustFinished # {}
    /\ jobs[Min(JustFinished)].core_id \notin Cores
    /\ phase' = "undefined"
    /\ UNCHANGED <<options, jobs, jobs_alive, quantum_clock, time, sched, ran, freed>>

FinishesDone ==
    /\ phase = "finish" /\ JustFinished = {}
    /\ phase' = IF active_jobs = 0 THEN "report"
                ELSE IF scheme = "RR" THEN "quantum" ELSE "arrive"
    /\ UNCHANGED <<options, jobs, jobs_alive, quantum_clock, time, sched, ran, freed>>

-----------------------------------------------------------------------------
(* 2. Quantums that expired in the last time unit *)

OnCore(c) == {j \in Indices : jobs[j].core_id = c}
Expired == {c \in Cores : quantum_clock[c] = 0 /\ OnCore(c) # {}}

QuantumExpires ==
    /\ phase = "quantum" /\ Expired # {}
    /\ LET core   == Min(Expired)
           result == scheduler_quantum_expired(sched, core, time)
       IN  /\ sched' = result.state
           /\ quantum_clock' = [quantum_clock EXCEPT ![core] = quantum]
           /\ Dispatch(result.returns, core,
                       [jobs EXCEPT ![Min(OnCore(core))].core_id = -1])
    /\ UNCHANGED <<options, jobs_alive, time, ran, freed>>

QuantumsDone ==
    /\ phase = "quantum" /\ Expired = {}
    /\ phase' = "arrive"
    /\ UNCHANGED <<options, jobs, jobs_alive, quantum_clock, time, sched, ran, freed>>

-----------------------------------------------------------------------------
(* 3. Jobs that arrive in this time unit *)

Arriving == {i \in Indices : jobs[i].arrival_time = time /\ ~jobs[i].arrived}

\* Variant: the preempted job is still taken to be on the core.
Assigned_KeepsOld(i, core) ==
    [jobs EXCEPT ![i].arrived = TRUE, ![i].core_id = core]

\* Whoever is on the new job's core leaves it.
Assigned(i, core) ==
    [j \in Indices |->
        [jobs[j] EXCEPT !.arrived = @ \/ j = i,
                        !.core_id = IF core = -1 THEN @ ELSE IF j = i THEN core
                                    ELSE IF @ = core THEN -1 ELSE @]]

Arrive ==
    /\ phase = "arrive" /\ Arriving # {}
    /\ LET i      == Min(Arriving)
           result == scheduler_new_job(sched, scheme, jobs[i].job_id, time,
                                       jobs[i].run_time, jobs[i].priority)
           core   == result.returns
       IN  /\ sched' = result.state
           /\ jobs' = Assigned(i, core)
           /\ quantum_clock' = IF scheme = "RR" /\ core \in Cores
                               THEN [quantum_clock EXCEPT ![core] = quantum]
                               ELSE quantum_clock
           /\ phase' = IF core \in Cores \cup {-1} THEN phase ELSE "failed"
    /\ jobs_alive' = jobs_alive + 1
    /\ UNCHANGED <<options, time, ran, freed>>

ArrivalsDone ==
    /\ phase = "arrive" /\ Arriving = {}
    /\ phase' = "run"
    /\ UNCHANGED <<options, jobs, jobs_alive, quantum_clock, time, sched, ran, freed>>

-----------------------------------------------------------------------------
(* 4. The time unit is run, and 6. the sanity checks *)

Working == {i \in Indices : jobs[i].core_id # -1}

RunUnit ==
    /\ phase = "run"
    /\ jobs' = [i \in Indices |->
                   IF i \in Working THEN [jobs[i] EXCEPT !.run_time = @ - 1] ELSE jobs[i]]
    /\ quantum_clock' = [c \in Cores |-> quantum_clock[c] - Cardinality(OnCore(c))]
    /\ ran' = [n \in Ids |-> IF \E i \in Working : jobs[i].job_id = n
                             THEN ran[n] \cup {time} ELSE ran[n]]
    /\ IF \/ \E c \in Cores : Cardinality(OnCore(c)) > 1
          \/ jobs_alive > 0 /\ Working = {}
       THEN phase' = "failed" /\ UNCHANGED time
       ELSE phase' = "finish" /\ time' = time + 1
    /\ UNCHANGED <<options, jobs_alive, sched, freed>>

-----------------------------------------------------------------------------
(* The averages are printed, then scheduler_clean_up frees what it finds. *)

scheduler_clean_up ==
    /\ phase = "report"
    /\ freed' = [n \in Ids |-> Cardinality({c \in Cores : sched.cores[c] = n})
                                 + Cardinality({k \in DOMAIN sched.pqueue : sched.pqueue[k] = n})
                                 + Cardinality({k \in DOMAIN sched.completedjobs :
                                                    sched.completedjobs[k] = n})]
    /\ phase' = "done"
    /\ UNCHANGED <<options, jobs, jobs_alive, quantum_clock, time, sched, ran>>

Next ==
    \/ FinishJob \/ FinishOffCore \/ FinishesDone
    \/ QuantumExpires \/ QuantumsDone
    \/ Arrive \/ ArrivalsDone
    \/ RunUnit \/ scheduler_clean_up

Spec == Init /\ [][Next]_vars

\* One thread, whose every step is enabled until it ends.
FairSpec == Spec /\ WF_vars(Next)
-----------------------------------------------------------------------------
(* What the program keeps true *)

OptId == Ids \cup {NULL}

\* Every variable holds what its C type and its place in the loop allow.
TypeOK ==
    /\ scheme \in Schemes /\ quantum \in 0 .. MaxQuantum
    /\ jobs \in Seq([job_id : Ids, arrival_time : Nat, run_time : Nat, priority : Int,
                     core_id : Cores \cup {-1}, arrived : BOOLEAN])
    /\ jobs_alive \in 0 .. active_jobs
    /\ quantum_clock \in [Cores -> Int]
    /\ time \in Nat
    /\ phase \in {"finish", "quantum", "arrive", "run", "report", "done", "undefined"}
    /\ sched.cores \in [Cores -> OptId]
    /\ sched.pqueue \in Seq(Ids) /\ sched.completedjobs \in Seq(Ids)
    /\ DOMAIN sched.job \subseteq Ids
    /\ ran \in [Ids -> SUBSET (0 .. time)]
    /\ freed \in [Ids -> {0, 1}]

Entry(n) == CHOOSE e \in Range(jobs) : e.job_id = n
Live == {e \in Range(jobs) : e.arrived}
Queued == Range(sched.pqueue)
OnSomeCore == Range(sched.cores) \ {NULL}

\* The simulator's core_id and the scheduler's cores are two records of the same
\* thing, kept up to date by return values alone: they never disagree. A job
\* that has arrived is on one core, in the queue once or finished, so that
\* scheduler_clean_up, which frees all three, frees each job_t exactly once.
PlacesAgree ==
    /\ TypeOK
    /\ \A e \in Range(jobs), c \in Cores : e.core_id = c <=> sched.cores[c] = e.job_id
    /\ IsInjective(sched.pqueue) /\ IsInjective(sched.completedjobs)
    /\ {e.job_id : e \in Live} = Queued \cup OnSomeCore
    /\ Queued \cap OnSomeCore = {}
    /\ Range(sched.completedjobs) = Ids \ {e.job_id : e \in Range(jobs)}
    /\ phase = "done" => freed = [n \in Ids |-> 1]

Before(a, b) == a[1] < b[1] \/ (a[1] = b[1] /\ a[2] <= b[2])

\* When a job last stopped running, or arrived.
WaitingSince(n) == IF ran[n] = {} THEN Entry(n).arrival_time ELSE Max(ran[n]) + 1

\* What the README orders a waiting job by, in the simulator's own terms.
Rank(n) ==
    LET e == Entry(n)
    IN  CASE scheme = "FCFS" -> <<e.arrival_time, 0>>
          [] scheme = "PRI"  -> <<e.priority, e.arrival_time>>
          [] scheme = "PSJF" -> <<e.run_time, e.arrival_time>>
          [] scheme = "RR"   -> <<WaitingSince(n), 0>>

\* The queue is in the order the scheme asks for, by the time each job really
\* has left and not by the scheduler's own remaining_time: a preempted job is
\* charged for what it ran before it is put back. Ties go to the earlier arrival
\* (README), and RR keeps the jobs in the order they began to wait.
QueueInOrder ==
    \A i, k \in DOMAIN sched.pqueue :
        i < k => Before(Rank(sched.pqueue[i]), Rank(sched.pqueue[k]))

\* When a time unit is run, no core idles while a job waits; under PSJF no job
\* waits that has less left to do than one that runs.
BestJobsRun ==
    phase = "run" /\ sched.pqueue # << >> =>
        /\ NULL \notin Range(sched.cores)
        /\ scheme = "PSJF" =>
              \A r \in OnSomeCore, w \in Queued : Before(Rank(r), Rank(w))

CeilDiv(a, b) == (a + b - 1) \div b

\* Under RR a job waits for no more than a quantum each of the jobs that can be
\* ahead of it, shared by the cores.
RoundRobinBound ==
    scheme = "RR" /\ phase = "run" =>
        \A n \in Queued :
            time - WaitingSince(n)
                < quantum * CeilDiv(Cardinality(Ids \ OnSomeCore), Cardinality(Cores))

Statistics(n) ==
    LET j == sched.job[n]
    IN  /\ Cardinality(ran[n]) = j.running_time
        /\ j.response_time = Min(ran[n]) - j.arrival_time
        /\ j.turnaround_time = Max(ran[n]) + 1 - j.arrival_time
        /\ j.waiting_time = Cardinality((j.arrival_time .. Max(ran[n])) \ ran[n])

\* The statistics of a finished job are those of the timing diagram: it ran for
\* its running time, it responded when it first ran a unit (not when it was put
\* on a core and preempted in the same unit: README, "you should not consider
\* job as responded until it runs a CPU cycle"), and it waited in every other
\* unit. The three averages are taken over every job of the file.
StatsTrue ==
    /\ \A n \in Range(sched.completedjobs) : Statistics(n)
    /\ phase = "report" =>
          /\ job_count(sched) = Cardinality(Ids)
          /\ total_turnaround(sched) =
                total_waiting(sched)
                    + Cardinality({box \in Ids \X (0 .. time) : box[2] \in ran[box[1]]})
          /\ total_response(sched) <= total_waiting(sched)

\* A job the input gives no time to run is notified as finished before it has
\* arrived, on core -1; without one the program never stops on a sanity check
\* (exit 3, assert) and ends.
AlwaysFinishes == (\A e \in Range(jobs) : e.run_time > 0) => <>(phase = "done")
=============================================================================
