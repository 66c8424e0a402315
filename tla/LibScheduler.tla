----------------------------- MODULE LibScheduler -----------------------------
(***************************************************************************)
(* The scheduler of Lab/Scheduler/libscheduler.c. Its file-scope variables *)
(* are a record s, and each of its functions is an operator from s and the *)
(* arguments to the s it leaves behind and the number it returns:          *)
(*     s.cores[i]       cores[i].job, a job number or NULL                 *)
(*     s.pqueue         the jobs that wait for a core                      *)
(*     s.completedjobs  the jobs that have finished                        *)
(*     s.job[n]         the job_t of job n, for every job that has arrived *)
(***************************************************************************)
EXTENDS Priqueue, Functions

CONSTANT NULL

Schemes == {"FCFS", "PRI", "RR", "PSJF"}

\* The comparers, on two job_t.
comparer(scheme, a, b) ==
    LET by_arrival == a.arrival_time - b.arrival_time
    IN  CASE scheme = "FCFS" -> by_arrival
          [] scheme = "PRI"  -> IF a.priority # b.priority THEN a.priority - b.priority
                                ELSE by_arrival
          [] scheme = "PSJF" -> IF a.remaining_time # b.remaining_time
                                THEN a.remaining_time - b.remaining_time
                                ELSE by_arrival
          [] scheme = "RR"   -> 1

Offer(scheme, q, n, job) ==
    priqueue_offer(q, n, [p \in (DOMAIN job) \X (DOMAIN job) |->
                              comparer(scheme, job[p[1]], job[p[2]])])

scheduler_start_up(corenum) ==
    [cores |-> [i \in 0 .. corenum - 1 |-> NULL], pqueue |-> priqueue_init,
     completedjobs |-> priqueue_init, job |-> << >>]

\* Variant: the time a job has run is not taken off what remains.
Aged_Never(s, time) == s.job

\* Every running job is charged for the time since it was last looked at.
Aged(s, time) ==
    [n \in DOMAIN s.job |->
        IF n \in Range(s.cores)
        THEN [s.job[n] EXCEPT !.remaining_time = @ - (time - s.job[n].last_runtime),
                              !.last_runtime = time]
        ELSE s.job[n]]

Start(j, time) == [j EXCEPT !.first_runtime = time, !.last_runtime = time]

\* Preempted: it has not run yet if it was only put on the core at this time.
Preempt(j, time) ==
    [j EXCEPT !.first_runtime = IF @ = time THEN -1 ELSE @,
              !.last_runtime  = IF @ = time THEN -1 ELSE @]

\* The cores whose job the new one may preempt, the worst of them first met.
WorstCores(s, job, new) ==
    LET worse == {i \in DOMAIN s.cores : comparer("PSJF", new, job[s.cores[i]]) < 0}
    IN  {i \in worse : \A k \in worse :
            comparer("PSJF", job[s.cores[k]], job[s.cores[i]]) <= 0}

scheduler_new_job(s, scheme, n, time, running_time, priority) ==
    LET aged == Aged(s, time)
        new  == [arrival_time |-> time, first_runtime |-> -1, last_runtime |-> -1,
                 running_time |-> running_time, remaining_time |-> running_time,
                 priority |-> priority,
                 waiting_time |-> 0, turnaround_time |-> 0, response_time |-> 0]
        waits == [x \in DOMAIN aged \cup {n} |-> IF x = n THEN new ELSE aged[x]]
        runs  == [waits EXCEPT ![n] = Start(@, time)]
        idle  == {i \in DOMAIN s.cores : s.cores[i] = NULL}
        worst == IF scheme = "PSJF" /\ idle = {} THEN WorstCores(s, waits, new) ELSE {}
    IN  IF idle # {} THEN
            [state |-> [s EXCEPT !.cores[Min(idle)] = n, !.job = runs],
             returns |-> Min(idle)]
        ELSE IF worst # {} THEN
            LET w    == s.cores[Min(worst)]
                jobs == [runs EXCEPT ![w] = Preempt(@, time)]
            IN  [state |-> [s EXCEPT !.cores[Min(worst)] = n, !.job = jobs,
                                     !.pqueue = Offer(scheme, @, w, jobs)],
                 returns |-> Min(worst)]
        ELSE
            [state |-> [s EXCEPT !.job = waits, !.pqueue = Offer(scheme, @, n, waits)],
             returns |-> -1]

\* Variant: a job that resumes is taken to run for the first time.
NextOnCore_FirstAgain(s, core, time) ==
    LET n == priqueue_peek(s.pqueue, NULL)
    IN  [state |-> [s EXCEPT !.cores[core] = n,
                             !.pqueue = priqueue_rest(@),
                             !.job = IF n = NULL THEN @
                                     ELSE [s.job EXCEPT ![n] = Start(s.job[n], time)]],
         returns |-> IF n = NULL THEN -1 ELSE n]

\* The core takes the head of the queue, if there is one.
NextOnCore(s, core, time) ==
    LET n == priqueue_peek(s.pqueue, NULL)
        resume(j) == [j EXCEPT !.first_runtime = IF @ = -1 THEN time ELSE @,
                               !.last_runtime = time]
    IN  [state |-> [s EXCEPT !.cores[core] = n,
                             !.pqueue = priqueue_rest(@),
                             !.job = IF n = NULL THEN @
                                     ELSE [s.job EXCEPT ![n] = resume(s.job[n])]],
         returns |-> IF n = NULL THEN -1 ELSE n]

scheduler_job_finished(s, core, time) ==
    LET n == s.cores[core]
        j == s.job[n]
        finished == [j EXCEPT
            !.response_time   = j.first_runtime - j.arrival_time,
            !.turnaround_time = time - j.arrival_time,
            !.waiting_time    = time - j.arrival_time - j.running_time]
    IN  NextOnCore([s EXCEPT !.job[n] = finished,
                             !.completedjobs = Append(@, n)], core, time)

scheduler_quantum_expired(s, core, time) ==
    NextOnCore([s EXCEPT !.pqueue = Offer("RR", @, s.cores[core], s.job)], core, time)

\* The three averages, before the division by job_count: the loop's total, by
\* how many of the finished jobs it has passed.
Totals(s, measure) ==
    LET total[k \in 0 .. Len(s.completedjobs)] ==
            IF k = 0 THEN 0 ELSE total[k - 1] + s.job[s.completedjobs[k]][measure]
    IN  total

Total(s, measure)   == Totals(s, measure)[Len(s.completedjobs)]
total_waiting(s)    == Total(s, "waiting_time")
total_turnaround(s) == Total(s, "turnaround_time")
total_response(s)   == Total(s, "response_time")

job_count(s) == Cardinality(DOMAIN s.job)
=============================================================================
