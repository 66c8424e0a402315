# A verification of the CS 241 programs

TLA+ models of the programs in this repository that keep state other code
depends on: synchronisation primitives and the programs that use them, a CPU
scheduler, a memory management unit, a growable array and the documents kept in
it, a chat server, a parallel solver, and four programs of one file. Every
module is translated from the C source; `PROJECT.json` names the lines of each
definition. TLC checks the models on small instances and TLAPS proves safety
properties of most of them for every value of their parameters.

## 1. The system

The repository is a set of independent labs (`src/Lab`) and machine problems
(`src/MP`). They share no state with each other; what interacts is inside each.

| Component | State it keeps | Operations | What is hard | What makes it correct |
|---|---|---|---|---|
| Barrier (`Broken_Barriers/barrier.c`) | `count`, `times_used`, sleepers on `cv` | `barrier_init`, `barrier_wait` | reuse before all have left, spurious wakeups, wrap of the counter | nobody leaves use k before all entered it; every call returns |
| Queue (`Terrible_Threads/queue.c`, `queueTest.c`) | linked list, `size`, sleepers | push, pull, destroy | one condition variable for two conditions, waits with `if`, failing `malloc` | a FIFO queue; no crash, leak or stuck call |
| Semamore (`semamore.c`, `semamoreTest.c`, `algorithm.c`) | `value`, sleepers; shared `buffer` | wait, post; permutations | waits with `if`, order of three threads | value in its bounds, output in order |
| Interns (`Overworked_Interns`) | owner of each mutex | `work_interns` (two programs), hire, `main` | lock order, threads that fail to start | checks of `Company_hire_interns` hold, no circular wait |
| Scheduler (`Scheduler`) | cores, queue, `job_t`; the simulator's `jobs[]` and clocks | new job, job finished, quantum expired, clean up; the loop of `main` | two records of the same placement, stale `remaining_time`, ordering, boundaries of a time unit | each scheme serves its order; statistics equal the timing diagram |
| MMU (`Ideal_Indirection`) | page tables, TLB, counters | translate, create, delete; threads of `simulator.c` | eviction and re-lookup, shared pids, ownership of tables | consistent injective translation, exact page faults, LRU |
| Vector (`MP/Vector`) | `array`, `size`, capacity, copies | resize, set, insert, delete, append, destroy | which slots own what; capacity boundaries | a list of values; each copy freed once |
| Document (`MP/Vector/document.c`) | a Vector of lines | insert, delete, set, file I/O | file ends without newline, file missing | lines survive a write and a read |
| Chat (`Chatroom`) | `clients[]`, `clientsConnected` | accept loop, `processClient`, client threads | shared argument, unlocked list, leaving clients, short reads | every connected client gets every message |
| Poisson solver (`Broken_Barriers/poisson.c`) | two grids, `error_count`, `count` | `solve_poisson` | barrier phases, split of the columns | all threads stop in the same iteration |
| miniValgrind | list of blocks, three counters | malloc, realloc, free, destroy | null and failing realloc | counters equal what was allocated and freed |
| Prime counter (`Mangled_Mutexes`) | `cnt`, intervals | threads | unlocked counter, split of the range | every number counted once |
| Caesar breaker (`Et_tu_Brute/brutus.c`) | a pipe per child, the parent's buffer | fork, decrypt and write, wait, read | the parent waits before it reads; size of a pipe | lines printed in order, whole and once; the program ends |
| Lookups (`Mad_Mad_Access_Pattern`) | a search tree in a file | one lookup per word | - | a word is found exactly if it is there |
| Barrier test (`Broken_Barriers/barrier_test.c`) | two barriers for two; shared `buffer` | three threads, all six orders | a barrier that one thread has left for good | output in order, `main` ends |
| `Utilities_Unleashed`, `camelCaser.c`, `Pointers_Gone_Wild`, `bmp.c`, `rendezvous.c`, chat screens | none that outlives a call, or a file | - | - | - |

`PROJECT.json` lists the hazards of this code, each at its line and with the
properties that cover it.

## 2. The modules

| Module | Models | State and actions |
|---|---|---|
| `AbstractBarrier` | the promise of a reusable barrier | calls entered and returned per thread |
| `Barrier` | `barrier.c` | fields of `barrier_t`; `barrier_wait` is cut where `mtx` is released: `ArriveAndSleep`, `ArriveLast`, `SleepAgain`, `LeaveLoop`, `Return` |
| `AbstractQueue`, `Queue` | `queue.c` under the threads of `queueTest.c` | the list with its pointers; `PushBlocks`, `PushAtOnce`, `PushAfterWait` and the same for pull; `queue_destroy` |
| `Semamore` | `semamore.c` | `value`, sleepers, callers inside; one action per stretch of `semm_wait`, `semm_post` |
| `Algorithm` | `algorithm.c` | pure: `swap`, `reverse`, `next_permutation`, and what a successor is; `NextPermutationAssumption`, which TLC evaluates, compares the two on all arrays of two to four numbers |
| `Poisson` | `solve_poisson` and what it calls, with several threads over `Barrier` | both grids, a column being the number of the iteration it holds; `error_count`, a set of contributions; one action per column written, and per stretch between two barriers |
| `SemamoreTest` | `semamoreTest.c` | two instances of `Semamore`, three threads, `main`'s loop over all six orders |
| `BarrierTest` | `barrier_test.c`, beside `semamoreTest.c`, whose `main` it has | two instances of `Barrier`; `program` says which of the two programs runs |
| `Interns` | `good_company.c`, `bad_company.c`, `company.c`, `simulator.c` | one action per lock, unlock, hire, meeting; `main` creates, stops, joins |
| `Priqueue`, `LibScheduler` | `libpriqueue.c`, `libscheduler.c` | pure: each function maps the scheduler's variables to new ones and a result |
| `SchedulerSim` | `Scheduler/simulator.c` | the loop of `main`, one action per iteration of each inner loop |
| `Tlb`, `Mmu` | `tlb.c`; `mmu.c`, `page_table.c`, `kernel.c`, `simulator.c` | pure list operations; one action per translation, because it runs under `m` |
| `AbstractLru` | the cache `tlb.h` promises | the pages held, last used first |
| `AbstractList`, `Vector` | `vector.h`; `vector.c` | the array with its stale slots and the copies on the heap; one action per function |
| `Document` | `document.c`, over `Vector` | the file and the stage of reading it; `client` says whether a document or a program of its own calls the vector |
| `Chatroom` | `Chatroom/server.c`; its clients as far as it sees them | `main`'s loop as `accept`, `Reject` or `Accepted`, `AddClient`; `processClient` with one action per read and per write to one client; descriptors are numbers that are used again |
| `Brutus` | `brutus.c` | `Fork`, `Wait`, `Read` of the parent, `Decrypt` of each child; pipes hold bytes |
| `CountPrimes` | `count_primes.c` | `++cnt` as a read (`Add`) and a write (`Store`) |
| `MiniValgrind` | `mini_valgrind.c` | the list of blocks and the totals; one action per function |
| `Lookup` | `lookup1.c`, `lookup2.c` | one action per node visited |
| `Programs` | - | puts the last four side by side, to be checked in one run; `program` says which of them runs |
| `BarrierProofs`, `QueueProofs`, `InternsProofs`, `SchedulerProofs`, `MmuProofs`, `VectorProofs`, `ChatroomProofs`, `ProgramsProofs` | - | theorems and proofs; the first also for `Poisson`, the second for `Semamore`, the last for the four programs of `Programs` |
| `MC*` | - | bounds for TLC |

Operators whose name has an underscore suffix and whose comment begins with
"Variant" are plausible mistakes in the code. Nothing uses them in the models:
substituting one for the operator below it breaks the property that
`PROJECT.json` pairs it with, which shows that the property depends on the code.

**Abstraction.** A condition variable is the set of its sleepers; a broadcast
empties it, a spurious wakeup removes one. A mutex appears as a variable only
where the code can keep it (the failing `malloc` of `queue_push`, the interns).
Data that is only stored and returned is an identity: a queue item is the push
that made it, a vector entry the call of the copy constructor. Memory returned
by `malloc` is a number never returned before, so that a second `free` and a
dangling pointer can be seen. A number that is computed from others without
ever deciding anything is replaced by where it comes from: a column of the grid
by its iteration, and by `Wrong` once it was computed from anything else; the
error by the contributions added to it. A sum that lacks one, or has one of
another iteration, may compare with `EPSILON` either way.

## 3. The runs

| Run | Bounds | Shows |
|---|---|---|
| `barrier` | 3 threads, grids of 1, 2 and 5 columns, 1 or 2 iterations of three uses each, a file in the second, counter modulo 2 | steps stay within one use of each other; a wrapped counter is never taken for the old one; no lost wakeup; refinement of `AbstractBarrier`; columns and files are those of the serial solver; all threads stop, in the same iteration |
| `queue` | 2 producers, 2 consumers, 0 to 2 calls each, `maxSize` 0, 1, 2, 4 | refinement of a FIFO queue while the program has not crashed; one consumer never finds the queue empty; nothing leaks; calls return if the queue never fills up, `malloc` works and pulls do not outnumber pushes |
| `queue_empty_pull` | the same | a defect: a consumer that a push has woken finds that another has pulled the item before it had the mutex again |
| `semamore_test` | both programs as they are, the semamores with and without spurious wakeups | output in order, no race on the buffer, both semamores in bounds, `main` ends after all six orders |
| `interns` | 1 to 3 companies, 1 to 4 interns, both programs | ownership, no exit, no circular wait unless the left-first ring is closed, `main` ends |
| `scheduler` | 3 and 4 jobs, 1 and 2 cores, quantum 1 and 2, four schemes | `PlacesAgree`, the order of the queue against the true remaining times, no better job waits, a bound on waiting under RR, statistics against the diagram, termination |
| `mmu` | 2 threads over 2 pids, 2 addresses out of 4, twice; TLB of 3; one-bit page numbers | consistent, injective translation; exact page faults; every table and frame freed once; LRU |
| `vector` | initial capacity 2, sizes to 5 (6 in the next run), 4 copies of 2 values; documents of up to 3 lines, written once | each call does to a list what the operation of its name does; the capacity is less than four times the size; each copy freed once unless shrunk by a direct resize or set to itself; a document that is written and read again has its lines |
| `vector_shrink` | the same, sizes to 6 | a defect: resize below the size, then destroy |
| `chat` | 3 clients, a list of 2, 2 lines of two parts, 1 departure | the list keeps its bounds and counts the threads; while nobody has left and no thread has read another's descriptor, lines arrive whole, in order and once, and everybody who was there receives them |
| `chat_departure` | the same | a defect: a client that leaves takes the newest client off the list |
| `programs` | `brutus`: up to 3 lines of 1, 3, 4, 6 or 8 bytes, pages of 4; primes between 0 or 3 and 5, 9 or 13 with 1 to 4 threads; 3 addresses, blocks of 1 or 3 bytes, 8 bytes in all; trees of up to 4 words, 2 lookups | the journal is printed in order and whole, and to its end; the count is exact unless an increment is lost, and never too large; the totals of miniValgrind agree with its list, and the list with the program; every lookup is right |

**Why the bounds are enough.** Three threads are what it takes for one to be a
whole use of the barrier ahead while another has yet to leave, and a one-bit
counter wraps on every second use. Of the grids the one of five columns gives each thread columns of
its own, with a shorter part for the last; the one of two leaves the last thread
without a column; only the one of one is split beyond its edge, which
`SameAsSerial` excludes; the second iteration is the first whose sum must be told from an
earlier one, and the one that writes a file. Two producers and two consumers give every
pairing of sleepers and wakers on the single condition variable, two calls each
let a thread return to a queue it left. Three companies and four interns give
open rings, closed rings and rings that wrap, and the single intern. Four jobs
on one core are the fewest for which an insertion falls between two that wait.
A TLB of three nodes and four pages are the fewest with an eviction from a list
that also holds the sentinel or a promoted node. A capacity of two grows twice
and halves twice within size five; four copies are enough for the last slot to
become stale, be used again and be freed. A chat of two with a third waiting is
the smallest that rejects somebody, and in which a departure drops a client or
a newcomer takes over a descriptor; two lines are the fewest that can be out of
order, merged by one read or mixed by two threads. A file of three lines makes
the vector grow while it is read. The lengths of `brutus` lie below, at and above one page,
and at the power of two that fills a pipe of two; with three lines a child can
finish before, between and after the two others. Three threads are the fewest
of which two lose the increment of a third. Three addresses let a block move
while another stays; four words are the fewest for a node that its parent's
other side, or its grandparent, must keep out.

**Fairness.** Each thread gets weak fairness of its own steps: all its steps are
bounded stretches of code, and it runs them when the mutex is free. No strong
fairness is assumed: nothing says who gets a contended mutex. Spurious wakeups
are never forced to happen. In the chat `main` and the threads are fair once a
client has been accepted; clients are not. The processes of `brutus` run
whenever they can. In `semamore_test` and in the queue's conditional
properties `quiet` is a choice made at the start, because those programs are
only right with condition variables that never wake by themselves. `main` of the
scheduler is one thread. `mmu`, `vector` and the three other programs of
`programs` have no liveness property: every operation ends.

**Deadlock.** `barrier` and `semamore_test` check it. The queue, the interns,
the scheduler, the MMU, the vector, the chat (when the clients have no more
to say) and the programs of `programs` end or, as the interns of the left-first
program and `brutus` on a line that fills its pipe, may really stop; those runs say `CHECK_DEADLOCK FALSE` and state
termination as a property where it is due.

## 4. What the runs found

* **`queue_pull` on an empty queue** (`queue.c:49`). The wait is an `if`: a
  consumer sleeps, a push wakes it, and a second consumer, which never slept,
  pulls the item before the first has the mutex again; the first then
  dereferences a null `head`.
* **`Vector_resize` below the size, then `Vector_destroy`** (`vector.c:117`, `61`).
  The slots past the new end keep freed pointers and are destroyed again.
* **A client that leaves the chat** (`server.c:63`). Only the count goes down:
  the newest client falls off the list although it is still served, and the
  closed descriptor stays on it; when it is used again its new owner is written
  to twice.

Seen while modelling, without a run of their own:

* Queue: `queue_push` has the same `if` (`queue.c:16`), so that two producers
  can exceed `maxSize`; a failing `malloc` leaves it with the mutex held
  (`queue.c:21`).
* Scheduler: a job with run time 0 (`simulator.c:232`) is reported finished at
  once, before it arrives, and `scheduler_job_finished` is called for core -1.
* MMU: the sentinel of the TLB looks like page 0 of process 0, and once that page
  has been asked for it can take the place of a translation (`tlb.c:7`), which
  is why `ImplementsLru` speaks of the states in which the sentinel is last.
* Vector: `vector.h:49` asks to halve the array when the new size is a quarter of
  the capacity or less, `vector.c:99` does from a half on, so that a capacity of
  20 becomes 10 at size 9. `CapacityTight` is the bound that both rules keep, less
  than four times the size; the proof's `AtMostDouble` is that of the code.
  Setting an entry to what `Vector_get` returned for it copies freed memory (`vector.c:132-136`).
* Document: a file that cannot be opened is to be treated as an empty one
  (`document.h:33-34`), but `getline` is called with its null stream
  (`document.c:73`); a last line without a newline loses a character
  (`document.c:74`). Both are in the model; `RoundTrip` is about files that a
  document wrote. An insert past the end is to fill the gap with empty strings,
  and a document to hold no `NULL` (`document.h:63-67`), but the entries of the gap
  are the `NULL` that `Vector_resize` leaves there, and `Document_get_line` returns
  it. Only on the way to a file do they become empty lines, as `document.h:18-21`
  says: `RoundTrip` takes such a line for `""`, so it holds although the entries
  are not what the header says.
* Chat: a thread copies its descriptor from a variable of `main` that may already
  hold another (`server.c:32`), which the model remembers in `raced`; a `read`
  that fails moves the end of the buffer back (`server.c:42`), which ends the
  model as undefined.
* Poisson: the parts are rounded up (`poisson.c:81`), so that with many threads
  for few columns the threads before the last write over the boundary, which
  `SameAsSerial` excludes by `Fits`; `parallel_poisson` joins threads that it
  never creates; `serial_poisson` does not start `count` again (`poisson.c:184`),
  so that its second call in a program takes index 1.
* miniValgrind: `mini_realloc` of `NULL` drops the block it allocates
  (`mini_valgrind.c:84`); when `realloc` fails the block is already off the list
  and `NULL` is written to (`mini_valgrind.c:109`).
* Prime counter: increments are lost (`count_primes.c:36`), although
  `Mangled_Mutexes/README.md:62` says that all threads may use the shared counter,
  because it does not matter which increments it first. That would be so if
  `++cnt` were one step. `CountRight` accepts a count that is too small for this
  reason, since no document promises that the program synchronises it. The parts are rounded
  up here as well (`count_primes.c:65`) and reach beyond the end.
* `brutus`: pipes are sized for the longest line without its NUL
  (`brutus.c:119`): a line of exactly one page, or a power of two of them, blocks
  its child and with it the parent, although `Et_tu_Brute/README.md:109` says
  that "Then there will be no blocking issue". A line as long as the buffer or
  longer is printed without its end (`brutus.c:132`). After a `fork` that failed
  the line before is printed again (`brutus.c:123`).
* Lookups: `lookup1` waits for ever for a NUL behind a file that ends after its
  magic number (`lookup1.c:60`).
* `env.c:57` assigns the comparison `fork() < 0`, not the pid, to `pid`, so that
  parent and child both take themselves for the child.

## 5. What is proved

* **Barrier** (`BarrierProofs`), for any finite set of threads, any number of
  uses and any size of the counter. `IInv` is the conjunction of four
  invariants, none of them inductive alone: that a sleeper's snapshot tells the
  current use from the last (`NeverLapped`) needs all threads to be within one
  use of each other (`RoundsInStep`), and that in turn needs `LeaveLoop` to
  follow an opening. Each action has a lemma; `Refinement` shows that every step
  is a step of `AbstractBarrier` or stutters. `EarlyReturnNever` follows.
* **Poisson solver** (`BarrierProofs`), for any finite set of threads, any grid
  and any iteration in which the error becomes small. Every step of a thread is a
  step of the barrier's model or leaves its variables alone, so `IInv` holds of
  the solver too (`SolversStayInStep`). On top of it, `UsesCounted` says that a
  thread in iteration k has used the barrier 3k times, and once or twice more
  past its first and second wait. With `RoundsInStep` this fixes where the
  others can be while one reads the sum: nobody has left the third barrier and
  everybody has entered the second, so all have added to the sum, and index 0
  (`IndicesTaken`: there is one) has not cleared it again (`SumExact`,
  `SumCompared`). Hence all compare the same sum and take the same decision
  (`StopTogether`).
  `ParallelIsSerial` adds what each column of the two grids holds (`GridInv`). By
  `Grids` and `Columns` a thread has computed, of the iteration it is in, the
  columns before `x` and none beyond; the phases of the barrier say which of
  the others are in the same iteration and in which of its three parts
  (`OthersWhileHelping`, `OthersWhileWriting`). So a neighbour's column that
  is read is the one of the iteration before, in the grid that nobody writes, and
  the file is written while all grids are whole. It needs that the parts of the split are
  apart and cover the grid when they fit it (`SizesAssumption`: no grid is empty).
* **Queue** (`QueueProofs`), for any threads, any numbers of calls and any
  `maxSize`, with a `malloc` that may fail. `ListIsPath` says that the nodes from
  `head` along `next` are as many as `size` and end at `tail`; every action
  is shown to keep it, by walking to the first node where two lists differ. `NothingIsLeaked`: when the queue is destroyed no node is
  left. `Refinement`: until a crash every step is one of `AbstractQueue` or
  stutters. `LoneConsumerIsServed` needs `WokenForItem`: with one consumer and no
  spurious wakeup, whoever was woken from the wait on an empty list has an item on
  it, because nobody else takes one.
* **Scheduler** (`SchedulerProofs`), for any list of jobs, any number of cores, any
  quantum and all four schemes. The simulator and the scheduler each keep a record
  of where the jobs are; a call changes the scheduler's, and `main` makes up for it in
  `jobs[]` from what is returned. `Agree` says that the two records match, and that
  nothing is in two places. It is kept by each of the moves a
  job can make: it leaves a core and the list (`Leaves`), goes back into the queue
  (`GoesBack`), gets a core (`GetsCore`), arrives (`Arrives`). Each call
  of the scheduler together with what `main` makes of its answer is one or two of these moves (`FinishPlaces`,
  `QuantumPlaces`, `ArrivePlaces`); that the core whose job finishes or expires is the
  only one that can be free while a job waits is needed to see that the head of the
  queue is given the core. The counter `jobs_alive` is the number of jobs that have arrived, so its three sanity
  checks never fail (`SanityChecks`). Hence `PlacesStayInAgreement`.
  On top of it, `OrderInv` says what the scheduler knows. `Right`: what a `job_t`
  holds is what the list and the timing diagram say of its job, its remaining
  time once the time since `last_runtime` is taken off, its first run time unless it
  was preempted in the unit it was given its core. `Serving`: so it is for all that wait or run,
  the queue is in the order of the ranks of the README, and under PSJF no running
  job is behind a waiting one. The comparers say of two waiting jobs what their ranks do
  (`ComparerRanks`), so `priqueue_offer`, which looks for a place between two
  entries, keeps the order (`OfferInOrder`); under RR it always appends, and the job that goes
  back has just run, so none has waited for less (`LastInLine`; `Quanta` says
  that a core's clock cannot reach 0 before its job has run). The calls are followed one
  by one: `FinishServes`, `QuantumServes`, and `ArriveServes` for the three ways
  `scheduler_new_job` can go; `RunServes` is a time unit. Hence `QueueStaysInOrder`,
  `BestJobsAreRun`. The statistics of each job that is done are those of the diagram
  (`Counted`), and since every job is done once when `main` reports, so are their
  totals: what the loop over the finished jobs adds up (`TotalsAdd`) is followed
  from each of them to the next (`CountingUp`, `SumsFollow`, `BoxesSum`). Hence
  `StatisticsAreTrue`.
  How long a job waits under RR needs a third invariant, `TurnsInv`. Since a job
  began to wait all the cores have been busy; no job has run at two times a quantum
  or more apart since then, and one that is on a core has run at most for what its
  clock has used up (`Turns`). A core is only given a job that has not run since anybody
  in the queue waits, which is what the order of the queue says, and for a whole
  quantum (`TurnsPass`); a time unit keeps it because the clocks go down by one
  (`TurnsRun`). So the jobs that run at times a quantum apart are always others
  (`ManyRan`), and to wait for `CeilDiv` quantums more of them would have had to run
  than are off the cores, the one that waits among them (`WaitIsBounded`). Hence
  `RoundRobinWaits`.
* **MMU** (`MmuProofs`), for any processes, pids and addresses and any size of the
  page tables and of the TLB. The invariant gives every table and frame a name: the
  pid it serves, its level and its number there (`Tree`), which an entry shares with what it
  points to (`Below`). A page fault adds the one name that is missing (`FaultAdds`), and
  because the parts of an address are the digits of its numbers (`Digits`), the
  walk of a miss ends at the frame of its page (`MissWalks`). The nodes of the TLB hold
  the frame of their page as well (`TlbRight`), in whatever order. No two
  allocations share a name, hence `TranslationsAreConsistent`; the names are
  those that the answers needed (`Wanted`), hence `FaultsAreCounted`; every name has
  one place above it, up to a root, hence `EverythingIsFreed`.
  That the TLB is an LRU cache (`TlbIsLru`) needs that no page is in it twice, apart
  from the sentinel's, which is then behind the node of that page (`Once`). The nodes
  before a sentinel that is last are the pages held (`HeldIs`); a hit brings one of
  them to the front (`HitUses`, `UseAgain`), a miss puts a new one there
  (`MissUses`, `UseNew`). A miss that finds the sentinel moves it to the front, and
  can leave it last only if it was the only node: this takes a TLB of more than two
  nodes. The code has 16; with two TLC shows the only translation pushed out
  by the sentinel.
* **Vector** (`VectorProofs`), for any initial capacity, any values and any
  sequence of calls, the ones by a document included. `CapacityIsTight` follows
  the doubling and halving loops through lemmas about powers of two; its
  strengthening `AtMostDouble` says that a capacity above the initial one is at
  most twice the size, which the next halving needs.
  `CopiesAreFreedOnce` rests on who owns a copy: one that is on the heap is in one
  slot at most (`Owned`), and without the two calls that break it each is
  in an entry and the slots past the last one are empty (`Kept`). That a resize,
  which a delete, an insert and an append may do on the way, only moves entries
  and drops copies is said by one relation between the array before and after
  (`Rearranged`), which every call is shown to satisfy. `Refinement`: each call
  does to the list the operation of its name with its own arguments (`AsCalled`):
  `Vector_delete(i)` is `Delete(i)` and no other step of `AbstractList`.
* **Semamore** (`QueueProofs`): with at most one waiter and one poster, and
  no spurious wakeup, the value keeps its bounds. The strengthening
  `CallersJustified` says that a caller asleep sleeps at its bound and one awake
  in its call may take its step; with a second caller it is false.
* **Interns** (`InternsProofs`), for any number of companies and interns: the
  owners are as the program text says, the three checks never fail, and no set
  of companies waits in a circle, unless the left-first ring is closed. The
  invariant adds that whoever takes two interns has two (`TwoInterns`) and that
  `main` has not started the companies ahead of it (`Uncreated`). The circle
  is excluded by a company in it that waits for the greatest intern: the holder
  of that one waits for a greater one.
* **Chat** (`ChatroomProofs`), for any finite set of clients and any size of the
  list: `main` never writes past its end and `clientsConnected` counts the
  threads. The check and the use of the count are two steps without the mutex in
  between; the strengthening `RoomChecked` says that the room seen by the first
  is still there at the second, because only `main` adds, and `OneThreadEach`
  that the client about to get a thread has none.
  As long as nobody has left and no thread was given another's client, everybody
  hears whole lines and those of a sender in order (`LinesStayWhole`). The parts of
  a client's lines are numbered in the order it says them (`Part`), and
  `PartsFollow` says that what its thread holds, then what its socket holds, are
  the parts after those already broadcast, and that a buffer being written is whole
  lines. `BufferIsNew` says that a client still ahead on the list of the write in
  progress has heard nothing of the buffer. The types need that a descriptor is left
  for the next client (`DescriptorIsLeft`) and a line for the next to speak (`LineIsLeft`).
* **`brutus`** (`ProgramsProofs`), for any number of lines shorter than a page and
  any interleaving of the children: as long as no `fork` fails, what has been
  written is the lines in order. The strengthening `LinesInPipes` says
  that from the write of its child until its turn a pipe holds the whole line and
  its NUL, and that the parent reads it after that child has ended. It needs that a line of less
  than a page never fills its pipe (`LineFits`), whatever size `fcntl` gave it.
* **Prime counter** (`ProgramsProofs`), for any interval and number of threads.
  `IsPrimeIsRight`: a number that no odd number up to its root divides is prime.
  The invariant says that while nothing was lost `cnt` is the number of primes
  among those that the threads have passed (`Counted`), which the parts make up
  without overlap (`PartsApart`, `PartsCover`), and that what a thread has read is
  never more than that; hence `PrimesAreCounted`.
* **Lookups** (`ProgramsProofs`), for any finite set of words, any order in which
  they were inserted and any number of lookups. `OnPath`: if the word is in the file at all, then at the
  node reached or after it, and on the same side as that node of every node
  before. It holds at the root, each step down keeps it (`ChildFinds`), and where
  there is no child it says that the word is not there; hence `WordsAreFound`.
* **miniValgrind** (`ProgramsProofs`), for any memory and any sizes. The list has
  no address twice (`WellListed`), adds up to what was used and not freed, and
  is what the program holds until it drops a block (`Held`); inserting in front
  and removing at a place are followed through the sum (`InsertAdds`,
  `RemoveTakes`). A `realloc` that fails does not disturb any of it, but ends
  the program; hence `AccountsAddUp`.

The assumptions are the named `ASSUME`s of each module and `Parameters` of
`Semamore`: finite sets of threads, clients and words, positive sizes, lengths
within their bound, numbers where the code has them.

**Only model-checked**: every liveness property (the prover has no rule for
fairness); the test programs' `PrintsInOrder` and `BothInBounds`, whose programs have no parameter,
so that their run covers every behaviour; `RoundTrip`, and `ImplementsList` for the calls a document makes, where
the file is flattened and split again; what `next_permutation` computes. The last
three are inductions over sequences, for which there is no general rule here: the two
that are proved, the sums of the scheduler and of miniValgrind, are each done by hand
on the least number that would break them. The types of the variables of the
barrier and the interns are proved and no longer part of a run; elsewhere they
are a conjunct of a checked invariant.

## 6. What is not modelled

Parsing of arguments, printed text and measured times. Of the chat: the SIGINT
handlers, a failing `accept` or `pthread_create` and lines longer than
`MSG_SIZE`; between reading `clients[i]` and writing to it nothing else happens
in the model, and each `write` to a client puts the whole buffer into its
socket at once (the code does not look at what it returns). Of the queue: a
`queue_create` whose `malloc` fails and that returns `NULL` (`queue.c:77`). Of
`brutus`: an `fcntl` that fails, as it does above the system's largest pipe size,
and leaves the pipe at the size it had. Of the solver: `parallel_poisson`, which never creates its threads,
so that the only solver the program really runs is the one with one thread;
`serial_poisson`'s allocation and `poisson_destroy`. The model has the threads
that the comments at `poisson.c:58` and `:190` speak of. Of the documents: two
at a time, lines with a newline inside, a file that cannot be opened for writing.
Of the prime counter: more than the ten threads its array has room for. Of
miniValgrind: the file and line each block remembers for the report.

`rendezvous.c` has two threads of two steps. The utilities run one child and
wait for it. `camelCaser.c` and `Pointers_Gone_Wild` are sequential conversions
and exercises, `bmp.c` writes a file and the chat screens draw: nothing in them
has a state that two steps could disagree about.

## 7. Plan

Done: the models of section 2 with the runs of section 3 and the proofs of
section 5. Every invariant of a run is proved, except the three that section 5
names with their reasons. Left are the parts that section 6 names; of those the
one where most could go wrong is the chat's SIGINT handlers, which close what the
threads are using.
