-------------------------------- MODULE Queue --------------------------------
(***************************************************************************)
(* The thread-safe queue of Lab/Terrible_Threads/queue.c and the producers *)
(* and consumers of queueTest.c that share it.                             *)
(*                                                                         *)
(* queue_push and queue_pull hold m except while they sleep on cv, so an   *)
(* action is a stretch of one of them that ends with m given up, or with   *)
(* the return that forgets to (queue.c:21).                                *)
(***************************************************************************)
EXTENDS Integers, Sequences, FiniteSetsExt

CONSTANTS Producers, Consumers,
          MaxCalls,    \* a thread makes at most this many calls
          MaxSizes,    \* the arguments queue_create is called with
          NULL

Threads == Producers \cup Consumers

\* A node is known by the call that allocates it: the k-th push of p.
Nodes == Producers \X (1 .. MaxCalls)

ASSUME ThreadsAssumption == IsFiniteSet(Producers) /\ IsFiniteSet(Consumers)
ASSUME CallsAssumption   == MaxCalls \in Nat
ASSUME NullAssumption    == NULL \notin Nodes

VARIABLES
    maxSize,       \* queue->maxSize
    size,          \* queue->size
    head, tail,    \* queue->head and queue->tail
    next,          \* the allocated nodes, each with its next field
    m,             \* the thread that holds the mutex, or NULL
    asleep,        \* the threads blocked on cv
    pc,            \* "idle", or inside a call that went to sleep
    workload,      \* how many calls each thread makes in this run
    calls,         \* how many of them it has still to make
    crashed,       \* a null or freed node was dereferenced: the process ended
    quiet,         \* no spurious wakeups in this run
    malloc_fails,  \* malloc may return NULL in this run
    delivered,     \* history: the nodes whose data queue_pull has returned
    destroyed      \* queue_destroy has run

list == <<size, head, tail, next>>
setting == <<maxSize, workload, quiet, malloc_fails>>
vars == <<list, setting, m, asleep, pc, calls, crashed, delivered, destroyed>>

queue_create ==
    /\ size = 0 /\ head = NULL /\ tail = NULL
    /\ maxSize \in MaxSizes
    /\ m = NULL /\ asleep = {}

Init ==
    /\ queue_create
    /\ next = << >>
    /\ pc = [t \in Threads |-> "idle"]
    /\ workload \in [Threads -> 0 .. MaxCalls]
    /\ calls = workload
    /\ crashed = FALSE
    /\ quiet \in BOOLEAN /\ malloc_fails \in BOOLEAN
    /\ delivered = << >>
    /\ destroyed = FALSE

-----------------------------------------------------------------------------
Full == maxSize > 0 /\ size >= maxSize

Return(t) ==
    /\ pc' = [pc EXCEPT ![t] = "idle"]
    /\ calls' = [calls EXCEPT ![t] = @ - 1]

Sleep(t, where) ==
    /\ asleep' = asleep \cup {t}
    /\ pc' = [pc EXCEPT ![t] = where]
    /\ UNCHANGED <<list, setting, m, calls, crashed, delivered, destroyed>>

\* Variant: the node goes in front of head.
LinkNode_AtFront(n) ==
    /\ head' = n
    /\ tail' = IF tail = NULL THEN n ELSE tail
    /\ next' = [x \in DOMAIN next \cup {n} |-> IF x = n THEN head ELSE next[x]]
    /\ size' = size + 1
    /\ UNCHANGED crashed

\* Node n goes behind tail. The list is untouched if tail was freed.
LinkNode(n) ==
    LET fresh == [x \in DOMAIN next \cup {n} |-> IF x = n THEN NULL ELSE next[x]]
    IN  /\ head' = IF head = NULL THEN n ELSE head
        /\ tail' = n
        /\ next' = IF tail \in DOMAIN next THEN [fresh EXCEPT ![tail] = n] ELSE fresh
        /\ crashed' = (tail # NULL /\ tail \notin DOMAIN next)
        /\ size' = size + 1

\* Variant: nobody is told of the new item.
Allocate_NoBroadcast(p) ==
    /\ LinkNode(<<p, calls[p]>>)
    /\ Return(p)
    /\ UNCHANGED <<setting, m, asleep, delivered, destroyed>>

\* queue_push from its malloc on, m held.
Allocate(p) ==
    \/ /\ LinkNode(<<p, calls[p]>>)
       /\ asleep' = {}
       /\ Return(p)
       /\ UNCHANGED <<setting, m, delivered, destroyed>>
    \/ /\ malloc_fails
       /\ m' = p
       /\ Return(p)
       /\ UNCHANGED <<list, setting, asleep, crashed, delivered, destroyed>>

\* Variant: the last pull leaves tail pointing at the node it freed.
Unlink_KeepTail(c) ==
    \/ /\ head \in DOMAIN next
       /\ head' = next[head]
       /\ next' = [x \in DOMAIN next \ {head} |-> next[x]]
       /\ size' = size - 1
       /\ delivered' = Append(delivered, head)
       /\ Return(c)
       /\ UNCHANGED <<tail, setting, m, asleep, crashed, destroyed>>
    \/ /\ head \notin DOMAIN next
       /\ crashed' = TRUE
       /\ UNCHANGED <<list, setting, m, asleep, pc, calls, delivered, destroyed>>

\* queue_pull from its use of head on, m held.
Unlink(c) ==
    \/ /\ head \in DOMAIN next
       /\ head' = IF size = 1 THEN NULL ELSE next[head]
       /\ tail' = IF size = 1 THEN NULL ELSE tail
       /\ next' = [x \in DOMAIN next \ {head} |-> next[x]]
       /\ size' = size - 1
       /\ delivered' = Append(delivered, head)
       /\ Return(c)
       /\ UNCHANGED <<setting, m, asleep, crashed, destroyed>>
    \/ /\ head \notin DOMAIN next
       /\ crashed' = TRUE
       /\ UNCHANGED <<list, setting, m, asleep, pc, calls, delivered, destroyed>>

-----------------------------------------------------------------------------
Calling(t) == pc[t] = "idle" /\ calls[t] > 0 /\ m = NULL /\ ~crashed
Woken(t, where) == pc[t] = where /\ t \notin asleep /\ m = NULL /\ ~crashed

PushBlocks(p) == Calling(p) /\ Full /\ Sleep(p, "push")
PushAtOnce(p) == Calling(p) /\ ~Full /\ Allocate(p)

\* Past the `if` of queue.c:16 whatever woke it, and without a second look.
PushAfterWait(p) == Woken(p, "push") /\ Allocate(p)

PullBlocks(c) == Calling(c) /\ size <= 0 /\ Sleep(c, "pull")
PullAtOnce(c) == Calling(c) /\ size > 0 /\ Unlink(c)
PullAfterWait(c) == Woken(c, "pull") /\ Unlink(c)

SpuriousWakeup(t) ==
    /\ ~quiet /\ ~crashed
    /\ t \in asleep
    /\ asleep' = asleep \ {t}
    /\ UNCHANGED <<list, setting, m, pc, calls, crashed, delivered, destroyed>>

Done == \A t \in Threads : pc[t] = "idle" /\ calls[t] = 0

\* The list as a walk from head: the k-th node, and NULL past the end.
NodeAt[k \in 1 .. Cardinality(Nodes)] ==
    LET before == NodeAt[k - 1]
    IN  IF k = 1 THEN head
        ELSE IF before \in DOMAIN next THEN next[before] ELSE NULL

Contents == [k \in 1 .. size |-> NodeAt[k]]
Linked == {NodeAt[k] : k \in DOMAIN NodeAt} \ {NULL}

\* Variant: the walk stops at the node whose next is NULL without freeing it.
queue_destroy_StopsEarly ==
    /\ Done /\ ~crashed /\ ~destroyed
    /\ next' = [x \in {y \in DOMAIN next : y \notin Linked \/ next[y] = NULL} |-> next[x]]
    /\ destroyed' = TRUE
    /\ UNCHANGED <<size, head, tail, setting, m, asleep, pc, calls, crashed, delivered>>

\* main joins all threads before it destroys the queue; no lock is taken.
queue_destroy ==
    /\ Done /\ ~crashed /\ ~destroyed
    /\ next' = [x \in DOMAIN next \ Linked |-> next[x]]
    /\ destroyed' = TRUE
    /\ UNCHANGED <<size, head, tail, setting, m, asleep, pc, calls, crashed, delivered>>

queue_push(p) == PushBlocks(p) \/ PushAtOnce(p) \/ PushAfterWait(p)
queue_pull(c) == PullBlocks(c) \/ PullAtOnce(c) \/ PullAfterWait(c)

Next ==
    \/ \E p \in Producers : queue_push(p)
    \/ \E c \in Consumers : queue_pull(c)
    \/ \E t \in Threads : SpuriousWakeup(t)
    \/ queue_destroy

Fairness ==
    /\ \A p \in Producers : WF_vars(queue_push(p))
    /\ \A c \in Consumers : WF_vars(queue_pull(c))
    /\ WF_vars(queue_destroy)

Spec == Init /\ [][Next]_vars
FairSpec == Spec /\ Fairness

-----------------------------------------------------------------------------
\* head and tail name allocated nodes, both or neither, until the queue is
\* destroyed; a thread asleep on cv is inside a call.
TypeOK ==
    /\ size \in 0 .. Cardinality(Nodes)
    /\ DOMAIN next \subseteq Nodes
    /\ ~crashed /\ ~destroyed =>
          /\ {head, tail} \subseteq DOMAIN next \cup {NULL}
          /\ head = NULL <=> size = 0
          /\ tail = NULL <=> size = 0
    /\ m \in Threads \cup {NULL}
    /\ asleep \subseteq {t \in Threads : pc[t] # "idle"}
    /\ pc \in [Threads -> {"idle", "push", "pull"}]
    /\ calls \in [Threads -> 0 .. MaxCalls]

\* Whatever the interleaving, and until a crash, the linked list is a FIFO
\* queue: each node pushed is delivered at most once and in the order of the
\* pushes (README.md:53, "handle concurrent calls from multiple threads").
Fifo == INSTANCE AbstractQueue
          WITH Items <- Nodes, contents <- IF destroyed THEN << >> ELSE Contents
ImplementsFifo == Fifo!Spec

Callers(S) == {t \in S : workload[t] > 0}

Calls(S) == MapThenSumSet(LAMBDA t : workload[t], S)

\* With one consumer and no spurious wakeups, a pull that has waited finds the
\* item it was woken for: the missing re-test of queue.c:49 does no harm then.
LoneConsumerFindsItem ==
    quiet /\ Cardinality(Callers(Consumers)) <= 1 => ~crashed

\* The list is empty for head, for tail and for size at the same time, and
\* queue_destroy frees every node that was allocated and not yet pulled.
NothingLeaks == TypeOK /\ (destroyed => DOMAIN next = {})

\* One consumer, a queue that never fills up and enough items for its pulls:
\* then every call returns and the queue is destroyed (the shape of queueTest.c
\* with one consumer thread).
NeverFull == maxSize <= 0 \/ maxSize >= Calls(Producers)
EasyWorkload ==
    /\ quiet /\ ~malloc_fails /\ NeverFull
    /\ Cardinality(Callers(Consumers)) <= 1
    /\ Calls(Consumers) <= Calls(Producers)
AllCallsReturn == EasyWorkload => <>destroyed

\* What queue.c:8 says: a push blocks while the queue is full. Here with
\* pthreads that never wake spuriously.
NeverOverCapacity == quiet /\ maxSize > 0 => size <= maxSize

\* What queue.c:43 says: a pull blocks while the queue is empty, and so never
\* uses a head that is not there. Here with pthreads that never wake spuriously.
PullFindsItem == quiet => ~crashed
=============================================================================
