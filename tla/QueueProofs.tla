----------------------------- MODULE QueueProofs -----------------------------
(***************************************************************************)
(* Queue, for any finite sets of producers and consumers, any number of    *)
(* calls and any maxSize, and Semamore, for any pair and any max_val.      *)
(***************************************************************************)
EXTENDS Queue, FiniteSetTheorems, SequenceTheorems, WellFoundedInduction, TLAPS

\* The nodes of q, in this order, are those allocated, and the pointers lead
\* from each to the next.
Path(q) ==
    /\ q \in [1 .. size -> Nodes]
    /\ \A j, k \in 1 .. size : q[j] = q[k] => j = k
    /\ DOMAIN next = {q[k] : k \in 1 .. size}
    /\ head = IF size = 0 THEN NULL ELSE q[1]
    /\ tail = IF size = 0 THEN NULL ELSE q[size]
    /\ \A k \in 1 .. size : next[q[k]] = IF k = size THEN NULL ELSE q[k + 1]

ListIsPath == ~destroyed => \E q \in [1 .. size -> Nodes] : Path(q)

\* A thread inside a call has not finished it, and what it has still to push is
\* not on the list.
CallsCounted ==
    /\ workload \in [Threads -> 0 .. MaxCalls]
    /\ \A t \in Threads : calls[t] <= workload[t] /\ (pc[t] # "idle" => calls[t] > 0)
    /\ \A t \in Threads : pc[t] = "pull" => t \in Consumers
    /\ \A p \in Producers : \A k \in 1 .. calls[p] : <<p, k>> \notin DOMAIN next

Ended == destroyed => Done /\ DOMAIN next = {}

\* A consumer that was woken has something to pull, if nobody can take it first.
WokenForItem ==
    quiet /\ Cardinality(Callers(Consumers)) <= 1 =>
        \A c \in Threads : pc[c] = "pull" => c \in asleep \/ size > 0

IInv == TypeOK /\ ListIsPath /\ CallsCounted /\ Ended /\ LoneConsumerFindsItem /\ WokenForItem

-----------------------------------------------------------------------------
(* The walk from head *)

LEMMA NodesAreFinite ==
  /\ IsFiniteSet(Threads) /\ IsFiniteSet(Nodes)
  /\ Cardinality(Nodes) \in Nat
  <1>1. IsFiniteSet(Threads)
    BY ThreadsAssumption, FS_Union DEF Threads
  <1>2. IsFiniteSet(1 .. MaxCalls)
    BY CallsAssumption, FS_Interval
  <1>3. IsFiniteSet(Nodes)
    BY <1>2, ThreadsAssumption, FS_Product DEF Nodes
  <1> QED
    BY <1>1, <1>3, FS_CardinalityType

(* Nodes that are all different are not more than there are nodes. *)
LEMMA PathIsShort ==
  ASSUME NEW q, NEW n \in Nat, q \in [1 .. n -> Nodes],
         \A j, k \in 1 .. n : q[j] = q[k] => j = k
  PROVE  n <= Cardinality(Nodes)
  <1>1. q \in Injection(1 .. n, Nodes)
    BY DEF Injection, IsInjective
  <1>2. Cardinality(1 .. n) = n
    BY FS_Interval
  <1> QED
    BY <1>1, <1>2, NodesAreFinite, FS_Injection

(* NodeAt is the function that its definition describes. *)
LEMMA NodeAtUnfolds ==
  ASSUME NEW q, Path(q), size \in Nat
  PROVE  NodeAt = [k \in 1 .. Cardinality(Nodes) |->
                     IF k = 1 THEN head
                     ELSE IF NodeAt[k - 1] \in DOMAIN next THEN next[NodeAt[k - 1]] ELSE NULL]
  <1> DEFINE N == Cardinality(Nodes)
             f == [k \in 1 .. N |-> IF k <= size THEN q[k] ELSE NULL]
             Unfolded(g) == [k \in 1 .. N |->
                               IF k = 1 THEN head
                               ELSE IF g[k - 1] \in DOMAIN next THEN next[g[k - 1]] ELSE NULL]
  <1>1. N \in Nat
    BY NodesAreFinite
  <1>2. ASSUME NEW k \in 1 .. N
        PROVE  f[k] = Unfolded(f)[k]
    <2>1. CASE k = 1
      BY <2>1, <1>1 DEF Path
    <2>2. CASE k > 1 /\ k - 1 <= size
      <3>1. k - 1 \in 1 .. N /\ k - 1 \in 1 .. size /\ f[k - 1] = q[k - 1]
        BY <2>2, <1>1
      <3>2. f[k - 1] \in DOMAIN next /\ next[f[k - 1]] = IF k - 1 = size THEN NULL ELSE q[k]
        BY <3>1 DEF Path
      <3> QED
        BY <2>2, <3>2, <1>1
    <2>3. CASE k - 1 > size
      <3>1. k - 1 \in 1 .. N /\ f[k - 1] = NULL
        BY <2>3, <1>1
      <3>2. NULL \notin DOMAIN next
        BY NullAssumption DEF Path
      <3> QED
        BY <2>3, <3>1, <3>2
    <2> QED
      BY <2>1, <2>2, <2>3, <1>1
  <1>3. f = Unfolded(f)
    BY <1>2
  <1>4. \E g : g = Unfolded(g)
    BY <1>3
  <1>5. NodeAt = CHOOSE g : g = Unfolded(g)
    BY DEF NodeAt
  <1> QED
    BY <1>4, <1>5

LEMMA Walk ==
  ASSUME NEW q
  PROVE  Path(q) /\ size \in Nat =>
           /\ Contents = q
           /\ Linked = DOMAIN next
  <1> SUFFICES ASSUME Path(q), size \in Nat
               PROVE  Contents = q /\ Linked = DOMAIN next
    OBVIOUS
  <1> DEFINE N == Cardinality(Nodes)
             Wrong == {k \in 1 .. N : NodeAt[k] # IF k <= size THEN q[k] ELSE NULL}
  <1>1. N \in Nat /\ size <= N
    BY NodesAreFinite, PathIsShort DEF Path
  <1>2. Wrong = {}
    <2> SUFFICES ASSUME Wrong # {} PROVE FALSE
      OBVIOUS
    <2>1. PICK k \in Wrong : \A j \in Wrong : <<j, k>> \notin OpToRel(<, Nat)
      <3>1. Wrong \subseteq Nat
        OBVIOUS
      <3> QED
        BY <3>1, NatLessThanWellFounded, WFMin
    <2>2. k \in 1 .. N /\ NodeAt[k] # IF k <= size THEN q[k] ELSE NULL
      OBVIOUS
    <2>3. k # 1
      BY <2>2, <1>1, NodeAtUnfolds DEF Path
    <2>4. k - 1 \in 1 .. N /\ k - 1 \notin Wrong
      <3>1. k - 1 \in 1 .. N /\ k - 1 \in Nat /\ k \in Nat
        BY <2>2, <2>3, <1>1
      <3> HIDE DEF Wrong
      <3>2. <<k - 1, k>> \in OpToRel(<, Nat)
        BY <3>1 DEF OpToRel
      <3> QED
        BY <2>1, <3>1, <3>2
    <2>5. NodeAt[k - 1] = IF k - 1 <= size THEN q[k - 1] ELSE NULL
      BY <2>4
    <2>6. NodeAt[k] = IF NodeAt[k - 1] \in DOMAIN next THEN next[NodeAt[k - 1]] ELSE NULL
      BY <2>2, <2>3, NodeAtUnfolds
    <2>7. NULL \notin DOMAIN next
      BY NullAssumption DEF Path
    <2>8. CASE k - 1 <= size
      <3>1. k - 1 \in 1 .. size /\ NodeAt[k - 1] = q[k - 1]
        BY <2>5, <2>8, <2>4
      <3>2. NodeAt[k] = IF k - 1 = size THEN NULL ELSE q[k]
        BY <3>1, <2>6 DEF Path
      <3> QED
        BY <3>2, <2>2, <2>8, <1>1
    <2>9. CASE k - 1 > size
      BY <2>2, <2>5, <2>6, <2>7, <2>9, <1>1
    <2> QED
      BY <2>2, <2>8, <2>9, <1>1
  <1>3. \A k \in 1 .. N : NodeAt[k] = IF k <= size THEN q[k] ELSE NULL
    BY <1>2
  <1> HIDE DEF Wrong
  <1>4. Contents = q
    BY <1>1, <1>3 DEF Contents, Path
  <1>5. DOMAIN NodeAt = 1 .. N
    BY NodeAtUnfolds
  <1>6. Linked = {q[k] : k \in 1 .. size}
    <2>1. \A k \in 1 .. size : k \in 1 .. N /\ q[k] # NULL
      BY <1>1, NullAssumption DEF Path
    <2> QED
      BY <2>1, <1>1, <1>3, <1>5 DEF Linked
  <1> QED
    BY <1>4, <1>6 DEF Path

(* What TypeOK says of the list follows from the path. *)
ListTypeOK ==
    /\ size \in 0 .. Cardinality(Nodes)
    /\ DOMAIN next \subseteq Nodes
    /\ {head, tail} \subseteq DOMAIN next \cup {NULL}
    /\ head = NULL <=> size = 0
    /\ tail = NULL <=> size = 0

LEMMA PathTypes ==
  ASSUME NEW q
  PROVE  Path(q) /\ size \in Nat => ListTypeOK
  <1> SUFFICES ASSUME Path(q), size \in Nat PROVE ListTypeOK
    OBVIOUS
  <1>1. size <= Cardinality(Nodes)
    BY PathIsShort DEF Path
  <1>2. \A k \in 1 .. size : q[k] \in Nodes /\ q[k] \in DOMAIN next
    BY DEF Path
  <1>3. size = 0 \/ (1 \in 1 .. size /\ size \in 1 .. size)
    OBVIOUS
  <1> QED
    BY <1>1, <1>2, <1>3, NullAssumption, NodesAreFinite DEF Path, ListTypeOK

LEMMA PathTypesNext ==
  ASSUME NEW q
  PROVE  (Path(q) /\ size \in Nat => ListTypeOK)'
  BY PathTypes, PTL

-----------------------------------------------------------------------------
(* The list under queue_push and queue_pull *)

LEMMA LinkExtendsPath ==
  ASSUME NEW q, Path(q), size \in Nat, NEW n \in Nodes \ DOMAIN next, LinkNode(n),
         NEW r, r = [k \in 1 .. size + 1 |-> IF k <= size THEN q[k] ELSE n]
  PROVE  Path(r)' /\ size' = size + 1 /\ ~crashed'
  <1>1. size' = size + 1 /\ tail' = n
    BY DEF LinkNode
  <1>2. \A k \in 1 .. size : q[k] \in DOMAIN next /\ q[k] # n /\ q[k] \in Nodes
    BY DEF Path
  <1>3. /\ size = 0 => tail = NULL /\ NULL \notin DOMAIN next
        /\ size > 0 => tail = q[size] /\ tail \in DOMAIN next /\ size \in 1 .. size
    BY <1>2, NullAssumption DEF Path
  <1>4. ~crashed'
    <2>1. ~(tail # NULL /\ tail \notin DOMAIN next)
      BY <1>3
    <2> QED
      BY <2>1, Zenon DEF LinkNode
  <1>5. r \in [1 .. size + 1 -> Nodes] /\ r[size + 1] = n
    BY <1>2
  <1>6. \A j, k \in 1 .. size + 1 : r[j] = r[k] => j = k
    BY <1>2 DEF Path
  <1>7. DOMAIN next' = DOMAIN next \cup {n}
    BY <1>3 DEF LinkNode
  <1>8. DOMAIN next' = {r[k] : k \in 1 .. size + 1}
    <2>1. DOMAIN next = {q[k] : k \in 1 .. size}
      BY DEF Path
    <2>2. \A k \in 1 .. size : k \in 1 .. size + 1 /\ r[k] = q[k]
      OBVIOUS
    <2>3. \A k \in 1 .. size + 1 : k \in 1 .. size \/ k = size + 1
      OBVIOUS
    <2>4. size + 1 \in 1 .. size + 1
      OBVIOUS
    <2>5. {r[k] : k \in 1 .. size + 1} = {r[k] : k \in 1 .. size} \cup {r[size + 1]}
      BY <2>2, <2>3, <2>4, Zenon
    <2>6. {r[k] : k \in 1 .. size} = {q[k] : k \in 1 .. size}
      BY <2>2
    <2> QED
      BY <1>5, <1>7, <2>1, <2>5, <2>6
  <1>9. head' = r[1]
    <2>1. CASE size = 0
      BY <2>1, <1>5 DEF LinkNode, Path
    <2>2. CASE size > 0
      <3>1. head = q[1] /\ 1 \in 1 .. size
        BY <2>2 DEF Path
      <3>2. head # NULL
        BY <3>1, <1>2, NullAssumption
      <3> QED
        BY <3>1, <3>2 DEF LinkNode
    <2> QED
      BY <2>1, <2>2
  <1>10. ASSUME NEW k \in 1 .. size + 1
         PROVE  next'[r[k]] = IF k = size + 1 THEN NULL ELSE r[k + 1]
    <2>1. CASE k = size + 1
      <3>1. n # tail
        BY <1>2, <1>3, NullAssumption
      <3> QED
        BY <2>1, <1>5, <3>1 DEF LinkNode
    <2>2. CASE k = size
      <3>1. tail \in DOMAIN next /\ r[k] = tail /\ r[k + 1] = n
        BY <2>2, <1>3
      <3>2. next'[tail] = n
        BY <3>1 DEF LinkNode
      <3> QED
        BY <2>2, <3>1, <3>2
    <2>3. CASE k < size
      <3>1. k \in 1 .. size /\ k + 1 \in 1 .. size /\ r[k] = q[k] /\ r[k + 1] = q[k + 1]
        BY <2>3
      <3>2. q[k] # tail /\ next[q[k]] = q[k + 1]
        BY <3>1, <2>3, <1>3 DEF Path
      <3>3. next'[q[k]] = next[q[k]]
        BY <3>1, <3>2, <1>2 DEF LinkNode
      <3> QED
        BY <2>3, <3>1, <3>2, <3>3
    <2> QED
      BY <2>1, <2>2, <2>3
  <1> QED
    BY <1>1, <1>4, <1>5, <1>6, <1>8, <1>9, <1>10 DEF Path

LEMMA UnlinkShortensPath ==
  ASSUME NEW q, Path(q), size \in Nat, head \in DOMAIN next,
         head' = IF size = 1 THEN NULL ELSE next[head],
         tail' = IF size = 1 THEN NULL ELSE tail,
         next' = [x \in DOMAIN next \ {head} |-> next[x]],
         size' = size - 1,
         NEW r, r = [k \in 1 .. size - 1 |-> q[k + 1]]
  PROVE  Path(r)' /\ size > 0 /\ head = q[1]
  <1>1. size > 0 /\ head = q[1] /\ 1 \in 1 .. size
    BY NullAssumption DEF Path
  <1>2. \A k \in 1 .. size - 1 : k \in 1 .. size /\ k + 1 \in 1 .. size /\ r[k] = q[k + 1]
    OBVIOUS
  <1>3. r \in [1 .. size - 1 -> Nodes]
    BY <1>2 DEF Path
  <1>4. \A j, k \in 1 .. size - 1 : r[j] = r[k] => j = k
    <2> SUFFICES ASSUME NEW j \in 1 .. size - 1, NEW k \in 1 .. size - 1, r[j] = r[k]
                 PROVE  j = k
      OBVIOUS
    <2>1. j + 1 = k + 1
      BY <1>2 DEF Path
    <2> QED
      BY <2>1
  <1>5. \A k \in 1 .. size - 1 : r[k] # head /\ r[k] \in DOMAIN next
    BY <1>1, <1>2 DEF Path
  <1>6. DOMAIN next' = {r[k] : k \in 1 .. size - 1}
    <2>1. ASSUME NEW x \in DOMAIN next, x # head
          PROVE  \E k \in 1 .. size - 1 : x = r[k]
      <3>1. PICK j \in 1 .. size : x = q[j]
        BY DEF Path
      <3>2. j - 1 \in 1 .. size - 1 /\ (j - 1) + 1 = j
        BY <3>1, <2>1, <1>1
      <3> QED
        BY <3>1, <3>2, <1>2
    <2> QED
      BY <2>1, <1>5
  <1>7. head' = IF size - 1 = 0 THEN NULL ELSE r[1]
    <2>1. CASE size = 1
      BY <2>1
    <2>2. CASE size > 1
      <3>1. next[q[1]] = q[2] /\ r[1] = q[2]
        BY <2>2, <1>1, <1>2 DEF Path
      <3> QED
        BY <2>2, <3>1, <1>1
    <2> QED
      BY <2>1, <2>2, <1>1
  <1>8. tail' = IF size - 1 = 0 THEN NULL ELSE r[size - 1]
    <2>1. size > 1 => size - 1 \in 1 .. size - 1 /\ r[size - 1] = q[size]
      BY <1>2
    <2> QED
      BY <2>1, <1>1 DEF Path
  <1>9. ASSUME NEW k \in 1 .. size - 1
        PROVE  next'[r[k]] = IF k = size - 1 THEN NULL ELSE r[k + 1]
    <2>1. next'[r[k]] = next[q[k + 1]]
      BY <1>2, <1>5
    <2>2. next[q[k + 1]] = IF k + 1 = size THEN NULL ELSE q[k + 2]
      BY <1>2 DEF Path
    <2>3. k # size - 1 => r[k + 1] = q[k + 2]
      <3>1. k # size - 1 => k + 1 \in 1 .. size - 1 /\ (k + 1) + 1 = k + 2
        OBVIOUS
      <3> QED
        BY <3>1, <1>2
    <2> QED
      BY <2>1, <2>2, <2>3
  <1>10. size' \in Nat /\ size' = size - 1
    BY <1>1
  <1> QED
    BY <1>1, <1>3, <1>4, <1>6, <1>7, <1>8, <1>9, <1>10 DEF Path

-----------------------------------------------------------------------------
(* The invariant *)

(* Two consumers that make calls are the same one when there is at most one. *)
LEMMA LoneCaller ==
  ASSUME Cardinality(Callers(Consumers)) <= 1,
         NEW c \in Consumers, NEW d \in Consumers, workload[c] > 0, workload[d] > 0
  PROVE  c = d
  <1> SUFFICES ASSUME c # d PROVE FALSE
    OBVIOUS
  <1>1. c \in Callers(Consumers) /\ d \in Callers(Consumers)
    BY DEF Callers
  <1>2. IsFiniteSet(Callers(Consumers))
    BY ThreadsAssumption, FS_Subset DEF Callers
  <1>3. Cardinality({c, d}) <= Cardinality(Callers(Consumers)) /\ Cardinality(Callers(Consumers)) \in Nat
    BY <1>1, <1>2, FS_Subset, FS_CardinalityType
  <1>4. Cardinality({c, d}) = 2
    <2>1. IsFiniteSet({c}) /\ Cardinality({c}) = 1
      BY FS_Singleton
    <2>2. Cardinality({c} \cup {d}) = Cardinality({c}) + 1
      BY <2>1, FS_AddElement
    <2> QED
      BY <2>1, <2>2
  <1> QED
    BY <1>3, <1>4

LEMMA InitIInv == Init => IInv
  <1> SUFFICES ASSUME Init PROVE IInv
    OBVIOUS
  <1> USE DEF Init, queue_create
  <1>1. DOMAIN next = {}
    OBVIOUS
  <1>2. TypeOK
    BY <1>1, NodesAreFinite DEF TypeOK
  <1>3. ListIsPath
    <2>1. << >> \in [1 .. size -> Nodes] /\ Path(<< >>)
      BY <1>1 DEF Path
    <2> QED
      BY <2>1 DEF ListIsPath
  <1>4. CallsCounted
    BY <1>1, CallsAssumption DEF CallsCounted, Threads
  <1>5. Ended /\ LoneConsumerFindsItem /\ WokenForItem
    BY DEF Ended, LoneConsumerFindsItem, WokenForItem
  <1> QED
    BY <1>2, <1>3, <1>4, <1>5 DEF IInv

(* A thread that is about to do something is not through with its calls. *)
LEMMA AtWork ==
  ASSUME IInv, NEW t \in Threads, pc[t] # "idle" \/ calls[t] > 0
  PROVE  ~destroyed /\ calls[t] \in 1 .. MaxCalls /\ size \in Nat /\ workload[t] \in Nat
  <1>1. ~destroyed
    BY DEF IInv, Ended, Done
  <1>2. calls[t] \in 0 .. MaxCalls /\ calls[t] > 0
    BY DEF IInv, TypeOK, CallsCounted
  <1>3. size \in Nat /\ workload[t] \in Nat
    BY CallsAssumption DEF IInv, TypeOK, CallsCounted
  <1> QED
    BY <1>1, <1>2, <1>3, CallsAssumption

(* A call that returns leaves its thread, and nobody else, one call nearer to *)
(* its end.                                                                   *)
LEMMA ReturnCounts ==
  ASSUME IInv, NEW t \in Threads, calls[t] \in 1 .. MaxCalls, Return(t)
  PROVE  /\ calls' \in [Threads -> 0 .. MaxCalls]
         /\ pc' \in [Threads -> {"idle", "push", "pull"}]
         /\ calls'[t] = calls[t] - 1 /\ pc'[t] = "idle"
         /\ \A u \in Threads \ {t} : calls'[u] = calls[u] /\ pc'[u] = pc[u]
  <1>1. calls[t] - 1 \in 0 .. MaxCalls
    BY CallsAssumption
  <1> QED
    BY <1>1 DEF Return, IInv, TypeOK

LEMMA ReturnKeepsCallsCounted ==
  ASSUME IInv, NEW t \in Threads, calls[t] \in 1 .. MaxCalls, Return(t), UNCHANGED setting,
         DOMAIN next' \subseteq DOMAIN next \cup {<<t, calls[t]>>}
  PROVE  CallsCounted'
  <1>1. ASSUME NEW p \in Producers, NEW k \in 1 .. calls'[p]
        PROVE  <<p, k>> \notin DOMAIN next'
    <2>1. p \in Threads /\ calls[p] \in 0 .. MaxCalls
      BY DEF Threads, IInv, TypeOK
    <2>2. k \in 1 .. calls[p] /\ <<p, k>> # <<t, calls[t]>>
      BY <2>1, ReturnCounts
    <2> QED
      BY <2>2 DEF IInv, CallsCounted
  <1>2. ASSUME NEW u \in Threads
        PROVE  calls'[u] <= workload'[u] /\ (pc'[u] # "idle" => calls'[u] > 0)
    <2>1. /\ workload'[u] = workload[u] /\ workload[u] \in Nat /\ calls[u] \in Nat
          /\ calls[u] <= workload[u] /\ (pc[u] # "idle" => calls[u] > 0)
      BY CallsAssumption DEF IInv, TypeOK, CallsCounted, setting
    <2> QED
      BY <2>1, ReturnCounts
  <1>3. \A u \in Threads : pc'[u] = "pull" => u \in Consumers
    BY ReturnCounts DEF IInv, CallsCounted
  <1> QED
    BY <1>1, <1>2, <1>3 DEF IInv, CallsCounted, setting

LEMMA SleepKeepsIInv ==
  ASSUME IInv, NEW t \in Threads, Calling(t),
         NEW where \in {"push", "pull"}, where = "pull" => t \in Consumers,
         Sleep(t, where)
  PROVE  IInv'
  <1>1. ~destroyed /\ calls[t] > 0
    BY AtWork DEF Calling
  <1>2. UNCHANGED <<list, setting, m, calls, crashed, delivered, destroyed>>
    BY DEF Sleep
  <1>3. pc' = [pc EXCEPT ![t] = where] /\ asleep' = asleep \cup {t}
    BY DEF Sleep
  <1>4. TypeOK'
    BY <1>2, <1>3 DEF IInv, TypeOK, list
  <1>5. ListIsPath'
    BY <1>2 DEF IInv, ListIsPath, Path, list
  <1>6. CallsCounted'
    BY <1>1, <1>2, <1>3 DEF IInv, TypeOK, CallsCounted, list, setting
  <1>7. Ended'
    BY <1>1, <1>2 DEF Ended
  <1>8. LoneConsumerFindsItem'
    BY <1>2 DEF IInv, LoneConsumerFindsItem, Callers, setting
  <1>9. WokenForItem'
    BY <1>2, <1>3 DEF IInv, TypeOK, WokenForItem, Callers, setting, list
  <1> QED
    BY <1>4, <1>5, <1>6, <1>7, <1>8, <1>9 DEF IInv

LEMMA AllocateKeepsIInv ==
  ASSUME IInv, NEW p \in Producers, ~crashed, pc[p] # "idle" \/ calls[p] > 0, p \notin asleep,
         Allocate(p)
  PROVE  IInv'
  <1>1. ~destroyed /\ calls[p] \in 1 .. MaxCalls /\ size \in Nat /\ p \in Threads
    BY AtWork DEF Threads
  <1>2. destroyed' = destroyed /\ UNCHANGED setting /\ Return(p)
    BY DEF Allocate
  <1>3. PICK q : q \in [1 .. size -> Nodes] /\ Path(q)
    BY <1>1 DEF IInv, ListIsPath
  <1>4. CASE LinkNode(<<p, calls[p]>>) /\ asleep' = {} /\ UNCHANGED m
    <2> DEFINE n == <<p, calls[p]>>
    <2>1. n \in Nodes \ DOMAIN next
      BY <1>1 DEF Nodes, IInv, CallsCounted
    <2>2. PICK r : r = [k \in 1 .. size + 1 |-> IF k <= size THEN q[k] ELSE n]
      OBVIOUS
    <2>3. Path(r)' /\ size' = size + 1 /\ ~crashed'
      BY <1>1, <1>3, <1>4, <2>1, <2>2, LinkExtendsPath
    <2>4. DOMAIN next' = DOMAIN next \cup {n}
      BY <1>4 DEF LinkNode
    <2>5. ListTypeOK'
      BY <1>1, <2>3, PathTypesNext
    <2>6. TypeOK'
      BY <1>1, <1>2, <1>4, <2>5, ReturnCounts DEF IInv, TypeOK, ListTypeOK
    <2>7. ListIsPath'
      BY <2>3 DEF ListIsPath, Path
    <2>8. CallsCounted'
      BY <1>1, <1>2, <2>4, ReturnKeepsCallsCounted
    <2>9. Ended' /\ LoneConsumerFindsItem'
      BY <1>1, <1>2, <2>3 DEF Ended, LoneConsumerFindsItem
    <2>10. WokenForItem'
      BY <1>1, <2>3 DEF WokenForItem
    <2> QED
      BY <2>6, <2>7, <2>8, <2>9, <2>10 DEF IInv
  <1>5. CASE m' = p /\ UNCHANGED <<list, asleep, crashed>>
    <2>1. TypeOK'
      BY <1>1, <1>2, <1>5, ReturnCounts DEF IInv, TypeOK, list
    <2>2. ListIsPath'
      BY <1>2, <1>5 DEF IInv, ListIsPath, Path, list
    <2>3. CallsCounted'
      BY <1>1, <1>2, <1>5, ReturnKeepsCallsCounted DEF list
    <2>4. Ended' /\ LoneConsumerFindsItem'
      BY <1>1, <1>2, <1>5 DEF IInv, Ended, LoneConsumerFindsItem, Callers, setting
    <2>5. WokenForItem'
      <3>1. \A c \in Threads : pc'[c] = "pull" => pc[c] = "pull"
        BY <1>1, <1>2, ReturnCounts
      <3> QED
        BY <3>1, <1>2, <1>5 DEF IInv, WokenForItem, Callers, setting, list
    <2> QED
      BY <2>1, <2>2, <2>3, <2>4, <2>5 DEF IInv
  <1> QED
    BY <1>4, <1>5 DEF Allocate

LEMMA UnlinkKeepsIInv ==
  ASSUME IInv, NEW c \in Consumers, ~crashed, c \notin asleep,
         pc[c] = "pull" \/ (pc[c] = "idle" /\ calls[c] > 0 /\ size > 0), Unlink(c)
  PROVE  IInv'
  <1>1. ~destroyed /\ calls[c] \in 1 .. MaxCalls /\ size \in Nat /\ c \in Threads
    BY AtWork DEF Threads
  <1>2. destroyed' = destroyed /\ UNCHANGED <<setting, m, asleep>>
    BY DEF Unlink
  <1>3. PICK q : q \in [1 .. size -> Nodes] /\ Path(q)
    BY <1>1 DEF IInv, ListIsPath
  <1>4. CASE head \in DOMAIN next
    <2>1. /\ head' = IF size = 1 THEN NULL ELSE next[head]
          /\ tail' = IF size = 1 THEN NULL ELSE tail
          /\ next' = [x \in DOMAIN next \ {head} |-> next[x]]
          /\ size' = size - 1
          /\ Return(c) /\ UNCHANGED crashed
      BY <1>4 DEF Unlink
    <2>2. PICK r : r = [k \in 1 .. size - 1 |-> q[k + 1]]
      OBVIOUS
    <2>3. Path(r)' /\ size > 0
      BY <1>1, <1>3, <1>4, <2>1, <2>2, UnlinkShortensPath
    <2>4. size' \in Nat
      BY <1>1, <2>1, <2>3
    <2>5. ListTypeOK'
      BY <2>3, <2>4, PathTypesNext
    <2>6. TypeOK'
      BY <1>1, <1>2, <2>1, <2>5, ReturnCounts DEF IInv, TypeOK, ListTypeOK
    <2>7. ListIsPath'
      BY <2>3 DEF ListIsPath, Path
    <2>8. CallsCounted'
      BY <1>1, <1>2, <2>1, ReturnKeepsCallsCounted
    <2>9. Ended' /\ LoneConsumerFindsItem'
      BY <1>1, <1>2, <2>1 DEF Ended, LoneConsumerFindsItem
    <2>10. WokenForItem'
      <3> SUFFICES ASSUME quiet, Cardinality(Callers(Consumers)) <= 1,
                          NEW d \in Threads, pc'[d] = "pull"
                   PROVE  d \in asleep
        BY <1>2 DEF WokenForItem, Callers, setting
      <3>1. d # c /\ pc[d] = "pull"
        BY <1>1, <2>1, ReturnCounts
      <3>2. d \in Consumers /\ workload[d] > 0 /\ workload[c] > 0
        <4>1. calls[d] > 0 /\ calls[d] <= workload[d] /\ calls[c] <= workload[c] /\ d \in Consumers
          BY <1>1, <3>1 DEF IInv, CallsCounted
        <4>2. calls[d] \in Nat /\ workload[d] \in Nat /\ workload[c] \in Nat
          BY <1>1, CallsAssumption DEF IInv, TypeOK, CallsCounted
        <4> QED
          BY <1>1, <4>1, <4>2
      <3> QED
        BY <3>1, <3>2, LoneCaller
    <2> QED
      BY <2>6, <2>7, <2>8, <2>9, <2>10 DEF IInv
  <1>5. CASE head \notin DOMAIN next
    <2>1. crashed' /\ UNCHANGED <<list, pc, calls>>
      BY <1>5 DEF Unlink
    <2>2. TypeOK' /\ ListIsPath' /\ CallsCounted' /\ Ended' /\ WokenForItem'
      BY <1>1, <1>2, <2>1 DEF IInv, TypeOK, ListIsPath, Path, CallsCounted, Ended,
         WokenForItem, Callers, list, setting
    <2>3. size = 0
      BY <1>1, <1>3, <1>5 DEF Path
    <2>4. ~(quiet /\ Cardinality(Callers(Consumers)) <= 1)
      BY <1>1, <2>3 DEF IInv, WokenForItem
    <2>5. LoneConsumerFindsItem'
      BY <1>2, <2>4 DEF LoneConsumerFindsItem, Callers, setting
    <2> QED
      BY <2>2, <2>5 DEF IInv
  <1> QED
    BY <1>4, <1>5

LEMMA SpuriousWakeupKeepsIInv ==
  ASSUME IInv, NEW t \in Threads, SpuriousWakeup(t)
  PROVE  IInv'
  BY DEF SpuriousWakeup, IInv, TypeOK, ListIsPath, Path, CallsCounted, Ended, Done,
     LoneConsumerFindsItem, WokenForItem, Callers, list, setting

LEMMA queue_destroyKeepsIInv ==
  ASSUME IInv, queue_destroy
  PROVE  IInv'
  <1>1. destroyed' /\ Done /\ ~destroyed
        /\ UNCHANGED <<size, head, tail, setting, m, asleep, pc, calls, crashed>>
    BY DEF queue_destroy
  <1>2. PICK q : Path(q)
    BY <1>1 DEF IInv, ListIsPath
  <1>3. size \in Nat
    BY NodesAreFinite DEF IInv, TypeOK
  <1>4. DOMAIN next' = {}
    BY <1>2, <1>3, Walk DEF queue_destroy
  <1>5. TypeOK' /\ ListIsPath' /\ Ended'
    BY <1>1, <1>4 DEF IInv, TypeOK, ListIsPath, Ended, Done
  <1>6. CallsCounted' /\ LoneConsumerFindsItem' /\ WokenForItem'
    BY <1>1, <1>4 DEF IInv, CallsCounted, LoneConsumerFindsItem, WokenForItem, Callers, setting
  <1> QED
    BY <1>5, <1>6 DEF IInv

LEMMA StepKeepsIInv == IInv /\ [Next]_vars => IInv'
  <1> SUFFICES ASSUME IInv, [Next]_vars PROVE IInv'
    OBVIOUS
  <1>1. ASSUME NEW p \in Producers, queue_push(p)
        PROVE  IInv'
    <2>1. p \in Threads
      BY DEF Threads
    <2>2. CASE PushBlocks(p)
      BY <2>1, <2>2, SleepKeepsIInv DEF PushBlocks
    <2>3. CASE PushAtOnce(p)
      BY <2>1, <2>3, AllocateKeepsIInv DEF PushAtOnce, Calling, IInv, TypeOK
    <2>4. CASE PushAfterWait(p)
      BY <2>4, AllocateKeepsIInv DEF PushAfterWait, Woken
    <2> QED
      BY <1>1, <2>2, <2>3, <2>4 DEF queue_push
  <1>2. ASSUME NEW c \in Consumers, queue_pull(c)
        PROVE  IInv'
    <2>1. c \in Threads
      BY DEF Threads
    <2>2. CASE PullBlocks(c)
      BY <2>1, <2>2, SleepKeepsIInv DEF PullBlocks
    <2>3. CASE PullAtOnce(c)
      BY <2>1, <2>3, UnlinkKeepsIInv DEF PullAtOnce, Calling, IInv, TypeOK
    <2>4. CASE PullAfterWait(c)
      BY <2>4, UnlinkKeepsIInv DEF PullAfterWait, Woken
    <2> QED
      BY <1>2, <2>2, <2>3, <2>4 DEF queue_pull
  <1>3. CASE UNCHANGED vars
    <2>1. UNCHANGED <<size, head, tail, next, maxSize, workload, quiet, malloc_fails>>
          /\ UNCHANGED <<m, asleep, pc, calls, crashed, delivered, destroyed>>
      BY <1>3 DEF vars, list, setting
    <2>2. TypeOK'
      BY <2>1 DEF IInv, TypeOK
    <2>3. ListIsPath'
      BY <2>1 DEF IInv, ListIsPath, Path
    <2>4. CallsCounted' /\ Ended'
      BY <2>1 DEF IInv, CallsCounted, Ended, Done
    <2>5. LoneConsumerFindsItem' /\ WokenForItem'
      BY <2>1 DEF IInv, LoneConsumerFindsItem, WokenForItem, Callers
    <2> QED
      BY <2>2, <2>3, <2>4, <2>5 DEF IInv
  <1> QED
    BY <1>1, <1>2, <1>3, SpuriousWakeupKeepsIInv, queue_destroyKeepsIInv DEF Next

(* The inductive invariant. *)
THEOREM Invariance == Spec => []IInv
  BY InitIInv, StepKeepsIInv, PTL DEF Spec

(* head, tail, size and the nodes agree about what is on the list, and nothing *)
(* that was allocated is still there when the queue has been destroyed.        *)
THEOREM NothingIsLeaked == Spec => []NothingLeaks
  <1>1. IInv => NothingLeaks
    BY DEF IInv, Ended, NothingLeaks
  <1> QED
    BY <1>1, Invariance, PTL

(* queue_pull never uses a head that is not there, as long as one consumer *)
(* makes calls and no wakeup is spurious.                                  *)
THEOREM LoneConsumerIsServed == Spec => []LoneConsumerFindsItem
  BY Invariance, PTL DEF IInv

-----------------------------------------------------------------------------
(* The refinement *)

LEMMA WalkNext ==
  ASSUME NEW q
  PROVE  (Path(q) /\ size \in Nat => Contents = q /\ Linked = DOMAIN next)'
  BY Walk, PTL

LEMMA AppendPointwise ==
  ASSUME NEW S, NEW k \in Nat, NEW q \in [1 .. k -> S], NEW x \in S
  PROVE  Append(q, x) = [j \in 1 .. k + 1 |-> IF j <= k THEN q[j] ELSE x]
  <1> DEFINE r == [j \in 1 .. k + 1 |-> IF j <= k THEN q[j] ELSE x]
  <1>1. q \in Seq(S) /\ Len(q) = k
    OBVIOUS
  <1>2. r \in Seq(S) /\ Len(r) = k + 1
    <2>1. r \in [1 .. k + 1 -> S]
      OBVIOUS
    <2> QED
      BY <2>1
  <1>3. Append(q, x) \in Seq(S) /\ Len(Append(q, x)) = k + 1
    BY <1>1
  <1>4. \A j \in 1 .. k + 1 : Append(q, x)[j] = r[j]
    BY <1>1
  <1> QED
    BY <1>2, <1>3, <1>4, SeqEqual

LEMMA TailPointwise ==
  ASSUME NEW S, NEW k \in Nat \ {0}, NEW q \in [1 .. k -> S],
         NEW r, r = [j \in 1 .. k - 1 |-> q[j + 1]]
  PROVE  Tail(q) = r
  <1>1. q \in Seq(S) /\ Len(q) = k /\ q # << >>
    OBVIOUS
  <1>2. r \in Seq(S) /\ Len(r) = k - 1
    <2>1. r \in [1 .. k - 1 -> S]
      OBVIOUS
    <2> QED
      BY <2>1
  <1>3. Tail(q) \in Seq(S) /\ Len(Tail(q)) = k - 1
    BY <1>1
  <1>4. \A j \in 1 .. k - 1 : Tail(q)[j] = r[j]
    BY <1>1
  <1> QED
    BY <1>2, <1>3, <1>4, SeqEqual

LEMMA LinkAppends ==
  ASSUME IInv, ~destroyed, UNCHANGED destroyed, NEW n \in Nodes \ DOMAIN next, LinkNode(n)
  PROVE  Contents' = Append(Contents, n)
  <1>1. PICK q : q \in [1 .. size -> Nodes] /\ Path(q)
    BY DEF IInv, ListIsPath
  <1>2. size \in Nat
    BY NodesAreFinite DEF IInv, TypeOK
  <1>3. PICK r : r = [k \in 1 .. size + 1 |-> IF k <= size THEN q[k] ELSE n]
    OBVIOUS
  <1>4. Path(r)' /\ size' \in Nat
    BY <1>1, <1>2, <1>3, LinkExtendsPath
  <1>5. Contents' = r /\ Contents = q
    BY <1>1, <1>2, <1>4, Walk, WalkNext
  <1>6. Append(q, n) = r
    <2>1. n \in Nodes /\ q \in [1 .. size -> Nodes]
      BY <1>1
    <2> QED
      BY ONLY <2>1, <1>2, <1>3, AppendPointwise
  <1> QED
    BY <1>5, <1>6

LEMMA UnlinkTakesHead ==
  ASSUME IInv, ~destroyed, NEW c \in Consumers, Unlink(c), head \in DOMAIN next
  PROVE  Contents # << >> /\ head = Head(Contents) /\ Contents' = Tail(Contents)
  <1>1. PICK q : q \in [1 .. size -> Nodes] /\ Path(q)
    BY DEF IInv, ListIsPath
  <1>2. size \in Nat
    BY NodesAreFinite DEF IInv, TypeOK
  <1>3. PICK r : r = [k \in 1 .. size - 1 |-> q[k + 1]]
    OBVIOUS
  <1>4. Path(r)' /\ size > 0 /\ head = q[1]
    BY <1>1, <1>2, <1>3, UnlinkShortensPath DEF Unlink
  <1>5. size' \in Nat
    BY <1>2, <1>4 DEF Unlink
  <1>6. Contents' = r /\ Contents = q
    BY <1>1, <1>2, <1>4, <1>5, Walk, WalkNext
  <1>7. q \in Seq(Nodes) /\ Len(q) = size
    BY <1>1, <1>2
  <1>8. q # << >> /\ Head(q) = q[1]
    BY <1>2, <1>4, <1>7
  <1>9. Tail(q) = r
    <2>1. size \in Nat \ {0} /\ q \in [1 .. size -> Nodes]
      BY <1>1, <1>2, <1>4
    <2> QED
      BY ONLY <2>1, <1>3, TailPointwise
  <1> QED
    BY <1>4, <1>6, <1>8, <1>9

(* A step that leaves the list and what was delivered alone. *)
LEMMA ContentsKept ==
  ASSUME UNCHANGED <<list, delivered, destroyed>>
  PROVE  UNCHANGED Fifo!vars
  BY DEF list, Fifo!vars, Contents, NodeAt

LEMMA StepRefines == IInv /\ [Next]_vars => [Fifo!Next]_(Fifo!vars)
  <1> SUFFICES ASSUME IInv, [Next]_vars PROVE [Fifo!Next]_(Fifo!vars)
    OBVIOUS
  <1>1. ASSUME NEW p \in Producers, pc[p] # "idle" \/ calls[p] > 0, Allocate(p)
        PROVE  [Fifo!Next]_(Fifo!vars)
    <2>1. ~destroyed /\ calls[p] \in 1 .. MaxCalls
      BY <1>1, AtWork DEF Threads
    <2>2. CASE LinkNode(<<p, calls[p]>>) /\ UNCHANGED <<delivered, destroyed>>
      <3>1. <<p, calls[p]>> \in Nodes \ DOMAIN next
        BY <2>1 DEF Nodes, IInv, CallsCounted
      <3>2. Contents' = Append(Contents, <<p, calls[p]>>)
        BY <2>1, <2>2, <3>1, LinkAppends
      <3>3. Fifo!Put(<<p, calls[p]>>)
        BY <2>1, <2>2, <3>2 DEF Fifo!Put
      <3> QED
        BY <3>1, <3>3 DEF Fifo!Next
    <2>3. CASE UNCHANGED <<list, delivered, destroyed>>
      BY <2>3, ContentsKept
    <2> QED
      BY <1>1, <2>2, <2>3 DEF Allocate
  <1>2. ASSUME NEW c \in Consumers, pc[c] # "idle" \/ calls[c] > 0, Unlink(c)
        PROVE  [Fifo!Next]_(Fifo!vars)
    <2>1. ~destroyed
      BY <1>2, AtWork DEF Threads
    <2>2. CASE head \in DOMAIN next
      <3>1. delivered' = Append(delivered, head) /\ ~destroyed'
        BY <1>2, <2>1, <2>2 DEF Unlink
      <3>2. Fifo!Get
        BY <1>2, <2>1, <2>2, <3>1, UnlinkTakesHead DEF Fifo!Get
      <3> QED
        BY <3>2 DEF Fifo!Next
    <2>3. CASE head \notin DOMAIN next
      BY <1>2, <2>3, ContentsKept DEF Unlink
    <2> QED
      BY <2>2, <2>3
  <1>3. ASSUME NEW t \in Threads, NEW where, Sleep(t, where)
        PROVE  [Fifo!Next]_(Fifo!vars)
    BY <1>3, ContentsKept DEF Sleep
  <1>4. ASSUME NEW p \in Producers, queue_push(p)
        PROVE  [Fifo!Next]_(Fifo!vars)
    BY <1>1, <1>3, <1>4 DEF queue_push, PushBlocks, PushAtOnce, PushAfterWait,
       Calling, Woken, Threads
  <1>5. ASSUME NEW c \in Consumers, queue_pull(c)
        PROVE  [Fifo!Next]_(Fifo!vars)
    BY <1>2, <1>3, <1>5 DEF queue_pull, PullBlocks, PullAtOnce, PullAfterWait,
       Calling, Woken, Threads
  <1>6. CASE queue_destroy
    BY <1>6 DEF queue_destroy, Fifo!Next, Fifo!Discard
  <1>7. ASSUME NEW t \in Threads, SpuriousWakeup(t)
        PROVE  [Fifo!Next]_(Fifo!vars)
    BY <1>7, ContentsKept DEF SpuriousWakeup
  <1>8. CASE UNCHANGED vars
    BY <1>8, ContentsKept DEF vars
  <1> QED
    BY <1>4, <1>5, <1>6, <1>7, <1>8 DEF Next

(* queue.c is a FIFO queue, whatever its callers do, until it crashes. *)
THEOREM Refinement == Spec => ImplementsFifo
  <1>1. Init => Fifo!Init
    <2> SUFFICES ASSUME Init PROVE Fifo!Init
      OBVIOUS
    <2>1. size = 0 /\ ~destroyed /\ delivered = << >>
      BY DEF Init, queue_create
    <2>2. Contents = << >>
      BY <2>1 DEF Contents
    <2> QED
      BY <2>1, <2>2 DEF Fifo!Init
  <1> QED
    BY <1>1, StepRefines, Invariance, PTL DEF Spec, ImplementsFifo, Fifo!Spec

-----------------------------------------------------------------------------
(* The other half of the lab: a semamore with one waiter and one poster     *)
(* keeps its value within the bounds given to semm_init, whatever they are. *)

CONSTANTS Waiters, Posters, value0, max_val
VARIABLES value, sleeping, inside

Semm == INSTANCE Semamore WITH asleep <- sleeping

\* The instance brings operators of FiniteSets of its own, which are the same.
LEMMA SemmSets ==
  ASSUME NEW S
  PROVE  (Semm!IsFiniteSet(S) <=> IsFiniteSet(S)) /\ Semm!Cardinality(S) = Cardinality(S)
  <1>1. Semm!IsFiniteSet(S) <=> IsFiniteSet(S)
    BY DEF Semm!IsFiniteSet, IsFiniteSet
  <1>2. Semm!Cardinality(S) = Cardinality(S)
    BY DEF Semm!Cardinality, Cardinality
  <1> QED
    BY <1>1, <1>2

\* Nobody else calls from the side of t.
LEMMA OnlyCallerOfItsSide ==
  ASSUME Semm!Parameters, Semm!OnePair, NEW t, NEW u,
         {t, u} \subseteq Waiters \/ {t, u} \subseteq Posters
  PROVE  t = u
  <1>1. ASSUME NEW S, S \subseteq Semm!Threads, Cardinality(S) <= 1, t \in S, u \in S
        PROVE  t = u
    <2>1. IsFiniteSet(S) /\ Cardinality(S) \in Nat
      BY <1>1, SemmSets, FS_Subset, FS_CardinalityType DEF Semm!Parameters
    <2>2. Cardinality(S) = 0 \/ Cardinality(S) = 1
      BY <1>1, <2>1
    <2> QED
      BY <1>1, <2>1, <2>2, FS_EmptySet, FS_Singleton
  <1> QED
    BY <1>1, SemmSets DEF Semm!OnePair, Semm!Threads

\* semm_init establishes the invariant, ...
LEMMA SemmInit ==
  ASSUME Semm!Parameters
  PROVE  Semm!Init => Semm!IInv
  BY DEF Semm!Parameters, Semm!Init, Semm!semm_init, Semm!IInv, Semm!TypeOK, Semm!InBounds, Semm!CallersJustified

(* ... a wait or a post that goes to sleep does so at its bound, ... *)
LEMMA SleepKeepsSemm ==
  ASSUME Semm!Parameters, Semm!IInv, NEW t \in Semm!Threads, Semm!Sleep(t),
         t \in Waiters => value <= 0,
         t \in Posters => value >= max_val
  PROVE  Semm!IInv'
  <1> USE DEF Semm!Sleep, Semm!IInv
  <1>1. Semm!TypeOK'
    BY DEF Semm!TypeOK
  <1>2. ASSUME Semm!OnePair PROVE Semm!InBounds' /\ Semm!CallersJustified'
    BY <1>2 DEF Semm!Parameters, Semm!TypeOK, Semm!InBounds, Semm!CallersJustified
  <1> QED
    BY <1>1, <1>2 DEF Semm!OnePair

\* ... a wait that returns keeps it, ...
LEMMA WaitKeepsSemm ==
  ASSUME Semm!Parameters, Semm!IInv, NEW t \in Waiters, Semm!WaitReturns(t)
  PROVE  Semm!IInv'
  <1> USE DEF Semm!WaitReturns, Semm!Finish, Semm!IInv
  <1>1. Semm!TypeOK'
    BY DEF Semm!TypeOK
  <1>2. ASSUME Semm!OnePair PROVE Semm!InBounds' /\ Semm!CallersJustified'
    <2>1. value > 0
      BY <1>2 DEF Semm!CallersJustified
    <2>2. value' = value - 1 /\ value \in 0 .. max_val
      BY <1>2 DEF Semm!InBounds
    <2>3. \A u \in inside' : u \notin Waiters
      BY <1>2, OnlyCallerOfItsSide
    <2> QED
      BY <1>2, <2>1, <2>2, <2>3 DEF Semm!Parameters, Semm!InBounds, Semm!CallersJustified
  <1> QED
    BY <1>1, <1>2 DEF Semm!OnePair

\* ... and so does a post.
LEMMA PostKeepsSemm ==
  ASSUME Semm!Parameters, Semm!IInv, NEW t \in Posters, Semm!PostReturns(t)
  PROVE  Semm!IInv'
  <1> USE DEF Semm!PostReturns, Semm!Finish, Semm!IInv
  <1>1. Semm!TypeOK'
    BY DEF Semm!TypeOK
  <1>2. ASSUME Semm!OnePair PROVE Semm!InBounds' /\ Semm!CallersJustified'
    <2>1. value < max_val
      BY <1>2 DEF Semm!CallersJustified
    <2>2. value' = value + 1 /\ value \in 0 .. max_val
      BY <1>2 DEF Semm!InBounds
    <2>3. \A u \in inside' : u \notin Posters
      BY <1>2, OnlyCallerOfItsSide
    <2> QED
      BY <1>2, <2>1, <2>2, <2>3 DEF Semm!Parameters, Semm!InBounds, Semm!CallersJustified
  <1> QED
    BY <1>1, <1>2 DEF Semm!OnePair

(* IInv is an invariant of a semamore without spurious wakeups. *)
THEOREM SemmInvariance ==
  ASSUME Semm!Parameters
  PROVE  Semm!Spec => []Semm!IInv
  <1>1. Semm!IInv /\ [Semm!Next]_(Semm!vars) => Semm!IInv'
    <2> SUFFICES ASSUME Semm!IInv, [Semm!Next]_(Semm!vars) PROVE Semm!IInv'
      OBVIOUS
    <2>1. ASSUME NEW t \in Waiters, Semm!semm_wait(t) PROVE Semm!IInv'
      <3>1. CASE Semm!WaitBlocks(t)
        BY <2>1, <3>1, SleepKeepsSemm DEF Semm!Parameters, Semm!WaitBlocks, Semm!Threads
      <3> QED
        BY <2>1, <3>1, WaitKeepsSemm DEF Semm!semm_wait
    <2>2. ASSUME NEW t \in Posters, Semm!semm_post(t) PROVE Semm!IInv'
      <3>1. CASE Semm!PostBlocks(t)
        BY <2>2, <3>1, SleepKeepsSemm DEF Semm!Parameters, Semm!PostBlocks, Semm!Threads
      <3> QED
        BY <2>2, <3>1, PostKeepsSemm DEF Semm!semm_post
    <2>3. CASE UNCHANGED Semm!vars
      BY <2>3 DEF Semm!vars, Semm!IInv, Semm!TypeOK, Semm!OnePair, Semm!InBounds, Semm!CallersJustified
    <2> QED
      BY <2>1, <2>2, <2>3 DEF Semm!Next
  <1> QED
    BY <1>1, SemmInit, PTL DEF Semm!Spec

(* The comments of semm_wait and semm_post are true of one waiter and one   *)
(* poster: a wait never takes the value below 0, a post never above max_val. *)
THEOREM PairStaysInBounds ==
  ASSUME Semm!Parameters
  PROVE  Semm!Spec => []Semm!OnePairInBounds
  <1>1. Semm!IInv => Semm!OnePairInBounds
    BY DEF Semm!IInv, Semm!OnePairInBounds
  <1> QED
    BY <1>1, SemmInvariance, PTL
=============================================================================
