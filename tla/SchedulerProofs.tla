---------------------------- MODULE SchedulerProofs ----------------------------
(***************************************************************************)
(* Where the jobs are.  The simulator's list of jobs and the scheduler's   *)
(* cores and queue are two records of the same thing, which the scheduler  *)
(* changes first and the simulator makes up for from the answer.  Agree    *)
(* says that they match; every pair of calls is shown to carry it from one *)
(* match to the next, for any list, any cores and any queue, and then the  *)
(* actions of SchedulerSim are seen to be such pairs.  Nothing of that     *)
(* depends on what comparer says: a queue in any order would do.           *)
(*                                                                         *)
(* Which of the jobs.  Serving says that what each job_t holds is right,   *)
(* and the queue in the order of the ranks that the README gives the jobs; *)
(* it is carried through the same calls, under each of the schemes, and    *)
(* the order of the queue, the choice of the jobs that run and the         *)
(* statistics of those that finish follow from it.                         *)
(*                                                                         *)
(* How long.  Under RR a waiting job finds all the cores busy and no job   *)
(* running for more than its quantum, so the jobs that run at times a      *)
(* quantum apart are always others; there are not enough of them for it to *)
(* wait longer than the bound says.                                        *)
(***************************************************************************)
EXTENDS SchedulerSim, FiniteSetTheorems, SequenceTheorems, WellFoundedInduction, TLAPS

-----------------------------------------------------------------------------
(* Sets of numbers and sequences                                            *)

\* The least number of a set is one of it.
LEMMA LeastOf ==
  ASSUME NEW S, S # {}, S \subseteq Nat
  PROVE  Min(S) \in S /\ \A y \in S : Min(S) <= y
  <1>1. PICK x \in S : \A y \in S : <<y, x>> \notin OpToRel(<, Nat)
    BY NatLessThanWellFounded, WFMin
  <1>2. ASSUME NEW y \in S PROVE x <= y
    <2>1. x \in Nat /\ y \in Nat
      OBVIOUS
    <2>2. ~ y < x
      BY <1>1, <2>1 DEF OpToRel
    <2> QED
      BY <2>1, <2>2
  <1> QED
    BY <1>2 DEF Min

\* An element goes between the first k and the others.
LEMMA InsertIs ==
  ASSUME NEW S, NEW q \in Seq(S), NEW e \in S, NEW k \in 0 .. Len(q)
  PROVE  /\ InsertAt(q, k + 1, e) \in Seq(S) /\ Len(InsertAt(q, k + 1, e)) = Len(q) + 1
         /\ \A j \in 1 .. Len(q) + 1 :
              InsertAt(q, k + 1, e)[j] = IF j <= k THEN q[j] ELSE IF j = k + 1 THEN e ELSE q[j - 1]
  <1> DEFINE a == SubSeq(q, 1, k)
             b == SubSeq(q, k + 1, Len(q))
             h == <<e>>
  <1>1. Len(q) \in Nat /\ k \in Nat /\ \A j \in 1 .. Len(q) : q[j] \in S
    OBVIOUS
  <1>2. a \in Seq(S) /\ Len(a) = k /\ \A j \in 1 .. k : a[j] = q[j]
    <2>1. 1 \in Int /\ k \in Int /\ \A j \in 1 .. k : q[j] \in S
      BY <1>1
    <2>2. /\ a \in Seq(S) /\ Len(a) = IF 1 <= k THEN k - 1 + 1 ELSE 0
          /\ \A j \in 1 .. k - 1 + 1 : a[j] = q[1 + j - 1]
      BY <2>1, SubSeqProperties
    <2> QED
      BY <1>1, <2>2
  <1>3. b \in Seq(S) /\ Len(b) = Len(q) - k /\ \A j \in 1 .. Len(q) - k : b[j] = q[k + j]
    <2>1. k + 1 \in Int /\ Len(q) \in Int /\ \A j \in k + 1 .. Len(q) : q[j] \in S
      BY <1>1
    <2>2. /\ b \in Seq(S) /\ Len(b) = IF k + 1 <= Len(q) THEN Len(q) - (k + 1) + 1 ELSE 0
          /\ \A j \in 1 .. Len(q) - (k + 1) + 1 : b[j] = q[(k + 1) + j - 1]
      BY <2>1, SubSeqProperties
    <2> QED
      BY <1>1, <2>2
  <1>4. h \in Seq(S) /\ Len(h) = 1 /\ h[1] = e
    OBVIOUS
  <1>5. InsertAt(q, k + 1, e) = (a \o h) \o b
    <2>1. (k + 1) - 1 = k
      BY <1>1
    <2> QED
      BY <2>1 DEF InsertAt
  <1> HIDE DEF a, b, h
  <1>6. /\ a \o h \in Seq(S) /\ Len(a \o h) = k + 1
        /\ \A j \in 1 .. k + 1 : (a \o h)[j] = IF j <= k THEN q[j] ELSE e
    <2>1. /\ a \o h \in Seq(S) /\ Len(a \o h) = Len(a) + Len(h)
          /\ \A j \in 1 .. Len(a) + Len(h) : (a \o h)[j] = IF j <= Len(a) THEN a[j] ELSE h[j - Len(a)]
      BY <1>2, <1>4, ConcatProperties
    <2>2. ASSUME NEW j \in 1 .. k + 1 PROVE (a \o h)[j] = IF j <= k THEN q[j] ELSE e
      <3>1. j <= k => (a \o h)[j] = a[j] /\ j \in 1 .. k
        BY <1>1, <1>2, <1>4, <2>1
      <3>2. ~ j <= k => (a \o h)[j] = h[j - k] /\ j - k = 1
        BY <1>1, <1>2, <1>4, <2>1
      <3> QED
        BY <1>2, <1>4, <3>1, <3>2
    <2> QED
      BY <1>2, <1>4, <2>1, <2>2
  <1> DEFINE c == a \o h
             r == c \o b
  <1> HIDE DEF c
  <1>7. /\ r \in Seq(S) /\ Len(r) = Len(c) + Len(b)
        /\ \A j \in 1 .. Len(c) + Len(b) : r[j] = IF j <= Len(c) THEN c[j] ELSE b[j - Len(c)]
    <2>1. c \in Seq(S)
      BY <1>6 DEF c
    <2> QED
      BY <1>3, <2>1, ConcatProperties
  <1> HIDE DEF r
  <1>8. Len(c) = k + 1 /\ \A j \in 1 .. k + 1 : c[j] = IF j <= k THEN q[j] ELSE e
    BY <1>6 DEF c
  <1>9. ASSUME NEW j \in 1 .. Len(q) + 1
        PROVE  r[j] = IF j <= k THEN q[j] ELSE IF j = k + 1 THEN e ELSE q[j - 1]
    <2>1. j <= k + 1 => r[j] = c[j] /\ j \in 1 .. k + 1
      <3>1. j \in 1 .. Len(c) + Len(b)
        BY <1>1, <1>3, <1>8
      <3> QED
        BY <1>1, <1>7, <1>8, <3>1
    <2>2. ~ j <= k + 1 => r[j] = b[j - (k + 1)] /\ j - (k + 1) \in 1 .. Len(q) - k /\ k + (j - (k + 1)) = j - 1
      BY <1>1, <1>3, <1>7, <1>8
    <2>3. ~ j <= k + 1 => r[j] = q[j - 1]
      BY <1>3, <2>2
    <2> QED
      BY <1>1, <1>8, <2>1, <2>3
  <1>10. r = InsertAt(q, k + 1, e)
    BY <1>5 DEF r, c
  <1>11. r \in Seq(S) /\ Len(r) = Len(q) + 1
    BY <1>1, <1>3, <1>7, <1>8
  <1> QED
    BY <1>9, <1>10, <1>11

\* e stands between the first k of q and the others.
Inserted(q, r, k, e) ==
    /\ Len(r) = Len(q) + 1
    /\ \A j \in 1 .. Len(q) + 1 : r[j] = IF j <= k THEN q[j] ELSE IF j = k + 1 THEN e ELSE q[j - 1]

\* What the queue then holds.
LEMMA InsertHolds ==
  ASSUME NEW S, NEW q \in Seq(S), NEW e \in S, NEW k \in 0 .. Len(q),
         NEW r \in Seq(S), Inserted(q, r, k, e)
  PROVE  /\ Range(r) = Range(q) \cup {e}
         /\ IsInjective(q) /\ e \notin Range(q) => IsInjective(r)
  <1> DEFINE n == Len(q)
  <1>0. /\ r \in Seq(S) /\ Len(r) = n + 1
        /\ \A j \in 1 .. n + 1 : r[j] = IF j <= k THEN q[j] ELSE IF j = k + 1 THEN e ELSE q[j - 1]
    BY DEF Inserted
  <1>01. n \in Nat /\ k \in 0 .. n /\ DOMAIN q = 1 .. n
    OBVIOUS
  <1> HIDE DEF n
  <1>1. /\ r \in Seq(S) /\ Len(r) = n + 1 /\ n \in Nat /\ k \in 0 .. n
        /\ \A j \in 1 .. n + 1 : r[j] = IF j <= k THEN q[j] ELSE IF j = k + 1 THEN e ELSE q[j - 1]
    BY <1>0, <1>01
  <1>2. DOMAIN r = 1 .. n + 1 /\ DOMAIN q = 1 .. n
    BY <1>01, <1>1
  <1>3. ASSUME NEW j \in 1 .. n PROVE \E i \in 1 .. n + 1 : r[i] = q[j]
    <2>1. CASE j <= k
      <3>1. j \in 1 .. n + 1 /\ r[j] = q[j]
        BY <1>1, <2>1
      <3> QED
        BY <3>1
    <2>2. CASE ~ j <= k
      <3>1. j + 1 \in 1 .. n + 1 /\ r[j + 1] = q[(j + 1) - 1] /\ (j + 1) - 1 = j
        BY <1>1, <2>2
      <3> QED
        BY <3>1
    <2> QED
      BY <2>1, <2>2
  <1>4. ASSUME NEW j \in 1 .. n + 1 PROVE r[j] = e \/ \E i \in 1 .. n : r[j] = q[i]
    <2>1. CASE j <= k
      <3>1. j \in 1 .. n /\ r[j] = q[j]
        BY <1>1, <2>1
      <3> QED
        BY <3>1
    <2>2. CASE j = k + 1
      <3>1. r[j] = e
        BY <1>1, <2>2
      <3> QED
        BY <3>1
    <2>3. CASE ~ j <= k /\ j # k + 1
      <3>1. j - 1 \in 1 .. n /\ r[j] = q[j - 1]
        BY <1>1, <2>3
      <3> QED
        BY <3>1
    <2> QED
      BY <2>1, <2>2, <2>3
  <1>5. k + 1 \in 1 .. n + 1 /\ r[k + 1] = e
    BY <1>1
  <1>6. Range(r) = Range(q) \cup {e}
    <2>1. ASSUME NEW y \in Range(r) PROVE y \in Range(q) \cup {e}
      <3>1. PICK j \in 1 .. n + 1 : y = r[j]
        BY <1>2 DEF Range
      <3> QED
        BY <1>2, <1>4, <3>1 DEF Range
    <2>2. ASSUME NEW y \in Range(q) PROVE y \in Range(r)
      <3>1. PICK j \in 1 .. n : y = q[j]
        BY <1>2 DEF Range
      <3>2. PICK i \in 1 .. n + 1 : r[i] = q[j]
        BY <1>3
      <3> QED
        BY <1>2, <3>1, <3>2 DEF Range
    <2>3. e \in Range(r)
      BY <1>2, <1>5 DEF Range
    <2> QED
      BY <2>1, <2>2, <2>3
  <1>7. ASSUME IsInjective(q), e \notin Range(q), NEW i \in 1 .. n + 1, NEW j \in 1 .. n + 1, r[i] = r[j]
        PROVE  i = j
    <2>1. \A x, y \in 1 .. n : q[x] = q[y] => x = y
      BY <1>2, <1>7 DEF IsInjective
    <2>2. \A x \in 1 .. n : q[x] # e
      BY <1>2, <1>7 DEF Range
    <2> DEFINE old(x) == IF x <= k THEN x ELSE x - 1
    <2>3. \A x \in 1 .. n + 1 : x # k + 1 => old(x) \in 1 .. n /\ r[x] = q[old(x)]
      BY <1>1
    <2>4. \A x, y \in 1 .. n + 1 : x # k + 1 /\ y # k + 1 /\ old(x) = old(y) => x = y
      BY <1>1
    <2> HIDE DEF old
    <2> QED
      BY <1>5, <1>7, <2>1, <2>2, <2>3, <2>4
  <1> QED
    BY <1>2, <1>6, <1>7 DEF IsInjective

\* What is left behind the head.
LEMMA RestIs ==
  ASSUME NEW S, NEW q \in Seq(S), q # << >>
  PROVE  /\ Head(q) \in S /\ Head(q) = q[1] /\ 1 \in 1 .. Len(q) /\ Head(q) \in Range(q)
         /\ Tail(q) \in Seq(S) /\ Len(Tail(q)) = Len(q) - 1
         /\ \A j \in 1 .. Len(Tail(q)) : Tail(q)[j] = q[j + 1]
         /\ IsInjective(q) => IsInjective(Tail(q)) /\ Range(Tail(q)) = Range(q) \ {Head(q)}
  <1> DEFINE t == Tail(q)
  <1>1. /\ Head(q) \in S /\ t \in Seq(S) /\ Len(t) = Len(q) - 1
        /\ \A j \in 1 .. Len(t) : t[j] = q[j + 1]
    BY HeadTailProperties
  <1>2. Len(q) \in Nat \ {0} /\ Head(q) = q[1] /\ DOMAIN q = 1 .. Len(q) /\ 1 \in 1 .. Len(q)
    OBVIOUS
  <1>3. DOMAIN t = 1 .. Len(t)
    BY <1>1
  <1> HIDE DEF t
  <1>4. ASSUME IsInjective(q) PROVE IsInjective(t) /\ Range(t) = Range(q) \ {Head(q)}
    <2>1. \A x, y \in 1 .. Len(q) : q[x] = q[y] => x = y
      BY <1>2, <1>4 DEF IsInjective
    <2>2. \A j \in 1 .. Len(t) : j + 1 \in 1 .. Len(q) /\ j + 1 # 1
      BY <1>1, <1>2
    <2>3. IsInjective(t)
      <3>1. \A x, y \in 1 .. Len(t) : x + 1 = y + 1 => x = y
        BY <1>1, <1>2
      <3> QED
        BY <1>1, <1>3, <2>1, <2>2, <3>1 DEF IsInjective
    <2>4. \A j \in 1 .. Len(q) : j # 1 => j - 1 \in 1 .. Len(t) /\ (j - 1) + 1 = j
      BY <1>1, <1>2
    <2>5. \A j \in 1 .. Len(q) : j # 1 => \E i \in 1 .. Len(t) : t[i] = q[j]
      BY <1>1, <2>4
    <2>6. Range(t) = Range(q) \ {Head(q)}
      <3>1. ASSUME NEW y \in Range(t) PROVE y \in Range(q) /\ y # Head(q)
        <4>1. PICK j \in 1 .. Len(t) : y = t[j]
          BY <1>3 DEF Range
        <4>2. y = q[j + 1] /\ j + 1 \in 1 .. Len(q) /\ j + 1 # 1
          BY <1>1, <2>2, <4>1
        <4> QED
          BY <1>2, <2>1, <4>2 DEF Range
      <3>2. ASSUME NEW y \in Range(q), y # Head(q) PROVE y \in Range(t)
        <4>1. PICK j \in 1 .. Len(q) : y = q[j]
          BY <1>2 DEF Range
        <4>2. j # 1
          BY <1>2, <3>2, <4>1
        <4>3. PICK i \in 1 .. Len(t) : t[i] = q[j]
          BY <2>5, <4>2
        <4> QED
          BY <1>3, <4>1, <4>3 DEF Range
      <3> QED
        BY <3>1, <3>2
    <2> QED
      BY <2>3, <2>6
  <1> QED
    BY <1>1, <1>2, <1>4 DEF t, Range

\* ... and what it holds with an element at its end.
LEMMA AppendHolds ==
  ASSUME NEW S, NEW q \in Seq(S), NEW e \in S
  PROVE  /\ Append(q, e) \in Seq(S) /\ Len(Append(q, e)) = Len(q) + 1
         /\ Range(Append(q, e)) = Range(q) \cup {e}
         /\ IsInjective(q) /\ e \notin Range(q) => IsInjective(Append(q, e))
  <1> DEFINE r == Append(q, e)
             n == Len(q)
  <1>1. /\ r \in Seq(S) /\ Len(r) = n + 1 /\ n \in Nat /\ DOMAIN q = 1 .. n /\ DOMAIN r = 1 .. n + 1
        /\ r[n + 1] = e /\ \A j \in 1 .. n : r[j] = q[j]
    BY AppendProperties
  <1> HIDE DEF r, n
  <1>2. \A j \in 1 .. n + 1 : j = n + 1 \/ j \in 1 .. n
    BY <1>1
  <1>3. n + 1 \in 1 .. n + 1 /\ n + 1 \notin 1 .. n /\ 1 .. n \subseteq 1 .. n + 1
    BY <1>1
  <1> QED
    BY <1>1, <1>2, <1>3 DEF Range, IsInjective, r, n

-----------------------------------------------------------------------------
(* Two records of the same thing                                            *)

\* The entries of main's list and the scheduler's cores, queue and finished
\* jobs agree on where each of the jobs I is.
Agree(I, C, list, cores, Q, D) ==
    /\ DOMAIN cores = C /\ Len(list) \in Nat
    /\ \A i \in 1 .. Len(list) : list[i].job_id \in Int
    /\ \A i, k \in 1 .. Len(list) : list[i].job_id = list[k].job_id => i = k
    /\ \A i \in 1 .. Len(list), c \in C : list[i].core_id = c <=> cores[c] = list[i].job_id
    /\ \A i \in 1 .. Len(list) : list[i].arrived <=>
          list[i].job_id \in Q \/ \E c \in C : cores[c] = list[i].job_id
    /\ \A c \in C : cores[c] \notin Q
    /\ \A n \in Q : \E i \in 1 .. Len(list) : list[i].job_id = n
    /\ \A c \in C : cores[c] # NULL => \E i \in 1 .. Len(list) : list[i].job_id = cores[c]
    /\ \A n \in I : n \in D <=> \A i \in 1 .. Len(list) : list[i].job_id # n

\* The last entry takes the place of entry i.
Removed(list, less, i) ==
    /\ Len(less) = Len(list) - 1
    /\ \A j \in 1 .. Len(list) - 1 : less[j] = IF j = i THEN list[Len(list)] ELSE list[j]

\* An entry keeps its job and its core.
Unmoved(list, new) ==
    /\ Len(new) = Len(list)
    /\ \A j \in 1 .. Len(list) :
         /\ new[j].job_id = list[j].job_id /\ (new[j].arrived <=> list[j].arrived)
         /\ new[j].core_id = list[j].core_id

\* Entry i gets core c, or leaves it for -1.
Moved(list, new, i, c) ==
    /\ Len(new) = Len(list)
    /\ \A j \in 1 .. Len(list) :
         /\ new[j].job_id = list[j].job_id /\ (new[j].arrived <=> list[j].arrived)
         /\ new[j].core_id = IF j = i THEN c ELSE list[j].core_id
         /\ new[j].arrival_time = list[j].arrival_time /\ new[j].priority = list[j].priority
         /\ new[j].run_time = list[j].run_time

\* The job of entry i arrives.
Admitted(list, new, i) ==
    /\ Len(new) = Len(list)
    /\ \A j \in 1 .. Len(list) :
         /\ new[j].job_id = list[j].job_id /\ new[j].core_id = list[j].core_id
         /\ (new[j].arrived <=> list[j].arrived \/ j = i)
         /\ new[j].arrival_time = list[j].arrival_time /\ new[j].priority = list[j].priority
         /\ new[j].run_time = list[j].run_time

\* The jobs that have arrived and are not finished.
Alive(list) == {list[i].job_id : i \in {k \in 1 .. Len(list) : list[k].arrived}}

\* The same jobs are alive when the entries keep their jobs, ...
LEMMA AliveSame ==
  ASSUME NEW list, NEW new, Len(new) = Len(list),
         \A j \in 1 .. Len(list) :
            new[j].job_id = list[j].job_id /\ (new[j].arrived <=> list[j].arrived)
  PROVE  Alive(new) = Alive(list)
  <1> DEFINE m == Len(list)
             A == {k \in 1 .. m : list[k].arrived}
  <1>1. {k \in 1 .. m : new[k].arrived} = A
    OBVIOUS
  <1>2. \A k \in A : new[k].job_id = list[k].job_id
    OBVIOUS
  <1>3. Alive(list) = {list[k].job_id : k \in A} /\ Alive(new) = {new[k].job_id : k \in A}
    BY <1>1 DEF Alive
  <1> HIDE DEF A
  <1> QED
    BY <1>2, <1>3

\* ... as they do when one changes its core.
LEMMA AliveMoved ==
  ASSUME NEW list, NEW new, NEW i, NEW c, Moved(list, new, i, c)
  PROVE  Alive(new) = Alive(list)
  BY AliveSame DEF Moved

\* An arrival adds its job to those alive, ...
LEMMA AliveArrived ==
  ASSUME NEW list, NEW new, NEW i \in 1 .. Len(list), Len(new) = Len(list),
         \A j \in 1 .. Len(list) :
            new[j].job_id = list[j].job_id /\ (new[j].arrived <=> list[j].arrived \/ j = i)
  PROVE  Alive(new) = Alive(list) \cup {list[i].job_id}
  <1>1. ASSUME NEW y \in Alive(new) PROVE y \in Alive(list) \cup {list[i].job_id}
    <2>1. PICK j \in 1 .. Len(list) : new[j].arrived /\ y = new[j].job_id
      BY DEF Alive
    <2>2. y = list[j].job_id /\ (list[j].arrived \/ j = i)
      BY <2>1
    <2>3. list[j].arrived => y \in Alive(list)
      BY <2>2 DEF Alive
    <2> QED
      BY <2>2, <2>3
  <1>2. ASSUME NEW y \in Alive(list) PROVE y \in Alive(new)
    <2>1. PICK j \in 1 .. Len(list) : list[j].arrived /\ y = list[j].job_id
      BY DEF Alive
    <2>2. new[j].arrived /\ y = new[j].job_id /\ j \in 1 .. Len(new)
      BY <2>1
    <2> QED
      BY <2>2 DEF Alive
  <1>3. list[i].job_id \in Alive(new)
    <2>1. new[i].arrived /\ list[i].job_id = new[i].job_id /\ i \in 1 .. Len(new)
      OBVIOUS
    <2> QED
      BY <2>1 DEF Alive
  <1> QED
    BY <1>1, <1>2, <1>3

\* ... of which it was none.
LEMMA NotAlive ==
  ASSUME NEW I, NEW C, NEW list, NEW cores, NEW Q, NEW D, Agree(I, C, list, cores, Q, D),
         NEW i \in 1 .. Len(list), ~ list[i].arrived
  PROVE  list[i].job_id \notin Alive(list)
  <1>1. \A j \in 1 .. Len(list) : list[j].job_id = list[i].job_id => j = i
    BY DEF Agree
  <1>2. ASSUME NEW j \in 1 .. Len(list), list[j].arrived PROVE list[j].job_id # list[i].job_id
    BY <1>1, <1>2
  <1> QED
    BY <1>2 DEF Alive

\* A core's job has one entry, and a job is on one core.
LEMMA OneCore ==
  ASSUME NEW I, NEW C, NEW list, NEW cores, NEW Q, NEW D, Agree(I, C, list, cores, Q, D),
         NEW c \in C, NEW k \in C, cores[c] = cores[k], cores[c] # NULL
  PROVE  c = k
  <1>1. PICK i \in 1 .. Len(list) : list[i].job_id = cores[c]
    BY DEF Agree
  <1>2. list[i].core_id = c /\ list[i].core_id = k
    BY <1>1 DEF Agree
  <1> QED
    BY <1>2

\* A job that has finished leaves its core and the list, where the last entry
\* takes its place.
LEMMA Leaves ==
  ASSUME NEW I, NEW C, NEW list, NEW cores, NEW Q, NEW D, Agree(I, C, list, cores, Q, D),
         C \subseteq Int, NULL \notin Int,
         NEW i \in 1 .. Len(list), NEW c \in C, list[i].core_id = c,
         NEW less, Removed(list, less, i)
  PROVE  Agree(I, C, less, [cores EXCEPT ![c] = NULL], Q, D \cup {list[i].job_id})
  <1> DEFINE n == list[i].job_id
             cores2 == [cores EXCEPT ![c] = NULL]
             m == Len(list)
             from(j) == IF j = i THEN m ELSE j
  <1>1. /\ n = cores[c] /\ n \in Int /\ n \notin Q /\ list[i].arrived
    BY DEF Agree
  <1>2. DOMAIN cores2 = C /\ \A x \in C : cores2[x] = IF x = c THEN NULL ELSE cores[x]
    BY DEF Agree
  <1>3. m \in Nat /\ i \in 1 .. m /\ \A j \in 1 .. m : list[j].job_id \in Int
    BY DEF Agree
  <1>4. \A j \in 1 .. m - 1 : from(j) \in 1 .. m /\ from(j) # i /\ less[j] = list[from(j)]
    BY <1>3 DEF Removed
  <1>5. \A j, k \in 1 .. m - 1 : from(j) = from(k) => j = k
    BY <1>3
  <1>6. \A k \in 1 .. m : k # i => \E j \in 1 .. m - 1 : from(j) = k
    <2>1. SUFFICES ASSUME NEW k \in 1 .. m, k # i PROVE \E j \in 1 .. m - 1 : from(j) = k
      OBVIOUS
    <2>2. CASE k = m
      BY <1>3, <2>1, <2>2
    <2>3. CASE k # m
      <3>1. k \in 1 .. m - 1
        BY <1>3, <2>3
      <3>2. from(k) = k
        BY <2>1
      <3> QED
        BY <3>1, <3>2
    <2> QED
      BY <2>2, <2>3
  <1>7. \A k \in 1 .. m : k # i => list[k].job_id # n
    BY DEF Agree
  <1>8. \A x \in C : cores[x] = n => x = c
    BY <1>1, OneCore
  <1> HIDE DEF n, cores2, from, m
  <1>9. Len(less) = m - 1 /\ Len(list) = m /\ Len(less) \in Nat
    BY <1>3 DEF m, Removed
  <1>10. \A j, k \in 1 .. m - 1 : less[j].job_id = less[k].job_id => j = k
    BY <1>4, <1>5, <1>9 DEF Agree
  <1>11. \A j \in 1 .. m - 1, x \in C : less[j].core_id = x <=> cores2[x] = less[j].job_id
    <2>1. SUFFICES ASSUME NEW k \in 1 .. m, k # i, NEW x \in C
                   PROVE  list[k].core_id = x <=> cores2[x] = list[k].job_id
      BY <1>4
    <2>2. list[k].core_id = x <=> cores[x] = list[k].job_id
      BY <1>9 DEF Agree
    <2>3. list[k].job_id # n /\ list[k].job_id # NULL
      BY <1>3, <1>7, <1>9, <2>1
    <2> QED
      BY <1>1, <1>2, <2>2, <2>3
  <1>12. \A j \in 1 .. m - 1 : less[j].arrived <=>
            less[j].job_id \in Q \/ \E x \in C : cores2[x] = less[j].job_id
    <2>1. SUFFICES ASSUME NEW k \in 1 .. m, k # i
                   PROVE  list[k].arrived <=>
                            list[k].job_id \in Q \/ \E x \in C : cores2[x] = list[k].job_id
      BY <1>4
    <2>2. list[k].arrived <=> list[k].job_id \in Q \/ \E x \in C : cores[x] = list[k].job_id
      BY <1>9 DEF Agree
    <2>3. list[k].job_id # n /\ list[k].job_id # NULL
      BY <1>3, <1>7, <1>9, <2>1
    <2> QED
      BY <1>1, <1>2, <2>2, <2>3
  <1>13. \A x \in C : cores2[x] \notin Q
    <2>1. NULL \notin Q
      BY DEF Agree
    <2> QED
      BY <1>2, <2>1 DEF Agree
  <1>14. \A k \in 1 .. m : k # i => \E j \in 1 .. m - 1 : less[j] = list[k]
    BY <1>4, <1>6
  <1>15. \A y \in Q : \E j \in 1 .. m - 1 : less[j].job_id = y
    <2>1. SUFFICES ASSUME NEW y \in Q PROVE \E j \in 1 .. m - 1 : less[j].job_id = y
      OBVIOUS
    <2>2. PICK k \in 1 .. m : list[k].job_id = y
      BY <1>9 DEF Agree
    <2>3. k # i
      BY <1>1, <2>2 DEF n
    <2> QED
      BY <1>14, <2>2, <2>3
  <1>16. \A x \in C : cores2[x] # NULL => \E j \in 1 .. m - 1 : less[j].job_id = cores2[x]
    <2>1. SUFFICES ASSUME NEW x \in C, cores2[x] # NULL
                   PROVE  \E j \in 1 .. m - 1 : less[j].job_id = cores2[x]
      OBVIOUS
    <2>2. x # c /\ cores2[x] = cores[x]
      BY <1>2, <2>1
    <2>3. PICK k \in 1 .. m : list[k].job_id = cores[x]
      BY <1>9, <2>1, <2>2 DEF Agree
    <2>4. k # i
      BY <1>8, <2>2, <2>3 DEF n
    <2> QED
      BY <1>14, <2>2, <2>3, <2>4
  <1>17. \A y \in I : y \in D \cup {n} <=> \A j \in 1 .. m - 1 : less[j].job_id # y
    <2>1. SUFFICES ASSUME NEW y \in I
                   PROVE  y \in D \cup {n} <=> \A j \in 1 .. m - 1 : less[j].job_id # y
      OBVIOUS
    <2>2. y \in D <=> \A k \in 1 .. m : list[k].job_id # y
      BY <1>9 DEF Agree
    <2>3. \A j \in 1 .. m - 1 : less[j].job_id # n
      BY <1>4, <1>7
    <2>4. (\A j \in 1 .. m - 1 : less[j].job_id # y) /\ y # n => \A k \in 1 .. m : list[k].job_id # y
      BY <1>14 DEF n
    <2>5. (\A k \in 1 .. m : list[k].job_id # y) => \A j \in 1 .. m - 1 : less[j].job_id # y
      BY <1>4
    <2> QED
      BY <2>2, <2>3, <2>4, <2>5
  <1>t. /\ DOMAIN cores2 = C /\ Len(less) \in Nat
        /\ \A j \in 1 .. m - 1 : less[j].job_id \in Int
    BY <1>2, <1>3, <1>4, <1>9
  <1> DEFINE E == D \cup {n}
  <1>e. \A y \in I : y \in E <=> \A j \in 1 .. m - 1 : less[j].job_id # y
    BY <1>17
  <1> HIDE DEF E
  <1>q. Agree(I, C, less, cores2, Q, E)
    <2>1. /\ DOMAIN cores2 = C /\ Len(less) \in Nat
          /\ \A j \in 1 .. Len(less) : less[j].job_id \in Int
          /\ \A j, k \in 1 .. Len(less) : less[j].job_id = less[k].job_id => j = k
      BY <1>9, <1>10, <1>t
    <2>2. \A j \in 1 .. Len(less), x \in C : less[j].core_id = x <=> cores2[x] = less[j].job_id
      BY <1>9, <1>11
    <2>3. \A j \in 1 .. Len(less) : less[j].arrived <=>
             less[j].job_id \in Q \/ \E x \in C : cores2[x] = less[j].job_id
      BY <1>9, <1>12
    <2>4. /\ \A y \in Q : \E j \in 1 .. Len(less) : less[j].job_id = y
          /\ \A x \in C : cores2[x] # NULL => \E j \in 1 .. Len(less) : less[j].job_id = cores2[x]
      BY <1>9, <1>15, <1>16
    <2>5. \A y \in I : y \in E <=> \A j \in 1 .. Len(less) : less[j].job_id # y
      BY <1>9, <1>e
    <2> QED
      BY <1>13, <2>1, <2>2, <2>3, <2>4, <2>5 DEF Agree
  <1>18. Agree(I, C, less, cores2, Q, D \cup {n})
    BY <1>q DEF E
  <1> QED
    BY <1>18 DEF n, cores2

\* The job that leaves was alive, and the others still are.
LEMMA LeavesAlive ==
  ASSUME NEW I, NEW C, NEW list, NEW cores, NEW Q, NEW D, Agree(I, C, list, cores, Q, D),
         NEW i \in 1 .. Len(list), NEW c \in C, list[i].core_id = c,
         NEW less, Removed(list, less, i)
  PROVE  Alive(less) = Alive(list) \ {list[i].job_id} /\ list[i].job_id \in Alive(list)
  <1> DEFINE n == list[i].job_id
             m == Len(list)
  <1>1. /\ m \in Nat /\ i \in 1 .. m /\ list[i].arrived
        /\ \A k \in 1 .. m : list[k].job_id = n <=> k = i
    BY DEF Agree
  <1>2. Len(less) = m - 1 /\ \A j \in 1 .. m - 1 : less[j] = IF j = i THEN list[m] ELSE list[j]
    BY DEF Removed
  <1>9. Len(list) = m
    OBVIOUS
  <1> HIDE DEF n, m
  <1>3. ASSUME NEW y \in Alive(less) PROVE y \in Alive(list) /\ y # n
    <2>1. PICK j \in 1 .. m - 1 : less[j].arrived /\ y = less[j].job_id
      BY <1>2 DEF Alive
    <2>2. PICK k \in 1 .. m : k # i /\ less[j] = list[k]
      <3>1. CASE j = i
        <4>1. m \in 1 .. m /\ m # i /\ less[j] = list[m]
          BY <1>1, <1>2, <3>1
        <4> QED
          BY <4>1
      <3>2. CASE j # i
        <4>1. j \in 1 .. m /\ less[j] = list[j]
          BY <1>1, <1>2, <3>2
        <4> QED
          BY <3>2, <4>1
      <3> QED
        BY <3>1, <3>2
    <2>3. list[k].arrived /\ y = list[k].job_id
      BY <2>1, <2>2
    <2>4. y # n
      BY <1>1, <2>2, <2>3
    <2>5. y \in Alive(list)
      BY <1>9, <2>3 DEF Alive
    <2> QED
      BY <2>4, <2>5
  <1>4. ASSUME NEW y \in Alive(list), y # n PROVE y \in Alive(less)
    <2>1. PICK k \in 1 .. m : list[k].arrived /\ y = list[k].job_id
      BY <1>9 DEF Alive
    <2>2. k # i
      BY <1>4, <2>1 DEF n
    <2>3. PICK j \in 1 .. m - 1 : less[j] = list[k]
      <3>1. CASE k = m
        <4>1. i \in 1 .. m - 1 /\ less[i] = list[k]
          BY <1>1, <1>2, <2>2, <3>1
        <4> QED
          BY <4>1
      <3>2. CASE k # m
        <4>1. k \in 1 .. m - 1
          BY <1>1, <3>2
        <4>2. less[k] = list[k]
          BY <1>2, <2>2, <4>1
        <4> QED
          BY <4>1, <4>2
      <3> QED
        BY <3>1, <3>2
    <2> QED
      BY <1>2, <2>1, <2>3 DEF Alive
  <1>5. n \in Alive(list)
    BY <1>1, <1>9 DEF Alive, n
  <1> QED
    BY <1>3, <1>4, <1>5 DEF n

\* A job that gives its core up goes back into the queue.
LEMMA GoesBack ==
  ASSUME NEW I, NEW C, NEW list, NEW cores, NEW Q, NEW D, Agree(I, C, list, cores, Q, D),
         C \subseteq Int, NULL \notin Int, -1 \notin C,
         NEW i \in 1 .. Len(list), NEW c \in C, list[i].core_id = c,
         NEW new, Moved(list, new, i, -1)
  PROVE  Agree(I, C, new, [cores EXCEPT ![c] = NULL], Q \cup {list[i].job_id}, D)
  <1> DEFINE n == list[i].job_id
             cores2 == [cores EXCEPT ![c] = NULL]
             m == Len(list)
  <1>1. /\ n = cores[c] /\ n \in Int /\ n \notin Q /\ list[i].arrived
    BY DEF Agree
  <1>2. DOMAIN cores2 = C /\ \A x \in C : cores2[x] = IF x = c THEN NULL ELSE cores[x]
    BY DEF Agree
  <1>7. \A k \in 1 .. m : list[k].job_id = n <=> k = i
    BY DEF Agree
  <1>8. \A x \in C : cores[x] = n <=> x = c
    BY <1>1, OneCore
  <1> HIDE DEF n, cores2
  <1>9. Len(new) = m /\ Len(list) = m /\ i \in 1 .. m
    BY DEF Moved
  <1>n. \A k \in 1 .. m : /\ list[k].job_id # NULL
                         /\ new[k].job_id = list[k].job_id /\ (new[k].arrived <=> list[k].arrived)
                         /\ new[k].core_id = IF k = i THEN -1 ELSE list[k].core_id
    <2>1. \A k \in 1 .. m : list[k].job_id \in Int
      BY DEF Agree
    <2> QED
      BY <2>1 DEF Moved
  <1>11. ASSUME NEW j \in 1 .. m, NEW x \in C
         PROVE  new[j].core_id = x <=> cores2[x] = new[j].job_id
    <2>1. list[j].core_id = x <=> cores[x] = list[j].job_id
      <3>1. \A k \in 1 .. m, y \in C : list[k].core_id = y <=> cores[y] = list[k].job_id
        BY DEF Agree
      <3> QED
        BY <3>1
    <2>2. x # -1
      OBVIOUS
    <2>3. list[j].job_id = n <=> j = i
      BY <1>7
    <2> QED
      BY <1>1, <1>2, <1>8, <1>n, <2>1, <2>2, <2>3
  <1>12. ASSUME NEW j \in 1 .. m
         PROVE  new[j].arrived <=>
                   new[j].job_id \in Q \cup {n} \/ \E x \in C : cores2[x] = new[j].job_id
    <2>1. list[j].arrived <=> list[j].job_id \in Q \/ \E x \in C : cores[x] = list[j].job_id
      BY <1>9 DEF Agree
    <2> QED
      BY <1>1, <1>2, <1>7, <1>8, <1>n, <2>1
  <1>13. \A x \in C : cores2[x] \notin Q \cup {n}
    <2>1. NULL \notin Q
      BY DEF Agree
    <2> QED
      BY <1>1, <1>2, <1>8, <2>1 DEF Agree
  <1>15. \A y \in Q \cup {n} : \E j \in 1 .. m : new[j].job_id = y
    <2>1. \A y \in Q : \E j \in 1 .. m : list[j].job_id = y
      BY <1>9 DEF Agree
    <2> QED
      BY <1>7, <1>9, <1>n, <2>1
  <1>16. \A x \in C : cores2[x] # NULL => \E j \in 1 .. m : new[j].job_id = cores2[x]
    <2>1. \A x \in C : cores[x] # NULL => \E j \in 1 .. m : list[j].job_id = cores[x]
      BY <1>9 DEF Agree
    <2> QED
      BY <1>2, <1>n, <2>1
  <1>10. \A j, k \in 1 .. m : new[j].job_id = new[k].job_id => j = k
    <2>1. \A j, k \in 1 .. m : list[j].job_id = list[k].job_id => j = k
      BY <1>9 DEF Agree
    <2> QED
      BY <1>n, <2>1
  <1>17. \A y \in I : y \in D <=> \A j \in 1 .. m : new[j].job_id # y
    <2>1. \A y \in I : y \in D <=> \A j \in 1 .. m : list[j].job_id # y
      BY <1>9 DEF Agree
    <2> QED
      BY <1>n, <2>1
  <1> DEFINE P == Q \cup {n}
  <1>p. /\ \A j \in 1 .. m : new[j].arrived <=>
                 new[j].job_id \in P \/ \E x \in C : cores2[x] = new[j].job_id
        /\ \A x \in C : cores2[x] \notin P
        /\ \A y \in P : \E j \in 1 .. m : new[j].job_id = y
    BY <1>12, <1>13, <1>15
  <1> HIDE DEF P
  <1>t. /\ DOMAIN cores2 = C /\ Len(new) \in Nat
        /\ \A j \in 1 .. m : new[j].job_id \in Int
    BY <1>2, <1>9, <1>n DEF Agree
  <1>q. Agree(I, C, new, cores2, P, D)
    BY <1>9, <1>10, <1>11, <1>16, <1>17, <1>p, <1>t DEF Agree
  <1>18. Agree(I, C, new, cores2, Q \cup {n}, D)
    BY <1>q DEF P
  <1> QED
    BY <1>1, <1>18 DEF n, cores2

\* A job leaves the queue for a core that is free.
LEMMA GetsCore ==
  ASSUME NEW I, NEW C, NEW list, NEW cores, NEW Q, NEW D, Agree(I, C, list, cores, Q, D),
         C \subseteq Int, NULL \notin Int,
         NEW i \in 1 .. Len(list), NEW c \in C, cores[c] = NULL, list[i].job_id \in Q,
         NEW new, Moved(list, new, i, c)
  PROVE  /\ Agree(I, C, new, [cores EXCEPT ![c] = list[i].job_id], Q \ {list[i].job_id}, D)
  <1> DEFINE n == list[i].job_id
             cores2 == [cores EXCEPT ![c] = n]
             m == Len(list)
  <1>2. DOMAIN cores2 = C /\ \A x \in C : cores2[x] = IF x = c THEN n ELSE cores[x]
    BY DEF Agree
  <1>7. \A k \in 1 .. m : list[k].job_id = n <=> k = i
    BY DEF Agree
  <1>8. \A x \in C : cores[x] # n
    BY DEF Agree
  <1> HIDE DEF n, cores2
  <1>9. Len(new) = m /\ Len(list) = m /\ i \in 1 .. m /\ n \in Q /\ n \in Int
    BY DEF n, Moved, Agree
  <1>n. \A k \in 1 .. m : /\ list[k].job_id # NULL
                         /\ new[k].job_id = list[k].job_id /\ (new[k].arrived <=> list[k].arrived)
                         /\ new[k].core_id = IF k = i THEN c ELSE list[k].core_id
    BY DEF Moved, Agree
  <1>11. ASSUME NEW j \in 1 .. m, NEW x \in C
         PROVE  new[j].core_id = x <=> cores2[x] = new[j].job_id
    <2>1. /\ list[j].core_id = x <=> cores[x] = list[j].job_id
          /\ list[j].core_id = c <=> cores[c] = list[j].job_id
      BY DEF Agree
    <2>2. /\ list[j].job_id = n <=> j = i
          /\ new[j].job_id = list[j].job_id /\ list[j].job_id # NULL
          /\ new[j].core_id = IF j = i THEN c ELSE list[j].core_id
      BY <1>7, <1>n
    <2>3. cores2[x] = (IF x = c THEN n ELSE cores[x]) /\ cores[x] # n
      BY <1>2, <1>8
    <2> QED
      BY <2>1, <2>2, <2>3
  <1>12. ASSUME NEW j \in 1 .. m
         PROVE  new[j].arrived <=>
                   new[j].job_id \in Q \ {n} \/ \E x \in C : cores2[x] = new[j].job_id
    <2>1. list[j].arrived <=> list[j].job_id \in Q \/ \E x \in C : cores[x] = list[j].job_id
      BY <1>9 DEF Agree
    <2> QED
      BY <1>2, <1>7, <1>8, <1>9, <1>n, <2>1
  <1>13. \A x \in C : cores2[x] \notin Q \ {n}
    BY <1>2 DEF Agree
  <1>15. \A y \in Q \ {n} : \E j \in 1 .. m : new[j].job_id = y
    <2>1. \A y \in Q : \E j \in 1 .. m : list[j].job_id = y
      BY <1>9 DEF Agree
    <2> QED
      BY <1>n, <2>1
  <1>16. \A x \in C : cores2[x] # NULL => \E j \in 1 .. m : new[j].job_id = cores2[x]
    <2>1. \A x \in C : cores[x] # NULL => \E j \in 1 .. m : list[j].job_id = cores[x]
      BY <1>9 DEF Agree
    <2>2. \E j \in 1 .. m : new[j].job_id = n
      BY <1>7, <1>9, <1>n
    <2>3. \A x \in C : cores[x] # NULL => \E j \in 1 .. m : new[j].job_id = cores[x]
      BY <1>n, <2>1
    <2> QED
      BY <1>2, <2>2, <2>3
  <1>10. \A j, k \in 1 .. m : new[j].job_id = new[k].job_id => j = k
    <2>1. \A j, k \in 1 .. m : list[j].job_id = list[k].job_id => j = k
      BY <1>9 DEF Agree
    <2> QED
      BY <1>n, <2>1
  <1>17. \A y \in I : y \in D <=> \A j \in 1 .. m : new[j].job_id # y
    <2>1. \A y \in I : y \in D <=> \A j \in 1 .. m : list[j].job_id # y
      BY <1>9 DEF Agree
    <2> QED
      BY <1>n, <2>1
  <1>t. /\ DOMAIN cores2 = C /\ Len(new) \in Nat
        /\ \A j \in 1 .. m : new[j].job_id \in Int
    BY <1>2, <1>9, <1>n DEF Agree
  <1>18. Agree(I, C, new, cores2, Q \ {n}, D)
    BY <1>9, <1>10, <1>11, <1>12, <1>13, <1>15, <1>16, <1>17, <1>t DEF Agree
  <1> QED
    BY <1>18 DEF n, cores2

\* A job that arrives goes into the queue, ...
LEMMA Arrives ==
  ASSUME NEW I, NEW C, NEW list, NEW cores, NEW Q, NEW D, Agree(I, C, list, cores, Q, D),
         NULL \notin Int,
         NEW i \in 1 .. Len(list), ~ list[i].arrived,
         NEW new, Admitted(list, new, i)
  PROVE  /\ Agree(I, C, new, cores, Q \cup {list[i].job_id}, D)
         /\ list[i].job_id \notin Q
  <1> DEFINE n == list[i].job_id
             m == Len(list)
  <1>1. n \in Int /\ n \notin Q /\ \A c \in C : cores[c] # n /\ list[i].core_id # c
    BY DEF Agree
  <1>7. \A k \in 1 .. m : list[k].job_id = n <=> k = i
    BY DEF Agree
  <1> HIDE DEF n
  <1>9. Len(new) = m /\ Len(list) = m /\ i \in 1 .. m /\ ~ list[i].arrived
    BY DEF Admitted
  <1>n. \A k \in 1 .. m : /\ list[k].job_id # NULL
                         /\ new[k].job_id = list[k].job_id /\ new[k].core_id = list[k].core_id
                         /\ (new[k].arrived <=> list[k].arrived \/ k = i)
    BY DEF Admitted, Agree
  <1>12. ASSUME NEW j \in 1 .. m
         PROVE  new[j].arrived <=>
                   new[j].job_id \in Q \cup {n} \/ \E x \in C : cores[x] = new[j].job_id
    <2>1. list[j].arrived <=> list[j].job_id \in Q \/ \E x \in C : cores[x] = list[j].job_id
      BY <1>9 DEF Agree
    <2> QED
      BY <1>1, <1>7, <1>n, <2>1
  <1>13. \A x \in C : cores[x] \notin Q \cup {n}
    BY <1>1 DEF Agree
  <1>15. \A y \in Q \cup {n} : \E j \in 1 .. m : new[j].job_id = y
    <2>1. \A y \in Q : \E j \in 1 .. m : list[j].job_id = y
      BY <1>9 DEF Agree
    <2> QED
      BY <1>7, <1>9, <1>n, <2>1
  <1>10. \A j, k \in 1 .. m : new[j].job_id = new[k].job_id => j = k
    <2>1. \A j, k \in 1 .. m : list[j].job_id = list[k].job_id => j = k
      BY <1>9 DEF Agree
    <2> QED
      BY <1>n, <2>1
  <1>17. \A y \in I : y \in D <=> \A j \in 1 .. m : new[j].job_id # y
    <2>1. \A y \in I : y \in D <=> \A j \in 1 .. m : list[j].job_id # y
      BY <1>9 DEF Agree
    <2> QED
      BY <1>n, <2>1
  <1>11. \A j \in 1 .. m, x \in C : new[j].core_id = x <=> cores[x] = new[j].job_id
    <2>1. \A j \in 1 .. m, x \in C : list[j].core_id = x <=> cores[x] = list[j].job_id
      BY <1>9 DEF Agree
    <2> QED
      BY <1>n, <2>1
  <1>16. \A x \in C : cores[x] # NULL => \E j \in 1 .. m : new[j].job_id = cores[x]
    <2>1. \A x \in C : cores[x] # NULL => \E j \in 1 .. m : list[j].job_id = cores[x]
      BY <1>9 DEF Agree
    <2> QED
      BY <1>n, <2>1
  <1>t. /\ DOMAIN cores = C /\ Len(new) \in Nat
        /\ \A j \in 1 .. m : new[j].job_id \in Int
    BY <1>9, <1>n DEF Agree
  <1>18. Agree(I, C, new, cores, Q \cup {n}, D)
    BY <1>9, <1>10, <1>11, <1>12, <1>13, <1>15, <1>16, <1>17, <1>t DEF Agree
  <1> QED
    BY <1>1, <1>18 DEF n

\* ... or onto a core that is free, as if it had been in the queue.
LEMMA ArrivesOnCore ==
  ASSUME NEW I, NEW C, NEW list, NEW cores, NEW Q, NEW D, Agree(I, C, list, cores, Q, D),
         C \subseteq Int, NULL \notin Int,
         NEW i \in 1 .. Len(list), ~ list[i].arrived, NEW c \in C, cores[c] = NULL,
         NEW mid, Admitted(list, mid, i), NEW new, Moved(mid, new, i, c)
  PROVE  Agree(I, C, new, [cores EXCEPT ![c] = list[i].job_id], Q, D)
  <1> DEFINE n == list[i].job_id
             P == Q \cup {n}
  <1>1. Agree(I, C, mid, cores, P, D) /\ n \notin Q
    BY Arrives
  <1>2. Len(mid) = Len(list) /\ mid[i].job_id = n
    BY DEF Admitted
  <1> HIDE DEF P
  <1>3. mid[i].job_id \in P /\ i \in 1 .. Len(mid)
    BY <1>2 DEF P
  <1>4. Agree(I, C, new, [cores EXCEPT ![c] = mid[i].job_id], P \ {mid[i].job_id}, D)
    BY <1>1, <1>3, GetsCore
  <1>5. P \ {mid[i].job_id} = Q
    BY <1>1, <1>2 DEF P
  <1> QED
    BY <1>1, <1>2, <1>4, <1>5

\* What else an entry holds is of no matter.
LEMMA StaysPut ==
  ASSUME NEW I, NEW C, NEW list, NEW cores, NEW Q, NEW D, Agree(I, C, list, cores, Q, D),
         NEW new, Unmoved(list, new)
  PROVE  Agree(I, C, new, cores, Q, D) /\ Alive(new) = Alive(list)
  <1>1. Len(new) = Len(list)
    BY DEF Unmoved
  <1>2. \A j \in 1 .. Len(list) :
         /\ new[j].job_id = list[j].job_id /\ (new[j].arrived <=> list[j].arrived)
         /\ new[j].core_id = list[j].core_id
    BY DEF Unmoved
  <1>3. Agree(I, C, new, cores, Q, D)
    <2>1. /\ DOMAIN cores = C /\ Len(new) \in Nat
          /\ \A i \in 1 .. Len(new) : new[i].job_id \in Int
          /\ \A i, k \in 1 .. Len(new) : new[i].job_id = new[k].job_id => i = k
      BY <1>1, <1>2 DEF Agree
    <2>2. /\ \A i \in 1 .. Len(new), c \in C : new[i].core_id = c <=> cores[c] = new[i].job_id
          /\ \A i \in 1 .. Len(new) : new[i].arrived <=>
                new[i].job_id \in Q \/ \E c \in C : cores[c] = new[i].job_id
      BY <1>1, <1>2 DEF Agree
    <2>3. /\ \A c \in C : cores[c] \notin Q
          /\ \A y \in Q : \E i \in 1 .. Len(new) : new[i].job_id = y
      BY <1>1, <1>2 DEF Agree
    <2>4. \A c \in C : cores[c] # NULL => \E i \in 1 .. Len(new) : new[i].job_id = cores[c]
      BY <1>1, <1>2 DEF Agree
    <2>5. \A y \in I : y \in D <=> \A i \in 1 .. Len(new) : new[i].job_id # y
      BY <1>1, <1>2 DEF Agree
    <2> QED
      BY <2>1, <2>2, <2>3, <2>4, <2>5 DEF Agree
  <1>4. Alive(new) = Alive(list)
    BY <1>1, <1>2, AliveSame
  <1> QED
    BY <1>3, <1>4

-----------------------------------------------------------------------------
(* The scheduler's operations                                               *)

\* The place that priqueue_offer finds for n in q.
Place(q, n, cmp, k) ==
    /\ k = 0 => Len(q) = 0 \/ cmp[<<n, q[1]>>] < 0
    /\ k > 0 /\ k < Len(q) => cmp[<<q[k], n>>] <= 0 /\ cmp[<<n, q[k + 1]>>] < 0
    /\ k > 0 /\ k = Len(q) =>
          /\ ~ cmp[<<n, q[1]>>] < 0
          /\ \A j \in 1 .. Len(q) - 1 : ~ (cmp[<<q[j], n>>] <= 0 /\ cmp[<<n, q[j + 1]>>] < 0)

\* A job that is offered to the queue goes somewhere into it, whatever the
\* comparer says.
LEMMA OfferIs ==
  ASSUME NEW S, NEW q \in Seq(S), NEW n \in S, NEW cmp
  PROVE  /\ priqueue_offer(q, n, cmp) \in Seq(S)
         /\ \E k \in 0 .. Len(q) : /\ Inserted(q, priqueue_offer(q, n, cmp), k, n)
                                   /\ Place(q, n, cmp, k)
  <1>1. CASE q = << >> \/ cmp[<<n, Head(q)>>] < 0
    <2> DEFINE h == <<n>>
               r == h \o q
    <2>1. priqueue_offer(q, n, cmp) = r
      BY <1>1 DEF priqueue_offer
    <2>2. h \in Seq(S) /\ Len(h) = 1 /\ h[1] = n /\ Len(q) \in Nat
      OBVIOUS
    <2> HIDE DEF h
    <2>3. /\ r \in Seq(S) /\ Len(r) = Len(h) + Len(q)
          /\ \A j \in 1 .. Len(h) + Len(q) : r[j] = IF j <= Len(h) THEN h[j] ELSE q[j - Len(h)]
      BY <2>2, ConcatProperties
    <2> HIDE DEF r
    <2>4. \A j \in 1 .. Len(q) + 1 : r[j] = IF j <= 0 THEN q[j] ELSE IF j = 0 + 1 THEN n ELSE q[j - 1]
      <3>1. SUFFICES ASSUME NEW j \in 1 .. Len(q) + 1
                     PROVE  r[j] = IF j = 1 THEN n ELSE q[j - 1]
        BY <2>2
      <3>2. j = 1 => r[j] = n
        BY <2>2, <2>3
      <3>3. j # 1 => r[j] = q[j - 1]
        BY <2>2, <2>3
      <3> QED
        BY <3>2, <3>3
    <2>5. Len(r) = Len(q) + 1
      BY <2>2, <2>3
    <2>6. Inserted(q, r, 0, n)
      BY <2>4, <2>5 DEF Inserted
    <2>7. 0 \in 0 .. Len(q) /\ Place(q, n, cmp, 0)
      BY <1>1, <2>2 DEF Place
    <2> QED
      BY <2>1, <2>3, <2>6, <2>7
  <1>2. CASE ~ (q = << >> \/ cmp[<<n, Head(q)>>] < 0)
    <2> DEFINE between == {k \in 1 .. Len(q) - 1 : cmp[<<q[k], n>>] <= 0 /\ cmp[<<n, q[k + 1]>>] < 0}
               left == IF between = {} THEN Len(q) ELSE Min(between)
    <2>1. priqueue_offer(q, n, cmp) = InsertAt(q, left + 1, n)
      BY <1>2 DEF priqueue_offer
    <2>2. Len(q) \in Nat /\ between \subseteq 1 .. Len(q) - 1
      OBVIOUS
    <2> HIDE DEF between
    <2>3. between # {} => Min(between) \in between
      <3>1. between \subseteq Nat
        BY <2>2
      <3> QED
        BY <3>1, LeastOf
    <2>4. left \in 0 .. Len(q)
      <3>1. CASE between = {}
        BY <2>2, <3>1
      <3>2. CASE between # {}
        <4>1. Min(between) \in 1 .. Len(q) - 1
          BY <2>2, <2>3, <3>2
        <4> QED
          BY <2>2, <3>2, <4>1
      <3> QED
        BY <3>1, <3>2
    <2>p. Place(q, n, cmp, left)
      <3>1. q # << >> /\ Head(q) = q[1] /\ Len(q) > 0 /\ ~ cmp[<<n, q[1]>>] < 0
        BY <1>2
      <3>2. CASE between = {}
        <4>1. left = Len(q)
          BY <3>2
        <4>2. \A j \in 1 .. Len(q) - 1 : ~ (cmp[<<q[j], n>>] <= 0 /\ cmp[<<n, q[j + 1]>>] < 0)
          BY <3>2 DEF between
        <4> HIDE DEF left
        <4> QED
          BY <2>2, <3>1, <4>1, <4>2 DEF Place
      <3>3. CASE between # {}
        <4>1. left \in between /\ left \in 1 .. Len(q) - 1
          BY <2>2, <2>3, <3>3
        <4> HIDE DEF left
        <4> QED
          BY <2>2, <4>1 DEF Place, between
      <3> QED
        BY <3>2, <3>3
    <2> HIDE DEF left
    <2>5. InsertAt(q, left + 1, n) \in Seq(S) /\ Inserted(q, InsertAt(q, left + 1, n), left, n)
      <3>1. /\ InsertAt(q, left + 1, n) \in Seq(S) /\ Len(InsertAt(q, left + 1, n)) = Len(q) + 1
            /\ \A j \in 1 .. Len(q) + 1 :
                 InsertAt(q, left + 1, n)[j] = IF j <= left THEN q[j] ELSE IF j = left + 1 THEN n ELSE q[j - 1]
        BY <2>4, InsertIs
      <3> QED
        BY <3>1 DEF Inserted
    <2> QED
      BY <2>1, <2>4, <2>5, <2>p
  <1> QED
    BY <1>1, <1>2

\* The queue q has become q2, with n in it.
Offered(S, q, q2, n) ==
    /\ q2 \in Seq(S) /\ Len(q2) = Len(q) + 1 /\ q2 # << >>
    /\ Range(q2) = Range(q) \cup {n}
    /\ IsInjective(q) /\ n \notin Range(q) => IsInjective(q2)

\* priqueue_offer puts the job into the queue, under each of the schemes.
LEMMA OfferHolds ==
  ASSUME NEW S, NEW q \in Seq(S), NEW n \in S, NEW policy, NEW job
  PROVE  Offered(S, q, Offer(policy, q, n, job), n)
  <1> DEFINE cmp == [p \in (DOMAIN job) \X (DOMAIN job) |-> comparer(policy, job[p[1]], job[p[2]])]
             r == priqueue_offer(q, n, cmp)
  <1>1. Offer(policy, q, n, job) = r
    BY DEF Offer
  <1> HIDE DEF cmp
  <1>2. r \in Seq(S) /\ \E k \in 0 .. Len(q) : Inserted(q, r, k, n)
    BY OfferIs
  <1> HIDE DEF r
  <1>3. PICK k \in 0 .. Len(q) : Inserted(q, r, k, n)
    BY <1>2
  <1>4. /\ Range(r) = Range(q) \cup {n}
        /\ IsInjective(q) /\ n \notin Range(q) => IsInjective(r)
    BY <1>2, <1>3, InsertHolds
  <1>5. Len(r) = Len(q) + 1 /\ r # << >>
    <2>1. Len(r) = Len(q) + 1 /\ Len(q) \in Nat
      BY <1>3 DEF Inserted
    <2> QED
      BY <2>1
  <1> QED
    BY <1>1, <1>2, <1>4, <1>5 DEF Offered

-----------------------------------------------------------------------------
(* Where the jobs are before and after an operation                         *)

\* The entries of the list of jobs.
Entries(I, C) == [job_id : I, arrival_time : Nat, run_time : Nat, priority : Int,
                  core_id : C \cup {-1}, arrived : BOOLEAN]

\* The scheduler's variables: what a job_t holds is of no matter here.
IsScheduler(s, I, C) ==
    /\ s \in [cores : [C -> I \cup {NULL}], pqueue : Seq(I), completedjobs : Seq(I), job : {s.job}]
    /\ IsInjective(s.pqueue) /\ IsInjective(s.completedjobs)
    /\ DOMAIN s.job \subseteq I

\* The two records match, and no core is idle while a job waits.
Placed(I, C, list, s) ==
    /\ list \in Seq(Entries(I, C)) /\ IsScheduler(s, I, C)
    /\ Agree(I, C, list, s.cores, Range(s.pqueue), Range(s.completedjobs))
    /\ s.pqueue # << >> => NULL \notin Range(s.cores)

\* Giving an entry a core changes nothing else, ...
LEMMA MoveEntry ==
  ASSUME NEW I, NEW C, NEW list \in Seq(Entries(I, C)), NEW i \in 1 .. Len(list), NEW c \in C \cup {-1}
  PROVE  /\ [list EXCEPT ![i].core_id = c] \in Seq(Entries(I, C))
         /\ Moved(list, [list EXCEPT ![i].core_id = c], i, c)
  <1> DEFINE T == Entries(I, C)
             e == [list[i] EXCEPT !.core_id = c]
             new == [list EXCEPT ![i] = e]
  <1>1. list[i] \in T /\ \A j \in 1 .. Len(list) : list[j] \in T
    OBVIOUS
  <1>2. /\ e \in T /\ e.job_id = list[i].job_id /\ e.arrived = list[i].arrived /\ e.core_id = c
        /\ e.arrival_time = list[i].arrival_time /\ e.priority = list[i].priority
        /\ e.run_time = list[i].run_time
    BY <1>1 DEF Entries
  <1> HIDE DEF e, T
  <1>3. new \in Seq(T) /\ Len(new) = Len(list) /\ \A j \in 1 .. Len(list) : new[j] = IF j = i THEN e ELSE list[j]
    BY <1>1, <1>2, list \in Seq(T) DEF T
  <1> HIDE DEF new
  <1>4. Moved(list, new, i, c)
    BY <1>2, <1>3 DEF Moved
  <1>5. new = [list EXCEPT ![i].core_id = c]
    BY DEF new, e
  <1> QED
    BY <1>3, <1>4, <1>5 DEF T

\* ... nor does letting its job arrive.
LEMMA AdmitEntry ==
  ASSUME NEW I, NEW C, NEW list \in Seq(Entries(I, C)), NEW i \in 1 .. Len(list)
  PROVE  /\ [list EXCEPT ![i].arrived = TRUE] \in Seq(Entries(I, C))
         /\ Admitted(list, [list EXCEPT ![i].arrived = TRUE], i)
  <1> DEFINE T == Entries(I, C)
             e == [list[i] EXCEPT !.arrived = TRUE]
             new == [list EXCEPT ![i] = e]
  <1>1. list[i] \in T /\ \A j \in 1 .. Len(list) : list[j] \in T
    OBVIOUS
  <1>2. /\ e \in T /\ e.job_id = list[i].job_id /\ e.arrived = TRUE /\ e.core_id = list[i].core_id
        /\ e.arrival_time = list[i].arrival_time /\ e.priority = list[i].priority
        /\ e.run_time = list[i].run_time
    BY <1>1 DEF Entries
  <1> HIDE DEF e, T
  <1>3. new \in Seq(T) /\ Len(new) = Len(list) /\ \A j \in 1 .. Len(list) : new[j] = IF j = i THEN e ELSE list[j]
    BY <1>1, <1>2, list \in Seq(T) DEF T
  <1> HIDE DEF new
  <1>4. Admitted(list, new, i)
    BY <1>2, <1>3 DEF Admitted
  <1>5. new = [list EXCEPT ![i].arrived = TRUE]
    BY DEF new, e
  <1> QED
    BY <1>3, <1>4, <1>5 DEF T

\* The next job of the queue takes the core, which is free or has been given up.
TakesHead(I, C, s, c, r) ==
    /\ IsScheduler(r.state, I, C)
    /\ r.state.cores = [s.cores EXCEPT ![c] = IF s.pqueue = << >> THEN NULL ELSE Head(s.pqueue)]
    /\ r.state.pqueue = priqueue_rest(s.pqueue)
    /\ r.state.completedjobs = s.completedjobs
    /\ r.returns = IF s.pqueue = << >> THEN -1 ELSE Head(s.pqueue)

\* The scheduler takes the head of its queue for the core.
LEMMA NextOnCoreIs ==
  ASSUME NEW I, NEW C, I \subseteq Nat, C \subseteq Nat, NEW s, IsScheduler(s, I, C),
         NEW c \in C, NEW t
  PROVE  TakesHead(I, C, s, c, NextOnCore(s, c, t))
  <1> DEFINE r == NextOnCore(s, c, t)
             n == IF s.pqueue = << >> THEN NULL ELSE Head(s.pqueue)
             resume(j) == [j EXCEPT !.first_runtime = IF @ = -1 THEN t ELSE @, !.last_runtime = t]
             job2 == IF n = NULL THEN s.job ELSE [s.job EXCEPT ![n] = resume(s.job[n])]
  <1>1. s.pqueue # << >> => Head(s.pqueue) \in I /\ Head(s.pqueue) # NULL /\ priqueue_rest(s.pqueue) \in Seq(I)
                             /\ IsInjective(priqueue_rest(s.pqueue))
    BY Parameters, RestIs DEF IsScheduler, priqueue_rest
  <1>2. s.pqueue = << >> => priqueue_rest(s.pqueue) = s.pqueue
    BY DEF priqueue_rest
  <1>3. n = priqueue_peek(s.pqueue, NULL) /\ (n = NULL <=> s.pqueue = << >>) /\ n \in I \cup {NULL}
    BY <1>1 DEF priqueue_peek
  <1>4. r = [state |-> [s EXCEPT !.cores[c] = n, !.pqueue = priqueue_rest(@),
                              !.job = IF n = NULL THEN @ ELSE [s.job EXCEPT ![n] = resume(s.job[n])]],
             returns |-> IF n = NULL THEN -1 ELSE n]
    BY <1>3 DEF NextOnCore
  <1> HIDE DEF resume, n, r
  <1>s. s \in [cores : [C -> I \cup {NULL}], pqueue : Seq(I), completedjobs : Seq(I), job : {s.job}]
    BY DEF IsScheduler
  <1> DEFINE st == [s EXCEPT !.cores[c] = n, !.pqueue = priqueue_rest(@), !.job = job2]
  <1>5. DOMAIN job2 = DOMAIN s.job
    OBVIOUS
  <1>r. r.state = st /\ r.returns = IF n = NULL THEN -1 ELSE n
    BY <1>4
  <1> HIDE DEF job2, r
  <1>7. [s.cores EXCEPT ![c] = n] \in [C -> I \cup {NULL}]
    BY <1>3, <1>s
  <1>k. /\ st.cores = [s.cores EXCEPT ![c] = n] /\ st.pqueue = priqueue_rest(s.pqueue)
        /\ st.completedjobs = s.completedjobs /\ st.job = job2
    BY <1>s
  <1>l. st \in [cores : [C -> I \cup {NULL}], pqueue : Seq(I), completedjobs : Seq(I), job : {job2}]
    <2>1. priqueue_rest(s.pqueue) \in Seq(I)
      BY <1>1, <1>2, <1>s
    <2> QED
      BY <1>3, <1>s, <2>1
  <1> HIDE DEF st
  <1>8. IsScheduler(st, I, C)
    BY <1>1, <1>2, <1>5, <1>k, <1>l DEF IsScheduler
  <1> QED
    BY <1>3, <1>k, <1>r, <1>8 DEF n, r, TakesHead

\* What main makes of an answer: the core is left free, or the job that it
\* names is found in the list and given the core.
Handed(I, C, list, r, c) ==
    \/ r.returns = -1 /\ Placed(I, C, list, r.state)
    \/ /\ r.returns # -1 /\ ActiveEntry(r.returns, list) # {}
       /\ Placed(I, C, set_active_job(r.returns, c, list), r.state)
       /\ \E m \in 1 .. Len(list) : Moved(list, set_active_job(r.returns, c, list), m, c)

\* A core without a job takes the next one, and the simulator can follow.
LEMMA TakesNext ==
  ASSUME NEW I, NEW C, I \subseteq Nat, C \subseteq Nat,
         NEW list \in Seq(Entries(I, C)), NEW s, IsScheduler(s, I, C), NEW c \in C,
         Agree(I, C, list, [s.cores EXCEPT ![c] = NULL], Range(s.pqueue), Range(s.completedjobs)),
         (\E k \in C : k # c /\ s.cores[k] = NULL) => priqueue_rest(s.pqueue) = << >>,
         NEW t
  PROVE  Handed(I, C, list, NextOnCore(s, c, t), c)
  <1> DEFINE r == NextOnCore(s, c, t)
             q == s.pqueue
             n == IF q = << >> THEN NULL ELSE Head(q)
             free == [s.cores EXCEPT ![c] = NULL]
             D == Range(s.completedjobs)
  <1>1. /\ IsScheduler(r.state, I, C)
        /\ r.state.cores = [s.cores EXCEPT ![c] = n]
        /\ r.state.pqueue = priqueue_rest(q)
        /\ r.state.completedjobs = s.completedjobs
        /\ r.returns = IF q = << >> THEN -1 ELSE Head(q)
    <2>1. TakesHead(I, C, s, c, r)
      BY NextOnCoreIs
    <2> HIDE DEF r
    <2> QED
      BY <2>1 DEF TakesHead
  <1>2. s.cores \in [C -> I \cup {NULL}] /\ q \in Seq(I) /\ IsInjective(q)
    BY DEF IsScheduler
  <1> HIDE DEF r
  <1>3. CASE q = << >>
    <2>1. r.state.cores = free /\ r.state.pqueue = q /\ r.returns = -1
      BY <1>1, <1>3 DEF priqueue_rest
    <2>2. Placed(I, C, list, r.state)
      BY <1>1, <1>3, <2>1 DEF Placed
    <2> QED
      BY <2>1, <2>2 DEF Handed, r
  <1>4. CASE q # << >>
    <2> DEFINE h == Head(q)
               m == Min(ActiveEntry(h, list))
               new == set_active_job(h, c, list)
    <2>1. /\ h \in I /\ h \in Range(q) /\ h # -1 /\ h # NULL
          /\ priqueue_rest(q) = Tail(q) /\ Range(Tail(q)) = Range(q) \ {h}
      <3>1. /\ h \in I /\ h \in Range(q) /\ Range(Tail(q)) = Range(q) \ {h}
        BY <1>2, <1>4, RestIs
      <3>2. priqueue_rest(q) = Tail(q)
        BY <1>4 DEF priqueue_rest
      <3>3. h # -1 /\ h # NULL
        <4> HIDE DEF h
        <4> QED
          BY <3>1, Parameters
      <3> QED
        BY <3>1, <3>2, <3>3
    <2>2. r.state.cores = [s.cores EXCEPT ![c] = h] /\ r.state.pqueue = Tail(q) /\ r.returns = h
      BY <1>1, <1>4, <2>1
    <2> HIDE DEF h, q
    <2>3. PICK i \in 1 .. Len(list) : list[i].job_id = h /\ list[i].arrived
      BY <2>1 DEF Agree, q
    <2>4. i \in ActiveEntry(h, list) /\ ActiveEntry(h, list) \subseteq Nat
      BY <2>3 DEF ActiveEntry
    <2>5. m \in ActiveEntry(h, list)
      BY <2>4, LeastOf
    <2> HIDE DEF m
    <2>6. m \in 1 .. Len(list) /\ list[m].job_id = h
      BY <2>5 DEF ActiveEntry
    <2>7. new = [list EXCEPT ![m].core_id = c]
      BY DEF set_active_job, m
    <2>8. new \in Seq(Entries(I, C)) /\ Moved(list, new, m, c)
      <3>1. c \in C \cup {-1}
        OBVIOUS
      <3>2. [list EXCEPT ![m].core_id = c] \in Seq(Entries(I, C)) /\ Moved(list, [list EXCEPT ![m].core_id = c], m, c)
        BY <2>6, <3>1, MoveEntry
      <3> HIDE DEF new
      <3> QED
        BY <2>7, <3>2
    <2> HIDE DEF new
    <2>9. free[c] = NULL /\ [free EXCEPT ![c] = h] = [s.cores EXCEPT ![c] = h]
      BY <1>2
    <2> HIDE DEF free, D
    <2>10. Agree(I, C, new, [free EXCEPT ![c] = list[m].job_id], Range(q) \ {list[m].job_id}, D)
      <3>1. Agree(I, C, list, free, Range(q), D)
        BY DEF free, q, D
      <3>2. C \subseteq Int /\ NULL \notin Int /\ list[m].job_id \in Range(q)
        BY <2>1, <2>6, Parameters
      <3> QED
        BY <2>6, <2>8, <2>9, <3>1, <3>2, GetsCore
    <2>11. Agree(I, C, new, r.state.cores, Range(r.state.pqueue), Range(r.state.completedjobs))
      BY <1>1, <2>1, <2>2, <2>6, <2>9, <2>10 DEF D
    <2>12. ASSUME r.state.pqueue # << >> PROVE NULL \notin Range(r.state.cores)
      <3>1. \A k \in C : k # c => s.cores[k] # NULL
        BY <2>1, <2>2, <2>12 DEF q
      <3> QED
        BY <1>2, <2>1, <2>2, <3>1 DEF Range
    <2>13. Placed(I, C, new, r.state)
      BY <1>1, <2>8, <2>11, <2>12 DEF Placed
    <2>14. r.returns = h /\ ActiveEntry(h, list) # {} /\ h # -1
      BY <2>1, <2>2, <2>4
    <2> QED
      BY <2>6, <2>8, <2>13, <2>14 DEF Handed, new, r
  <1> QED
    BY <1>3, <1>4

\* What a job that finishes leaves for the next: the core, without its job.
Leaving(I, C, list, s, c, s2) ==
    /\ IsScheduler(s2, I, C) /\ s2.cores = s.cores
    /\ Agree(I, C, list, [s.cores EXCEPT ![c] = NULL], Range(s2.pqueue), Range(s2.completedjobs))
    /\ (\E k \in C : k # c /\ s2.cores[k] = NULL) => priqueue_rest(s2.pqueue) = << >>

\* Its job_t as scheduler_job_finished fills it in.
FinishedJob(j, t) ==
    [j EXCEPT !.response_time   = j.first_runtime - j.arrival_time,
              !.turnaround_time = t - j.arrival_time,
              !.waiting_time    = t - j.arrival_time - j.running_time]

\* The first half of scheduler_job_finished.
FinishedState(s, n, t) ==
    [s EXCEPT !.job = [s.job EXCEPT ![n] = FinishedJob(s.job[n], t)],
              !.completedjobs = Append(s.completedjobs, n)]

\* Job n has left core c for good, in between.
Finishes(I, C, less, s, c, n, t, s2) ==
    /\ scheduler_job_finished(s, c, t) = NextOnCore(s2, c, t)
    /\ Leaving(I, C, less, s, c, s2)
    /\ s2.job = [s.job EXCEPT ![n] = FinishedJob(s.job[n], t)] /\ s2.pqueue = s.pqueue
    /\ Range(s2.completedjobs) = Range(s.completedjobs) \cup {n}
    /\ s.cores[c] = n /\ n \in I

\* A job finishes.
LEMMA FinishIs ==
  ASSUME NEW I, NEW C, I \subseteq Nat, C \subseteq Nat, NEW list, NEW s, Placed(I, C, list, s),
         NEW i \in 1 .. Len(list), NEW c \in C, list[i].core_id = c,
         NEW less \in Seq(Entries(I, C)), Removed(list, less, i), NEW t,
         NEW n, n = list[i].job_id
  PROVE  Finishes(I, C, less, s, c, n, t, FinishedState(s, n, t))
  <1> DEFINE s2 == FinishedState(s, n, t)
  <1>2. /\ s \in [cores : [C -> I \cup {NULL}], pqueue : Seq(I), completedjobs : Seq(I), job : {s.job}]
        /\ IsInjective(s.pqueue) /\ IsInjective(s.completedjobs)
        /\ DOMAIN s.job \subseteq I /\ list \in Seq(Entries(I, C))
        /\ Agree(I, C, list, s.cores, Range(s.pqueue), Range(s.completedjobs))
        /\ s.pqueue # << >> => NULL \notin Range(s.cores)
    BY DEF Placed, IsScheduler
  <1>3. s.cores[c] = n /\ n \in I /\ n \notin Range(s.completedjobs)
    <2>1. list[i] \in Entries(I, C)
      BY <1>2
    <2>2. n \in I
      BY <2>1 DEF Entries
    <2> QED
      BY <1>2, <2>2 DEF Agree
  <1>1. scheduler_job_finished(s, c, t) = NextOnCore(s2, c, t)
    <2> DEFINE j == s.job[s.cores[c]]
               fin == [j EXCEPT !.response_time   = j.first_runtime - j.arrival_time,
                                !.turnaround_time = t - j.arrival_time,
                                !.waiting_time    = t - j.arrival_time - j.running_time]
               s3 == [s EXCEPT !.job[s.cores[c]] = fin, !.completedjobs = Append(@, s.cores[c])]
    <2>1. scheduler_job_finished(s, c, t) = NextOnCore(s3, c, t)
      BY DEF scheduler_job_finished
    <2>2. fin = FinishedJob(s.job[n], t)
      BY <1>3 DEF FinishedJob
    <2> HIDE DEF fin, j
    <2>3. s3 = s2
      BY <1>2, <1>3, <2>2 DEF FinishedState
    <2> QED
      BY <2>1, <2>3
  <1> DEFINE job2 == [s.job EXCEPT ![n] = FinishedJob(s.job[n], t)]
             done == Append(s.completedjobs, n)
  <1>4. DOMAIN job2 = DOMAIN s.job
    OBVIOUS
  <1>6. s2 = [s EXCEPT !.job = job2, !.completedjobs = done]
    BY DEF FinishedState
  <1> HIDE DEF job2, done
  <1>5. done \in Seq(I) /\ IsInjective(done) /\ Range(done) = Range(s.completedjobs) \cup {n}
    BY <1>2, <1>3, AppendHolds DEF done
  <1>7. /\ s2.cores = s.cores /\ s2.pqueue = s.pqueue /\ s2.completedjobs = done /\ s2.job = job2
        /\ s2 \in [cores : [C -> I \cup {NULL}], pqueue : Seq(I), completedjobs : Seq(I), job : {job2}]
    BY <1>2, <1>5, <1>6
  <1>8. IsScheduler(s2, I, C)
    BY <1>2, <1>4, <1>5, <1>7 DEF IsScheduler
  <1>9. Agree(I, C, less, [s.cores EXCEPT ![c] = NULL], Range(s.pqueue), Range(s.completedjobs) \cup {n})
    <2>1. C \subseteq Int /\ NULL \notin Int
      BY Parameters
    <2> DEFINE cores == s.cores
               Q == Range(s.pqueue)
               D == Range(s.completedjobs)
    <2>2. Agree(I, C, list, cores, Q, D)
      BY <1>2
    <2> HIDE DEF cores, Q, D
    <2>3. Agree(I, C, less, [cores EXCEPT ![c] = NULL], Q, D \cup {list[i].job_id})
      BY <2>1, <2>2, Leaves
    <2> QED
      BY <2>3 DEF cores, Q, D
  <1>11. (\E k \in C : k # c /\ s2.cores[k] = NULL) => priqueue_rest(s2.pqueue) = << >>
    <2>1. (\E k \in C : s.cores[k] = NULL) => NULL \in Range(s.cores)
      BY <1>2 DEF Range
    <2> QED
      BY <1>2, <1>7, <2>1 DEF priqueue_rest
  <1>12. Leaving(I, C, less, s, c, s2)
    BY <1>5, <1>7, <1>8, <1>9, <1>11 DEF Leaving
  <1> QED
    BY <1>1, <1>3, <1>5, <1>7, <1>12 DEF job2, Finishes

\* ... and main can follow what the scheduler then does.
LEMMA FinishPlaces ==
  ASSUME NEW I, NEW C, I \subseteq Nat, C \subseteq Nat, NEW list, NEW s, Placed(I, C, list, s),
         NEW i \in 1 .. Len(list), NEW c \in C, list[i].core_id = c,
         NEW less \in Seq(Entries(I, C)), Removed(list, less, i), NEW t
  PROVE  Handed(I, C, less, scheduler_job_finished(s, c, t), c)
  <1> DEFINE n == list[i].job_id
             s2 == FinishedState(s, n, t)
  <1>0. n = list[i].job_id
    OBVIOUS
  <1> HIDE DEF n
  <1>1. Finishes(I, C, less, s, c, n, t, s2)
    BY <1>0, FinishIs
  <1> HIDE DEF s2
  <1>2. Handed(I, C, less, NextOnCore(s2, c, t), c)
    BY <1>1, TakesNext DEF Leaving, Finishes
  <1> QED
    BY <1>1, <1>2 DEF Finishes

\* The first half of scheduler_quantum_expired.
ExpiredState(s, n) == [s EXCEPT !.pqueue = Offer("RR", s.pqueue, n, s.job)]

\* Job n has left core c for the queue, in between.
Expires(I, C, off, s, c, n, t, s2) ==
    /\ scheduler_quantum_expired(s, c, t) = NextOnCore(s2, c, t)
    /\ Leaving(I, C, off, s, c, s2)
    /\ s2.job = s.job /\ s2.completedjobs = s.completedjobs
    /\ s2.pqueue = Offer("RR", s.pqueue, n, s.job) /\ Range(s2.pqueue) = Range(s.pqueue) \cup {n}
    /\ s.cores[c] = n /\ n \in I

\* A quantum expires.
LEMMA QuantumIs ==
  ASSUME NEW I, NEW C, I \subseteq Nat, C \subseteq Nat, NEW list, NEW s, Placed(I, C, list, s),
         NEW i \in 1 .. Len(list), NEW c \in C, list[i].core_id = c,
         NEW off \in Seq(Entries(I, C)), Moved(list, off, i, -1), NEW t,
         NEW n, n = list[i].job_id
  PROVE  Expires(I, C, off, s, c, n, t, ExpiredState(s, n))
  <1> DEFINE s2 == ExpiredState(s, n)
             q == s.pqueue
             q2 == Offer("RR", q, n, s.job)
  <1>2. /\ s \in [cores : [C -> I \cup {NULL}], pqueue : Seq(I), completedjobs : Seq(I), job : {s.job}]
        /\ IsInjective(q) /\ IsInjective(s.completedjobs)
        /\ DOMAIN s.job \subseteq I /\ list \in Seq(Entries(I, C))
        /\ Agree(I, C, list, s.cores, Range(q), Range(s.completedjobs))
        /\ q # << >> => NULL \notin Range(s.cores)
    BY DEF Placed, IsScheduler
  <1>3. C \subseteq Int /\ NULL \notin Int /\ -1 \notin C
    BY Parameters
  <1>4. /\ Agree(I, C, off, [s.cores EXCEPT ![c] = NULL], Range(q) \cup {n}, Range(s.completedjobs))
        /\ s.cores[c] = n /\ n \notin Range(q)
    <2> DEFINE cores == s.cores
               Q == Range(q)
               D == Range(s.completedjobs)
    <2>2. Agree(I, C, list, cores, Q, D)
      BY <1>2
    <2> HIDE DEF cores, Q, D
    <2>3. Agree(I, C, off, [cores EXCEPT ![c] = NULL], Q \cup {list[i].job_id}, D)
      BY <1>3, <2>2, GoesBack
    <2>4. cores[c] = list[i].job_id /\ list[i].job_id \notin Q
      BY <2>2 DEF Agree
    <2> QED
      BY <2>3, <2>4 DEF cores, Q, D
  <1>5. n \in I
    <2>1. list[i] \in Entries(I, C)
      BY <1>2
    <2> QED
      BY <2>1 DEF Entries
  <1>1. scheduler_quantum_expired(s, c, t) = NextOnCore(s2, c, t)
    <2> DEFINE s3 == [s EXCEPT !.pqueue = Offer("RR", s.pqueue, s.cores[c], s.job)]
    <2>1. scheduler_quantum_expired(s, c, t) = NextOnCore(s3, c, t)
      BY DEF scheduler_quantum_expired
    <2>2. s3 = s2
      BY <1>4 DEF ExpiredState
    <2> QED
      BY <2>1, <2>2
  <1>6. /\ q2 \in Seq(I) /\ Len(q2) = Len(q) + 1 /\ q2 # << >> /\ Range(q2) = Range(q) \cup {n} /\ IsInjective(q2)
    BY <1>2, <1>4, <1>5, OfferHolds DEF Offered
  <1>7. s2 = [s EXCEPT !.pqueue = q2]
    BY DEF ExpiredState
  <1> HIDE DEF q2
  <1>8. /\ s2.cores = s.cores /\ s2.pqueue = q2 /\ s2.completedjobs = s.completedjobs /\ s2.job = s.job
        /\ s2 \in [cores : [C -> I \cup {NULL}], pqueue : Seq(I), completedjobs : Seq(I), job : {s.job}]
    BY <1>2, <1>6, <1>7
  <1>9. IsScheduler(s2, I, C)
    BY <1>2, <1>6, <1>8 DEF IsScheduler
  <1>10. Agree(I, C, off, [s.cores EXCEPT ![c] = NULL], Range(s2.pqueue), Range(s2.completedjobs))
    BY <1>4, <1>6, <1>8
  <1>11. (\E k \in C : k # c /\ s2.cores[k] = NULL) => priqueue_rest(s2.pqueue) = << >>
    <2>1. (\E k \in C : s.cores[k] = NULL) => q = << >>
      BY <1>2 DEF Range
    <2>2. q = << >> => Tail(q2) = << >>
      <3>1. q = << >> => Len(q2) = 1
        BY <1>6
      <3>2. Tail(q2) \in Seq(I) /\ Len(Tail(q2)) = Len(q2) - 1
        BY <1>6, RestIs
      <3> QED
        BY <3>1, <3>2
    <2> QED
      BY <1>6, <1>8, <2>1, <2>2 DEF priqueue_rest
  <1>12. Leaving(I, C, off, s, c, s2)
    BY <1>8, <1>9, <1>10, <1>11 DEF Leaving
  <1> QED
    BY <1>1, <1>4, <1>5, <1>6, <1>8, <1>12 DEF q2, Expires

\* ... and the job may get its core back.
LEMMA QuantumPlaces ==
  ASSUME NEW I, NEW C, I \subseteq Nat, C \subseteq Nat, NEW list, NEW s, Placed(I, C, list, s),
         NEW i \in 1 .. Len(list), NEW c \in C, list[i].core_id = c,
         NEW off \in Seq(Entries(I, C)), Moved(list, off, i, -1), NEW t
  PROVE  Handed(I, C, off, scheduler_quantum_expired(s, c, t), c)
  <1> DEFINE n == list[i].job_id
             s2 == ExpiredState(s, n)
  <1>0. n = list[i].job_id
    OBVIOUS
  <1> HIDE DEF n
  <1>1. Expires(I, C, off, s, c, n, t, s2)
    BY <1>0, QuantumIs
  <1> HIDE DEF s2
  <1>2. Handed(I, C, off, NextOnCore(s2, c, t), c)
    BY <1>1, TakesNext DEF Leaving, Expires
  <1> QED
    BY <1>1, <1>2 DEF Expires

\* A new job gets a core that is free, or that of a worse job, or waits.
Welcomes(I, C, s, n, r) ==
    /\ IsScheduler(r.state, I, C) /\ r.state.completedjobs = s.completedjobs
    /\ \/ \E c \in C : /\ s.cores[c] = NULL /\ r.returns = c
                       /\ r.state.cores = [s.cores EXCEPT ![c] = n] /\ r.state.pqueue = s.pqueue
       \/ \E c \in C : /\ \A k \in C : s.cores[k] # NULL
                       /\ r.returns = c /\ r.state.cores = [s.cores EXCEPT ![c] = n]
                       /\ Offered(I, s.pqueue, r.state.pqueue, s.cores[c])
       \/ /\ \A k \in C : s.cores[k] # NULL
          /\ r.returns = -1 /\ r.state.cores = s.cores
          /\ Offered(I, s.pqueue, r.state.pqueue, n)

\* scheduler_new_job does one of these, under each of the schemes.
LEMMA NewJobIs ==
  ASSUME NEW I, NEW C, I \subseteq Nat, C \subseteq Nat, NEW s, IsScheduler(s, I, C),
         NEW n \in I, n \notin Range(s.pqueue),
         \A c \in C : s.cores[c] \notin Range(s.pqueue),
         NEW policy, NEW t, NEW rt, NEW pr
  PROVE  Welcomes(I, C, s, n, scheduler_new_job(s, policy, n, t, rt, pr))
  <1> DEFINE r == scheduler_new_job(s, policy, n, t, rt, pr)
             q == s.pqueue
             aged == Aged(s, t)
             new  == [arrival_time |-> t, first_runtime |-> -1, last_runtime |-> -1,
                      running_time |-> rt, remaining_time |-> rt, priority |-> pr,
                      waiting_time |-> 0, turnaround_time |-> 0, response_time |-> 0]
             waits == [x \in DOMAIN aged \cup {n} |-> IF x = n THEN new ELSE aged[x]]
             runs  == [waits EXCEPT ![n] = Start(@, t)]
             idle  == {i \in DOMAIN s.cores : s.cores[i] = NULL}
             worst == IF policy = "PSJF" /\ idle = {} THEN WorstCores(s, waits, new) ELSE {}
             w == s.cores[Min(worst)]
             jobs2 == [runs EXCEPT ![w] = Preempt(@, t)]
  <1>1. r = IF idle # {} THEN
                [state |-> [s EXCEPT !.cores[Min(idle)] = n, !.job = runs],
                 returns |-> Min(idle)]
            ELSE IF worst # {} THEN
                [state |-> [s EXCEPT !.cores[Min(worst)] = n, !.job = jobs2,
                                     !.pqueue = Offer(policy, q, w, jobs2)],
                 returns |-> Min(worst)]
            ELSE
                [state |-> [s EXCEPT !.job = waits, !.pqueue = Offer(policy, q, n, waits)],
                 returns |-> -1]
    BY DEF scheduler_new_job
  <1>2. /\ s \in [cores : [C -> I \cup {NULL}], pqueue : Seq(I), completedjobs : Seq(I), job : {s.job}]
        /\ IsInjective(q) /\ DOMAIN s.job \subseteq I
    BY DEF IsScheduler
  <1>3. DOMAIN aged \subseteq I
    BY <1>2 DEF Aged
  <1> HIDE DEF aged, new
  <1>4. DOMAIN waits \subseteq I
    BY <1>3
  <1> HIDE DEF waits
  <1>5. DOMAIN runs \subseteq I /\ DOMAIN jobs2 \subseteq I
    BY <1>4
  <1>6. idle = {i \in C : s.cores[i] = NULL} /\ DOMAIN s.cores = C
    BY <1>2
  <1>7. worst \subseteq C
    BY <1>6 DEF WorstCores
  <1> HIDE DEF r, runs, jobs2, idle, worst
  <1>8. CASE idle # {}
    <2> DEFINE m == Min(idle)
               st == [s EXCEPT !.cores[m] = n, !.job = runs]
    <2>1. m \in C /\ s.cores[m] = NULL
      BY <1>6, <1>8, LeastOf
    <2> HIDE DEF m
    <2>2. r.state = st /\ r.returns = m
      BY <1>1, <1>8 DEF m
    <2>3. /\ st \in [cores : [C -> I \cup {NULL}], pqueue : Seq(I), completedjobs : Seq(I), job : {runs}]
          /\ st.cores = [s.cores EXCEPT ![m] = n] /\ st.pqueue = s.pqueue
          /\ st.completedjobs = s.completedjobs /\ st.job = runs
      BY <1>2, <2>1
    <2> HIDE DEF st
    <2>4. IsScheduler(st, I, C)
      BY <1>2, <1>5, <2>3 DEF IsScheduler
    <2> QED
      BY <2>1, <2>2, <2>3, <2>4 DEF Welcomes, r
  <1>9. CASE idle = {} /\ worst # {}
    <2> DEFINE m == Min(worst)
               q2 == Offer(policy, q, w, jobs2)
               st == [s EXCEPT !.cores[m] = n, !.job = jobs2, !.pqueue = q2]
    <2>1. m \in C /\ \A k \in C : s.cores[k] # NULL
      BY <1>6, <1>7, <1>9, LeastOf
    <2>2. w = s.cores[m] /\ w \in I /\ w \notin Range(q)
      BY <1>2, <2>1
    <2> HIDE DEF m, w
    <2>3. r.state = st /\ r.returns = m
      BY <1>1, <1>9 DEF m
    <2>4. Offered(I, q, q2, w) /\ q2 \in Seq(I) /\ IsInjective(q2)
      BY <1>2, <2>2, OfferHolds DEF Offered
    <2> HIDE DEF q2
    <2>5. /\ st \in [cores : [C -> I \cup {NULL}], pqueue : Seq(I), completedjobs : Seq(I), job : {jobs2}]
          /\ st.cores = [s.cores EXCEPT ![m] = n] /\ st.pqueue = q2
          /\ st.completedjobs = s.completedjobs /\ st.job = jobs2
      BY <1>2, <2>1, <2>4
    <2> HIDE DEF st
    <2>6. IsScheduler(st, I, C)
      BY <1>2, <1>5, <2>4, <2>5 DEF IsScheduler
    <2> QED
      BY <2>1, <2>2, <2>3, <2>4, <2>5, <2>6 DEF Welcomes, r
  <1>10. CASE idle = {} /\ worst = {}
    <2> DEFINE q2 == Offer(policy, q, n, waits)
               st == [s EXCEPT !.job = waits, !.pqueue = q2]
    <2>1. \A k \in C : s.cores[k] # NULL
      BY <1>6, <1>10
    <2>3. r.state = st /\ r.returns = -1
      BY <1>1, <1>10
    <2>4. Offered(I, q, q2, n) /\ q2 \in Seq(I) /\ IsInjective(q2)
      BY <1>2, OfferHolds DEF Offered
    <2> HIDE DEF q2
    <2>5. /\ st \in [cores : [C -> I \cup {NULL}], pqueue : Seq(I), completedjobs : Seq(I), job : {waits}]
          /\ st.cores = s.cores /\ st.pqueue = q2
          /\ st.completedjobs = s.completedjobs /\ st.job = waits
      BY <1>2, <2>4
    <2> HIDE DEF st
    <2>6. IsScheduler(st, I, C)
      BY <1>2, <1>4, <2>4, <2>5 DEF IsScheduler
    <2> QED
      BY <2>1, <2>3, <2>4, <2>5, <2>6 DEF Welcomes, r
  <1> QED
    BY <1>8, <1>9, <1>10

\* What main makes of the answer: the job of entry i has arrived, on the core if
\* it got one, and whoever was there has left it.
Assigns(list, new, i, core) ==
    /\ Len(new) = Len(list)
    /\ \A j \in 1 .. Len(list) :
         /\ new[j].job_id = list[j].job_id /\ (new[j].arrived <=> list[j].arrived \/ j = i)
         /\ new[j].core_id = IF core = -1 THEN list[j].core_id ELSE IF j = i THEN core
                             ELSE IF list[j].core_id = core THEN -1 ELSE list[j].core_id
         /\ new[j].arrival_time = list[j].arrival_time /\ new[j].priority = list[j].priority
         /\ new[j].run_time = list[j].run_time

\* An arrival keeps the two records matching.
LEMMA ArrivePlaces ==
  ASSUME NEW I, NEW C, I \subseteq Nat, C \subseteq Nat, NEW list, NEW s, Placed(I, C, list, s),
         NEW i \in 1 .. Len(list), ~ list[i].arrived,
         NEW r, Welcomes(I, C, s, list[i].job_id, r),
         NEW new \in Seq(Entries(I, C)), Assigns(list, new, i, r.returns)
  PROVE  Placed(I, C, new, r.state)
  <1> DEFINE n == list[i].job_id
             cores == s.cores
             Q == Range(s.pqueue)
             D == Range(s.completedjobs)
             S == r.state
             Goal == /\ Agree(I, C, new, S.cores, Range(S.pqueue), D)
                     /\ S.pqueue # << >> => NULL \notin Range(S.cores)
  <1>1. /\ list \in Seq(Entries(I, C)) /\ cores \in [C -> I \cup {NULL}]
        /\ Agree(I, C, list, cores, Q, D) /\ IsInjective(s.pqueue)
        /\ s.pqueue # << >> => NULL \notin Range(cores)
    BY DEF Placed, IsScheduler
  <1>2. /\ C \subseteq Int /\ NULL \notin Int /\ -1 \notin C
        /\ list[i] \in Entries(I, C) /\ Len(list) \in Nat
    BY <1>1, Parameters
  <1>3. n \in I /\ n # NULL /\ n \notin Q /\ \A c \in C : cores[c] # n /\ list[i].core_id # c
    <2>1. n \in I
      BY <1>2 DEF Entries
    <2>2. n # NULL
      <3> HIDE DEF n
      <3> QED
        BY <1>2, <2>1
    <2> QED
      BY <1>1, <2>1, <2>2 DEF Agree
  <1>4. /\ IsScheduler(S, I, C) /\ S.completedjobs = s.completedjobs
        /\ S.cores \in [C -> I \cup {NULL}]
    BY DEF Welcomes, IsScheduler
  <1>5. ASSUME NEW c \in C, cores[c] = NULL, r.returns = c,
               S.cores = [cores EXCEPT ![c] = n], S.pqueue = s.pqueue
        PROVE  Goal
    <2> DEFINE mid == [list EXCEPT ![i].arrived = TRUE]
    <2>1. mid \in Seq(Entries(I, C)) /\ Admitted(list, mid, i)
      BY <1>1, AdmitEntry
    <2> HIDE DEF mid
    <2>2. \A j \in 1 .. Len(list) : list[j].core_id # c
      <3>1. ASSUME NEW j \in 1 .. Len(list) PROVE list[j].core_id # c
        <4>1. list[j].job_id \in Int /\ (list[j].core_id = c <=> cores[c] = list[j].job_id)
          BY <1>1 DEF Agree
        <4> QED
          BY <1>2, <1>5, <4>1
      <3> QED
        BY <3>1
    <2>3. Moved(mid, new, i, c)
      <3>1. c # -1
        BY <1>2
      <3> QED
        BY <1>5, <2>1, <2>2, <3>1 DEF Moved, Admitted, Assigns
    <2>f. cores[c] = NULL
      BY <1>5
    <2> HIDE DEF cores, Q, D, n
    <2>4. Agree(I, C, new, [cores EXCEPT ![c] = list[i].job_id], Q, D)
      BY <1>1, <1>2, <2>f, <2>1, <2>3, ArrivesOnCore
    <2>5. s.pqueue = << >>
      BY <1>1, <1>5 DEF Range
    <2> QED
      BY <1>5, <2>4, <2>5 DEF n, Q
  <1>6. ASSUME NEW c \in C, \A k \in C : cores[k] # NULL, r.returns = c,
               S.cores = [cores EXCEPT ![c] = n], Offered(I, s.pqueue, S.pqueue, cores[c])
        PROVE  Goal
    <2>1. PICK p \in 1 .. Len(list) : list[p].job_id = cores[c]
      BY <1>1, <1>6 DEF Agree
    <2>2. list[p].core_id = c
      BY <1>1, <2>1 DEF Agree
    <2> DEFINE off == [list EXCEPT ![p].core_id = -1]
               mid == [off EXCEPT ![i].arrived = TRUE]
    <2>3. off \in Seq(Entries(I, C)) /\ Moved(list, off, p, -1)
      <3>1. -1 \in C \cup {-1}
        OBVIOUS
      <3> QED
        BY <1>1, <3>1, MoveEntry
    <2>4. i \in 1 .. Len(off) /\ off[i].job_id = n /\ ~ off[i].arrived
      BY <2>3 DEF Moved
    <2> HIDE DEF off
    <2>5. mid \in Seq(Entries(I, C)) /\ Admitted(off, mid, i)
      BY <2>3, <2>4, AdmitEntry
    <2> HIDE DEF mid
    <2>6. \A j \in 1 .. Len(list) : j # p => list[j].core_id # c
      BY <1>1, <2>1 DEF Agree
    <2>7. Moved(mid, new, i, c)
      <3>1. c # -1 /\ p # i
        BY <1>2, <1>3, <2>2
      <3>2. Len(mid) = Len(list) /\ Len(off) = Len(list) /\ Len(new) = Len(list)
        BY <2>3, <2>5 DEF Moved, Admitted, Assigns
      <3>3. ASSUME NEW j \in 1 .. Len(list)
            PROVE  /\ new[j].job_id = mid[j].job_id /\ (new[j].arrived <=> mid[j].arrived)
                   /\ new[j].core_id = IF j = i THEN c ELSE mid[j].core_id
                   /\ new[j].arrival_time = mid[j].arrival_time /\ new[j].priority = mid[j].priority
                   /\ new[j].run_time = mid[j].run_time
        <4>1. /\ off[j].job_id = list[j].job_id /\ (off[j].arrived <=> list[j].arrived)
              /\ off[j].core_id = IF j = p THEN -1 ELSE list[j].core_id
              /\ off[j].arrival_time = list[j].arrival_time /\ off[j].priority = list[j].priority
              /\ off[j].run_time = list[j].run_time
          BY <2>3 DEF Moved
        <4>2. /\ mid[j].job_id = off[j].job_id /\ mid[j].core_id = off[j].core_id
              /\ (mid[j].arrived <=> off[j].arrived \/ j = i)
              /\ mid[j].arrival_time = off[j].arrival_time /\ mid[j].priority = off[j].priority
              /\ mid[j].run_time = off[j].run_time
          BY <2>5, <3>2 DEF Admitted
        <4>3. /\ new[j].job_id = list[j].job_id /\ (new[j].arrived <=> list[j].arrived \/ j = i)
              /\ new[j].core_id = IF j = i THEN c ELSE IF list[j].core_id = c THEN -1 ELSE list[j].core_id
              /\ new[j].arrival_time = list[j].arrival_time /\ new[j].priority = list[j].priority
              /\ new[j].run_time = list[j].run_time
          BY <1>6, <3>1 DEF Assigns
        <4> QED
          BY <2>2, <2>6, <4>1, <4>2, <4>3
      <3> QED
        BY <3>2, <3>3 DEF Moved
    <2> DEFINE w == list[p].job_id
               free == [cores EXCEPT ![c] = NULL]
    <2>8. free[c] = NULL /\ [free EXCEPT ![c] = n] = S.cores /\ w = cores[c]
      BY <1>1, <1>6, <2>1
    <2> HIDE DEF free
    <2>9. Agree(I, C, off, free, Q \cup {w}, D)
      <3> HIDE DEF cores, Q, D
      <3>1. Agree(I, C, off, [cores EXCEPT ![c] = NULL], Q \cup {list[p].job_id}, D)
        BY <1>1, <1>2, <2>2, <2>3, GoesBack
      <3> QED
        BY <3>1 DEF free
    <2>10. Agree(I, C, new, [free EXCEPT ![c] = off[i].job_id], Q \cup {w}, D)
      <3> DEFINE P == Q \cup {w}
      <3>1. Agree(I, C, off, free, P, D)
        BY <2>9
      <3> HIDE DEF P, D, w, Q
      <3> QED
        BY <1>2, <2>4, <2>5, <2>7, <2>8, <3>1, ArrivesOnCore DEF P
    <2>12. Range(S.pqueue) = Q \cup {w} /\ NULL \notin Range(S.cores)
      <3>1. Range(S.pqueue) = Q \cup {w}
        BY <1>6, <2>8 DEF Offered
      <3>2. \A k \in C : S.cores[k] # NULL
        BY <1>1, <1>3, <1>6
      <3> QED
        BY <1>4, <3>1, <3>2 DEF Range
    <2> QED
      BY <1>6, <2>4, <2>8, <2>10, <2>12
  <1>7. ASSUME \A k \in C : cores[k] # NULL, r.returns = -1, S.cores = cores,
               Offered(I, s.pqueue, S.pqueue, n)
        PROVE  Goal
    <2>1. Admitted(list, new, i)
      BY <1>7 DEF Assigns, Admitted
    <2>2. Agree(I, C, new, cores, Q \cup {n}, D)
      <3> HIDE DEF cores, Q, D
      <3>1. Agree(I, C, new, cores, Q \cup {list[i].job_id}, D)
        BY <1>1, <1>2, <2>1, Arrives
      <3> QED
        BY <3>1
    <2>4. Range(S.pqueue) = Q \cup {n} /\ NULL \notin Range(S.cores)
      BY <1>1, <1>7 DEF Offered, Range
    <2> QED
      BY <1>7, <2>2, <2>4
  <1>8. Goal
    BY <1>5, <1>6, <1>7 DEF Welcomes
  <1>9. Placed(I, C, new, S)
    BY <1>4, <1>8 DEF Placed
  <1> QED
    BY <1>9

-----------------------------------------------------------------------------
(* The invariant                                                            *)

\* The simulator's own variables.
MachineInv ==
    /\ scheme \in Schemes /\ quantum \in 0 .. MaxQuantum
    /\ Cores # {} /\ Cores \subseteq Nat /\ Ids \subseteq Nat
    /\ quantum_clock \in [Cores -> Int] /\ time \in Nat
    /\ ran \in [Ids -> SUBSET (0 .. time)]

\* Where in its loop main is: while it runs a time unit, every job has some
\* time left, and when it reports, no job is left.
PhaseInv ==
    /\ phase \in {"finish", "quantum", "arrive", "run", "report", "done", "undefined"}
    /\ phase \in {"quantum", "arrive", "run"} => \A i \in Indices : jobs[i].run_time > 0
    /\ phase \in {"report", "done"} => jobs = << >>
    /\ freed = [n \in Ids |-> IF phase = "done" THEN 1 ELSE 0]

\* The inductive invariant.
SchedulerInv ==
    /\ MachineInv
    /\ Placed(Ids, Cores, jobs, sched)
    /\ jobs_alive = Cardinality(Alive(jobs))
    /\ PhaseInv

\* No more jobs are alive than the list has entries.
LEMMA AliveCount ==
  ASSUME NEW list, Len(list) \in Nat
  PROVE  /\ IsFiniteSet(Alive(list))
         /\ Cardinality(Alive(list)) \in Nat /\ Cardinality(Alive(list)) <= Len(list)
  <1> DEFINE m == Len(list)
             A == {k \in 1 .. m : list[k].arrived}
             f == [k \in A |-> list[k].job_id]
             T == Alive(list)
  <1>1. IsFiniteSet(1 .. m) /\ Cardinality(1 .. m) = m
    <2> HIDE DEF m
    <2>1. 1 \in Int /\ m \in Int /\ m \in Nat
      BY DEF m
    <2>2. IsFiniteSet(1 .. m) /\ Cardinality(1 .. m) = IF 1 > m THEN 0 ELSE m - 1 + 1
      BY <2>1, FS_Interval
    <2> QED
      BY <2>1, <2>2
  <1>2. IsFiniteSet(A) /\ Cardinality(A) <= m
    <2>1. A \in SUBSET (1 .. m)
      OBVIOUS
    <2> HIDE DEF A, m
    <2> QED
      BY <1>1, <2>1, FS_Subset
  <1>3. f \in Surjection(A, T)
    BY DEF Surjection, Alive
  <1> HIDE DEF f, A, T
  <1>4. IsFiniteSet(T) /\ Cardinality(T) <= Cardinality(A)
    BY <1>2, <1>3, FS_Surjection
  <1>5. Cardinality(T) \in Nat /\ Cardinality(A) \in Nat
    BY <1>2, <1>4, FS_CardinalityType
  <1> QED
    BY <1>2, <1>4, <1>5 DEF T

\* It holds at first, ...
LEMMA InitInv == Init => SchedulerInv
  <1> SUFFICES ASSUME Init PROVE SchedulerInv
    OBVIOUS
  <1>1. PICK cores \in 1 .. MaxCores, file \in Inputs :
            /\ scheme \in Schemes
            /\ quantum \in IF scheme = "RR" THEN 1 .. MaxQuantum ELSE {0}
            /\ jobs = [i \in DOMAIN file |->
                         [job_id |-> i - 1, arrival_time |-> file[i].arrival_time,
                          run_time |-> file[i].run_time, priority |-> file[i].priority,
                          core_id |-> -1, arrived |-> FALSE]]
            /\ jobs_alive = 0
            /\ quantum_clock = [c \in 0 .. cores - 1 |-> -1]
            /\ time = 0 /\ phase = "finish"
            /\ sched = scheduler_start_up(cores)
            /\ ran = [n \in 0 .. Len(file) - 1 |-> {}]
            /\ freed = [n \in 0 .. Len(file) - 1 |-> 0]
    BY DEF Init
  <1> DEFINE C == 0 .. cores - 1
             m == Len(file)
             I == 0 .. m - 1
  <1>2. /\ file \in Seq([arrival_time : Nat, run_time : Nat, priority : Int])
        /\ m \in Nat /\ DOMAIN file = 1 .. m /\ cores \in Nat \ {0} /\ MaxQuantum \in Nat
    BY Parameters
  <1>3. Cores = C /\ Ids = I
    BY <1>1 DEF Cores, Ids
  <1>4. 0 \in C /\ C \subseteq Nat /\ I \subseteq Nat /\ -1 \notin C
    BY <1>2
  <1>5. MachineInv
    <2>1. quantum \in 0 .. MaxQuantum
      BY <1>1, <1>2
    <2>2. quantum_clock \in [C -> Int] /\ ran \in [I -> SUBSET (0 .. time)]
      BY <1>1
    <2> HIDE DEF C, I
    <2> QED
      BY <1>1, <1>3, <1>4, <2>1, <2>2 DEF MachineInv
  <1>6. /\ jobs \in Seq(Entries(I, C)) /\ Len(jobs) = m
        /\ \A i \in 1 .. m : jobs[i].job_id = i - 1 /\ jobs[i].core_id = -1 /\ jobs[i].arrived = FALSE
    <2> DEFINE entry(i) == [job_id |-> i - 1, arrival_time |-> file[i].arrival_time,
                            run_time |-> file[i].run_time, priority |-> file[i].priority,
                            core_id |-> -1, arrived |-> FALSE]
    <2>1. ASSUME NEW i \in 1 .. m PROVE entry(i) \in Entries(I, C)
      <3>1. file[i] \in [arrival_time : Nat, run_time : Nat, priority : Int]
        <4> DEFINE T == [arrival_time : Nat, run_time : Nat, priority : Int]
        <4> HIDE DEF T
        <4>1. file \in Seq(T)
          BY <1>2 DEF T
        <4>2. file[i] \in T
          BY <4>1
        <4> QED
          BY <4>2 DEF T
      <3>2. i - 1 \in I
        BY <1>2
      <3> HIDE DEF I, C
      <3> QED
        BY <3>1, <3>2 DEF Entries
    <2>2. \A i \in 1 .. m : entry(i).job_id = i - 1 /\ entry(i).core_id = -1 /\ entry(i).arrived = FALSE
      OBVIOUS
    <2>3. jobs = [i \in 1 .. m |-> entry(i)]
      BY <1>1, <1>2
    <2> HIDE DEF entry, I, C, m
    <2>4. jobs \in Seq(Entries(I, C)) /\ Len(jobs) = m
      BY <1>2, <2>1, <2>3
    <2> QED
      BY <2>2, <2>3, <2>4
  <1>7. /\ sched \in [cores : [C -> I \cup {NULL}], pqueue : Seq(I), completedjobs : Seq(I), job : {<< >>}]
        /\ sched.cores = [c \in C |-> NULL] /\ sched.pqueue = << >> /\ sched.completedjobs = << >>
        /\ sched.job = << >>
    BY <1>1 DEF scheduler_start_up, priqueue_init
  <1> HIDE DEF I, C
  <1>8. IsScheduler(sched, I, C)
    BY <1>7 DEF IsScheduler, IsInjective
  <1>9. Range(sched.pqueue) = {} /\ Range(sched.completedjobs) = {}
    BY <1>7 DEF Range
  <1>10. Agree(I, C, jobs, sched.cores, {}, {})
    <2>1. \A n \in I : \E i \in 1 .. m : jobs[i].job_id = n
      <3>1. ASSUME NEW n \in I PROVE n + 1 \in 1 .. m /\ (n + 1) - 1 = n
        BY <1>2 DEF I
      <3>2. ASSUME NEW n \in I PROVE \E i \in 1 .. m : jobs[i].job_id = n
        <4>1. jobs[n + 1].job_id = n
          BY <1>6, <3>1
        <4> QED
          BY <3>1, <4>1
      <3> QED
        BY <3>2
    <2>2. /\ DOMAIN sched.cores = C /\ Len(jobs) \in Nat
          /\ \A i \in 1 .. m : jobs[i].job_id \in Int
          /\ \A i, k \in 1 .. m : jobs[i].job_id = jobs[k].job_id => i = k
      <3>1. DOMAIN sched.cores = C /\ Len(jobs) \in Nat
        BY <1>2, <1>6, <1>7
      <3>2. \A i \in 1 .. m : jobs[i].job_id = i - 1
        BY <1>6
      <3>3. \A i, k \in 1 .. m : i - 1 = k - 1 => i = k
        BY <1>2
      <3>4. \A i \in 1 .. m : i - 1 \in Int
        BY <1>2
      <3> HIDE DEF m
      <3> QED
        BY <3>1, <3>2, <3>3, <3>4
    <2>3. \A i \in 1 .. m, c \in C : jobs[i].core_id # c /\ sched.cores[c] # jobs[i].job_id
      <3>1. ASSUME NEW i \in 1 .. m, NEW c \in C
            PROVE  jobs[i].core_id # c /\ sched.cores[c] # jobs[i].job_id
        <4>1. jobs[i].core_id = -1 /\ sched.cores[c] = NULL /\ jobs[i].job_id \in Int
          BY <1>6, <1>7, <2>2
        <4> QED
          BY <1>4, <4>1, Parameters
      <3> QED
        BY <3>1
    <2>4. \A i \in 1 .. m : ~ jobs[i].arrived
      BY <1>6
    <2>5. \A c \in C : sched.cores[c] = NULL
      BY <1>7
    <2> QED
      BY <1>6, <2>1, <2>2, <2>3, <2>4, <2>5 DEF Agree
  <1>11. Placed(I, C, jobs, sched)
    BY <1>6, <1>7, <1>8, <1>9, <1>10 DEF Placed
  <1>12. jobs_alive = Cardinality(Alive(jobs))
    <2>1. Alive(jobs) = {}
      BY <1>6 DEF Alive
    <2> QED
      BY <1>1, <2>1, FS_EmptySet
  <1>13. PhaseInv
    BY <1>1, <1>3 DEF PhaseInv, I
  <1> QED
    BY <1>3, <1>5, <1>11, <1>12, <1>13 DEF SchedulerInv

\* What is left of the list without entry i.
LEMMA WithoutIs ==
  ASSUME NEW I, NEW C, jobs \in Seq(Entries(I, C)), NEW i \in Indices
  PROVE  Without(i) \in Seq(Entries(I, C)) /\ Removed(jobs, Without(i), i)
  <1> DEFINE T == Entries(I, C)
             m == Len(jobs)
             list == IF i # m THEN [jobs EXCEPT ![i] = jobs[m]] ELSE jobs
             less == SubSeq(list, 1, m - 1)
  <1>1. Without(i) = less
    BY DEF Without, active_jobs
  <1>2. m \in Nat /\ i \in 1 .. m /\ jobs[m] \in T
    BY DEF Indices, active_jobs
  <1> HIDE DEF T
  <1>3. list \in Seq(T) /\ Len(list) = m /\ \A j \in 1 .. m : list[j] = IF j = i THEN jobs[m] ELSE jobs[j]
    BY <1>2 DEF T
  <1> HIDE DEF m, list
  <1>4. /\ less \in Seq(T) /\ Len(less) = m - 1
        /\ \A j \in 1 .. m - 1 : less[j] = list[j]
    <2>1. 1 \in Int /\ m - 1 \in Int /\ \A j \in 1 .. m - 1 : list[j] \in T
      BY <1>2, <1>3
    <2>2. /\ less \in Seq(T) /\ Len(less) = IF 1 <= m - 1 THEN m - 1 - 1 + 1 ELSE 0
          /\ \A j \in 1 .. m - 1 - 1 + 1 : less[j] = list[1 + j - 1]
      BY <2>1, SubSeqProperties
    <2> QED
      BY <1>2, <2>2
  <1> HIDE DEF less
  <1>5. Removed(jobs, less, i)
    <2>1. \A j \in 1 .. m - 1 : less[j] = IF j = i THEN jobs[m] ELSE jobs[j]
      BY <1>2, <1>3, <1>4
    <2> QED
      BY <1>4, <2>1 DEF Removed, m
  <1> QED
    BY <1>1, <1>4, <1>5 DEF T

\* The step that main takes on the answer of the scheduler.
LEMMA DispatchIs ==
  ASSUME NEW I, NEW C, NEW list, NEW r, NEW c, Handed(I, C, list, r, c),
         Dispatch(r.returns, c, list)
  PROVE  /\ phase' = phase /\ Placed(I, C, jobs', r.state)
         /\ jobs' = list \/ \E m \in 1 .. Len(list) : Moved(list, jobs', m, c)
  <1>1. CASE r.returns = -1 /\ Placed(I, C, list, r.state)
    BY <1>1 DEF Dispatch
  <1>2. CASE /\ r.returns # -1 /\ ActiveEntry(r.returns, list) # {}
             /\ Placed(I, C, set_active_job(r.returns, c, list), r.state)
             /\ \E m \in 1 .. Len(list) : Moved(list, set_active_job(r.returns, c, list), m, c)
    <2>1. jobs' = set_active_job(r.returns, c, list) /\ phase' = phase
      BY <1>2 DEF Dispatch
    <2> QED
      BY <1>2, <2>1
  <1> QED
    BY <1>1, <1>2 DEF Handed

\* ... when a job has finished, ...
LEMMA FinishKeeps == SchedulerInv /\ FinishJob => SchedulerInv'
  <1> SUFFICES ASSUME SchedulerInv, FinishJob PROVE SchedulerInv'
    OBVIOUS
  <1> DEFINE i == Min(JustFinished)
             c == jobs[i].core_id
             r == scheduler_job_finished(sched, c, time)
             less == Without(i)
             n == jobs[i].job_id
  <1>1. /\ phase = "finish" /\ JustFinished # {} /\ c \in Cores
        /\ sched' = r.state
        /\ quantum_clock' = IF scheme = "RR" THEN [quantum_clock EXCEPT ![c] = quantum]
                            ELSE quantum_clock
        /\ Dispatch(r.returns, c, less)
        /\ jobs_alive' = jobs_alive - 1
        /\ UNCHANGED <<options, time, ran, freed>>
    BY DEF FinishJob
  <1>2. /\ MachineInv /\ Placed(Ids, Cores, jobs, sched) /\ jobs \in Seq(Entries(Ids, Cores))
        /\ Ids \subseteq Nat /\ Cores \subseteq Nat /\ jobs_alive = Cardinality(Alive(jobs))
        /\ Len(jobs) \in Nat
    BY DEF SchedulerInv, MachineInv, Placed
  <1>3. JustFinished \subseteq 1 .. Len(jobs)
    BY DEF JustFinished, Indices, active_jobs
  <1>4. i \in 1 .. Len(jobs)
    BY <1>1, <1>2, <1>3, LeastOf
  <1> HIDE DEF i
  <1>5. less \in Seq(Entries(Ids, Cores)) /\ Removed(jobs, less, i)
    BY <1>2, <1>4, WithoutIs DEF Indices, active_jobs
  <1> HIDE DEF less
  <1>6. /\ Handed(Ids, Cores, less, r, c)
        /\ Alive(less) = Alive(jobs) \ {n} /\ n \in Alive(jobs)
    <2> HIDE DEF c
    <2>1. jobs[i].core_id = c
      BY DEF c
    <2>2. c \in Cores /\ Placed(Ids, Cores, jobs, sched) /\ Ids \subseteq Nat /\ Cores \subseteq Nat
      BY <1>1, <1>2
    <2> HIDE DEF n
    <2>3. Handed(Ids, Cores, less, scheduler_job_finished(sched, c, time), c)
      BY <1>4, <1>5, <2>1, <2>2, FinishPlaces
    <2>4. Alive(less) = Alive(jobs) \ {jobs[i].job_id} /\ jobs[i].job_id \in Alive(jobs)
      <3> DEFINE Q == Range(sched.pqueue)
                 D == Range(sched.completedjobs)
                 cores == sched.cores
      <3>1. Agree(Ids, Cores, jobs, cores, Q, D)
        BY <2>2 DEF Placed
      <3> HIDE DEF Q, D, cores
      <3> QED
        BY <1>4, <1>5, <2>1, <2>2, <3>1, LeavesAlive
    <2> QED
      BY <2>3, <2>4 DEF n
  <1> HIDE DEF r, c, n
  <1>7. /\ phase' = phase /\ Placed(Ids, Cores, jobs', r.state)
        /\ jobs' = less \/ \E m \in 1 .. Len(less) : Moved(less, jobs', m, c)
    BY <1>1, <1>6, DispatchIs
  <1>8. Alive(jobs') = Alive(less)
    BY <1>7, AliveMoved
  <1>9. jobs_alive' = Cardinality(Alive(jobs'))
    <2> DEFINE A == Alive(jobs)
    <2>1. IsFiniteSet(A)
      BY <1>2, AliveCount
    <2>2. n \in A /\ Alive(less) = A \ {n}
      BY <1>6
    <2> HIDE DEF A
    <2>3. Cardinality(A \ {n}) = Cardinality(A) - 1
      BY <2>1, <2>2, FS_RemoveElement
    <2> QED
      BY <1>1, <1>2, <1>8, <2>2, <2>3 DEF A
  <1>10. Cores' = Cores /\ Ids' = Ids /\ quantum_clock' \in [Cores -> Int] /\ MachineInv'
    <2>1. quantum \in Int
      BY <1>2 DEF MachineInv
    <2>2. quantum_clock \in [Cores -> Int]
      BY <1>2 DEF MachineInv
    <2>3. quantum_clock' \in [Cores -> Int]
      BY <1>1, <2>1, <2>2
    <2>4. Cores' = Cores /\ Ids' = Ids
      BY <1>1, <2>2, <2>3 DEF Cores, Ids
    <2> QED
      BY <1>1, <1>2, <2>3, <2>4 DEF MachineInv, options
  <1>11. PhaseInv'
    BY <1>1, <1>7, <1>10 DEF SchedulerInv, PhaseInv
  <1> QED
    BY <1>1, <1>7, <1>9, <1>10, <1>11 DEF SchedulerInv

\* A step that only moves main on.
LEMMA PhaseMoves ==
  ASSUME SchedulerInv, UNCHANGED <<options, jobs, jobs_alive, quantum_clock, time, sched, ran>>, PhaseInv'
  PROVE  SchedulerInv'
  <1>1. Cores' = Cores /\ Ids' = Ids
    BY DEF Cores, Ids
  <1>2. MachineInv'
    BY <1>1 DEF SchedulerInv, MachineInv, options
  <1>3. Placed(Ids, Cores, jobs, sched)'
    BY <1>1 DEF SchedulerInv
  <1>4. (jobs_alive = Cardinality(Alive(jobs)))'
    BY DEF SchedulerInv
  <1> QED
    BY <1>2, <1>3, <1>4 DEF SchedulerInv

\* ... when main has found the last one that has, or one that had no core, ...
LEMMA FinishesDoneKeeps == SchedulerInv /\ (FinishOffCore \/ FinishesDone) => SchedulerInv'
  <1> SUFFICES ASSUME SchedulerInv, FinishOffCore \/ FinishesDone PROVE SchedulerInv'
    OBVIOUS
  <1>1. UNCHANGED <<options, jobs, jobs_alive, quantum_clock, time, sched, ran, freed>>
    BY DEF FinishOffCore, FinishesDone
  <1>2. PhaseInv
    BY DEF SchedulerInv
  <1>3. CASE FinishOffCore
    <2>1. PhaseInv'
      BY <1>1, <1>2, <1>3 DEF FinishOffCore, PhaseInv, Indices, active_jobs, Ids
    <2> QED
      BY <1>1, <2>1, PhaseMoves
  <1>4. CASE FinishesDone
    <2>1. jobs \in Seq(Entries(Ids, Cores))
      BY DEF SchedulerInv, Placed
    <2>2. phase = "finish" /\ JustFinished = {}
          /\ phase' = IF Len(jobs) = 0 THEN "report" ELSE IF scheme = "RR" THEN "quantum" ELSE "arrive"
      BY <1>4 DEF FinishesDone, active_jobs
    <2>3. \A i \in Indices : jobs[i].run_time > 0
      <3>1. SUFFICES ASSUME NEW i \in 1 .. Len(jobs) PROVE jobs[i].run_time > 0
        BY DEF Indices, active_jobs
      <3>2. jobs[i] \in Entries(Ids, Cores)
        BY <2>1
      <3>3. jobs[i].run_time \in Nat
        BY <3>2 DEF Entries
      <3>4. jobs[i].run_time # 0
        BY <2>2 DEF JustFinished, Indices, active_jobs
      <3> QED
        BY <3>3, <3>4
    <2>4. phase' = "report" => jobs' = << >>
      BY <1>1, <2>1, <2>2
    <2>5. (\A i \in Indices : jobs[i].run_time > 0)'
      BY <1>1, <2>3 DEF Indices, active_jobs
    <2>6. PhaseInv'
      BY <1>1, <1>2, <2>2, <2>4, <2>5 DEF PhaseInv, Ids
    <2> QED
      BY <1>1, <2>6, PhaseMoves
  <1> QED
    BY <1>3, <1>4

\* ... when it has no more quanta or arrivals to see to, ...
LEMMA LoopGoesOn == SchedulerInv /\ (QuantumsDone \/ ArrivalsDone) => SchedulerInv'
  <1> SUFFICES ASSUME SchedulerInv, QuantumsDone \/ ArrivalsDone PROVE SchedulerInv'
    OBVIOUS
  <1>1. /\ UNCHANGED <<options, jobs, jobs_alive, quantum_clock, time, sched, ran, freed>>
        /\ \/ phase = "quantum" /\ phase' = "arrive"
           \/ phase = "arrive" /\ phase' = "run"
    BY DEF QuantumsDone, ArrivalsDone
  <1>2. PhaseInv
    BY DEF SchedulerInv
  <1>3. PhaseInv'
    BY <1>1, <1>2 DEF PhaseInv, Indices, active_jobs, Ids
  <1> QED
    BY <1>1, <1>3, PhaseMoves

\* ... when a quantum expires, ...
LEMMA QuantumKeeps == SchedulerInv /\ QuantumExpires => SchedulerInv'
  <1> SUFFICES ASSUME SchedulerInv, QuantumExpires PROVE SchedulerInv'
    OBVIOUS
  <1> DEFINE c == Min(Expired)
             i == Min(OnCore(c))
             r == scheduler_quantum_expired(sched, c, time)
             off == [jobs EXCEPT ![i].core_id = -1]
  <1>1. /\ phase = "quantum" /\ Expired # {}
        /\ sched' = r.state
        /\ quantum_clock' = [quantum_clock EXCEPT ![c] = quantum]
        /\ Dispatch(r.returns, c, off)
        /\ UNCHANGED <<options, jobs_alive, time, ran, freed>>
    BY DEF QuantumExpires
  <1>2. /\ MachineInv /\ Placed(Ids, Cores, jobs, sched) /\ jobs \in Seq(Entries(Ids, Cores))
        /\ Ids \subseteq Nat /\ Cores \subseteq Nat /\ jobs_alive = Cardinality(Alive(jobs))
        /\ Len(jobs) \in Nat /\ PhaseInv
    BY DEF SchedulerInv, MachineInv, Placed
  <1>3. Expired \subseteq Nat
    BY <1>2 DEF Expired
  <1>4. c \in Expired
    BY <1>1, <1>3, LeastOf
  <1> HIDE DEF c
  <1>5. c \in Cores /\ OnCore(c) # {} /\ OnCore(c) \subseteq Nat
    BY <1>4 DEF Expired, OnCore, Indices, active_jobs
  <1>6. i \in OnCore(c)
    BY <1>5, LeastOf
  <1> HIDE DEF i
  <1>7. i \in 1 .. Len(jobs) /\ jobs[i].core_id = c
    BY <1>6 DEF OnCore, Indices, active_jobs
  <1>8. off \in Seq(Entries(Ids, Cores)) /\ Moved(jobs, off, i, -1)
    <2>1. -1 \in Cores \cup {-1}
      OBVIOUS
    <2> QED
      BY <1>2, <1>7, <2>1, MoveEntry
  <1> HIDE DEF off
  <1>9. Handed(Ids, Cores, off, r, c)
    <2>1. Ids \subseteq Nat /\ Cores \subseteq Nat /\ Placed(Ids, Cores, jobs, sched) /\ c \in Cores
      BY <1>2, <1>5
    <2>2. Handed(Ids, Cores, off, scheduler_quantum_expired(sched, c, time), c)
      BY <1>7, <1>8, <2>1, QuantumPlaces
    <2> QED
      BY <2>2
  <1> HIDE DEF r
  <1>10. /\ phase' = phase /\ Placed(Ids, Cores, jobs', r.state)
         /\ jobs' = off \/ \E m \in 1 .. Len(off) : Moved(off, jobs', m, c)
    BY <1>1, <1>9, DispatchIs
  <1>11. Alive(jobs') = Alive(off) /\ Alive(off) = Alive(jobs)
    BY <1>8, <1>10, AliveMoved
  <1>12. Cores' = Cores /\ Ids' = Ids /\ quantum_clock' \in [Cores -> Int] /\ MachineInv'
    <2>1. quantum \in Int /\ quantum_clock \in [Cores -> Int]
      BY <1>2 DEF MachineInv
    <2>2. quantum_clock' \in [Cores -> Int]
      BY <1>1, <2>1
    <2>3. Cores' = Cores /\ Ids' = Ids
      BY <1>1, <2>1, <2>2 DEF Cores, Ids
    <2> QED
      BY <1>1, <1>2, <2>2, <2>3 DEF MachineInv, options
  <1>13. PhaseInv'
    <2>1. Len(off) = Len(jobs) /\ \A j \in 1 .. Len(jobs) : off[j].run_time = jobs[j].run_time
      BY <1>8 DEF Moved
    <2>2. Len(jobs') = Len(off) /\ \A j \in 1 .. Len(off) : jobs'[j].run_time = off[j].run_time
      BY <1>10 DEF Moved
    <2>3. \A j \in 1 .. Len(jobs) : jobs[j].run_time > 0
      BY <1>1, <1>2 DEF PhaseInv, Indices, active_jobs
    <2>4. (\A j \in Indices : jobs[j].run_time > 0)'
      BY <2>1, <2>2, <2>3 DEF Indices, active_jobs
    <2> QED
      BY <1>1, <1>2, <1>10, <1>12, <2>4 DEF PhaseInv
  <1> QED
    BY <1>1, <1>2, <1>10, <1>11, <1>12, <1>13 DEF SchedulerInv

\* What the answer to an arrival makes of the list.
LEMMA AssignedIs ==
  ASSUME NEW I, NEW C, C \subseteq Nat, jobs \in Seq(Entries(I, C)), NEW i \in Indices,
         NEW c \in C \cup {-1}
  PROVE  Assigned(i, c) \in Seq(Entries(I, C)) /\ Assigns(jobs, Assigned(i, c), i, c)
  <1> DEFINE T == Entries(I, C)
             m == Len(jobs)
             entry(j) == [jobs[j] EXCEPT !.arrived = @ \/ j = i,
                            !.core_id = IF c = -1 THEN @ ELSE IF j = i THEN c
                                        ELSE IF @ = c THEN -1 ELSE @]
             new == [j \in 1 .. m |-> entry(j)]
  <1>1. Assigned(i, c) = new
    BY DEF Assigned, Indices, active_jobs
  <1>2. m \in Nat /\ \A j \in 1 .. m : jobs[j] \in T
    OBVIOUS
  <1>3. ASSUME NEW j \in 1 .. m
        PROVE  /\ entry(j) \in T
               /\ entry(j).job_id = jobs[j].job_id /\ (entry(j).arrived <=> jobs[j].arrived \/ j = i)
               /\ entry(j).core_id = IF c = -1 THEN jobs[j].core_id ELSE IF j = i THEN c
                             ELSE IF jobs[j].core_id = c THEN -1 ELSE jobs[j].core_id
               /\ entry(j).arrival_time = jobs[j].arrival_time /\ entry(j).priority = jobs[j].priority
               /\ entry(j).run_time = jobs[j].run_time
    BY <1>2 DEF Entries
  <1> HIDE DEF entry, T
  <1>4. new \in Seq(T) /\ Len(new) = m /\ \A j \in 1 .. m : new[j] = entry(j)
    BY <1>2, <1>3
  <1> HIDE DEF new
  <1>5. Assigns(jobs, new, i, c)
    BY <1>3, <1>4 DEF Assigns
  <1> QED
    BY <1>1, <1>4, <1>5 DEF T

\* ... when a job arrives, ...
LEMMA ArriveKeeps == SchedulerInv /\ Arrive => SchedulerInv'
  <1> SUFFICES ASSUME SchedulerInv, Arrive PROVE SchedulerInv'
    OBVIOUS
  <1> DEFINE i == Min(Arriving)
             n == jobs[i].job_id
             r == scheduler_new_job(sched, scheme, n, time, jobs[i].run_time, jobs[i].priority)
             core == r.returns
             new == Assigned(i, core)
  <1>1. /\ phase = "arrive" /\ Arriving # {}
        /\ sched' = r.state /\ jobs' = new
        /\ quantum_clock' = IF scheme = "RR" /\ core \in Cores
                            THEN [quantum_clock EXCEPT ![core] = quantum] ELSE quantum_clock
        /\ phase' = IF core \in Cores \cup {-1} THEN phase ELSE "failed"
        /\ jobs_alive' = jobs_alive + 1
        /\ UNCHANGED <<options, time, ran, freed>>
    BY DEF Arrive
  <1>2. /\ MachineInv /\ Placed(Ids, Cores, jobs, sched) /\ jobs \in Seq(Entries(Ids, Cores))
        /\ Ids \subseteq Nat /\ Cores \subseteq Nat /\ jobs_alive = Cardinality(Alive(jobs))
        /\ Len(jobs) \in Nat /\ PhaseInv
    BY DEF SchedulerInv, MachineInv, Placed
  <1>3. Arriving \subseteq Nat
    BY DEF Arriving, Indices, active_jobs
  <1>4. i \in Arriving
    BY <1>1, <1>3, LeastOf
  <1> HIDE DEF i
  <1>5. i \in 1 .. Len(jobs) /\ ~ jobs[i].arrived /\ i \in Indices
    BY <1>4 DEF Arriving, Indices, active_jobs
  <1>6. /\ IsScheduler(sched, Ids, Cores)
        /\ Agree(Ids, Cores, jobs, sched.cores, Range(sched.pqueue), Range(sched.completedjobs))
    BY <1>2 DEF Placed
  <1>7. n \in Ids /\ n \notin Range(sched.pqueue) /\ \A c \in Cores : sched.cores[c] \notin Range(sched.pqueue)
    <2>1. jobs[i] \in Entries(Ids, Cores)
      BY <1>2, <1>5
    <2>2. n \in Ids
      BY <2>1 DEF Entries
    <2> QED
      BY <1>5, <1>6, <2>2 DEF Agree
  <1> HIDE DEF r
  <1>8. Welcomes(Ids, Cores, sched, n, r)
    <2> HIDE DEF n
    <2>1. Welcomes(Ids, Cores, sched, n,
                   scheduler_new_job(sched, scheme, n, time, jobs[i].run_time, jobs[i].priority))
      BY <1>2, <1>6, <1>7, NewJobIs
    <2> QED
      BY <2>1 DEF r
  <1>9. core \in Cores \cup {-1}
    BY <1>8 DEF Welcomes
  <1>10. new \in Seq(Entries(Ids, Cores)) /\ Assigns(jobs, new, i, core)
    <2> HIDE DEF core
    <2> QED
      BY <1>2, <1>5, <1>9, AssignedIs
  <1> HIDE DEF new
  <1>11. /\ Placed(Ids, Cores, new, r.state)
         /\ Alive(new) = Alive(jobs) \cup {n} /\ n \notin Alive(jobs)
    <2>1. /\ Placed(Ids, Cores, jobs, sched) /\ Ids \subseteq Nat /\ Cores \subseteq Nat
          /\ Welcomes(Ids, Cores, sched, jobs[i].job_id, r) /\ Assigns(jobs, new, i, r.returns)
      BY <1>2, <1>8, <1>10
    <2>2. Placed(Ids, Cores, new, r.state)
      BY <1>5, <1>10, <2>1, ArrivePlaces
    <2>3. Alive(new) = Alive(jobs) \cup {jobs[i].job_id}
      BY <1>5, <1>10, AliveArrived DEF Assigns
    <2>4. jobs[i].job_id \notin Alive(jobs)
      <3> DEFINE Q == Range(sched.pqueue)
                 D == Range(sched.completedjobs)
                 cores == sched.cores
      <3>1. Agree(Ids, Cores, jobs, cores, Q, D)
        BY <1>6
      <3> HIDE DEF Q, D, cores
      <3> QED
        BY <1>5, <3>1, NotAlive
    <2> QED
      BY <2>2, <2>3, <2>4
  <1>12. jobs_alive' = Cardinality(Alive(jobs'))
    <2> DEFINE A == Alive(jobs)
    <2>1. IsFiniteSet(A)
      BY <1>2, AliveCount
    <2>2. n \notin A /\ Alive(new) = A \cup {n}
      BY <1>11
    <2> HIDE DEF A, n
    <2>3. Cardinality(A \cup {n}) = Cardinality(A) + 1
      BY <2>1, <2>2, FS_AddElement
    <2> QED
      BY <1>1, <1>2, <2>2, <2>3 DEF A
  <1> HIDE DEF core
  <1>13. phase' = phase
    BY <1>1, <1>9
  <1>14. Cores' = Cores /\ Ids' = Ids /\ MachineInv'
    <2>1. quantum \in Int /\ quantum_clock \in [Cores -> Int]
      BY <1>2 DEF MachineInv
    <2>2. quantum_clock' \in [Cores -> Int]
      BY <1>1, <2>1
    <2>3. Cores' = Cores /\ Ids' = Ids
      BY <1>1, <2>1, <2>2 DEF Cores, Ids
    <2> QED
      BY <1>1, <1>2, <2>2, <2>3 DEF MachineInv, options
  <1>15. PhaseInv'
    <2>1. Len(new) = Len(jobs) /\ \A j \in 1 .. Len(jobs) : new[j].run_time = jobs[j].run_time
      BY <1>10 DEF Assigns
    <2>2. \A j \in 1 .. Len(jobs) : jobs[j].run_time > 0
      BY <1>1, <1>2 DEF PhaseInv, Indices, active_jobs
    <2>3. (\A j \in Indices : jobs[j].run_time > 0)'
      BY <1>1, <2>1, <2>2 DEF Indices, active_jobs
    <2> QED
      BY <1>1, <1>2, <1>13, <1>14, <2>3 DEF PhaseInv
  <1> QED
    BY <1>1, <1>2, <1>11, <1>12, <1>14, <1>15 DEF SchedulerInv

\* No core has two jobs, and one of them works if a job is alive: main's sanity
\* checks never fail.
LEMMA SanityChecks ==
  ASSUME SchedulerInv
  PROVE  /\ \A c \in Cores : IsFiniteSet(OnCore(c)) /\ Cardinality(OnCore(c)) \in {0, 1}
         /\ jobs_alive > 0 => Working # {}
  <1>1. /\ MachineInv /\ IsScheduler(sched, Ids, Cores) /\ jobs \in Seq(Entries(Ids, Cores))
        /\ Ids \subseteq Nat /\ Cores \subseteq Nat /\ Cores # {} /\ jobs_alive = Cardinality(Alive(jobs))
        /\ Agree(Ids, Cores, jobs, sched.cores, Range(sched.pqueue), Range(sched.completedjobs))
        /\ sched.pqueue # << >> => NULL \notin Range(sched.cores)
        /\ DOMAIN sched.cores = Cores
    BY DEF SchedulerInv, MachineInv, Placed, Agree
  <1>2. ASSUME NEW c \in Cores PROVE IsFiniteSet(OnCore(c)) /\ Cardinality(OnCore(c)) \in {0, 1}
    <2>1. \A i, k \in OnCore(c) : i = k
      <3>1. \A i \in OnCore(c) : i \in 1 .. Len(jobs) /\ jobs[i].job_id = sched.cores[c]
        BY <1>1 DEF OnCore, Indices, active_jobs, Agree
      <3>2. \A i, k \in 1 .. Len(jobs) : jobs[i].job_id = jobs[k].job_id => i = k
        BY <1>1 DEF Agree
      <3> QED
        BY <3>1, <3>2
    <2>2. CASE OnCore(c) = {}
      BY <2>2, FS_EmptySet
    <2>3. CASE OnCore(c) # {}
      <3>1. PICK i \in OnCore(c) : TRUE
        BY <2>3
      <3>2. OnCore(c) = {i}
        BY <2>1, <3>1
      <3> QED
        BY <3>2, FS_Singleton
    <2> QED
      BY <2>2, <2>3
  <1>3. ASSUME jobs_alive > 0 PROVE Working # {}
    <2>1. PICK n \in Alive(jobs) : TRUE
      <3>1. Alive(jobs) # {}
        <4>1. Alive(jobs) = {} => Cardinality(Alive(jobs)) = 0
          BY FS_EmptySet
        <4> QED
          BY <1>1, <1>3, <4>1
      <3> QED
        BY <3>1
    <2>2. PICK i \in 1 .. Len(jobs) : jobs[i].job_id = n /\ jobs[i].arrived
      BY <2>1 DEF Alive
    <2>3. jobs[i] \in Entries(Ids, Cores)
      BY <1>1
    <2>4. n \in Ids
      BY <2>2, <2>3 DEF Entries
    <2>5. \E c \in Cores : sched.cores[c] # NULL
      <3>1. CASE n \in Range(sched.pqueue)
        <4>1. sched.pqueue # << >>
          BY <3>1 DEF Range
        <4>2. NULL \notin Range(sched.cores)
          BY <1>1, <4>1
        <4> QED
          BY <1>1, <4>2 DEF Range
      <3>2. CASE \E c \in Cores : sched.cores[c] = n
        <4>1. n # NULL
          BY <1>1, <2>4, Parameters
        <4> QED
          BY <3>2, <4>1
      <3> QED
        BY <1>1, <2>2, <3>1, <3>2 DEF Agree
    <2>6. PICK c \in Cores : sched.cores[c] # NULL
      BY <2>5
    <2>7. PICK k \in 1 .. Len(jobs) : jobs[k].job_id = sched.cores[c]
      BY <1>1, <2>6 DEF Agree
    <2>8. jobs[k].core_id = c /\ c # -1
      BY <1>1, <2>7 DEF Agree
    <2> QED
      BY <2>8 DEF Working, Indices, active_jobs
  <1> QED
    BY <1>2, <1>3

\* ... when the jobs run for a time unit, ...
LEMMA RunKeeps == SchedulerInv /\ RunUnit => SchedulerInv'
  <1> SUFFICES ASSUME SchedulerInv, RunUnit PROVE SchedulerInv'
    OBVIOUS
  <1>1. /\ MachineInv /\ Placed(Ids, Cores, jobs, sched) /\ jobs \in Seq(Entries(Ids, Cores))
        /\ Ids \subseteq Nat /\ Cores \subseteq Nat /\ jobs_alive = Cardinality(Alive(jobs))
        /\ Len(jobs) \in Nat /\ PhaseInv
    BY DEF SchedulerInv, MachineInv, Placed
  <1>2. /\ phase = "run" /\ phase' = "finish" /\ time' = time + 1
        /\ quantum_clock' = [c \in Cores |-> quantum_clock[c] - Cardinality(OnCore(c))]
        /\ ran' = [n \in Ids |-> IF \E i \in Working : jobs[i].job_id = n
                                 THEN ran[n] \cup {time} ELSE ran[n]]
        /\ UNCHANGED <<options, jobs_alive, sched, freed>>
    <2>1. ~ (\E c \in Cores : Cardinality(OnCore(c)) > 1) /\ ~ (jobs_alive > 0 /\ Working = {})
      BY SanityChecks
    <2> QED
      BY <2>1 DEF RunUnit
  <1> DEFINE entry(i) == IF i \in Working THEN [jobs[i] EXCEPT !.run_time = @ - 1] ELSE jobs[i]
  <1>3. jobs' = [i \in 1 .. Len(jobs) |-> entry(i)]
    BY DEF RunUnit, Indices, active_jobs
  <1>4. ASSUME NEW i \in 1 .. Len(jobs)
        PROVE  /\ entry(i) \in Entries(Ids, Cores) /\ entry(i).job_id = jobs[i].job_id
               /\ (entry(i).arrived <=> jobs[i].arrived) /\ entry(i).core_id = jobs[i].core_id
    <2>1. jobs[i] \in Entries(Ids, Cores)
      BY <1>1
    <2>2. jobs[i].run_time > 0
      BY <1>1, <1>2 DEF PhaseInv, Indices, active_jobs
    <2> QED
      BY <2>1, <2>2 DEF Entries
  <1> HIDE DEF entry
  <1>5. jobs' \in Seq(Entries(Ids, Cores)) /\ Len(jobs') = Len(jobs) /\ \A i \in 1 .. Len(jobs) : jobs'[i] = entry(i)
    <2> DEFINE T == Entries(Ids, Cores)
    <2>1. \A i \in 1 .. Len(jobs) : entry(i) \in T
      BY <1>4
    <2> HIDE DEF T
    <2>2. jobs' \in Seq(T) /\ Len(jobs') = Len(jobs) /\ \A i \in 1 .. Len(jobs) : jobs'[i] = entry(i)
      BY <1>1, <1>3, <2>1
    <2> QED
      BY <2>2 DEF T
  <1>6. Unmoved(jobs, jobs')
    BY <1>4, <1>5 DEF Unmoved
  <1>7. /\ Agree(Ids, Cores, jobs', sched.cores, Range(sched.pqueue), Range(sched.completedjobs))
        /\ Alive(jobs') = Alive(jobs)
    <2> DEFINE Q == Range(sched.pqueue)
               D == Range(sched.completedjobs)
               cores == sched.cores
    <2>1. Agree(Ids, Cores, jobs, cores, Q, D)
      BY <1>1 DEF Placed
    <2> HIDE DEF Q, D, cores
    <2>2. Agree(Ids, Cores, jobs', cores, Q, D)
      BY <1>6, <2>1, StaysPut
    <2>3. Alive(jobs') = Alive(jobs)
      BY <1>6, <2>1, StaysPut
    <2> QED
      BY <2>2, <2>3 DEF Q, D, cores
  <1>8. Placed(Ids, Cores, jobs', sched')
    BY <1>1, <1>2, <1>5, <1>7 DEF Placed
  <1>9. Cores' = Cores /\ Ids' = Ids /\ MachineInv'
    <2>1. quantum_clock \in [Cores -> Int] /\ time \in Nat /\ ran \in [Ids -> SUBSET (0 .. time)]
      BY <1>1 DEF MachineInv
    <2>2. \A c \in Cores : Cardinality(OnCore(c)) \in Int
      BY SanityChecks
    <2>3. quantum_clock' \in [Cores -> Int]
      BY <1>2, <2>1, <2>2
    <2>4. ran' \in [Ids -> SUBSET (0 .. time')]
      <3>1. time' \in Nat /\ 0 .. time \subseteq 0 .. time' /\ time \in 0 .. time'
        BY <1>2, <2>1
      <3> QED
        BY <1>2, <2>1, <3>1
    <2>5. Cores' = Cores /\ Ids' = Ids
      BY <1>2 DEF Cores, Ids
    <2> QED
      BY <1>1, <1>2, <2>1, <2>3, <2>4, <2>5 DEF MachineInv, options
  <1>10. PhaseInv'
    BY <1>1, <1>2, <1>9 DEF PhaseInv
  <1> QED
    BY <1>1, <1>2, <1>7, <1>8, <1>9, <1>10 DEF SchedulerInv

\* ... and when the scheduler is cleaned up.
LEMMA CleanUpKeeps == SchedulerInv /\ scheduler_clean_up => SchedulerInv'
  <1> SUFFICES ASSUME SchedulerInv, scheduler_clean_up PROVE SchedulerInv'
    OBVIOUS
  <1>1. /\ phase = "report" /\ phase' = "done" /\ jobs = << >>
        /\ UNCHANGED <<options, jobs, jobs_alive, quantum_clock, time, sched, ran>>
    BY DEF scheduler_clean_up, SchedulerInv, PhaseInv
  <1>2. /\ IsScheduler(sched, Ids, Cores)
        /\ Agree(Ids, Cores, jobs, sched.cores, Range(sched.pqueue), Range(sched.completedjobs))
        /\ Ids \subseteq Nat
    BY DEF SchedulerInv, Placed, MachineInv
  <1>3. 1 .. Len(jobs) = {}
    BY <1>1
  <1>4. /\ \A c \in Cores : sched.cores[c] = NULL
        /\ Range(sched.pqueue) = {}
        /\ \A n \in Ids : n \in Range(sched.completedjobs)
    BY <1>2, <1>3 DEF Agree
  <1>5. ASSUME NEW n \in Ids
        PROVE  Cardinality({c \in Cores : sched.cores[c] = n})
                 + Cardinality({k \in DOMAIN sched.pqueue : sched.pqueue[k] = n})
                 + Cardinality({k \in DOMAIN sched.completedjobs : sched.completedjobs[k] = n}) = 1
    <2>1. {c \in Cores : sched.cores[c] = n} = {}
      BY <1>2, <1>4, Parameters
    <2>2. {k \in DOMAIN sched.pqueue : sched.pqueue[k] = n} = {}
      BY <1>4 DEF Range
    <2>3. PICK k \in DOMAIN sched.completedjobs : sched.completedjobs[k] = n
      BY <1>4 DEF Range
    <2>4. {j \in DOMAIN sched.completedjobs : sched.completedjobs[j] = n} = {k}
      BY <1>2, <2>3 DEF IsScheduler, IsInjective
    <2>5. Cardinality({}) = 0 /\ Cardinality({k}) = 1
      BY FS_EmptySet, FS_Singleton
    <2> QED
      BY <2>1, <2>2, <2>4, <2>5
  <1>6. freed' = [n \in Ids |-> 1]
    BY <1>5 DEF scheduler_clean_up
  <1>7. PhaseInv'
    BY <1>1, <1>6 DEF PhaseInv, Ids, SchedulerInv
  <1> QED
    BY <1>1, <1>7, PhaseMoves

\* The two records match throughout every run of the simulator: any number of
\* jobs and cores, any arrival and run times, any of the four schemes.
THEOREM SchedulerInductive == Spec => []SchedulerInv
  <1>1. Init => SchedulerInv
    BY InitInv
  <1>2. SchedulerInv /\ [Next]_vars => SchedulerInv'
    <2> SUFFICES ASSUME SchedulerInv, [Next]_vars PROVE SchedulerInv'
      OBVIOUS
    <2>1. CASE UNCHANGED vars
      <3>1. PhaseInv'
        BY <2>1 DEF vars, SchedulerInv, PhaseInv, Indices, active_jobs, Ids
      <3> QED
        BY <2>1, <3>1, PhaseMoves DEF vars
    <2> QED
      BY <2>1, FinishKeeps, FinishesDoneKeeps, LoopGoesOn, QuantumKeeps, ArriveKeeps, RunKeeps,
         CleanUpKeeps DEF Next
  <1> QED
    BY <1>1, <1>2, PTL DEF Spec

\* Everything the simulator keeps true of the places of its jobs follows.
LEMMA InvImpliesPlaces == SchedulerInv => PlacesAgree
  <1> SUFFICES ASSUME SchedulerInv PROVE PlacesAgree
    OBVIOUS
  <1> DEFINE Q == Range(sched.pqueue)
             D == Range(sched.completedjobs)
             cores == sched.cores
             m == Len(jobs)
  <1>1. /\ MachineInv /\ PhaseInv /\ jobs \in Seq(Entries(Ids, Cores))
        /\ jobs_alive = Cardinality(Alive(jobs))
        /\ Agree(Ids, Cores, jobs, cores, Q, D)
    BY DEF SchedulerInv, Placed
  <1>2. /\ cores \in [Cores -> Ids \cup {NULL}]
        /\ sched.pqueue \in Seq(Ids) /\ IsInjective(sched.pqueue)
        /\ sched.completedjobs \in Seq(Ids) /\ IsInjective(sched.completedjobs)
        /\ DOMAIN sched.job \subseteq Ids
    BY DEF SchedulerInv, Placed, IsScheduler
  <1>3. m \in Nat /\ \A i \in 1 .. m : jobs[i] \in Entries(Ids, Cores)
    BY <1>1
  <1>4. Range(jobs) = {jobs[i] : i \in 1 .. m}
    BY <1>1 DEF Range
  <1>5. Q \subseteq Ids /\ D \subseteq Ids
    BY <1>2 DEF Range
  <1> HIDE DEF Q, D, m
  <1>6. TypeOK
    <2>1. jobs_alive \in 0 .. active_jobs
      BY <1>1, <1>3, AliveCount DEF active_jobs, m
    <2>2. freed \in [Ids -> {0, 1}]
      BY <1>1 DEF PhaseInv
    <2>3. jobs \in Seq([job_id : Ids, arrival_time : Nat, run_time : Nat, priority : Int,
                        core_id : Cores \cup {-1}, arrived : BOOLEAN])
      BY <1>1 DEF Entries
    <2> QED
      BY <1>1, <1>2, <2>1, <2>2, <2>3 DEF TypeOK, MachineInv, PhaseInv, OptId
  <1>7. \A e \in Range(jobs), c \in Cores : e.core_id = c <=> cores[c] = e.job_id
    <2>1. \A i \in 1 .. m, c \in Cores : jobs[i].core_id = c <=> cores[c] = jobs[i].job_id
      BY <1>1 DEF Agree, m
    <2> QED
      BY <1>4, <2>1
  <1>8. {e.job_id : e \in Live} = Queued \cup OnSomeCore
    <2>1. ASSUME NEW e \in Live PROVE e.job_id \in Queued \cup OnSomeCore
      <3>1. PICK i \in 1 .. m : e = jobs[i] /\ jobs[i].arrived
        BY <1>4 DEF Live
      <3>2. jobs[i].job_id \in Q \/ \E c \in Cores : cores[c] = jobs[i].job_id
        BY <1>1, <3>1 DEF Agree, m
      <3>3. jobs[i].job_id # NULL
        <4>1. jobs[i].job_id \in Ids
          BY <1>3 DEF Entries
        <4>2. Ids \subseteq Nat
          BY <1>1 DEF MachineInv
        <4>3. NULL \notin Ids
          <5>1. NULL \notin Int
            BY Parameters
          <5>2. \A n \in Ids : n \in Int
            BY <4>2
          <5> QED
            BY <5>1, <5>2
        <4> QED
          BY <4>1, <4>3
      <3> QED
        BY <1>2, <3>1, <3>2, <3>3 DEF Queued, OnSomeCore, Q, Range
    <2>2. ASSUME NEW n \in Queued \cup OnSomeCore PROVE \E e \in Live : n = e.job_id
      <3>1. PICK i \in 1 .. m : jobs[i].job_id = n /\ (n \in Q \/ \E c \in Cores : cores[c] = n)
        <4>1. CASE n \in Q
          BY <1>1, <4>1 DEF Agree, m
        <4>2. CASE n \notin Q
          <5>1. PICK c \in Cores : cores[c] = n /\ n # NULL
            BY <1>2, <2>2, <4>2 DEF Queued, OnSomeCore, Q, Range
          <5> QED
            BY <1>1, <5>1 DEF Agree, m
        <4> QED
          BY <4>1, <4>2
      <3>2. jobs[i].arrived
        BY <1>1, <3>1 DEF Agree, m
      <3> QED
        BY <1>4, <3>1, <3>2 DEF Live
    <2> QED
      BY <2>1, <2>2
  <1>9. Queued \cap OnSomeCore = {}
    BY <1>1, <1>2 DEF Queued, OnSomeCore, Agree, Q, Range
  <1>10. D = Ids \ {e.job_id : e \in Range(jobs)}
    <2>1. \A n \in Ids : n \in D <=> \A i \in 1 .. m : jobs[i].job_id # n
      BY <1>1 DEF Agree, m
    <2>2. \A n : n \in {e.job_id : e \in Range(jobs)} <=> \E i \in 1 .. m : n = jobs[i].job_id
      BY <1>4
    <2> QED
      BY <1>5, <2>1, <2>2
  <1>11. phase = "done" => freed = [n \in Ids |-> 1]
    BY <1>1 DEF PhaseInv
  <1> QED
    BY <1>2, <1>6, <1>7, <1>8, <1>9, <1>10, <1>11 DEF PlacesAgree, D

\* So a job is in one place, the one the simulator and the scheduler both think
\* it is in, no core is idle while one waits, and each job_t is freed once.
THEOREM PlacesStayInAgreement == Spec => []PlacesAgree
  BY SchedulerInductive, InvImpliesPlaces, PTL

-----------------------------------------------------------------------------
(* The order of the queue                                                   *)

\* The ranks of the queue are in order, head first.
InOrder(q, rank) ==
    \A i, k \in 1 .. Len(q) : i < k => Before(rank[q[i]], rank[q[k]])

\* A rank is a pair of numbers.
Ranked(T, rank) == \A a \in T : rank[a] \in Int \X Int

\* The comparer says of T what the ranks do.
Compares(T, cmp, rank) ==
    \A a, b \in T : /\ cmp[<<a, b>>] <= 0 <=> Before(rank[a], rank[b])
                    /\ cmp[<<a, b>>] < 0 <=> ~ Before(rank[b], rank[a])

\* Ranks are in a total order.
LEMMA BeforeOrders ==
  ASSUME NEW T, NEW rank, Ranked(T, rank)
  PROVE  /\ \A a, b \in T : Before(rank[a], rank[b]) \/ Before(rank[b], rank[a])
         /\ \A a, b, d \in T : Before(rank[a], rank[b]) /\ Before(rank[b], rank[d]) => Before(rank[a], rank[d])
  <1>1. \A x, y \in Int \X Int : Before(x, y) \/ Before(y, x)
    BY DEF Before
  <1>2. \A x, y, z \in Int \X Int : Before(x, y) /\ Before(y, z) => Before(x, z)
    BY DEF Before
  <1> QED
    BY <1>1, <1>2 DEF Ranked

\* Insertion between the lower and the higher ones keeps the order.
LEMMA InsertInOrder ==
  ASSUME NEW T, NEW q \in Seq(T), NEW n \in T, NEW k \in 0 .. Len(q), NEW r, Inserted(q, r, k, n),
         NEW rank, InOrder(q, rank),
         \A j \in 1 .. Len(q) : j <= k => Before(rank[q[j]], rank[n]),
         \A j \in 1 .. Len(q) : k < j => Before(rank[n], rank[q[j]])
  PROVE  InOrder(r, rank)
  <1> DEFINE m == Len(q)
  <1>1. /\ m \in Nat /\ k \in 0 .. m /\ Len(r) = m + 1
        /\ \A j \in 1 .. m + 1 : r[j] = IF j <= k THEN q[j] ELSE IF j = k + 1 THEN n ELSE q[j - 1]
        /\ \A i, j \in 1 .. m : i < j => Before(rank[q[i]], rank[q[j]])
        /\ \A j \in 1 .. m : j <= k => Before(rank[q[j]], rank[n])
        /\ \A j \in 1 .. m : k < j => Before(rank[n], rank[q[j]])
    BY DEF Inserted, InOrder
  <1> HIDE DEF m
  <1>2. ASSUME NEW i \in 1 .. m + 1, NEW j \in 1 .. m + 1, i < j
        PROVE  Before(rank[r[i]], rank[r[j]])
    <2>1. /\ r[i] = IF i <= k THEN q[i] ELSE IF i = k + 1 THEN n ELSE q[i - 1]
          /\ r[j] = IF j <= k THEN q[j] ELSE IF j = k + 1 THEN n ELSE q[j - 1]
      BY <1>1
    <2>2. CASE j <= k
      <3>1. i \in 1 .. m /\ j \in 1 .. m /\ r[i] = q[i] /\ r[j] = q[j]
        BY <1>1, <1>2, <2>1, <2>2
      <3> QED
        BY <1>1, <1>2, <3>1
    <2>3. CASE j = k + 1
      <3>1. i \in 1 .. m /\ i <= k /\ r[i] = q[i] /\ r[j] = n
        BY <1>1, <1>2, <2>1, <2>3
      <3> QED
        BY <1>1, <3>1
    <2>4. CASE j > k + 1 /\ i <= k
      <3>1. i \in 1 .. m /\ j - 1 \in 1 .. m /\ i < j - 1 /\ r[i] = q[i] /\ r[j] = q[j - 1]
        BY <1>1, <1>2, <2>1, <2>4
      <3> QED
        BY <1>1, <3>1
    <2>5. CASE j > k + 1 /\ i = k + 1
      <3>1. j - 1 \in 1 .. m /\ k < j - 1 /\ r[i] = n /\ r[j] = q[j - 1]
        BY <1>1, <1>2, <2>1, <2>5
      <3> QED
        BY <1>1, <3>1
    <2>6. CASE i > k + 1
      <3>1. i - 1 \in 1 .. m /\ j - 1 \in 1 .. m /\ i - 1 < j - 1 /\ r[i] = q[i - 1] /\ r[j] = q[j - 1]
        BY <1>1, <1>2, <2>1, <2>6
      <3> QED
        BY <1>1, <3>1
    <2> QED
      BY <1>1, <2>2, <2>3, <2>4, <2>5, <2>6
  <1> QED
    BY <1>1, <1>2 DEF InOrder

\* priqueue_offer keeps a queue in order that is in the order of its comparer: if
\* no place was found between two entries the last one is not behind the new one.
LEMMA OfferInOrder ==
  ASSUME NEW T, NEW q \in Seq(T), NEW n \in T, NEW cmp, NEW rank,
         Ranked(T, rank), Compares(T, cmp, rank), InOrder(q, rank)
  PROVE  InOrder(priqueue_offer(q, n, cmp), rank)
  <1> DEFINE m == Len(q)
             r == priqueue_offer(q, n, cmp)
  <1>1. /\ m \in Nat /\ \A j \in 1 .. m : q[j] \in T
        /\ \A i, j \in 1 .. m : i < j => Before(rank[q[i]], rank[q[j]])
    BY DEF InOrder
  <1>2. PICK k \in 0 .. m : Inserted(q, r, k, n) /\ Place(q, n, cmp, k)
    BY OfferIs
  <1>r. SUFFICES InOrder(r, rank)
    BY DEF r
  <1> HIDE DEF r
  <1>3. /\ \A a, b \in T : Before(rank[a], rank[b]) \/ Before(rank[b], rank[a])
        /\ \A a, b, d \in T : Before(rank[a], rank[b]) /\ Before(rank[b], rank[d]) => Before(rank[a], rank[d])
    BY BeforeOrders
  <1>4. \A a, b \in T : /\ cmp[<<a, b>>] <= 0 <=> Before(rank[a], rank[b])
                        /\ cmp[<<a, b>>] < 0 <=> ~ Before(rank[b], rank[a])
    BY DEF Compares
  <1>5. /\ k = 0 => m = 0 \/ cmp[<<n, q[1]>>] < 0
        /\ k > 0 /\ k < m => cmp[<<q[k], n>>] <= 0 /\ cmp[<<n, q[k + 1]>>] < 0
        /\ k > 0 /\ k = m => /\ ~ cmp[<<n, q[1]>>] < 0
                             /\ \A j \in 1 .. m - 1 : ~ (cmp[<<q[j], n>>] <= 0 /\ cmp[<<n, q[j + 1]>>] < 0)
    BY <1>2 DEF Place
  <1> HIDE DEF m
  <1>6. \A i, j \in 1 .. m : i <= j => Before(rank[q[i]], rank[q[j]])
    BY <1>1, <1>3
  <1>7. CASE k = 0
    <2>1. ASSUME NEW j \in 1 .. m PROVE Before(rank[n], rank[q[j]])
      <3>1. 1 \in 1 .. m /\ 1 <= j
        BY <1>1
      <3>2. Before(rank[n], rank[q[1]]) /\ Before(rank[q[1]], rank[q[j]])
        BY <1>1, <1>3, <1>4, <1>5, <1>6, <1>7, <3>1
      <3> QED
        BY <1>1, <1>3, <3>1, <3>2
    <2>2. \A j \in 1 .. m : ~ j <= k /\ (k < j => Before(rank[n], rank[q[j]]))
      BY <1>7, <2>1
    <2> QED
      BY <1>2, <2>2, InsertInOrder DEF m
  <1>8. CASE k > 0 /\ k < m
    <2>1. /\ k \in 1 .. m /\ k + 1 \in 1 .. m
          /\ Before(rank[q[k]], rank[n]) /\ Before(rank[n], rank[q[k + 1]])
      BY <1>1, <1>3, <1>4, <1>5, <1>8
    <2>2. \A j \in 1 .. m : j <= k => Before(rank[q[j]], rank[n])
      BY <1>1, <1>3, <1>6, <2>1
    <2>3. \A j \in 1 .. m : k < j => Before(rank[n], rank[q[j]])
      <3>1. SUFFICES ASSUME NEW j \in 1 .. m, k < j PROVE Before(rank[n], rank[q[j]])
        OBVIOUS
      <3>2. Before(rank[q[k + 1]], rank[q[j]])
        BY <1>1, <1>6, <2>1, <3>1
      <3> QED
        BY <1>1, <1>3, <2>1, <3>2
    <2> QED
      BY <1>2, <2>2, <2>3, InsertInOrder DEF m
  <1>9. CASE k > 0 /\ k = m
    <2>1. \A j \in 1 .. m : Before(rank[q[j]], rank[n])
      <3> DEFINE over == {j \in 1 .. m : ~ Before(rank[q[j]], rank[n])}
                 least == Min(over)
      <3>1. SUFFICES ASSUME over # {} PROVE FALSE
        OBVIOUS
      <3>2. over \subseteq Nat
        OBVIOUS
      <3>3. least \in over /\ \A j \in over : least <= j
        BY <3>1, <3>2, LeastOf
      <3> HIDE DEF least
      <3>4. least \in 1 .. m /\ ~ Before(rank[q[least]], rank[n])
        BY <3>3
      <3>5. 1 \in 1 .. m /\ Before(rank[q[1]], rank[n])
        BY <1>1, <1>3, <1>4, <1>5, <1>9
      <3>6. least # 1
        BY <3>4, <3>5
      <3>7. least - 1 \in 1 .. m - 1 /\ least - 1 \in 1 .. m /\ (least - 1) + 1 = least
        BY <1>1, <3>4, <3>6
      <3>8. Before(rank[q[least - 1]], rank[n])
        BY <3>3, <3>7
      <3>9. cmp[<<q[least - 1], n>>] <= 0 /\ cmp[<<n, q[least]>>] < 0
        BY <1>1, <1>4, <3>4, <3>7, <3>8
      <3> QED
        BY <1>5, <1>9, <3>7, <3>9
    <2> QED
      <3>1. \A j \in 1 .. m : ~ k < j /\ (j <= k => Before(rank[q[j]], rank[n]))
        BY <1>1, <1>9, <2>1
      <3> QED
        BY <1>2, <3>1, InsertInOrder DEF m
  <1> QED
    BY <1>1, <1>2, <1>7, <1>8, <1>9

\* With a comparer that always says 1 the queue is a FIFO one.
LEMMA OfferLast ==
  ASSUME NEW T, NEW q \in Seq(T), NEW n \in T, NEW cmp, NEW rank,
         \A a, b \in T : cmp[<<a, b>>] = 1, InOrder(q, rank),
         \A a \in Range(q) : Before(rank[a], rank[n])
  PROVE  InOrder(priqueue_offer(q, n, cmp), rank)
  <1> DEFINE m == Len(q)
             r == priqueue_offer(q, n, cmp)
  <1>1. m \in Nat /\ \A j \in 1 .. m : q[j] \in T /\ q[j] \in Range(q)
    BY DEF Range
  <1>2. PICK k \in 0 .. m : Inserted(q, r, k, n) /\ Place(q, n, cmp, k)
    BY OfferIs
  <1> HIDE DEF r
  <1>3. k = m
    <2>1. k = 0 => m = 0
      <3>1. m # 0 => q[1] \in T
        BY <1>1
      <3> QED
        BY <1>2, <3>1 DEF Place
    <2>2. ~ (k > 0 /\ k < m)
      <3>1. k > 0 /\ k < m => q[k] \in T
        BY <1>1
      <3> QED
        BY <1>2, <3>1 DEF Place
    <2> QED
      BY <1>1, <2>1, <2>2
  <1>4. \A j \in 1 .. Len(q) : Before(rank[q[j]], rank[n]) /\ ~ k < j
    BY <1>1, <1>3
  <1>5. InOrder(r, rank)
    BY <1>2, <1>4, InsertInOrder
  <1> QED
    BY <1>5 DEF r

\* What is left behind the head is in order, and behind it.
LEMMA RestInOrder ==
  ASSUME NEW T, NEW q \in Seq(T), q # << >>, NEW rank, InOrder(q, rank), Ranked(T, rank)
  PROVE  /\ InOrder(Tail(q), rank)
         /\ \A a \in Range(q) : Before(rank[Head(q)], rank[a])
  <1>1. /\ Head(q) = q[1] /\ 1 \in 1 .. Len(q) /\ Tail(q) \in Seq(T) /\ Len(Tail(q)) = Len(q) - 1
        /\ \A j \in 1 .. Len(Tail(q)) : Tail(q)[j] = q[j + 1]
    BY RestIs
  <1> DEFINE m == Len(q)
             t == Tail(q)
  <1>2. /\ m \in Nat /\ Len(t) = m - 1 /\ \A j \in 1 .. m - 1 : t[j] = q[j + 1]
        /\ \A i, j \in 1 .. m : i < j => Before(rank[q[i]], rank[q[j]])
    BY <1>1 DEF InOrder
  <1>3. \A j \in 1 .. m : q[j] \in T
    OBVIOUS
  <1> HIDE DEF m, t
  <1>4. ASSUME NEW i \in 1 .. m - 1, NEW j \in 1 .. m - 1, i < j
        PROVE  Before(rank[t[i]], rank[t[j]])
    <2>1. i + 1 \in 1 .. m /\ j + 1 \in 1 .. m /\ i + 1 < j + 1
      BY <1>2, <1>4
    <2> QED
      BY <1>2, <2>1
  <1>5. InOrder(t, rank)
    BY <1>2, <1>4 DEF InOrder
  <1>6. \A j \in 1 .. m : Before(rank[q[1]], rank[q[j]])
    <2>1. Before(rank[q[1]], rank[q[1]])
      BY <1>1, <1>3, BeforeOrders DEF m
    <2> QED
      BY <1>1, <1>2, <2>1 DEF m
  <1>7. \A a \in Range(q) : \E j \in 1 .. m : a = q[j]
    BY DEF Range, m
  <1> QED
    BY <1>1, <1>5, <1>6, <1>7 DEF t

-----------------------------------------------------------------------------
(* What the scheduler knows of a job                                        *)

\* What a job_t holds.
JobT == [arrival_time : Int, first_runtime : Int, last_runtime : Int, running_time : Int,
         remaining_time : Int, priority : Int, waiting_time : Int, turnaround_time : Int,
         response_time : Int]

\* The job_t j is right about the job of entry e, which is in this place now and
\* has run at the times R. Under RR remaining_time is not.
Right(policy, e, j, place, now, R) ==
    /\ j.arrival_time = e.arrival_time /\ j.priority = e.priority /\ e.arrival_time <= now
    /\ policy = "PSJF" => e.run_time = IF place = "core"
                                       THEN j.remaining_time - (now - j.last_runtime)
                                       ELSE j.remaining_time
    /\ R \subseteq e.arrival_time .. now - 1
    /\ Cardinality(R) + e.run_time = j.running_time
    /\ j.first_runtime = IF R # {} THEN Min(R) ELSE IF place = "core" THEN now ELSE -1

\* The greatest number of a bounded set is one of it.
LEMMA GreatestOf ==
  ASSUME NEW S, S # {}, NEW b \in Nat, S \subseteq 0 .. b
  PROVE  Max(S) \in S /\ \A y \in S : y <= Max(S)
  <1> DEFINE T == {b - x : x \in S}
  <1>1. T # {} /\ T \subseteq Nat
    <2>1. \A x \in S : b - x \in Nat
      OBVIOUS
    <2> QED
      BY <2>1
  <1>2. Min(T) \in T /\ \A y \in T : Min(T) <= y
    BY <1>1, LeastOf
  <1>3. PICK x \in S : Min(T) = b - x
    BY <1>2
  <1>4. ASSUME NEW y \in S PROVE x >= y
    <2>1. b - y \in T /\ x \in Int /\ y \in Int
      OBVIOUS
    <2>2. b - x <= b - y
      BY <1>2, <1>3, <2>1
    <2> QED
      BY <2>1, <2>2
  <1>5. \E z \in S : \A y \in S : z >= y
    BY <1>4
  <1>6. Max(S) \in S /\ \A y \in S : Max(S) >= y
    BY <1>5 DEF Max
  <1> QED
    BY <1>6

\* The times that a job has run at are finitely many.
LEMMA TimesAreFinite ==
  ASSUME NEW a \in Nat, NEW now \in Nat, NEW R, R \subseteq a .. now - 1
  PROVE  IsFiniteSet(R) /\ Cardinality(R) \in Nat /\ R \subseteq Nat
  <1>1. IsFiniteSet(a .. now - 1)
    <2>1. a \in Int /\ now - 1 \in Int
      OBVIOUS
    <2> QED
      BY <2>1, FS_Interval
  <1>2. IsFiniteSet(R)
    BY <1>1, FS_Subset
  <1>3. R \subseteq Nat
    OBVIOUS
  <1> QED
    BY <1>2, <1>3, FS_CardinalityType

\* A job from the queue resumes on a core.
Resumed(j, new, now) ==
    /\ new \in JobT
    /\ new.arrival_time = j.arrival_time /\ new.priority = j.priority
    /\ new.running_time = j.running_time /\ new.remaining_time = j.remaining_time
    /\ new.last_runtime = now
    /\ new.first_runtime = IF j.first_runtime = -1 THEN now ELSE j.first_runtime

\* ... which is what the scheduler knows afterwards.
LEMMA ResumesRight ==
  ASSUME NEW policy, NEW e, e.arrival_time \in Nat, NEW now \in Nat, NEW R,
         NEW j \in JobT, Right(policy, e, j, "queue", now, R), NEW new, Resumed(j, new, now)
  PROVE  Right(policy, e, new, "core", now, R)
  <1>1. R # {} => Min(R) \in Nat
    <2>1. R \subseteq Nat
      BY DEF Right
    <2> QED
      BY <2>1, LeastOf
  <1>2. new.first_runtime = IF R # {} THEN Min(R) ELSE now
    BY <1>1 DEF Right, Resumed
  <1>3. new.remaining_time \in Int /\ new.remaining_time - (now - new.last_runtime) = new.remaining_time
    BY DEF Resumed, JobT
  <1> QED
    BY <1>2, <1>3 DEF Right, Resumed

\* A job that is on a core is charged for the time it has run.
Charged(j, new, now) ==
    /\ new \in JobT
    /\ new.arrival_time = j.arrival_time /\ new.priority = j.priority
    /\ new.running_time = j.running_time /\ new.first_runtime = j.first_runtime
    /\ new.remaining_time = j.remaining_time - (now - j.last_runtime)
    /\ new.last_runtime = now

\* ... which leaves what is known of it right, and its remaining time exact.
LEMMA ChargedRight ==
  ASSUME NEW policy, NEW e, NEW now \in Nat, NEW R, NEW j \in JobT,
         Right(policy, e, j, "core", now, R), NEW new, Charged(j, new, now)
  PROVE  /\ Right(policy, e, new, "core", now, R)
         /\ policy = "PSJF" => new.remaining_time = e.run_time
  <1>1. new.remaining_time \in Int /\ new.remaining_time - (now - new.last_runtime) = new.remaining_time
    BY DEF Charged, JobT
  <1> QED
    BY <1>1 DEF Right, Charged

\* A job that is preempted has been charged. If it was put on its core at this
\* time it has not run there.
Preempted(j, new, now) ==
    /\ new \in JobT
    /\ new.arrival_time = j.arrival_time /\ new.priority = j.priority
    /\ new.running_time = j.running_time /\ new.remaining_time = j.remaining_time
    /\ new.first_runtime = IF j.first_runtime = now THEN -1 ELSE j.first_runtime

\* ... which is what the scheduler knows of it in the queue.
LEMMA PreemptedRight ==
  ASSUME NEW policy, NEW e, e.arrival_time \in Nat, NEW now \in Nat, NEW R,
         NEW j \in JobT, Right(policy, e, j, "core", now, R), j.last_runtime = now,
         NEW new, Preempted(j, new, now)
  PROVE  Right(policy, e, new, "queue", now, R)
  <1>1. R # {} => Min(R) \in Nat /\ Min(R) < now
    <2>0. R \subseteq e.arrival_time .. now - 1
      BY DEF Right
    <2>1. R \subseteq Nat /\ \A x \in R : x < now
      BY <2>0
    <2>2. R # {} => Min(R) \in R
      BY <2>1, LeastOf
    <2> QED
      BY <2>1, <2>2
  <1>2. new.first_runtime = IF R # {} THEN Min(R) ELSE -1
    BY <1>1 DEF Right, Preempted
  <1>3. j.remaining_time \in Int /\ j.remaining_time - (now - j.last_runtime) = j.remaining_time
    BY DEF JobT
  <1> QED
    BY <1>2, <1>3 DEF Right, Preempted

\* A job whose quantum expires has run, and is no longer on its core.
LEMMA ExpiredRight ==
  ASSUME NEW e, NEW now, NEW R, NEW j, Right("RR", e, j, "core", now, R), R # {}
  PROVE  Right("RR", e, j, "queue", now, R)
  BY DEF Right

\* A job that arrives has all its time before it.
Started(j, e, now) ==
    /\ j \in JobT
    /\ j.arrival_time = now /\ j.priority = e.priority
    /\ j.running_time = e.run_time /\ j.remaining_time = e.run_time

\* ... so what is known of it is right, in the queue and on a core.
LEMMA ArrivedRight ==
  ASSUME NEW policy, NEW e, NEW now \in Nat, e.arrival_time = now, e.run_time \in Nat,
         NEW j, Started(j, e, now)
  PROVE  /\ j.first_runtime = -1 => Right(policy, e, j, "queue", now, {})
         /\ j.first_runtime = now /\ j.last_runtime = now => Right(policy, e, j, "core", now, {})
  <1>1. Cardinality({}) + e.run_time = j.running_time
    BY FS_EmptySet DEF Started
  <1>2. j.remaining_time - (now - now) = e.run_time
    BY DEF Started
  <1> QED
    BY <1>1, <1>2 DEF Right, Started

\* A job runs for a time unit, ...
LEMMA RunsRight ==
  ASSUME NEW policy, NEW e, e.arrival_time \in Nat, e.run_time \in Nat, NEW now \in Nat, NEW R,
         NEW j \in JobT, Right(policy, e, j, "core", now, R),
         NEW new, new.arrival_time = e.arrival_time, new.priority = e.priority,
         new.run_time = e.run_time - 1
  PROVE  Right(policy, new, j, "core", now + 1, R \cup {now})
  <1> DEFINE R2 == R \cup {now}
  <1>1. R \subseteq e.arrival_time .. now - 1
    BY DEF Right
  <1>2. /\ Cardinality(R) \in Nat /\ R \subseteq Nat /\ Cardinality(R2) = Cardinality(R) + 1
    <2> DEFINE a == e.arrival_time
    <2>1. a \in Nat /\ R \subseteq a .. now - 1
      BY <1>1
    <2> HIDE DEF a, R2
    <2>2. IsFiniteSet(R) /\ Cardinality(R) \in Nat /\ R \subseteq Nat
      BY <2>1, TimesAreFinite
    <2>3. now \notin R
      BY <2>1
    <2>4. Cardinality(R \cup {now}) = Cardinality(R) + 1
      BY <2>2, <2>3, FS_AddElement
    <2> QED
      BY <2>2, <2>4 DEF R2
  <1>3. Min(R2) = IF R # {} THEN Min(R) ELSE now
    <2>1. R2 # {} /\ R2 \subseteq Nat
      BY <1>2
    <2>2. Min(R2) \in R2 /\ \A y \in R2 : Min(R2) <= y
      BY <2>1, LeastOf
    <2>3. CASE R = {}
      BY <2>2, <2>3
    <2>4. CASE R # {}
      <3>1. Min(R) \in R /\ \A y \in R : Min(R) <= y
        BY <1>2, <2>4, LeastOf
      <3>2. \A y \in R : y < now
        BY <1>1
      <3>3. Min(R2) \in Nat /\ Min(R) \in Nat /\ Min(R2) <= Min(R)
        BY <1>2, <2>1, <2>2, <3>1
      <3>4. Min(R) <= Min(R2)
        BY <2>2, <3>1, <3>2, <3>3
      <3> QED
        BY <2>4, <3>3, <3>4
    <2> QED
      BY <2>3, <2>4
  <1>4. R2 \subseteq new.arrival_time .. (now + 1) - 1 /\ R2 # {}
    <2>1. e.arrival_time <= now
      BY DEF Right
    <2> QED
      BY <1>1, <2>1
  <1> HIDE DEF R2
  <1>5. j.first_runtime = Min(R2)
    BY <1>3 DEF Right
  <1>6. Cardinality(R2) + new.run_time = j.running_time
    BY <1>2 DEF Right
  <1>7. policy = "PSJF" => new.run_time = j.remaining_time - ((now + 1) - j.last_runtime)
    <2>1. j.remaining_time \in Int /\ j.last_runtime \in Int
      BY DEF JobT
    <2> QED
      BY <2>1 DEF Right
  <1>8. j.arrival_time = new.arrival_time /\ j.priority = new.priority /\ new.arrival_time <= now + 1
    BY DEF Right
  <1>9. Right(policy, new, j, "core", now + 1, R2)
    BY <1>4, <1>5, <1>6, <1>7, <1>8 DEF Right
  <1> QED
    BY <1>9 DEF R2

\* ... or waits for one.
LEMMA WaitsRight ==
  ASSUME NEW policy, NEW e, e.arrival_time \in Nat, NEW now \in Nat, NEW R, NEW j,
         Right(policy, e, j, "queue", now, R)
  PROVE  Right(policy, e, j, "queue", now + 1, R)
  <1>1. R \subseteq e.arrival_time .. (now + 1) - 1
    BY DEF Right
  <1> QED
    BY <1>1 DEF Right

\* What the times of a job that has run last amount to.
Counted(j, R) ==
    /\ Cardinality(R) = j.running_time
    /\ j.response_time = Min(R) - j.arrival_time
    /\ j.turnaround_time = Max(R) + 1 - j.arrival_time
    /\ j.waiting_time = Cardinality((j.arrival_time .. Max(R)) \ R)
    /\ j.turnaround_time = j.waiting_time + Cardinality(R) /\ j.response_time <= j.waiting_time
    /\ j.turnaround_time \in Int /\ j.waiting_time \in Int /\ j.response_time \in Int

\* The statistics of a job that has just finished are those of its times.
LEMMA FinishCounts ==
  ASSUME NEW policy, NEW e, e.arrival_time \in Nat, e.run_time = 0, NEW now \in Nat, NEW R,
         NEW j \in JobT, Right(policy, e, j, "core", now, R), now - 1 \in R,
         NEW new, new.arrival_time = j.arrival_time, new.running_time = j.running_time,
         new.response_time = j.first_runtime - j.arrival_time,
         new.turnaround_time = now - j.arrival_time,
         new.waiting_time = now - j.arrival_time - j.running_time
  PROVE  Counted(new, R)
  <1> DEFINE a == e.arrival_time
             A == a .. now - 1
  <1>1. R \subseteq A /\ j.arrival_time = a /\ a \in Nat
    BY DEF Right
  <1>2. IsFiniteSet(R) /\ Cardinality(R) \in Nat
    BY <1>1, TimesAreFinite
  <1>3. Max(R) = now - 1 /\ a <= now - 1
    <2>1. now \in Nat /\ R \subseteq 0 .. now /\ R # {}
      BY <1>1
    <2>2. Max(R) \in R /\ \A y \in R : y <= Max(R)
      BY <2>1, GreatestOf
    <2>3. Max(R) \in Int /\ Max(R) <= now - 1 /\ now - 1 <= Max(R) /\ a <= now - 1
      <3>1. \A y \in R : y \in Int /\ y <= now - 1 /\ a <= y
        BY <1>1
      <3> QED
        BY <2>2, <3>1
    <2> QED
      BY <2>1, <2>3
  <1>4. Cardinality(R) = j.running_time
    <2>1. Cardinality(R) + e.run_time = j.running_time
      BY DEF Right
    <2> QED
      BY <1>2, <2>1
  <1>5. IsFiniteSet(A) /\ Cardinality(A) = now - a
    <2>1. a \in Int /\ now - 1 \in Int
      BY <1>1
    <2> HIDE DEF a
    <2>2. IsFiniteSet(A) /\ Cardinality(A) = IF a > now - 1 THEN 0 ELSE (now - 1) - a + 1
      BY <2>1, FS_Interval
    <2> QED
      BY <1>1, <1>3, <2>2
  <1>6. Cardinality(A \ R) = (now - a) - Cardinality(R)
    <2> HIDE DEF A
    <2>1. A \cap R = R
      BY <1>1
    <2>2. Cardinality(A \ R) = Cardinality(A) - Cardinality(A \cap R)
      BY <1>5, FS_Difference
    <2> QED
      BY <1>5, <2>1, <2>2
  <1>7. j.first_runtime = Min(R)
    BY DEF Right
  <1>8. Min(R) \in Int /\ Cardinality(R) <= now - Min(R)
    <2>1. now - 1 \in Int /\ R # {} /\ R \subseteq Nat
      BY <1>1
    <2>2. Min(R) \in R /\ \A y \in R : Min(R) <= y
      BY <2>1, LeastOf
    <2> DEFINE b == Min(R)
               B == b .. now - 1
    <2>3. b \in Int /\ b <= now - 1 /\ R \subseteq B
      <3>1. \A y \in R : y \in Int /\ y <= now - 1
        BY <1>1
      <3> QED
        BY <2>2, <3>1
    <2> HIDE DEF b
    <2>4. IsFiniteSet(B) /\ Cardinality(B) = IF b > now - 1 THEN 0 ELSE (now - 1) - b + 1
      BY <2>1, <2>3, FS_Interval
    <2>5. Cardinality(R) <= Cardinality(B)
      <3> HIDE DEF B
      <3> QED
        BY <2>3, <2>4, FS_Subset
    <2> QED
      BY <2>3, <2>4, <2>5 DEF b
  <1> HIDE DEF a
  <1>9. /\ new.turnaround_time = now - a /\ new.waiting_time = (now - a) - Cardinality(R)
        /\ new.response_time = Min(R) - a /\ new.arrival_time = a
    BY <1>1, <1>2, <1>4, <1>7
  <1>10. /\ new.turnaround_time \in Int /\ new.waiting_time \in Int /\ new.response_time \in Int
         /\ new.turnaround_time = new.waiting_time + Cardinality(R)
         /\ new.response_time <= new.waiting_time
    BY <1>1, <1>2, <1>8, <1>9
  <1> QED
    BY <1>1, <1>2, <1>3, <1>4, <1>6, <1>7, <1>10 DEF Counted

-----------------------------------------------------------------------------
(* What the scheduler knows and in which order it serves                    *)

\* What the input and the simulator say of a job, and its rank.
TaskT == [arrival_time : Nat, run_time : Nat, priority : Int]

\* The rank of task e, which has run at the times R.
RankOf(policy, e, R) ==
    CASE policy = "FCFS" -> <<e.arrival_time, 0>>
      [] policy = "PRI"  -> <<e.priority, e.arrival_time>>
      [] policy = "PSJF" -> <<e.run_time, e.arrival_time>>
      [] policy = "RR"   -> <<IF R = {} THEN e.arrival_time ELSE Max(R) + 1, 0>>

\* The ranks of all of them.
Ranks(policy, W, R) == [n \in DOMAIN W |-> RankOf(policy, W[n], R[n])]

\* The scheduler has a job_t for job n, and it is right.
Knows(policy, W, job, n, place, now, R) ==
    /\ n \in DOMAIN W /\ n \in DOMAIN job
    /\ Right(policy, W[n], job[n], place, now, R[n])

\* The scheduler is right about the jobs of its queue and of the cores K, the
\* queue is in order and, under PSJF, no job in it ought to be on one of K.
Serving(policy, W, s, K, now, R) ==
    /\ W \in [DOMAIN W -> TaskT] /\ s.job \in [DOMAIN s.job -> JobT]
    /\ \A n \in Range(s.pqueue) : Knows(policy, W, s.job, n, "queue", now, R)
    /\ \A k \in K : s.cores[k] # NULL => Knows(policy, W, s.job, s.cores[k], "core", now, R)
    /\ InOrder(s.pqueue, Ranks(policy, W, R))
    /\ policy = "PSJF" => \A k \in K, n \in Range(s.pqueue) :
            s.cores[k] # NULL => Before(Ranks(policy, W, R)[s.cores[k]], Ranks(policy, W, R)[n])

\* Jobs that are known have ranks.
LEMMA RanksAre ==
  ASSUME NEW policy \in Schemes, NEW W, W \in [DOMAIN W -> TaskT], NEW R, NEW now \in Nat,
         NEW job, NEW T, \A n \in T : \E place : Knows(policy, W, job, n, place, now, R)
  PROVE  Ranked(T, Ranks(policy, W, R))
  <1>1. SUFFICES ASSUME NEW n \in T PROVE Ranks(policy, W, R)[n] \in Int \X Int
    BY DEF Ranked
  <1>2. PICK place : Knows(policy, W, job, n, place, now, R)
    OBVIOUS
  <1> DEFINE e == W[n]
             X == R[n]
  <1>3. e \in TaskT /\ n \in DOMAIN W /\ X \subseteq e.arrival_time .. now - 1
    BY <1>2 DEF Knows, Right
  <1>4. Ranks(policy, W, R)[n] = RankOf(policy, e, X)
    BY <1>3 DEF Ranks
  <1> HIDE DEF e, X
  <1>5. e.arrival_time \in Nat /\ e.run_time \in Int /\ e.priority \in Int
    BY <1>3 DEF TaskT
  <1>6. X # {} => Max(X) \in Int
    <2>1. X \subseteq 0 .. now
      BY <1>3, <1>5
    <2>2. X # {} => Max(X) \in X
      BY <2>1, GreatestOf
    <2> QED
      BY <2>1, <2>2
  <1>7. RankOf(policy, e, X) \in Int \X Int
    BY <1>5, <1>6 DEF RankOf, Schemes
  <1> QED
    BY <1>4, <1>7

\* NULL is not a job.
LEMMA NotNull ==
  ASSUME NEW I, I \subseteq Nat, NEW n \in I
  PROVE  n # NULL
  <1>1. n \in Int
    OBVIOUS
  <1> QED
    BY <1>1, Parameters

\* The job_t of the job that is taken from the queue says that it runs.
ResumesHead(s, now, job) ==
    /\ job \in [DOMAIN s.job -> JobT]
    /\ \A n \in DOMAIN s.job :
         IF s.pqueue # << >> /\ n = Head(s.pqueue) THEN Resumed(s.job[n], job[n], now)
         ELSE job[n] = s.job[n]

\* It is what becomes of the table when a core takes the next job.
LEMMA NextOnCoreJobs ==
  ASSUME NEW I, NEW C, I \subseteq Nat, C \subseteq Nat, NEW s, IsScheduler(s, I, C),
         NEW c \in C, NEW now \in Nat, s.job \in [DOMAIN s.job -> JobT],
         s.pqueue # << >> => Head(s.pqueue) \in DOMAIN s.job
  PROVE  ResumesHead(s, now, NextOnCore(s, c, now).state.job)
  <1> DEFINE r == NextOnCore(s, c, now)
             n == IF s.pqueue = << >> THEN NULL ELSE Head(s.pqueue)
             resume(j) == [j EXCEPT !.first_runtime = IF @ = -1 THEN now ELSE @, !.last_runtime = now]
             job2 == IF n = NULL THEN s.job ELSE [s.job EXCEPT ![n] = resume(s.job[n])]
  <1>1. n = priqueue_peek(s.pqueue, NULL) /\ (n = NULL <=> s.pqueue = << >>)
    <2>1. s.pqueue # << >> => Head(s.pqueue) \in I
      BY RestIs DEF IsScheduler
    <2>2. s.pqueue # << >> => Head(s.pqueue) # NULL
      BY <2>1, NotNull
    <2> QED
      BY <2>2 DEF priqueue_peek
  <1>2. r = [state |-> [s EXCEPT !.cores[c] = n, !.pqueue = priqueue_rest(@),
                              !.job = IF n = NULL THEN @ ELSE [s.job EXCEPT ![n] = resume(s.job[n])]],
             returns |-> IF n = NULL THEN -1 ELSE n]
    BY <1>1 DEF NextOnCore
  <1>3. s \in [cores : [C -> I \cup {NULL}], pqueue : Seq(I), completedjobs : Seq(I), job : {s.job}]
    BY DEF IsScheduler
  <1>4. ASSUME NEW j \in JobT PROVE resume(j) \in JobT /\ Resumed(j, resume(j), now)
    <2> DEFINE f == IF j.first_runtime = -1 THEN now ELSE j.first_runtime
    <2>1. resume(j) = [j EXCEPT !.first_runtime = f, !.last_runtime = now]
      OBVIOUS
    <2>2. f \in Int
      BY DEF JobT
    <2> HIDE DEF f, resume
    <2>3. resume(j) \in JobT
      <3>1. now \in Int
        OBVIOUS
      <3>2. [j EXCEPT !.first_runtime = f, !.last_runtime = now] \in JobT
        BY <2>2, <3>1 DEF JobT
      <3> QED
        BY <2>1, <3>2
    <2>4. /\ resume(j).arrival_time = j.arrival_time /\ resume(j).priority = j.priority
          /\ resume(j).running_time = j.running_time /\ resume(j).remaining_time = j.remaining_time
          /\ resume(j).last_runtime = now /\ resume(j).first_runtime = f
      BY <2>1 DEF JobT
    <2> QED
      BY <2>3, <2>4 DEF Resumed, f
  <1> HIDE DEF resume, n, r
  <1>5. r.state.job = job2
    BY <1>2, <1>3
  <1>6. n # NULL => n \in DOMAIN s.job /\ s.job[n] \in JobT
    BY <1>1 DEF n
  <1>7. job2 \in [DOMAIN s.job -> JobT]
    BY <1>4, <1>6
  <1>8. \A x \in DOMAIN s.job : job2[x] = IF n # NULL /\ x = n THEN resume(s.job[n]) ELSE s.job[x]
    BY <1>6
  <1> HIDE DEF job2
  <1>9. ASSUME NEW x \in DOMAIN s.job
        PROVE  IF s.pqueue # << >> /\ x = Head(s.pqueue) THEN Resumed(s.job[x], job2[x], now)
               ELSE job2[x] = s.job[x]
    BY <1>1, <1>4, <1>6, <1>8 DEF n
  <1>10. ResumesHead(s, now, job2)
    BY <1>7, <1>9 DEF ResumesHead
  <1> QED
    BY <1>5, <1>10 DEF r

\* No job of the queue has a core, but for c.
OffQueue(s, C, c) == \A k \in C \ {c} : s.cores[k] \notin Range(s.pqueue)

\* Only what is said of the jobs of the queue changes.
JobsKept(s, job) ==
    \A n \in DOMAIN s.job : n \in DOMAIN job /\ (n \notin Range(s.pqueue) => job[n] = s.job[n])

\* A core that is free, or has been given up, takes the next job.
LEMMA NextServes ==
  ASSUME NEW I, NEW C, I \subseteq Nat, C \subseteq Nat, NEW s, IsScheduler(s, I, C),
         NEW c \in C, NEW now \in Nat, NEW policy \in Schemes, NEW W, NEW R,
         Serving(policy, W, s, C \ {c}, now, R),
         OffQueue(s, C, c)
  PROVE  /\ Serving(policy, W, NextOnCore(s, c, now).state, C, now, R)
         /\ JobsKept(s, NextOnCore(s, c, now).state.job)
  <1> DEFINE r == NextOnCore(s, c, now).state
             q == s.pqueue
             h == Head(q)
             rank == Ranks(policy, W, R)
  <1>1. /\ q \in Seq(I) /\ IsInjective(q) /\ s.cores \in [C -> I \cup {NULL}]
        /\ W \in [DOMAIN W -> TaskT] /\ s.job \in [DOMAIN s.job -> JobT]
        /\ \A n \in Range(q) : Knows(policy, W, s.job, n, "queue", now, R)
        /\ \A k \in C \ {c} : s.cores[k] # NULL => Knows(policy, W, s.job, s.cores[k], "core", now, R)
        /\ InOrder(q, rank)
        /\ policy = "PSJF" => \A k \in C \ {c}, n \in Range(q) : s.cores[k] # NULL => Before(rank[s.cores[k]], rank[n])
    BY DEF Serving, IsScheduler
  <1>2. q # << >> => /\ h \in I /\ h \in Range(q) /\ Range(Tail(q)) = Range(q) \ {h}
                     /\ h \in DOMAIN s.job /\ h # NULL
    <2>1. q # << >> => h \in I /\ h \in Range(q) /\ Range(Tail(q)) = Range(q) \ {h}
      BY <1>1, RestIs
    <2> HIDE DEF h, q
    <2> QED
      BY <1>1, <2>1, NotNull DEF Knows
  <1>3. /\ r.cores = [s.cores EXCEPT ![c] = IF q = << >> THEN NULL ELSE h]
        /\ r.pqueue = priqueue_rest(q)
    <2>1. TakesHead(I, C, s, c, NextOnCore(s, c, now))
      BY NextOnCoreIs
    <2> QED
      BY <2>1 DEF TakesHead
  <1>4. ResumesHead(s, now, r.job)
    BY <1>1, <1>2, NextOnCoreJobs
  <1> HIDE DEF r, h
  <1>5. /\ r.job \in [DOMAIN s.job -> JobT]
        /\ \A n \in DOMAIN s.job :
             IF q # << >> /\ n = h THEN Resumed(s.job[n], r.job[n], now) ELSE r.job[n] = s.job[n]
    BY <1>4 DEF ResumesHead, h
  <1>6. Range(r.pqueue) \subseteq Range(q) /\ (q # << >> => h \notin Range(r.pqueue))
    BY <1>2, <1>3 DEF priqueue_rest
  <1>7. ASSUME NEW n \in Range(r.pqueue) PROVE Knows(policy, W, r.job, n, "queue", now, R)
    <2>1. n \in Range(q) /\ Knows(policy, W, s.job, n, "queue", now, R) /\ (q # << >> => n # h)
      BY <1>1, <1>6, <1>7
    <2> QED
      BY <1>5, <2>1 DEF Knows
  <1>8. ASSUME NEW k \in C, r.cores[k] # NULL PROVE Knows(policy, W, r.job, r.cores[k], "core", now, R)
    <2>1. CASE k # c
      <3>1. r.cores[k] = s.cores[k] /\ s.cores[k] \notin Range(q)
        BY <1>1, <1>3, <2>1 DEF OffQueue
      <3>2. Knows(policy, W, s.job, r.cores[k], "core", now, R) /\ (q # << >> => r.cores[k] # h)
        BY <1>1, <1>2, <1>8, <2>1, <3>1
      <3> QED
        BY <1>5, <3>2 DEF Knows
    <2>2. CASE k = c
      <3>1. r.cores[k] = h /\ q # << >>
        BY <1>1, <1>3, <1>8, <2>2
      <3>2. Knows(policy, W, s.job, h, "queue", now, R)
        BY <1>1, <1>2, <3>1
      <3>3. h \in DOMAIN W /\ h \in DOMAIN s.job /\ Right(policy, W[h], s.job[h], "queue", now, R[h])
        BY <3>2 DEF Knows
      <3>4. s.job[h] \in JobT /\ W[h].arrival_time \in Nat /\ Resumed(s.job[h], r.job[h], now)
        <4>1. W[h] \in TaskT
          BY <1>1, <3>3
        <4> QED
          BY <1>1, <1>5, <3>1, <3>3, <4>1 DEF TaskT
      <3>5. Right(policy, W[h], r.job[h], "core", now, R[h])
        BY <3>3, <3>4, ResumesRight
      <3> QED
        BY <1>5, <3>1, <3>3, <3>5 DEF Knows
    <2> QED
      BY <2>1, <2>2
  <1>9. Ranked(Range(q), rank)
    <2>1. \A n \in Range(q) : \E place : Knows(policy, W, s.job, n, place, now, R)
      BY <1>1
    <2> QED
      BY <1>1, <2>1, RanksAre
  <1> HIDE DEF rank
  <1>10. /\ InOrder(r.pqueue, rank)
         /\ q # << >> => \A n \in Range(q) : Before(rank[h], rank[n])
    <2>1. CASE q = << >>
      BY <1>1, <1>3, <2>1 DEF priqueue_rest
    <2>2. CASE q # << >>
      <3> DEFINE T == Range(q)
      <3>1. q \in Seq(T)
        BY <1>1 DEF Range
      <3>2. Ranked(T, rank)
        BY <1>9
      <3> HIDE DEF T, q
      <3>3. InOrder(Tail(q), rank) /\ \A n \in Range(q) : Before(rank[Head(q)], rank[n])
        BY <1>1, <2>2, <3>1, <3>2, RestInOrder
      <3> QED
        BY <1>3, <2>2, <3>3 DEF priqueue_rest, h, q
    <2> QED
      BY <2>1, <2>2
  <1>11. ASSUME policy = "PSJF", NEW k \in C, NEW n \in Range(r.pqueue), r.cores[k] # NULL
         PROVE  Before(rank[r.cores[k]], rank[n])
    <2>1. n \in Range(q)
      BY <1>6
    <2>2. CASE k # c
      BY <1>1, <1>3, <1>11, <2>1, <2>2
    <2>3. CASE k = c
      BY <1>1, <1>3, <1>10, <1>11, <2>1, <2>3
    <2> QED
      BY <2>2, <2>3
  <1>12. DOMAIN r.job = DOMAIN s.job
    BY <1>5
  <1>13. Serving(policy, W, r, C, now, R)
    BY <1>1, <1>5, <1>7, <1>8, <1>10, <1>11, <1>12 DEF Serving, rank
  <1>14. JobsKept(s, r.job)
    BY <1>2, <1>5, <1>12 DEF JobsKept
  <1> QED
    BY <1>13, <1>14 DEF r

\* The tasks V are those of W, for the jobs of the queue and of the cores K.
TasksKept(s, K, W, V) ==
    /\ V \in [DOMAIN V -> TaskT]
    /\ \A n \in Range(s.pqueue) : n \in DOMAIN V /\ V[n] = W[n]
    /\ \A k \in K : s.cores[k] # NULL => s.cores[k] \in DOMAIN V /\ V[s.cores[k]] = W[s.cores[k]]

\* Of the tasks, only those count.
LEMMA OtherTasks ==
  ASSUME NEW policy, NEW W, NEW s, NEW K, NEW now, NEW R, Serving(policy, W, s, K, now, R),
         NEW V, TasksKept(s, K, W, V)
  PROVE  Serving(policy, V, s, K, now, R)
  <1>0. /\ V \in [DOMAIN V -> TaskT]
        /\ \A n \in Range(s.pqueue) : n \in DOMAIN V /\ V[n] = W[n]
        /\ \A k \in K : s.cores[k] # NULL => s.cores[k] \in DOMAIN V /\ V[s.cores[k]] = W[s.cores[k]]
    BY DEF TasksKept
  <1> DEFINE q == s.pqueue
             rank == Ranks(policy, W, R)
             new == Ranks(policy, V, R)
  <1>1. /\ s.job \in [DOMAIN s.job -> JobT]
        /\ \A n \in Range(q) : Knows(policy, W, s.job, n, "queue", now, R)
        /\ \A k \in K : s.cores[k] # NULL => Knows(policy, W, s.job, s.cores[k], "core", now, R)
        /\ InOrder(q, rank)
        /\ policy = "PSJF" => \A k \in K, n \in Range(q) : s.cores[k] # NULL => Before(rank[s.cores[k]], rank[n])
    BY DEF Serving
  <1>2. \A n : n \in DOMAIN V /\ n \in DOMAIN W /\ V[n] = W[n] => new[n] = rank[n]
    BY DEF Ranks
  <1>3. /\ \A n \in Range(q) : Knows(policy, V, s.job, n, "queue", now, R)
        /\ \A k \in K : s.cores[k] # NULL => Knows(policy, V, s.job, s.cores[k], "core", now, R)
    BY <1>0, <1>1 DEF Knows
  <1> HIDE DEF rank, new
  <1>4. /\ \A n \in Range(q) : new[n] = rank[n]
        /\ \A k \in K : s.cores[k] # NULL => new[s.cores[k]] = rank[s.cores[k]]
    BY <1>0, <1>1, <1>2 DEF Knows
  <1>5. InOrder(q, new)
    <2>1. \A i \in 1 .. Len(q) : q[i] \in Range(q)
      BY DEF Range
    <2> QED
      BY <1>1, <1>4, <2>1 DEF InOrder
  <1>6. policy = "PSJF" => \A k \in K, n \in Range(q) : s.cores[k] # NULL => Before(new[s.cores[k]], new[n])
    BY <1>1, <1>4
  <1> QED
    BY <1>0, <1>1, <1>3, <1>5, <1>6 DEF Serving, new

\* The tasks in the list of jobs.
Listed(list) == {list[i].job_id : i \in 1 .. Len(list)}

\* The entry of a job.
EntryOf(list, n) == list[CHOOSE i \in 1 .. Len(list) : list[i].job_id = n]

\* What an entry says of its job.
Task(e) == [arrival_time |-> e.arrival_time, run_time |-> e.run_time, priority |-> e.priority]

\* The tasks of all the jobs listed.
Tasks(list) == [n \in Listed(list) |-> Task(EntryOf(list, n))]

\* No job is listed twice.
OneEach(list) == \A i, k \in 1 .. Len(list) : list[i].job_id = list[k].job_id => i = k

\* A list has one task for each of its entries.
LEMMA TasksAre ==
  ASSUME NEW I, NEW C, NEW list \in Seq(Entries(I, C)), OneEach(list)
  PROVE  /\ Tasks(list) \in [DOMAIN Tasks(list) -> TaskT] /\ DOMAIN Tasks(list) = Listed(list)
         /\ \A i \in 1 .. Len(list) : /\ EntryOf(list, list[i].job_id) = list[i]
                                     /\ list[i].job_id \in Listed(list)
                                     /\ Tasks(list)[list[i].job_id] = Task(list[i])
  <1>1. ASSUME NEW i \in 1 .. Len(list) PROVE EntryOf(list, list[i].job_id) = list[i]
    <2> DEFINE k == CHOOSE k \in 1 .. Len(list) : list[k].job_id = list[i].job_id
    <2>1. k \in 1 .. Len(list) /\ list[k].job_id = list[i].job_id
      OBVIOUS
    <2>2. k = i
      BY <2>1 DEF OneEach
    <2> QED
      BY <2>2 DEF EntryOf
  <1>2. \A i \in 1 .. Len(list) : list[i].job_id \in Listed(list)
    BY DEF Listed
  <1>3. ASSUME NEW n \in Listed(list) PROVE Task(EntryOf(list, n)) \in TaskT
    <2>1. PICK i \in 1 .. Len(list) : n = list[i].job_id
      BY DEF Listed
    <2>2. list[i] \in Entries(I, C)
      OBVIOUS
    <2>3. Task(list[i]) \in TaskT
      BY <2>2 DEF Entries, Task, TaskT
    <2> QED
      BY <1>1, <2>1, <2>3
  <1> QED
    BY <1>1, <1>2, <1>3 DEF Tasks

\* An entry of new is one of list, for all that its task is concerned.
Carried(list, new) ==
    \A i \in 1 .. Len(new) : \E k \in 1 .. Len(list) :
        new[i].job_id = list[k].job_id /\ Task(new[i]) = Task(list[k])

\* The tasks are then those of list.
LEMMA TasksCarried ==
  ASSUME NEW I, NEW C, NEW list \in Seq(Entries(I, C)), OneEach(list),
         NEW new \in Seq(Entries(I, C)), OneEach(new), Carried(list, new)
  PROVE  \A n \in Listed(new) : n \in Listed(list) /\ Tasks(new)[n] = Tasks(list)[n]
  <1>1. SUFFICES ASSUME NEW n \in Listed(new)
                 PROVE  n \in Listed(list) /\ Tasks(new)[n] = Tasks(list)[n]
    OBVIOUS
  <1>2. PICK i \in 1 .. Len(new) : n = new[i].job_id
    BY DEF Listed
  <1>3. PICK k \in 1 .. Len(list) : new[i].job_id = list[k].job_id /\ Task(new[i]) = Task(list[k])
    BY DEF Carried
  <1>4. Tasks(new)[n] = Task(new[i])
    BY <1>2, TasksAre
  <1>5. Tasks(list)[list[k].job_id] = Task(list[k]) /\ list[k].job_id \in Listed(list)
    BY TasksAre
  <1> QED
    BY <1>2, <1>3, <1>4, <1>5

\* ... as it is when a core is given or taken, ...
LEMMA CarriedOver ==
  ASSUME NEW list, NEW new, NEW i, NEW c, Moved(list, new, i, c) \/ Assigns(list, new, i, c)
  PROVE  Carried(list, new) /\ Carried(new, list)
  <1>1. /\ Len(new) = Len(list)
        /\ \A j \in 1 .. Len(list) : new[j].job_id = list[j].job_id /\ Task(new[j]) = Task(list[j])
    BY DEF Moved, Assigns, Task
  <1> QED
    BY <1>1 DEF Carried

\* ... or an entry leaves the list.
LEMMA CarriedOn ==
  ASSUME NEW list, Len(list) \in Nat, NEW i \in 1 .. Len(list), NEW less, Removed(list, less, i)
  PROVE  Carried(list, less)
  <1>1. \A j \in 1 .. Len(less) : less[j] = IF j = i THEN list[Len(list)] ELSE list[j]
    BY DEF Removed
  <1>2. Len(list) \in 1 .. Len(list) /\ \A j \in 1 .. Len(less) : j \in 1 .. Len(list)
    BY DEF Removed
  <1> QED
    BY <1>1, <1>2 DEF Carried

\* The scheduler has counted right for the jobs that are done.
Done(s, R) == \A n \in Range(s.completedjobs) : n \in DOMAIN s.job /\ Counted(s.job[n], R[n])

\* Filling in a job_t leaves it one.
LEMMA FinishedJobIs ==
  ASSUME NEW j \in JobT, NEW t \in Int
  PROVE  /\ FinishedJob(j, t) \in JobT
         /\ FinishedJob(j, t).arrival_time = j.arrival_time
         /\ FinishedJob(j, t).running_time = j.running_time
         /\ FinishedJob(j, t).response_time = j.first_runtime - j.arrival_time
         /\ FinishedJob(j, t).turnaround_time = t - j.arrival_time
         /\ FinishedJob(j, t).waiting_time = t - j.arrival_time - j.running_time
  <1> DEFINE a == j.first_runtime - j.arrival_time
             b == t - j.arrival_time
             d == t - j.arrival_time - j.running_time
  <1>1. a \in Int /\ b \in Int /\ d \in Int
    BY DEF JobT
  <1>2. FinishedJob(j, t) = [j EXCEPT !.response_time = a, !.turnaround_time = b, !.waiting_time = d]
    BY DEF FinishedJob
  <1> HIDE DEF a, b, d
  <1> DEFINE new == [j EXCEPT !.response_time = a, !.turnaround_time = b, !.waiting_time = d]
  <1>3. new \in JobT
    BY <1>1 DEF JobT
  <1>4. /\ new.arrival_time = j.arrival_time /\ new.running_time = j.running_time
        /\ new.response_time = a /\ new.turnaround_time = b /\ new.waiting_time = d
    BY DEF JobT
  <1> HIDE DEF new
  <1>5. FinishedJob(j, t) = new
    BY <1>2 DEF new
  <1> QED
    BY <1>3, <1>4, <1>5 DEF a, b, d

\* The tasks of a list that agrees with the scheduler.
LEMMA TasksListed ==
  ASSUME NEW I, NEW C, NEW list \in Seq(Entries(I, C)), NEW cores, NEW Q, NEW D,
         Agree(I, C, list, cores, Q, D)
  PROVE  /\ OneEach(list) /\ Q \subseteq Listed(list)
         /\ \A k \in C : cores[k] # NULL => cores[k] \in Listed(list)
         /\ \A n \in D : n \in I => n \notin Listed(list)
  BY DEF Agree, OneEach, Listed

\* What is done stays done while the queue's jobs take the cores.
LEMMA DoneStays ==
  ASSUME NEW s, NEW r, NEW R, Done(s, R), r.completedjobs = s.completedjobs,
         JobsKept(s, r.job),
         \A n \in Range(s.completedjobs) : n \notin Range(s.pqueue)
  PROVE  Done(r, R)
  BY DEF Done, JobsKept

\* A job that finishes is charged for what it has run, and leaves the others as
\* they were.
LEMMA FinishServes ==
  ASSUME NEW I, NEW C, I \subseteq Nat, C \subseteq Nat, NEW list, NEW s, Placed(I, C, list, s),
         NEW i \in 1 .. Len(list), NEW c \in C, list[i].core_id = c,
         NEW less \in Seq(Entries(I, C)), Removed(list, less, i),
         NEW now \in Nat, NEW policy \in Schemes, NEW R,
         Serving(policy, Tasks(list), s, C, now, R), Done(s, R),
         list[i].run_time = 0, now - 1 \in R[list[i].job_id]
  PROVE  /\ Serving(policy, Tasks(less), scheduler_job_finished(s, c, now).state, C, now, R)
         /\ Done(scheduler_job_finished(s, c, now).state, R)
  <1> DEFINE n == list[i].job_id
             s2 == FinishedState(s, n, now)
             r == NextOnCore(s2, c, now).state
             W == Tasks(list)
             V == Tasks(less)
             q == s.pqueue
             D2 == Range(s2.completedjobs)
  <1>0. n = list[i].job_id /\ r = NextOnCore(s2, c, now).state
    OBVIOUS
  <1> HIDE DEF n
  <1>1. Finishes(I, C, less, s, c, n, now, s2)
    BY <1>0, FinishIs
  <1> HIDE DEF s2, r
  <1>2. /\ scheduler_job_finished(s, c, now) = NextOnCore(s2, c, now)
        /\ IsScheduler(s2, I, C) /\ s2.cores = s.cores /\ s2.pqueue = q
        /\ Agree(I, C, less, [s.cores EXCEPT ![c] = NULL], Range(q), D2)
        /\ s2.job = [s.job EXCEPT ![n] = FinishedJob(s.job[n], now)]
        /\ D2 = Range(s.completedjobs) \cup {n} /\ s.cores[c] = n /\ n \in I
    BY <1>1 DEF Finishes, Leaving
  <1>3. /\ list \in Seq(Entries(I, C)) /\ IsScheduler(s, I, C)
        /\ Agree(I, C, list, s.cores, Range(q), Range(s.completedjobs))
        /\ s.cores \in [C -> I \cup {NULL}] /\ s.completedjobs \in Seq(I)
    BY DEF Placed, IsScheduler
  <1> HIDE DEF D2
  <1>4. n # NULL /\ n \notin Range(q) /\ \A k \in C : k # c => s.cores[k] # n
    <2>2. n # NULL
      BY <1>2, NotNull
    <2>3. n \notin Range(q)
      BY <1>2, <1>3 DEF Agree
    <2>4. ASSUME NEW k \in C, k # c, s.cores[k] = n PROVE FALSE
      <3> DEFINE cores == s.cores
                 Q == Range(q)
                 D == Range(s.completedjobs)
      <3>1. Agree(I, C, list, cores, Q, D) /\ cores[c] = cores[k] /\ cores[c] # NULL
        BY <1>2, <1>3, <2>2, <2>4
      <3> HIDE DEF cores, Q, D
      <3> QED
        BY <2>4, <3>1, OneCore
    <2> QED
      BY <2>2, <2>3, <2>4
  <1>5. /\ W \in [DOMAIN W -> TaskT] /\ s.job \in [DOMAIN s.job -> JobT]
        /\ \A m \in Range(q) : Knows(policy, W, s.job, m, "queue", now, R)
        /\ \A k \in C : s.cores[k] # NULL => Knows(policy, W, s.job, s.cores[k], "core", now, R)
        /\ InOrder(q, Ranks(policy, W, R))
        /\ policy = "PSJF" => \A k \in C, m \in Range(q) : s.cores[k] # NULL =>
              Before(Ranks(policy, W, R)[s.cores[k]], Ranks(policy, W, R)[m])
    BY DEF Serving
  <1>6. W[n] = Task(list[i]) /\ W[n] \in TaskT
    <2>1. OneEach(list)
      BY <1>3 DEF Agree, OneEach
    <2>2. W[n] = Task(list[i]) /\ n \in DOMAIN W
      BY <1>0, <1>3, <2>1, TasksAre
    <2> QED
      BY <1>5, <2>2
  <1> HIDE DEF W
  <1>7. Knows(policy, W, s.job, n, "core", now, R)
    BY <1>2, <1>4, <1>5
  <1>8. n \in DOMAIN s.job /\ s.job[n] \in JobT /\ Right(policy, W[n], s.job[n], "core", now, R[n])
    BY <1>5, <1>7 DEF Knows
  <1> DEFINE j == s.job[n]
             fin == FinishedJob(j, now)
  <1>9. fin \in JobT /\ Counted(fin, R[n])
    <2>1. now \in Int
      OBVIOUS
    <2>2. /\ fin \in JobT
          /\ fin.arrival_time = j.arrival_time /\ fin.running_time = j.running_time
          /\ fin.response_time = j.first_runtime - j.arrival_time
          /\ fin.turnaround_time = now - j.arrival_time
          /\ fin.waiting_time = now - j.arrival_time - j.running_time
      BY <1>8, <2>1, FinishedJobIs
    <2> DEFINE e == W[n]
               X == R[n]
    <2>3. /\ e.arrival_time \in Nat /\ e.run_time = 0 /\ now - 1 \in X
          /\ Right(policy, e, j, "core", now, X) /\ j \in JobT
      BY <1>0, <1>6, <1>8 DEF TaskT, Task
    <2> HIDE DEF e, X, j, fin
    <2>4. Counted(fin, X)
      BY <2>2, <2>3, FinishCounts
    <2> QED
      BY <2>2, <2>4 DEF X
  <1>10. /\ s2.job \in [DOMAIN s2.job -> JobT] /\ DOMAIN s2.job = DOMAIN s.job
         /\ \A m \in DOMAIN s.job : s2.job[m] = IF m = n THEN fin ELSE s.job[m]
    BY <1>2, <1>5, <1>8, <1>9
  <1> HIDE DEF fin
  <1>11. Serving(policy, W, s2, C \ {c}, now, R)
    <2>1. \A m \in Range(q) : Knows(policy, W, s2.job, m, "queue", now, R)
      BY <1>4, <1>5, <1>10 DEF Knows
    <2>2. \A k \in C \ {c} : s.cores[k] # NULL => Knows(policy, W, s2.job, s.cores[k], "core", now, R)
      BY <1>4, <1>5, <1>10 DEF Knows
    <2> QED
      BY <1>2, <1>5, <1>10, <2>1, <2>2 DEF Serving
  <1>12. V \in [DOMAIN V -> TaskT] /\ \A m \in Listed(less) : m \in DOMAIN V /\ V[m] = W[m]
    <2>1. Carried(list, less)
      <3>1. Len(list) \in Nat
        BY <1>3
      <3> QED
        BY <3>1, CarriedOn
    <2>2. OneEach(list) /\ OneEach(less)
      BY <1>2, <1>3 DEF Agree, OneEach
    <2>3. \A m \in Listed(less) : m \in Listed(list) /\ Tasks(less)[m] = Tasks(list)[m]
      BY <1>3, <2>1, <2>2, TasksCarried
    <2>4. V \in [DOMAIN V -> TaskT] /\ DOMAIN V = Listed(less)
      BY <2>2, TasksAre
    <2> QED
      BY <2>3, <2>4 DEF W
  <1> HIDE DEF V
  <1>13. /\ \A m \in Range(q) : m \in Listed(less)
         /\ \A k \in C \ {c} : s.cores[k] # NULL => s.cores[k] \in Listed(less)
         /\ \A m \in D2 : m \notin Range(q)
    <2> DEFINE free == [s.cores EXCEPT ![c] = NULL]
               Q == Range(q)
    <2>1. Agree(I, C, less, free, Q, D2)
      BY <1>2
    <2>2. \A k \in C : k # c => free[k] = s.cores[k]
      BY <1>3
    <2>3. D2 \subseteq I
      BY <1>2, <1>3 DEF Range
    <2> HIDE DEF free, Q
    <2>4. /\ Q \subseteq Listed(less)
          /\ \A k \in C : free[k] # NULL => free[k] \in Listed(less)
          /\ \A m \in D2 : m \in I => m \notin Listed(less)
      BY <2>1, TasksListed
    <2> QED
      BY <2>2, <2>3, <2>4 DEF Q
  <1>14. Serving(policy, V, s2, C \ {c}, now, R)
    <2>1. /\ \A m \in Range(s2.pqueue) : m \in DOMAIN V /\ V[m] = W[m]
          /\ \A k \in C \ {c} : s2.cores[k] # NULL => s2.cores[k] \in DOMAIN V /\ V[s2.cores[k]] = W[s2.cores[k]]
      BY <1>2, <1>12, <1>13
    <2>2. TasksKept(s2, C \ {c}, W, V)
      BY <1>12, <2>1 DEF TasksKept
    <2> QED
      BY <1>11, <2>2, OtherTasks
  <1>15. OffQueue(s2, C, c)
    BY <1>2, <1>3 DEF Agree, OffQueue
  <1>16. /\ Serving(policy, V, NextOnCore(s2, c, now).state, C, now, R)
         /\ JobsKept(s2, NextOnCore(s2, c, now).state.job)
    BY <1>2, <1>14, <1>15, NextServes
  <1>17. Done(s2, R)
    BY <1>2, <1>8, <1>9, <1>10 DEF Done, D2
  <1>18. r.completedjobs = s2.completedjobs
    <2>1. TakesHead(I, C, s2, c, NextOnCore(s2, c, now))
      BY <1>2, NextOnCoreIs
    <2> QED
      BY <1>0, <2>1 DEF TakesHead
  <1>19. Done(r, R)
    <2>1. JobsKept(s2, r.job)
      BY <1>0, <1>16
    <2>2. \A m \in Range(s2.completedjobs) : m \notin Range(s2.pqueue)
      BY <1>2, <1>13 DEF D2
    <2> QED
      BY <1>17, <1>18, <2>1, <2>2, DoneStays
  <1> QED
    BY <1>0, <1>2, <1>16, <1>19 DEF V

\* What the comparer looks at is what the ranks are made of.
Matches(policy, j, e) ==
    /\ j.arrival_time = e.arrival_time /\ j.priority = e.priority
    /\ policy = "PSJF" => j.remaining_time = e.run_time

\* Three of the comparers compare ranks, ...
LEMMA ComparerRanks ==
  ASSUME NEW policy \in Schemes, policy # "RR", NEW e \in TaskT, NEW f \in TaskT, NEW j \in JobT, NEW k \in JobT,
         Matches(policy, j, e), Matches(policy, k, f), NEW X, NEW Y
  PROVE  /\ comparer(policy, j, k) <= 0 <=> Before(RankOf(policy, e, X), RankOf(policy, f, Y))
         /\ comparer(policy, j, k) < 0 <=> ~ Before(RankOf(policy, f, Y), RankOf(policy, e, X))
  <1>1. /\ e.arrival_time \in Int /\ e.run_time \in Int /\ e.priority \in Int
        /\ f.arrival_time \in Int /\ f.run_time \in Int /\ f.priority \in Int
    BY DEF TaskT
  <1>2. CASE policy = "FCFS"
    <2>1. comparer(policy, j, k) = e.arrival_time - f.arrival_time
      BY <1>2 DEF comparer, Matches
    <2>2. RankOf(policy, e, X) = <<e.arrival_time, 0>> /\ RankOf(policy, f, Y) = <<f.arrival_time, 0>>
      BY <1>2 DEF RankOf
    <2> QED
      BY <1>1, <2>1, <2>2 DEF Before
  <1>3. CASE policy = "PRI"
    <2>1. comparer(policy, j, k) = IF e.priority # f.priority THEN e.priority - f.priority
                                   ELSE e.arrival_time - f.arrival_time
      BY <1>3 DEF comparer, Matches
    <2>2. RankOf(policy, e, X) = <<e.priority, e.arrival_time>> /\ RankOf(policy, f, Y) = <<f.priority, f.arrival_time>>
      BY <1>3 DEF RankOf
    <2> QED
      BY <1>1, <2>1, <2>2 DEF Before
  <1>4. CASE policy = "PSJF"
    <2>1. comparer(policy, j, k) = IF e.run_time # f.run_time THEN e.run_time - f.run_time
                                   ELSE e.arrival_time - f.arrival_time
      BY <1>4 DEF comparer, Matches
    <2>2. RankOf(policy, e, X) = <<e.run_time, e.arrival_time>> /\ RankOf(policy, f, Y) = <<f.run_time, f.arrival_time>>
      BY <1>4 DEF RankOf
    <2> QED
      BY <1>1, <2>1, <2>2 DEF Before
  <1> QED
    BY <1>2, <1>3, <1>4 DEF Schemes

\* ... so a job that is offered to a queue in order finds its place.
LEMMA OfferOrders ==
  ASSUME NEW S, NEW q \in Seq(S), NEW n \in S, NEW policy \in Schemes,
         NEW W, W \in [DOMAIN W -> TaskT], NEW job, job \in [DOMAIN job -> JobT], NEW now \in Nat, NEW R,
         \A a \in Range(q) : Knows(policy, W, job, a, "queue", now, R),
         Knows(policy, W, job, n, "queue", now, R),
         InOrder(q, Ranks(policy, W, R)),
         policy = "RR" => \A a \in Range(q) : Before(Ranks(policy, W, R)[a], Ranks(policy, W, R)[n])
  PROVE  InOrder(Offer(policy, q, n, job), Ranks(policy, W, R))
  <1> DEFINE T == Range(q) \cup {n}
             rank == Ranks(policy, W, R)
             cmp == [p \in (DOMAIN job) \X (DOMAIN job) |-> comparer(policy, job[p[1]], job[p[2]])]
  <1>1. Offer(policy, q, n, job) = priqueue_offer(q, n, cmp)
    BY DEF Offer
  <1>2. q \in Seq(T) /\ n \in T
    BY DEF Range
  <1>3. \A a \in T : Knows(policy, W, job, a, "queue", now, R)
    OBVIOUS
  <1>4. ASSUME NEW a \in T
        PROVE  /\ a \in DOMAIN job /\ job[a] \in JobT /\ W[a] \in TaskT
               /\ Matches(policy, job[a], W[a]) /\ rank[a] = RankOf(policy, W[a], R[a])
    <2>1. a \in DOMAIN job /\ a \in DOMAIN W /\ Right(policy, W[a], job[a], "queue", now, R[a])
      BY <1>3 DEF Knows
    <2>2. job[a] \in JobT /\ W[a] \in TaskT
      BY <2>1
    <2>3. Matches(policy, job[a], W[a])
      BY <2>1 DEF Matches, Right
    <2> QED
      BY <2>1, <2>2, <2>3 DEF Ranks
  <1>5. Ranked(T, rank)
    <2>1. \A a \in T : \E place : Knows(policy, W, job, a, place, now, R)
      BY <1>3
    <2> HIDE DEF T
    <2> QED
      BY <2>1, RanksAre
  <1>6. \A a, b \in T : cmp[<<a, b>>] = comparer(policy, job[a], job[b])
    <2>1. ASSUME NEW a \in T, NEW b \in T PROVE cmp[<<a, b>>] = comparer(policy, job[a], job[b])
      <3>1. <<a, b>> \in (DOMAIN job) \X (DOMAIN job)
        BY <1>4
      <3> QED
        BY <3>1
    <2> HIDE DEF T, cmp
    <2> QED
      BY <2>1
  <1> HIDE DEF T, rank, cmp
  <1>7. CASE policy = "RR"
    <2>1. \A a, b \in T : cmp[<<a, b>>] = 1
      BY <1>6, <1>7 DEF comparer
    <2>2. InOrder(q, rank) /\ \A a \in Range(q) : Before(rank[a], rank[n])
      BY <1>7 DEF rank
    <2>3. InOrder(priqueue_offer(q, n, cmp), rank)
      BY <1>2, <2>1, <2>2, OfferLast
    <2> QED
      BY <1>1, <2>3 DEF rank
  <1>8. CASE policy # "RR"
    <2>1. ASSUME NEW a \in T, NEW b \in T
          PROVE  /\ cmp[<<a, b>>] <= 0 <=> Before(rank[a], rank[b])
                 /\ cmp[<<a, b>>] < 0 <=> ~ Before(rank[b], rank[a])
      <3> DEFINE e == W[a]
                 f == W[b]
                 j == job[a]
                 k == job[b]
                 X == R[a]
                 Y == R[b]
      <3>1. /\ e \in TaskT /\ f \in TaskT /\ j \in JobT /\ k \in JobT
            /\ Matches(policy, j, e) /\ Matches(policy, k, f)
            /\ rank[a] = RankOf(policy, e, X) /\ rank[b] = RankOf(policy, f, Y)
            /\ cmp[<<a, b>>] = comparer(policy, j, k)
        BY <1>4, <1>6
      <3> HIDE DEF e, f, j, k, X, Y
      <3>2. /\ comparer(policy, j, k) <= 0 <=> Before(RankOf(policy, e, X), RankOf(policy, f, Y))
            /\ comparer(policy, j, k) < 0 <=> ~ Before(RankOf(policy, f, Y), RankOf(policy, e, X))
        BY <1>8, <3>1, ComparerRanks
      <3> QED
        BY <3>1, <3>2
    <2>2. Compares(T, cmp, rank)
      BY <2>1 DEF Compares
    <2>3. InOrder(q, rank)
      BY DEF rank
    <2>4. InOrder(priqueue_offer(q, n, cmp), rank)
      BY <1>2, <1>5, <2>2, <2>3, OfferInOrder
    <2> QED
      BY <1>1, <2>4 DEF rank
  <1> QED
    BY <1>7, <1>8

\* Nobody has waited for less than no time, ...
LEMMA WaitedSome ==
  ASSUME NEW e \in TaskT, NEW j, NEW place, NEW now \in Nat, NEW R, Right("RR", e, j, place, now, R)
  PROVE  /\ RankOf("RR", e, R)[1] \in Int /\ RankOf("RR", e, R)[1] <= now /\ RankOf("RR", e, R)[2] = 0
         /\ now - 1 \in R => RankOf("RR", e, R)[1] = now
  <1>1. /\ e.arrival_time \in Nat /\ e.arrival_time <= now /\ R \subseteq e.arrival_time .. now - 1
    BY DEF TaskT, Right
  <1>2. R \subseteq 0 .. now /\ \A x \in R : x \in Int /\ x <= now - 1
    BY <1>1
  <1>3. R # {} => Max(R) \in R /\ \A y \in R : y <= Max(R)
    BY <1>2, GreatestOf
  <1>4. R # {} => Max(R) \in Int /\ Max(R) + 1 <= now
    <2> DEFINE h == Max(R)
    <2>1. R # {} => h \in Int /\ h <= now - 1
      BY <1>2, <1>3
    <2> HIDE DEF h
    <2>2. R # {} => h + 1 <= now
      BY <2>1
    <2> QED
      BY <2>1, <2>2 DEF h
  <1>5. now - 1 \in R => Max(R) + 1 = now
    BY <1>2, <1>3, <1>4
  <1>6. RankOf("RR", e, R) = <<IF R = {} THEN e.arrival_time ELSE Max(R) + 1, 0>>
    BY DEF RankOf
  <1> QED
    BY <1>1, <1>4, <1>5, <1>6

\* ... so the job that has run until now goes behind all that wait.
LEMMA LastInLine ==
  ASSUME NEW W, W \in [DOMAIN W -> TaskT], NEW job, NEW now \in Nat, NEW R,
         NEW a, Knows("RR", W, job, a, "queue", now, R),
         NEW n, NEW place, Knows("RR", W, job, n, place, now, R), RankOf("RR", W[n], R[n])[1] = now
  PROVE  Before(Ranks("RR", W, R)[a], Ranks("RR", W, R)[n])
  <1> DEFINE e == W[a]
             f == W[n]
             X == R[a]
             Y == R[n]
  <1>1. /\ e \in TaskT /\ f \in TaskT
        /\ Right("RR", e, job[a], "queue", now, X) /\ Right("RR", f, job[n], place, now, Y)
        /\ Ranks("RR", W, R)[a] = RankOf("RR", e, X) /\ Ranks("RR", W, R)[n] = RankOf("RR", f, Y)
    BY DEF Knows, Ranks
  <1>0. RankOf("RR", f, Y)[1] = now
    OBVIOUS
  <1> HIDE DEF e, f, X, Y
  <1>2. RankOf("RR", e, X)[1] \in Int /\ RankOf("RR", e, X)[1] <= now /\ RankOf("RR", e, X)[2] = 0
    BY <1>1, WaitedSome
  <1>3. RankOf("RR", f, Y)[2] = 0
    BY <1>1, WaitedSome
  <1> QED
    BY <1>0, <1>1, <1>2, <1>3 DEF Before

\* A job whose quantum expires goes to the end of the queue.
LEMMA QuantumServes ==
  ASSUME NEW I, NEW C, I \subseteq Nat, C \subseteq Nat, NEW list, NEW s, Placed(I, C, list, s),
         NEW i \in 1 .. Len(list), NEW c \in C, list[i].core_id = c,
         NEW off \in Seq(Entries(I, C)), Moved(list, off, i, -1),
         NEW now \in Nat, NEW R, Serving("RR", Tasks(list), s, C, now, R), Done(s, R),
         now - 1 \in R[list[i].job_id]
  PROVE  /\ Serving("RR", Tasks(off), scheduler_quantum_expired(s, c, now).state, C, now, R)
         /\ Done(scheduler_quantum_expired(s, c, now).state, R)
         /\ Serving("RR", Tasks(list), ExpiredState(s, list[i].job_id), C \ {c}, now, R)
  <1> DEFINE n == list[i].job_id
             s2 == ExpiredState(s, n)
             r == NextOnCore(s2, c, now).state
             W == Tasks(list)
             V == Tasks(off)
             q == s.pqueue
             q2 == s2.pqueue
             rank == Ranks("RR", W, R)
             D == Range(s.completedjobs)
  <1>0. n = list[i].job_id /\ r = NextOnCore(s2, c, now).state /\ now - 1 \in R[n]
    OBVIOUS
  <1> HIDE DEF n
  <1>1. Expires(I, C, off, s, c, n, now, s2)
    BY <1>0, QuantumIs
  <1> HIDE DEF s2, r
  <1>2. /\ scheduler_quantum_expired(s, c, now) = NextOnCore(s2, c, now)
        /\ IsScheduler(s2, I, C) /\ s2.cores = s.cores /\ q2 = Offer("RR", q, n, s.job)
        /\ Agree(I, C, off, [s.cores EXCEPT ![c] = NULL], Range(q2), D)
        /\ s2.job = s.job /\ s2.completedjobs = s.completedjobs
        /\ Range(q2) = Range(q) \cup {n} /\ s.cores[c] = n /\ n \in I
    BY <1>1 DEF Expires, Leaving
  <1>3. /\ list \in Seq(Entries(I, C)) /\ IsScheduler(s, I, C)
        /\ Agree(I, C, list, s.cores, Range(q), D)
        /\ s.cores \in [C -> I \cup {NULL}] /\ s.completedjobs \in Seq(I) /\ q \in Seq(I)
    BY DEF Placed, IsScheduler
  <1> HIDE DEF D, q2
  <1>4. n # NULL /\ \A k \in C : k # c => s.cores[k] # n
    <2>2. n # NULL
      BY <1>2, NotNull
    <2>4. ASSUME NEW k \in C, k # c, s.cores[k] = n PROVE FALSE
      <3> DEFINE cores == s.cores
                 Q == Range(q)
      <3>1. Agree(I, C, list, cores, Q, D) /\ cores[c] = cores[k] /\ cores[c] # NULL
        BY <1>2, <1>3, <2>2, <2>4
      <3> HIDE DEF cores, Q
      <3> QED
        BY <2>4, <3>1, OneCore
    <2> QED
      BY <2>2, <2>4
  <1>5. /\ W \in [DOMAIN W -> TaskT] /\ s.job \in [DOMAIN s.job -> JobT]
        /\ \A m \in Range(q) : Knows("RR", W, s.job, m, "queue", now, R)
        /\ \A k \in C : s.cores[k] # NULL => Knows("RR", W, s.job, s.cores[k], "core", now, R)
        /\ InOrder(q, rank)
    BY DEF Serving
  <1>6. Knows("RR", W, s.job, n, "core", now, R)
    BY <1>2, <1>4, <1>5
  <1> HIDE DEF W
  <1>7. Knows("RR", W, s.job, n, "queue", now, R)
    <2>1. n \in DOMAIN W /\ n \in DOMAIN s.job /\ Right("RR", W[n], s.job[n], "core", now, R[n])
      BY <1>6 DEF Knows
    <2>2. R[n] # {}
      BY <1>0
    <2>3. Right("RR", W[n], s.job[n], "queue", now, R[n])
      BY <2>1, <2>2, ExpiredRight
    <2> QED
      BY <2>1, <2>3 DEF Knows
  <1>8. ASSUME NEW a \in Range(q) PROVE Before(rank[a], rank[n])
    <2>1. RankOf("RR", W[n], R[n])[1] = now
      <3> DEFINE e == W[n]
                 X == R[n]
                 j == s.job[n]
      <3>1. e \in TaskT /\ Right("RR", e, j, "queue", now, X) /\ now - 1 \in X
        BY <1>0, <1>5, <1>7 DEF Knows
      <3> HIDE DEF e, X, j
      <3>2. RankOf("RR", e, X)[1] = now
        BY <3>1, WaitedSome
      <3> QED
        BY <3>2 DEF e, X
    <2> DEFINE jobs0 == s.job
    <2>2. Knows("RR", W, jobs0, a, "queue", now, R) /\ Knows("RR", W, jobs0, n, "queue", now, R)
      BY <1>5, <1>7
    <2> HIDE DEF jobs0
    <2> QED
      BY <1>5, <2>1, <2>2, LastInLine
  <1>9. InOrder(q2, rank)
    <2> DEFINE jobs0 == s.job
    <2>1. /\ jobs0 \in [DOMAIN jobs0 -> JobT] /\ q2 = Offer("RR", q, n, jobs0)
          /\ \A a \in Range(q) : Knows("RR", W, jobs0, a, "queue", now, R)
          /\ Knows("RR", W, jobs0, n, "queue", now, R)
      BY <1>2, <1>5, <1>7
    <2>2. "RR" \in Schemes
      BY DEF Schemes
    <2> HIDE DEF jobs0, q
    <2>3. InOrder(Offer("RR", q, n, jobs0), Ranks("RR", W, R))
      BY <1>2, <1>3, <1>5, <1>8, <2>1, <2>2, OfferOrders
    <2> QED
      BY <2>1, <2>3
  <1>10. Serving("RR", W, s2, C \ {c}, now, R)
    BY <1>2, <1>5, <1>7, <1>9 DEF Serving, q2
  <1>11. V \in [DOMAIN V -> TaskT] /\ \A m \in Listed(off) : m \in DOMAIN V /\ V[m] = W[m]
    <2>1. Carried(list, off)
      BY CarriedOver
    <2>2. OneEach(list) /\ OneEach(off)
      BY <1>2, <1>3 DEF Agree, OneEach
    <2>3. \A m \in Listed(off) : m \in Listed(list) /\ Tasks(off)[m] = Tasks(list)[m]
      BY <1>3, <2>1, <2>2, TasksCarried
    <2>4. V \in [DOMAIN V -> TaskT] /\ DOMAIN V = Listed(off)
      BY <2>2, TasksAre
    <2> QED
      BY <2>3, <2>4 DEF W
  <1> HIDE DEF V
  <1>12. /\ \A m \in Range(q2) : m \in Listed(off)
         /\ \A k \in C \ {c} : s.cores[k] # NULL => s.cores[k] \in Listed(off)
         /\ \A m \in D : m \notin Range(q2)
    <2> DEFINE free == [s.cores EXCEPT ![c] = NULL]
               Q == Range(q2)
    <2>1. Agree(I, C, off, free, Q, D)
      BY <1>2
    <2>2. \A k \in C : k # c => free[k] = s.cores[k]
      BY <1>3
    <2>3. D \subseteq I
      BY <1>3 DEF Range, D
    <2> HIDE DEF free, Q
    <2>4. /\ Q \subseteq Listed(off)
          /\ \A k \in C : free[k] # NULL => free[k] \in Listed(off)
          /\ \A m \in D : m \in I => m \notin Listed(off)
      BY <2>1, TasksListed
    <2> QED
      BY <2>2, <2>3, <2>4 DEF Q
  <1>13. Serving("RR", V, s2, C \ {c}, now, R)
    <2>1. /\ \A m \in Range(s2.pqueue) : m \in DOMAIN V /\ V[m] = W[m]
          /\ \A k \in C \ {c} : s2.cores[k] # NULL => s2.cores[k] \in DOMAIN V /\ V[s2.cores[k]] = W[s2.cores[k]]
      BY <1>2, <1>11, <1>12 DEF q2
    <2>2. TasksKept(s2, C \ {c}, W, V)
      BY <1>11, <2>1 DEF TasksKept
    <2> QED
      BY <1>10, <2>2, OtherTasks
  <1>14. OffQueue(s2, C, c)
    BY <1>2, <1>3, <1>4 DEF Agree, OffQueue, q2
  <1>15. /\ Serving("RR", V, NextOnCore(s2, c, now).state, C, now, R)
         /\ JobsKept(s2, NextOnCore(s2, c, now).state.job)
    <2>1. "RR" \in Schemes
      BY DEF Schemes
    <2> QED
      BY <1>2, <1>13, <1>14, <2>1, NextServes
  <1>16. Done(r, R)
    <2>1. JobsKept(s2, r.job)
      BY <1>0, <1>15
    <2>2. \A m \in Range(s2.completedjobs) : m \notin Range(s2.pqueue)
      BY <1>2, <1>12 DEF q2, D
    <2>3. r.completedjobs = s2.completedjobs
      <3>1. TakesHead(I, C, s2, c, NextOnCore(s2, c, now))
        BY <1>2, NextOnCoreIs
      <3> QED
        BY <1>0, <3>1 DEF TakesHead
    <2>4. Done(s2, R)
      BY <1>2 DEF Done
    <2> QED
      BY <2>1, <2>2, <2>3, <2>4, DoneStays
  <1>17. Serving("RR", Tasks(list), ExpiredState(s, list[i].job_id), C \ {c}, now, R)
    BY <1>0, <1>10 DEF W, s2
  <1> QED
    BY <1>0, <1>2, <1>15, <1>16, <1>17 DEF V

\* The job_t that a job starts with. The table has it, and the running jobs
\* charged:
NewJob(t, rt, pr) ==
    [arrival_time |-> t, first_runtime |-> -1, last_runtime |-> -1,
     running_time |-> rt, remaining_time |-> rt, priority |-> pr,
     waiting_time |-> 0, turnaround_time |-> 0, response_time |-> 0]

\* when it waits, ...
WithNew(s, n, t, rt, pr) ==
    [x \in DOMAIN Aged(s, t) \cup {n} |-> IF x = n THEN NewJob(t, rt, pr) ELSE Aged(s, t)[x]]

\* ... is put on a core, ...
WithStarted(s, n, t, rt, pr) ==
    [WithNew(s, n, t, rt, pr) EXCEPT ![n] = Start(WithNew(s, n, t, rt, pr)[n], t)]

\* ... or takes that of job w.
WithPreempted(s, n, t, rt, pr, w) ==
    [WithStarted(s, n, t, rt, pr) EXCEPT ![w] = Preempt(WithStarted(s, n, t, rt, pr)[w], t)]

\* The new job has got a core that was free, ...
GotFree(C, s, n, t, rt, pr, r) ==
    \E c \in C : /\ s.cores[c] = NULL /\ r.cores = [s.cores EXCEPT ![c] = n]
                 /\ r.pqueue = s.pqueue /\ r.job = WithStarted(s, n, t, rt, pr)

\* ... or the core of the worst job, ...
GotWorst(C, s, policy, n, t, rt, pr, r) ==
    \E c \in C : /\ policy = "PSJF" /\ \A k \in C : s.cores[k] # NULL
                 /\ c \in WorstCores(s, WithNew(s, n, t, rt, pr), NewJob(t, rt, pr))
                 /\ r.cores = [s.cores EXCEPT ![c] = n]
                 /\ r.job = WithPreempted(s, n, t, rt, pr, s.cores[c])
                 /\ r.pqueue = Offer(policy, s.pqueue, s.cores[c], r.job)

\* ... or none.
GotNone(C, s, policy, n, t, rt, pr, r) ==
    /\ \A k \in C : s.cores[k] # NULL
    /\ policy = "PSJF" => WorstCores(s, WithNew(s, n, t, rt, pr), NewJob(t, rt, pr)) = {}
    /\ r.cores = s.cores
    /\ r.job = WithNew(s, n, t, rt, pr) /\ r.pqueue = Offer(policy, s.pqueue, n, r.job)

\* scheduler_new_job does one of these.
Got(C, s, policy, n, t, rt, pr, r) ==
    /\ r.completedjobs = s.completedjobs
    /\ \/ GotFree(C, s, n, t, rt, pr, r)
       \/ GotWorst(C, s, policy, n, t, rt, pr, r)
       \/ GotNone(C, s, policy, n, t, rt, pr, r)

\* Its branches, one by one.
LEMMA NewJobMakes ==
  ASSUME NEW I, NEW C, I \subseteq Nat, C \subseteq Nat, NEW s, IsScheduler(s, I, C),
         NEW n \in I, NEW policy, NEW t, NEW rt, NEW pr, NEW r,
         r = scheduler_new_job(s, policy, n, t, rt, pr).state
  PROVE  Got(C, s, policy, n, t, rt, pr, r)
  <1> DEFINE q == s.pqueue
             new == NewJob(t, rt, pr)
             waits == WithNew(s, n, t, rt, pr)
             runs  == WithStarted(s, n, t, rt, pr)
             idle  == {i \in DOMAIN s.cores : s.cores[i] = NULL}
             worst == IF policy = "PSJF" /\ idle = {} THEN WorstCores(s, waits, new) ELSE {}
             w == s.cores[Min(worst)]
             jobs2 == WithPreempted(s, n, t, rt, pr, w)
  <1>1. scheduler_new_job(s, policy, n, t, rt, pr) =
            IF idle # {} THEN
                [state |-> [s EXCEPT !.cores[Min(idle)] = n, !.job = runs],
                 returns |-> Min(idle)]
            ELSE IF worst # {} THEN
                [state |-> [s EXCEPT !.cores[Min(worst)] = n, !.job = jobs2,
                                     !.pqueue = Offer(policy, q, w, jobs2)],
                 returns |-> Min(worst)]
            ELSE
                [state |-> [s EXCEPT !.job = waits, !.pqueue = Offer(policy, q, n, waits)],
                 returns |-> -1]
    BY DEF scheduler_new_job, WithPreempted, WithStarted, WithNew, NewJob
  <1>2. s \in [cores : [C -> I \cup {NULL}], pqueue : Seq(I), completedjobs : Seq(I), job : {s.job}]
    BY DEF IsScheduler
  <1>3. DOMAIN s.cores = C
    BY <1>2
  <1>4. worst \subseteq C /\ idle \subseteq C
    BY <1>3 DEF WorstCores
  <1>5. /\ \A c \in C : c \in idle <=> s.cores[c] = NULL
        /\ worst # {} => policy = "PSJF" /\ idle = {} /\ worst = WorstCores(s, waits, new)
        /\ worst = {} /\ idle = {} => (policy = "PSJF" => WorstCores(s, waits, new) = {})
    BY <1>3
  <1> HIDE DEF runs, waits, jobs2, idle, worst, new
  <1>6. CASE idle # {}
    <2> DEFINE m == Min(idle)
               st == [s EXCEPT !.cores[m] = n, !.job = runs]
    <2>1. m \in C /\ s.cores[m] = NULL
      BY <1>4, <1>5, <1>6, LeastOf
    <2>2. r = st
      BY <1>1, <1>6
    <2> HIDE DEF m
    <2>3. /\ st.cores = [s.cores EXCEPT ![m] = n] /\ st.pqueue = s.pqueue
          /\ st.completedjobs = s.completedjobs /\ st.job = runs
      BY <1>2, <2>1
    <2> HIDE DEF st
    <2> QED
      BY <2>1, <2>2, <2>3 DEF GotFree, runs, Got
  <1>7. CASE idle = {} /\ worst # {}
    <2> DEFINE m == Min(worst)
               q2 == Offer(policy, q, w, jobs2)
               st == [s EXCEPT !.cores[m] = n, !.job = jobs2, !.pqueue = q2]
    <2>1. m \in worst
      BY <1>4, <1>7, LeastOf
    <2>2. m \in C /\ policy = "PSJF" /\ m \in WorstCores(s, waits, new) /\ \A k \in C : s.cores[k] # NULL
      BY <1>4, <1>5, <1>7, <2>1
    <2>3. r = st
      BY <1>1, <1>7
    <2>4. w = s.cores[m] /\ jobs2 = WithPreempted(s, n, t, rt, pr, s.cores[m])
      BY DEF jobs2
    <2> HIDE DEF m, w
    <2>5. q2 = Offer(policy, q, s.cores[m], jobs2)
      BY <2>4
    <2> HIDE DEF q2
    <2>6. /\ st.cores = [s.cores EXCEPT ![m] = n] /\ st.pqueue = q2
          /\ st.completedjobs = s.completedjobs /\ st.job = jobs2
      BY <1>2, <2>2
    <2> HIDE DEF st
    <2>7. GotWorst(C, s, policy, n, t, rt, pr, r)
      BY <2>2, <2>3, <2>4, <2>5, <2>6 DEF GotWorst, waits, new
    <2> QED
      BY <2>3, <2>6, <2>7 DEF Got
  <1>8. CASE idle = {} /\ worst = {}
    <2> DEFINE q2 == Offer(policy, q, n, waits)
               st == [s EXCEPT !.job = waits, !.pqueue = q2]
    <2>1. r = st
      BY <1>1, <1>8
    <2>2. q2 = Offer(policy, q, n, waits)
      OBVIOUS
    <2> HIDE DEF q2
    <2>3. /\ st.cores = s.cores /\ st.pqueue = q2
          /\ st.completedjobs = s.completedjobs /\ st.job = waits
      BY <1>2
    <2> HIDE DEF st
    <2>4. GotNone(C, s, policy, n, t, rt, pr, r)
      BY <1>5, <1>8, <2>1, <2>2, <2>3 DEF GotNone, waits, new
    <2> QED
      BY <2>1, <2>3, <2>4 DEF Got
  <1> QED
    BY <1>6, <1>7, <1>8

\* Job n comes now: the scheduler does not have it, and serves the others.
Comes(I, C, s, n, policy, W, now, R) ==
    /\ IsScheduler(s, I, C) /\ Serving(policy, W, s, C, now, R)
    /\ n \in I /\ n \in DOMAIN W /\ W[n].arrival_time = now /\ R[n] = {}
    /\ n \notin Range(s.pqueue) /\ \A k \in C : s.cores[k] # n /\ s.cores[k] \notin Range(s.pqueue)
    /\ \A k, c \in C : s.cores[k] = s.cores[c] /\ s.cores[k] # NULL => k = c
    /\ s.pqueue # << >> => \A k \in C : s.cores[k] # NULL

\* The table with it is right, and what the comparer looks at is up to date.
Informed(C, s, n, policy, W, now, R, job) ==
    /\ job \in [DOMAIN job -> JobT]
    /\ \A x \in DOMAIN s.job :
         x \in DOMAIN job /\ (x # n /\ (\A k \in C : s.cores[k] # x) => job[x] = s.job[x])
    /\ \A m \in Range(s.pqueue) : Knows(policy, W, job, m, "queue", now, R)
    /\ \A k \in C : s.cores[k] # NULL =>
         /\ Knows(policy, W, job, s.cores[k], "core", now, R)
         /\ Matches(policy, job[s.cores[k]], W[s.cores[k]])
         /\ job[s.cores[k]].last_runtime = now
    /\ Knows(policy, W, job, n, "queue", now, R)
    /\ job[n] = NewJob(now, W[n].run_time, W[n].priority)

\* Charging a running job.
LEMMA ChargedIs ==
  ASSUME NEW j \in JobT, NEW now \in Nat
  PROVE  Charged(j, [j EXCEPT !.remaining_time = @ - (now - j.last_runtime), !.last_runtime = now], now)
  <1> DEFINE a == j.remaining_time - (now - j.last_runtime)
             new == [j EXCEPT !.remaining_time = a, !.last_runtime = now]
  <1>1. a \in Int /\ now \in Int
    BY DEF JobT
  <1>2. [j EXCEPT !.remaining_time = @ - (now - j.last_runtime), !.last_runtime = now] = new
    OBVIOUS
  <1>3. a = j.remaining_time - (now - j.last_runtime)
    OBVIOUS
  <1> HIDE DEF a
  <1>4. new \in JobT
    BY <1>1 DEF JobT
  <1>5. /\ new.arrival_time = j.arrival_time /\ new.priority = j.priority
        /\ new.running_time = j.running_time /\ new.first_runtime = j.first_runtime
        /\ new.remaining_time = a /\ new.last_runtime = now
    BY DEF JobT
  <1> HIDE DEF new
  <1>6. Charged(j, new, now)
    BY <1>3, <1>4, <1>5 DEF Charged
  <1> QED
    BY <1>2, <1>6

\* The table of the running jobs charged.
LEMMA AgedIs ==
  ASSUME NEW s, s.job \in [DOMAIN s.job -> JobT], NEW now \in Nat
  PROVE  /\ DOMAIN Aged(s, now) = DOMAIN s.job
         /\ \A x \in DOMAIN s.job :
              IF x \in Range(s.cores) THEN Charged(s.job[x], Aged(s, now)[x], now)
              ELSE Aged(s, now)[x] = s.job[x]
  <1>1. DOMAIN Aged(s, now) = DOMAIN s.job
    BY DEF Aged
  <1>2. ASSUME NEW x \in DOMAIN s.job
        PROVE  IF x \in Range(s.cores) THEN Charged(s.job[x], Aged(s, now)[x], now)
               ELSE Aged(s, now)[x] = s.job[x]
    <2> DEFINE j == s.job[x]
               aged == [j EXCEPT !.remaining_time = @ - (now - j.last_runtime), !.last_runtime = now]
    <2>1. j \in JobT
      OBVIOUS
    <2>2. Aged(s, now)[x] = IF x \in Range(s.cores) THEN aged ELSE j
      BY DEF Aged
    <2> HIDE DEF j
    <2>3. Charged(j, aged, now)
      BY <2>1, ChargedIs
    <2> HIDE DEF aged
    <2> QED
      BY <2>2, <2>3 DEF j
  <1> QED
    BY <1>1, <1>2

\* The table of a new job that waits is such a table.
LEMMA WaitsInformed ==
  ASSUME NEW I, NEW C, NEW s, NEW n, NEW policy, NEW W, NEW now \in Nat, NEW R,
         Comes(I, C, s, n, policy, W, now, R)
  PROVE  Informed(C, s, n, policy, W, now, R, WithNew(s, n, now, W[n].run_time, W[n].priority))
  <1> DEFINE e == W[n]
             new == NewJob(now, e.run_time, e.priority)
             q == s.pqueue
             job == WithNew(s, n, now, W[n].run_time, W[n].priority)
             A == Aged(s, now)
  <1>1. /\ W \in [DOMAIN W -> TaskT] /\ s.job \in [DOMAIN s.job -> JobT]
        /\ \A m \in Range(q) : Knows(policy, W, s.job, m, "queue", now, R)
        /\ \A k \in C : s.cores[k] # NULL => Knows(policy, W, s.job, s.cores[k], "core", now, R)
        /\ n \in DOMAIN W /\ e.arrival_time = now /\ R[n] = {}
        /\ n \notin Range(q) /\ \A k \in C : s.cores[k] # n /\ s.cores[k] \notin Range(q)
        /\ DOMAIN s.cores = C
    BY DEF Comes, Serving, IsScheduler
  <1>2. DOMAIN A = DOMAIN s.job
        /\ \A x \in DOMAIN s.job : IF x \in Range(s.cores) THEN Charged(s.job[x], A[x], now) ELSE A[x] = s.job[x]
    BY <1>1, AgedIs
  <1>3. job = [x \in DOMAIN A \cup {n} |-> IF x = n THEN new ELSE A[x]]
    BY DEF WithNew
  <1>4. e \in TaskT /\ e.run_time \in Nat /\ e.priority \in Int
    BY <1>1 DEF TaskT
  <1> HIDE DEF A, job, e
  <1>5. new \in JobT /\ Started(new, e, now) /\ new.first_runtime = -1
    <2>1. now \in Int /\ -1 \in Int /\ 0 \in Int /\ e.run_time \in Int
      BY <1>4
    <2>2. new \in JobT
      BY <1>4, <2>1 DEF NewJob, JobT
    <2>3. /\ new.arrival_time = now /\ new.priority = e.priority /\ new.first_runtime = -1
          /\ new.running_time = e.run_time /\ new.remaining_time = e.run_time
      BY DEF NewJob
    <2> HIDE DEF new
    <2> QED
      BY <2>2, <2>3 DEF Started
  <1> HIDE DEF new
  <1>6. /\ \A x \in DOMAIN s.job : A[x] \in JobT
    BY <1>1, <1>2 DEF Charged
  <1>7. /\ job \in [DOMAIN job -> JobT] /\ n \in DOMAIN job /\ job[n] = new
        /\ \A x \in DOMAIN s.job : x \in DOMAIN job /\ (x # n => job[x] = A[x])
    BY <1>2, <1>3, <1>5, <1>6
  <1> HIDE DEF job
  <1>8. ASSUME NEW x \in DOMAIN s.job, x # n, \A k \in C : s.cores[k] # x PROVE job[x] = s.job[x]
    <2>1. x \notin Range(s.cores)
      BY <1>1, <1>8 DEF Range
    <2> QED
      BY <1>2, <1>7, <1>8, <2>1
  <1>9. ASSUME NEW m \in Range(q) PROVE Knows(policy, W, job, m, "queue", now, R)
    <2>1. Knows(policy, W, s.job, m, "queue", now, R) /\ m # n /\ \A k \in C : s.cores[k] # m
      BY <1>1
    <2> QED
      BY <1>7, <1>8, <2>1 DEF Knows
  <1>10. ASSUME NEW k \in C, s.cores[k] # NULL
         PROVE  /\ Knows(policy, W, job, s.cores[k], "core", now, R)
                /\ Matches(policy, job[s.cores[k]], W[s.cores[k]])
                /\ job[s.cores[k]].last_runtime = now
    <2> DEFINE x == s.cores[k]
               f == W[x]
               X == R[x]
               j == s.job[x]
    <2>1. Knows(policy, W, s.job, x, "core", now, R) /\ x # n
      BY <1>1, <1>10
    <2>2. x \in Range(s.cores)
      BY <1>1 DEF Range
    <2> HIDE DEF x
    <2>3. /\ x \in DOMAIN W /\ x \in DOMAIN s.job /\ Right(policy, f, j, "core", now, X)
          /\ j \in JobT /\ Charged(j, job[x], now)
      BY <1>1, <1>2, <1>7, <2>1, <2>2 DEF Knows
    <2> HIDE DEF f, X, j
    <2>4. /\ Right(policy, f, job[x], "core", now, X)
          /\ policy = "PSJF" => job[x].remaining_time = f.run_time
      BY <2>3, ChargedRight
    <2>5. job[x].last_runtime = now
      BY <2>3 DEF Charged
    <2>6. Knows(policy, W, job, x, "core", now, R)
      BY <1>7, <2>3, <2>4 DEF Knows, f, X
    <2>7. Matches(policy, job[x], f)
      BY <2>4 DEF Matches, Right
    <2> QED
      BY <2>5, <2>6, <2>7 DEF x, f
  <1>11. Knows(policy, W, job, n, "queue", now, R)
    <2>1. Right(policy, e, new, "queue", now, {})
      BY <1>1, <1>4, <1>5, ArrivedRight
    <2> QED
      BY <1>1, <1>7, <2>1 DEF Knows, e
  <1>12. Informed(C, s, n, policy, W, now, R, job)
    BY <1>7, <1>8, <1>9, <1>10, <1>11 DEF Informed, new, e
  <1> QED
    BY <1>12 DEF job

\* One of finitely many ranks is behind all the others.
LEMMA GreatestRank ==
  ASSUME NEW b \in Nat, NEW S, S \subseteq 0 .. b, S # {}, NEW rank, Ranked(S, rank)
  PROVE  \E i \in S : \A k \in S : Before(rank[k], rank[i])
  <1> DEFINE Found(m) == \E i \in S : i <= m /\ \A k \in S : k <= m => Before(rank[k], rank[i])
             bad == {m \in 0 .. b : (\E k \in S : k <= m) /\ ~ Found(m)}
             m == Min(bad)
  <1>0. SUFFICES Found(b)
    <2>1. \A k \in S : k <= b
      OBVIOUS
    <2> QED
      BY <2>1
  <1>1. SUFFICES ASSUME ~ Found(b) PROVE FALSE
    OBVIOUS
  <1>2. b \in bad
    <2>1. PICK k \in S : TRUE
      OBVIOUS
    <2>2. k \in 0 .. b
      OBVIOUS
    <2>3. b \in 0 .. b /\ k <= b
      BY <2>2
    <2> QED
      BY <1>1, <2>3
  <1>3. bad \subseteq Nat
    OBVIOUS
  <1>4. m \in bad /\ \A y \in bad : m <= y
    BY <1>2, <1>3, LeastOf
  <1> HIDE DEF m
  <1>5. m \in 0 .. b /\ ~ Found(m) /\ \E k \in S : k <= m
    BY <1>4
  <1>6. ASSUME NEW k \in S PROVE k \in Nat /\ (k <= m <=> k = m \/ k <= m - 1)
    <2>1. k \in 0 .. b /\ m \in 0 .. b
      BY <1>5
    <2> QED
      BY <2>1
  <1>7. (\E k \in S : k <= m - 1) => Found(m - 1)
    <2>1. SUFFICES ASSUME NEW k \in S, k <= m - 1 PROVE Found(m - 1)
      OBVIOUS
    <2>2. m - 1 \in 0 .. b /\ ~ m <= m - 1
      BY <1>5, <2>1
    <2>3. m - 1 \notin bad
      BY <1>4, <2>2
    <2> QED
      BY <2>1, <2>2, <2>3
  <1>8. /\ \A x, y \in S : Before(rank[x], rank[y]) \/ Before(rank[y], rank[x])
        /\ \A x, y, z \in S : Before(rank[x], rank[y]) /\ Before(rank[y], rank[z]) => Before(rank[x], rank[z])
    BY BeforeOrders
  <1>9. CASE m \notin S
    <2>1. PICK i \in S : i <= m - 1 /\ \A k \in S : k <= m - 1 => Before(rank[k], rank[i])
      <3>1. \E k \in S : k <= m - 1
        BY <1>5, <1>6, <1>9
      <3> QED
        BY <1>7, <3>1
    <2>2. i <= m /\ \A k \in S : k <= m => Before(rank[k], rank[i])
      BY <1>6, <1>9, <2>1
    <2> QED
      BY <1>5, <2>2
  <1>10. CASE m \in S
    <2>1. CASE ~ \E k \in S : k <= m - 1
      <3>1. \A k \in S : k <= m => k = m
        BY <1>6, <2>1
      <3>2. Before(rank[m], rank[m]) /\ m <= m
        BY <1>5, <1>8, <1>10
      <3> QED
        BY <1>5, <1>10, <3>1, <3>2
    <2>2. CASE \E k \in S : k <= m - 1
      <3>1. PICK i \in S : i <= m - 1 /\ \A k \in S : k <= m - 1 => Before(rank[k], rank[i])
        BY <1>7, <2>2
      <3>2. CASE Before(rank[m], rank[i])
        <4>1. i <= m /\ \A k \in S : k <= m => Before(rank[k], rank[i])
          BY <1>6, <3>1, <3>2
        <4> QED
          BY <1>5, <4>1
      <3>3. CASE Before(rank[i], rank[m])
        <4>1. m <= m /\ \A k \in S : k <= m => Before(rank[k], rank[m])
          <5>1. ASSUME NEW k \in S, k <= m PROVE Before(rank[k], rank[m])
            <6>1. CASE k = m
              BY <1>8, <1>10, <6>1
            <6>2. CASE k <= m - 1
              <7>1. Before(rank[k], rank[i])
                BY <3>1, <6>2
              <7> QED
                BY <1>8, <1>10, <3>3, <7>1
            <6> QED
              BY <1>6, <5>1, <6>1, <6>2
          <5> QED
            BY <1>5, <5>1
        <4> QED
          BY <1>5, <1>10, <4>1
      <3> QED
        BY <1>8, <1>10, <3>2, <3>3
    <2> QED
      BY <2>1, <2>2
  <1> QED
    BY <1>9, <1>10

\* When every core is busy: the new job, and the one on the core it gets.
Busy(I, C, s, n, W, now, R) ==
    Comes(I, C, s, n, "PSJF", W, now, R) /\ \A k \in C : s.cores[k] # NULL

\* What the comparer says of them.
Ranking(C, s, n, job, rank) ==
    \A k, i \in C :
        /\ comparer("PSJF", job[s.cores[k]], job[s.cores[i]]) <= 0 <=>
             Before(rank[s.cores[k]], rank[s.cores[i]])
        /\ comparer("PSJF", job[n], job[s.cores[i]]) < 0 <=> ~ Before(rank[s.cores[i]], rank[n])

\* The comparer says of the new job and of the running ones what their ranks do.
LEMMA RunningCompare ==
  ASSUME NEW I, NEW C, NEW s, NEW n, NEW W, NEW now \in Nat, NEW R, Busy(I, C, s, n, W, now, R),
         NEW job, Informed(C, s, n, "PSJF", W, now, R, job),
         NEW rank, rank = Ranks("PSJF", W, R)
  PROVE  Ranking(C, s, n, job, rank)
  <1> DEFINE T == {n} \cup {s.cores[k] : k \in C}
  <1>1. /\ W \in [DOMAIN W -> TaskT] /\ job \in [DOMAIN job -> JobT]
        /\ \A k \in C : s.cores[k] # NULL
        /\ \A k \in C : /\ Knows("PSJF", W, job, s.cores[k], "core", now, R)
                        /\ Matches("PSJF", job[s.cores[k]], W[s.cores[k]])
        /\ Knows("PSJF", W, job, n, "queue", now, R)
    BY DEF Busy, Comes, Serving, Informed
  <1>2. ASSUME NEW x \in T
        PROVE  /\ job[x] \in JobT /\ W[x] \in TaskT /\ Matches("PSJF", job[x], W[x])
               /\ rank[x] = RankOf("PSJF", W[x], R[x])
    <2>1. CASE x = n
      <3>1. n \in DOMAIN W /\ n \in DOMAIN job /\ Right("PSJF", W[n], job[n], "queue", now, R[n])
        BY <1>1 DEF Knows
      <3>2. Matches("PSJF", job[n], W[n])
        BY <3>1 DEF Right, Matches
      <3> QED
        BY <1>1, <2>1, <3>1, <3>2 DEF Ranks
    <2>2. CASE x # n
      <3>1. PICK k \in C : x = s.cores[k]
        BY <2>2
      <3>2. x \in DOMAIN W /\ x \in DOMAIN job /\ Matches("PSJF", job[x], W[x])
        BY <1>1, <3>1 DEF Knows
      <3> QED
        BY <1>1, <3>2 DEF Ranks
    <2> QED
      BY <2>1, <2>2
  <1>3. ASSUME NEW x \in T, NEW y \in T
        PROVE  /\ comparer("PSJF", job[x], job[y]) <= 0 <=> Before(rank[x], rank[y])
               /\ comparer("PSJF", job[x], job[y]) < 0 <=> ~ Before(rank[y], rank[x])
    <2> DEFINE e == W[x]
               f == W[y]
               j == job[x]
               k == job[y]
               X == R[x]
               Y == R[y]
    <2>1. /\ e \in TaskT /\ f \in TaskT /\ j \in JobT /\ k \in JobT
          /\ Matches("PSJF", j, e) /\ Matches("PSJF", k, f)
          /\ rank[x] = RankOf("PSJF", e, X) /\ rank[y] = RankOf("PSJF", f, Y)
      BY <1>2
    <2> HIDE DEF e, f, j, k, X, Y, T
    <2>2. "PSJF" \in Schemes /\ "PSJF" # "RR"
      BY DEF Schemes
    <2>3. /\ comparer("PSJF", j, k) <= 0 <=> Before(RankOf("PSJF", e, X), RankOf("PSJF", f, Y))
          /\ comparer("PSJF", j, k) < 0 <=> ~ Before(RankOf("PSJF", f, Y), RankOf("PSJF", e, X))
      BY <2>1, <2>2, ComparerRanks
    <2> QED
      BY <2>1, <2>3 DEF j, k
  <1>4. n \in T /\ \A k \in C : s.cores[k] \in T
    OBVIOUS
  <1> HIDE DEF T
  <1> QED
    BY <1>3, <1>4 DEF Ranking

\* A new job that is put on a core.
LEMMA StartedIs ==
  ASSUME NEW policy, NEW e \in TaskT, NEW now \in Nat, e.arrival_time = now,
         NEW j, j = NewJob(now, e.run_time, e.priority)
  PROVE  Start(j, now) \in JobT /\ Right(policy, e, Start(j, now), "core", now, {})
  <1> DEFINE new == [j EXCEPT !.first_runtime = now, !.last_runtime = now]
  <1>1. e.run_time \in Nat /\ e.run_time \in Int /\ e.priority \in Int /\ now \in Int /\ -1 \in Int /\ 0 \in Int
    BY DEF TaskT
  <1>2. /\ j \in JobT /\ j.arrival_time = now /\ j.priority = e.priority
        /\ j.running_time = e.run_time /\ j.remaining_time = e.run_time
    BY <1>1 DEF NewJob, JobT
  <1>3. new \in JobT
    BY <1>1, <1>2 DEF JobT
  <1>4. /\ new.arrival_time = j.arrival_time /\ new.priority = j.priority
        /\ new.running_time = j.running_time /\ new.remaining_time = j.remaining_time
        /\ new.first_runtime = now /\ new.last_runtime = now
    BY <1>2 DEF JobT
  <1>5. Start(j, now) = new
    BY DEF Start
  <1> HIDE DEF new
  <1>6. Started(new, e, now)
    BY <1>2, <1>3, <1>4 DEF Started
  <1>7. Right(policy, e, new, "core", now, {})
    BY <1>1, <1>4, <1>6, ArrivedRight
  <1> QED
    BY <1>3, <1>5, <1>7

\* The table job is waits, but n is on a core.
Starts(policy, W, now, R, n, waits, job) ==
    /\ job \in [DOMAIN job -> JobT] /\ DOMAIN job = DOMAIN waits
    /\ \A x \in DOMAIN job : x # n => job[x] = waits[x]
    /\ Knows(policy, W, job, n, "core", now, R)

\* The table of a new job that starts is such a table.
LEMMA StartedInformed ==
  ASSUME NEW I, NEW C, NEW s, NEW n, NEW policy, NEW W, NEW now \in Nat, NEW R,
         Comes(I, C, s, n, policy, W, now, R), NEW rt, rt = W[n].run_time, NEW pr, pr = W[n].priority,
         NEW job, job = WithStarted(s, n, now, rt, pr)
  PROVE  Starts(policy, W, now, R, n, WithNew(s, n, now, rt, pr), job)
  <1> DEFINE waits == WithNew(s, n, now, rt, pr)
             e == W[n]
             j == waits[n]
  <1>1. Informed(C, s, n, policy, W, now, R, waits)
    BY WaitsInformed
  <1> HIDE DEF waits
  <1>2. /\ waits \in [DOMAIN waits -> JobT] /\ n \in DOMAIN waits /\ j = NewJob(now, e.run_time, e.priority)
    BY <1>1 DEF Informed, Knows
  <1>3. e \in TaskT /\ e.arrival_time = now /\ n \in DOMAIN W /\ R[n] = {}
    BY DEF Comes, Serving
  <1> HIDE DEF e, j
  <1>4. Start(j, now) \in JobT /\ Right(policy, e, Start(j, now), "core", now, {})
    BY <1>2, <1>3, StartedIs
  <1>5. job = [waits EXCEPT ![n] = Start(j, now)]
    BY DEF WithStarted, waits, j
  <1> DEFINE st == Start(j, now)
  <1> HIDE DEF st
  <1>6. /\ job \in [DOMAIN job -> JobT] /\ DOMAIN job = DOMAIN waits
        /\ job[n] = st /\ \A x \in DOMAIN job : x # n => job[x] = waits[x]
    BY <1>2, <1>4, <1>5 DEF st
  <1>7. Knows(policy, W, job, n, "core", now, R)
    BY <1>2, <1>3, <1>4, <1>6 DEF Knows, e, st
  <1> QED
    BY <1>6, <1>7 DEF waits, Starts

\* A new job that is put on a free core finds the queue empty.
LEMMA FreeServes ==
  ASSUME NEW I, NEW C, NEW s, NEW n, NEW policy, NEW W, NEW now \in Nat, NEW R,
         Comes(I, C, s, n, policy, W, now, R), NEW rt, rt = W[n].run_time, NEW pr, pr = W[n].priority,
         NEW r, GotFree(C, s, n, now, rt, pr, r)
  PROVE  Serving(policy, W, r, C, now, R)
  <1>1. PICK c \in C : /\ s.cores[c] = NULL /\ r.cores = [s.cores EXCEPT ![c] = n]
                       /\ r.pqueue = s.pqueue /\ r.job = WithStarted(s, n, now, rt, pr)
    BY DEF GotFree
  <1> DEFINE waits == WithNew(s, n, now, rt, pr)
             job == r.job
  <1>2. Informed(C, s, n, policy, W, now, R, waits)
    BY WaitsInformed
  <1>3. /\ job \in [DOMAIN job -> JobT] /\ DOMAIN job = DOMAIN waits
        /\ \A x \in DOMAIN job : x # n => job[x] = waits[x]
        /\ Knows(policy, W, job, n, "core", now, R)
    <2>1. Starts(policy, W, now, R, n, WithNew(s, n, now, rt, pr), job)
      BY <1>1, StartedInformed
    <2> QED
      BY <2>1 DEF Starts
  <1> HIDE DEF waits, job
  <1>4. /\ r.pqueue = << >> /\ DOMAIN s.cores = C /\ W \in [DOMAIN W -> TaskT]
        /\ \A k \in C : s.cores[k] # n
    BY <1>1 DEF Comes, Serving, IsScheduler
  <1>5. Range(r.pqueue) = {} /\ Len(r.pqueue) = 0
    BY <1>4 DEF Range
  <1>6. ASSUME NEW k \in C, r.cores[k] # NULL PROVE Knows(policy, W, job, r.cores[k], "core", now, R)
    <2>1. CASE k = c
      BY <1>1, <1>3, <1>4, <2>1
    <2>2. CASE k # c
      <3>1. r.cores[k] = s.cores[k] /\ s.cores[k] # n
        BY <1>1, <1>4, <2>2
      <3>2. Knows(policy, W, waits, s.cores[k], "core", now, R)
        BY <1>2, <1>6, <3>1 DEF Informed
      <3> QED
        BY <1>3, <3>1, <3>2 DEF Knows
    <2> QED
      BY <2>1, <2>2
  <1>7. InOrder(r.pqueue, Ranks(policy, W, R))
    BY <1>5 DEF InOrder
  <1>8. \A k \in C : r.cores[k] # NULL => Knows(policy, W, r.job, r.cores[k], "core", now, R)
    BY <1>6 DEF job
  <1>9. \A m \in Range(r.pqueue) : Knows(policy, W, r.job, m, "queue", now, R)
    BY <1>5
  <1>10. policy = "PSJF" => \A k \in C, m \in Range(r.pqueue) :
            r.cores[k] # NULL => Before(Ranks(policy, W, R)[r.cores[k]], Ranks(policy, W, R)[m])
    BY <1>5
  <1>11. r.job \in [DOMAIN r.job -> JobT]
    BY <1>3 DEF job
  <1> QED
    BY <1>4, <1>7, <1>8, <1>9, <1>10, <1>11 DEF Serving

\* A new job that waits goes where the scheme wants it, and every running one is
\* ahead of it under PSJF.
LEMMA NoneServes ==
  ASSUME NEW I, NEW C, NEW b \in Nat, C \subseteq 0 .. b,
         NEW s, NEW n, NEW policy \in Schemes, NEW W, NEW now \in Nat, NEW R,
         Comes(I, C, s, n, policy, W, now, R), NEW rt, rt = W[n].run_time, NEW pr, pr = W[n].priority,
         NEW r, GotNone(C, s, policy, n, now, rt, pr, r)
  PROVE  Serving(policy, W, r, C, now, R)
  <1> DEFINE q == s.pqueue
             waits == WithNew(s, n, now, rt, pr)
             new == NewJob(now, rt, pr)
             rank == Ranks(policy, W, R)
  <1>1. /\ \A k \in C : s.cores[k] # NULL
        /\ policy = "PSJF" => WorstCores(s, waits, new) = {}
        /\ r.cores = s.cores /\ r.job = waits /\ r.pqueue = Offer(policy, q, n, waits)
    BY DEF GotNone
  <1>2. Informed(C, s, n, policy, W, now, R, waits) /\ waits[n] = new
    <2>1. Informed(C, s, n, policy, W, now, R, WithNew(s, n, now, W[n].run_time, W[n].priority))
      BY WaitsInformed
    <2> QED
      BY <2>1 DEF Informed
  <1> HIDE DEF waits, new
  <1>3. /\ W \in [DOMAIN W -> TaskT] /\ DOMAIN s.cores = C /\ q \in Seq(I) /\ n \in I
        /\ InOrder(q, rank)
        /\ policy = "PSJF" => \A k \in C, m \in Range(q) : s.cores[k] # NULL => Before(rank[s.cores[k]], rank[m])
        /\ n \in DOMAIN W /\ W[n].arrival_time = now /\ R[n] = {}
    BY DEF Comes, Serving, IsScheduler
  <1>4. /\ waits \in [DOMAIN waits -> JobT]
        /\ \A a \in Range(q) : Knows(policy, W, waits, a, "queue", now, R)
        /\ Knows(policy, W, waits, n, "queue", now, R)
        /\ \A k \in C : s.cores[k] # NULL => Knows(policy, W, waits, s.cores[k], "core", now, R)
    BY <1>2 DEF Informed
  <1> HIDE DEF q, rank
  <1>5. policy = "RR" => \A a \in Range(q) : Before(rank[a], rank[n])
    <2>1. SUFFICES ASSUME policy = "RR", NEW a \in Range(q) PROVE Before(rank[a], rank[n])
      OBVIOUS
    <2>2. RankOf("RR", W[n], R[n])[1] = now
      BY <1>3 DEF RankOf
    <2>3. Knows("RR", W, waits, a, "queue", now, R) /\ Knows("RR", W, waits, n, "queue", now, R)
      BY <1>4, <2>1
    <2>4. Before(Ranks("RR", W, R)[a], Ranks("RR", W, R)[n])
      BY <1>3, <2>2, <2>3, LastInLine
    <2> QED
      BY <2>1, <2>4 DEF rank
  <1>6. InOrder(r.pqueue, rank)
    <2>1. InOrder(Offer(policy, q, n, waits), rank)
      BY <1>3, <1>4, <1>5, OfferOrders DEF rank
    <2> QED
      BY <1>1, <2>1
  <1>7. Range(r.pqueue) = Range(q) \cup {n}
    BY <1>1, <1>3, OfferHolds DEF Offered
  <1>8. ASSUME policy = "PSJF", NEW k \in C PROVE Before(rank[s.cores[k]], rank[n])
    <2> DEFINE worse == {i \in C : comparer("PSJF", new, waits[s.cores[i]]) < 0}
               by == [i \in worse |-> rank[s.cores[i]]]
    <2>1. Busy(I, C, s, n, W, now, R) /\ Informed(C, s, n, "PSJF", W, now, R, waits) /\ rank = Ranks("PSJF", W, R)
      BY <1>1, <1>2, <1>8 DEF Busy, rank
    <2>2. \A i, l \in C :
            /\ comparer("PSJF", waits[s.cores[i]], waits[s.cores[l]]) <= 0 <=> Before(rank[s.cores[i]], rank[s.cores[l]])
            /\ comparer("PSJF", waits[n], waits[s.cores[l]]) < 0 <=> ~ Before(rank[s.cores[l]], rank[n])
      <3>1. Ranking(C, s, n, waits, rank)
        BY <2>1, RunningCompare
      <3> QED
        BY <3>1 DEF Ranking
    <2>3. worse = {}
      <3>1. SUFFICES ASSUME worse # {} PROVE FALSE
        OBVIOUS
      <3>2. Ranked(worse, by)
        <4>1. Ranked({s.cores[i] : i \in C}, rank)
          <5> DEFINE T == {s.cores[i] : i \in C}
          <5>1. \A x \in T : \E place : Knows("PSJF", W, waits, x, place, now, R)
            BY <1>1, <1>4, <1>8
          <5>2. "PSJF" \in Schemes
            BY DEF Schemes
          <5> HIDE DEF T
          <5>3. Ranked(T, Ranks("PSJF", W, R))
            BY <1>3, <5>1, <5>2, RanksAre
          <5> QED
            BY <2>1, <5>3 DEF T
        <4> QED
          BY <4>1 DEF Ranked
      <3>3. worse \subseteq 0 .. b
        OBVIOUS
      <3> HIDE DEF worse
      <3>4. \E i \in worse : \A l \in worse : Before(by[l], by[i])
        <4> HIDE DEF by
        <4> QED
          BY <3>1, <3>2, <3>3, GreatestRank
      <3>5. PICK i \in worse : \A l \in worse : Before(rank[s.cores[l]], rank[s.cores[i]])
        BY <3>4
      <3>6. \A l \in worse : comparer("PSJF", waits[s.cores[l]], waits[s.cores[i]]) <= 0
        BY <2>2, <3>5 DEF worse
      <3>7. i \in WorstCores(s, waits, new)
        BY <1>3, <3>6 DEF WorstCores, worse
      <3> QED
        BY <1>1, <1>8, <3>7
    <2> QED
      BY <1>2, <2>2, <2>3
  <1>9. ASSUME policy = "PSJF", NEW k \in C, NEW m \in Range(r.pqueue), r.cores[k] # NULL
        PROVE  Before(rank[r.cores[k]], rank[m])
    BY <1>1, <1>3, <1>7, <1>8, <1>9
  <1>10. \A m \in Range(r.pqueue) : Knows(policy, W, r.job, m, "queue", now, R)
    BY <1>1, <1>4, <1>7
  <1>11. \A k \in C : r.cores[k] # NULL => Knows(policy, W, r.job, r.cores[k], "core", now, R)
    BY <1>1, <1>4
  <1>12. r.job \in [DOMAIN r.job -> JobT]
    BY <1>1, <1>4
  <1> QED
    BY <1>3, <1>6, <1>9, <1>10, <1>11, <1>12 DEF Serving, rank

\* Preempting a job that has been charged.
LEMMA PreemptIs ==
  ASSUME NEW j \in JobT, NEW now \in Nat
  PROVE  Preempted(j, Preempt(j, now), now)
  <1> DEFINE f == IF j.first_runtime = now THEN -1 ELSE j.first_runtime
             l == IF j.last_runtime = now THEN -1 ELSE j.last_runtime
             new == [j EXCEPT !.first_runtime = f, !.last_runtime = l]
  <1>1. f \in Int /\ l \in Int
    BY DEF JobT
  <1>2. Preempt(j, now) = new
    BY DEF Preempt
  <1>3. f = IF j.first_runtime = now THEN -1 ELSE j.first_runtime
    OBVIOUS
  <1> HIDE DEF f, l
  <1>4. new \in JobT
    BY <1>1 DEF JobT
  <1>5. /\ new.arrival_time = j.arrival_time /\ new.priority = j.priority
        /\ new.running_time = j.running_time /\ new.remaining_time = j.remaining_time
        /\ new.first_runtime = f
    BY DEF JobT
  <1> HIDE DEF new
  <1> QED
    BY <1>2, <1>3, <1>4, <1>5 DEF Preempted

\* A new job that takes the core of the worst running one is ahead of it, and
\* that one is ahead of those that wait.
LEMMA WorstServes ==
  ASSUME NEW I, NEW C, I \subseteq Nat, NEW s, NEW n, NEW policy, NEW W, NEW now \in Nat, NEW R,
         Comes(I, C, s, n, policy, W, now, R), NEW rt, rt = W[n].run_time, NEW pr, pr = W[n].priority,
         NEW r, GotWorst(C, s, policy, n, now, rt, pr, r)
  PROVE  Serving(policy, W, r, C, now, R)
  <1> DEFINE q == s.pqueue
             waits == WithNew(s, n, now, rt, pr)
             runs == WithStarted(s, n, now, rt, pr)
             new == NewJob(now, rt, pr)
             rank == Ranks("PSJF", W, R)
  <1>1. PICK c \in C : /\ policy = "PSJF" /\ \A k \in C : s.cores[k] # NULL
                       /\ c \in WorstCores(s, waits, new)
                       /\ r.cores = [s.cores EXCEPT ![c] = n]
                       /\ r.job = WithPreempted(s, n, now, rt, pr, s.cores[c])
                       /\ r.pqueue = Offer(policy, q, s.cores[c], r.job)
    BY DEF GotWorst
  <1> DEFINE w == s.cores[c]
             job == r.job
             st == Preempt(runs[w], now)
  <1>2. Informed(C, s, n, policy, W, now, R, waits) /\ waits[n] = new
    <2>1. Informed(C, s, n, policy, W, now, R, WithNew(s, n, now, W[n].run_time, W[n].priority))
      BY WaitsInformed
    <2> QED
      BY <2>1 DEF Informed
  <1>3. Starts(policy, W, now, R, n, waits, runs)
    BY StartedInformed
  <1>4. job = [runs EXCEPT ![w] = st]
    BY <1>1 DEF WithPreempted
  <1> HIDE DEF waits, runs, new, job, st, q
  <1>5. /\ W \in [DOMAIN W -> TaskT] /\ DOMAIN s.cores = C /\ q \in Seq(I) /\ n \in I
        /\ s.cores \in [C -> I \cup {NULL}]
        /\ InOrder(q, rank)
        /\ \A k \in C, m \in Range(q) : s.cores[k] # NULL => Before(rank[s.cores[k]], rank[m])
        /\ n \in DOMAIN W /\ n \notin Range(q) /\ \A k \in C : s.cores[k] # n /\ s.cores[k] \notin Range(q)
        /\ \A k, l \in C : s.cores[k] = s.cores[l] /\ s.cores[k] # NULL => k = l
    BY <1>1 DEF Comes, Serving, IsScheduler, q
  <1>6. /\ waits \in [DOMAIN waits -> JobT]
        /\ \A a \in Range(q) : Knows("PSJF", W, waits, a, "queue", now, R)
        /\ \A k \in C : Knows("PSJF", W, waits, s.cores[k], "core", now, R)
        /\ waits[w].last_runtime = now /\ w # NULL
    BY <1>1, <1>2 DEF Informed, q
  <1>7. w \in I /\ w # n /\ w \notin Range(q) /\ \A k \in C : k # c => s.cores[k] # w
    BY <1>1, <1>5
  <1> HIDE DEF w
  <1>8. /\ runs \in [DOMAIN runs -> JobT] /\ DOMAIN runs = DOMAIN waits
        /\ \A x \in DOMAIN runs : x # n => runs[x] = waits[x]
        /\ Knows("PSJF", W, runs, n, "core", now, R)
    BY <1>1, <1>3 DEF Starts
  <1>9. Knows("PSJF", W, waits, w, "core", now, R) /\ w \in DOMAIN waits /\ runs[w] = waits[w] /\ runs[w] \in JobT
    BY <1>6, <1>7, <1>8 DEF Knows, w
  <1>10. st \in JobT /\ Right("PSJF", W[w], st, "queue", now, R[w])
    <2> DEFINE j == runs[w]
               e == W[w]
               X == R[w]
    <2>1. j \in JobT /\ e.arrival_time \in Nat /\ Right("PSJF", e, j, "core", now, X) /\ j.last_runtime = now
      <3>1. e \in TaskT
        BY <1>5, <1>9 DEF Knows
      <3>2. e.arrival_time \in Nat
        BY <3>1 DEF TaskT
      <3> QED
        BY <1>6, <1>9, <3>2 DEF Knows
    <2> HIDE DEF j, e, X
    <2>2. Preempted(j, Preempt(j, now), now)
      BY <2>1, PreemptIs
    <2>3. Right("PSJF", e, Preempt(j, now), "queue", now, X)
      BY <2>1, <2>2, PreemptedRight
    <2>4. st = Preempt(j, now) /\ Preempt(j, now) \in JobT
      BY <2>2 DEF Preempted, st, j
    <2> QED
      BY <2>3, <2>4 DEF e, X
  <1>11. /\ job \in [DOMAIN job -> JobT] /\ DOMAIN job = DOMAIN runs /\ job[w] = st
         /\ \A x \in DOMAIN runs : x # w => job[x] = runs[x]
    BY <1>4, <1>8, <1>9, <1>10
  <1>12. Knows("PSJF", W, job, w, "queue", now, R)
    BY <1>8, <1>9, <1>10, <1>11 DEF Knows
  <1>13. \A a \in Range(q) : Knows("PSJF", W, job, a, "queue", now, R)
    <2>1. ASSUME NEW a \in Range(q) PROVE Knows("PSJF", W, job, a, "queue", now, R)
      <3>1. a # w /\ a # n /\ Knows("PSJF", W, waits, a, "queue", now, R)
        BY <1>5, <1>6, <1>7
      <3> QED
        BY <1>8, <1>11, <3>1 DEF Knows
    <2> QED
      BY <2>1
  <1>14. Knows("PSJF", W, job, n, "core", now, R)
    BY <1>7, <1>8, <1>11 DEF Knows
  <1>15. \A k \in C : k # c => Knows("PSJF", W, job, s.cores[k], "core", now, R)
    <2>1. ASSUME NEW k \in C, k # c PROVE Knows("PSJF", W, job, s.cores[k], "core", now, R)
      <3>1. s.cores[k] # w /\ s.cores[k] # n /\ Knows("PSJF", W, waits, s.cores[k], "core", now, R)
        BY <1>5, <1>6, <1>7, <2>1
      <3> QED
        BY <1>8, <1>11, <3>1 DEF Knows
    <2> QED
      BY <2>1
  <1>16. /\ Before(rank[n], rank[w]) /\ ~ Before(rank[w], rank[n])
         /\ \A k \in C : Before(rank[s.cores[k]], rank[w])
    <2>1. Busy(I, C, s, n, W, now, R) /\ Informed(C, s, n, "PSJF", W, now, R, waits)
      BY <1>1, <1>2 DEF Busy
    <2>2. Ranking(C, s, n, waits, rank)
      BY <2>1, RunningCompare
    <2>3. \A i, l \in C :
            /\ comparer("PSJF", waits[s.cores[i]], waits[s.cores[l]]) <= 0 <=> Before(rank[s.cores[i]], rank[s.cores[l]])
            /\ comparer("PSJF", new, waits[s.cores[l]]) < 0 <=> ~ Before(rank[s.cores[l]], rank[n])
      BY <1>2, <2>2 DEF Ranking
    <2> DEFINE T == {n} \cup {s.cores[i] : i \in C}
    <2>4. Ranked(T, rank)
      <3>1. \A x \in T : \E place : Knows("PSJF", W, job, x, place, now, R)
        <4>1. ASSUME NEW x \in T PROVE \E place : Knows("PSJF", W, job, x, place, now, R)
          <5>1. CASE x = n
            BY <1>14, <5>1
          <5>2. CASE x # n
            <6>1. PICK k \in C : x = s.cores[k]
              BY <5>2
            <6> QED
              BY <1>12, <1>15, <6>1 DEF w
          <5> QED
            BY <5>1, <5>2
        <4> QED
          BY <4>1
      <3>2. "PSJF" \in Schemes
        BY DEF Schemes
      <3> HIDE DEF T
      <3> QED
        BY <1>5, <3>1, <3>2, RanksAre
    <2>5. w \in T /\ n \in T /\ \A k \in C : s.cores[k] \in T
      BY DEF w
    <2> HIDE DEF T, rank
    <2>6. /\ \A x, y \in T : Before(rank[x], rank[y]) \/ Before(rank[y], rank[x])
          /\ \A x, y, z \in T : Before(rank[x], rank[y]) /\ Before(rank[y], rank[z]) => Before(rank[x], rank[z])
      BY <2>4, BeforeOrders
    <2> DEFINE worse == {i \in C : comparer("PSJF", new, waits[s.cores[i]]) < 0}
    <2>7. /\ c \in worse
          /\ \A k \in worse : comparer("PSJF", waits[s.cores[k]], waits[s.cores[c]]) <= 0
      BY <1>1, <1>5 DEF WorstCores
    <2>8. ~ Before(rank[w], rank[n])
      BY <2>3, <2>7 DEF w
    <2>9. Before(rank[n], rank[w])
      BY <2>5, <2>6, <2>8
    <2>10. ASSUME NEW k \in C PROVE Before(rank[s.cores[k]], rank[w])
      <3>1. CASE k \in worse
        BY <2>3, <2>7, <3>1 DEF w
      <3>2. CASE k \notin worse
        <4>1. Before(rank[s.cores[k]], rank[n])
          BY <2>3, <3>2
        <4> QED
          BY <2>5, <2>6, <2>9, <4>1
      <3> QED
        BY <3>1, <3>2
    <2> QED
      BY <2>8, <2>9, <2>10
  <1>17. Ranked(Range(q) \cup {w, n}, rank)
    <2> DEFINE T == Range(q) \cup {w, n}
    <2>1. \A x \in T : \E place : Knows("PSJF", W, job, x, place, now, R)
      BY <1>12, <1>13, <1>14
    <2>2. "PSJF" \in Schemes
      BY DEF Schemes
    <2> HIDE DEF T
    <2>3. Ranked(T, rank)
      BY <1>5, <2>1, <2>2, RanksAre
    <2> QED
      BY <2>3 DEF T
  <1>18. \A m \in Range(q) : Before(rank[w], rank[m])
    BY <1>5, <1>6 DEF w
  <1> HIDE DEF rank
  <1>19. \A m \in Range(q) : Before(rank[n], rank[m])
    <2> DEFINE T == Range(q) \cup {w, n}
    <2>1. \A x, y, z \in T : Before(rank[x], rank[y]) /\ Before(rank[y], rank[z]) => Before(rank[x], rank[z])
      <3> HIDE DEF T
      <3>1. Ranked(T, rank)
        BY <1>17 DEF T
      <3> QED
        BY <3>1, BeforeOrders
    <2> QED
      BY <1>16, <1>18, <2>1
  <1>20. r.pqueue = Offer("PSJF", q, w, job) /\ Range(r.pqueue) = Range(q) \cup {w}
    BY <1>1, <1>5, <1>7, OfferHolds DEF Offered, w, job
  <1>21. InOrder(r.pqueue, Ranks("PSJF", W, R))
    <2>1. "PSJF" \in Schemes /\ "PSJF" # "RR"
      BY DEF Schemes
    <2>2. InOrder(q, Ranks("PSJF", W, R))
      BY <1>5 DEF rank
    <2>3. InOrder(Offer("PSJF", q, w, job), Ranks("PSJF", W, R))
      BY <1>5, <1>7, <1>11, <1>12, <1>13, <2>1, <2>2, OfferOrders
    <2> QED
      BY <1>20, <2>3
  <1>22. ASSUME NEW k \in C, NEW m \in Range(r.pqueue) PROVE Before(rank[r.cores[k]], rank[m])
    <2>1. r.cores[k] = IF k = c THEN n ELSE s.cores[k]
      BY <1>1, <1>5
    <2>2. CASE m = w
      BY <1>16, <2>1, <2>2
    <2>3. CASE m \in Range(q)
      <3>1. s.cores[k] # NULL
        BY <1>1
      <3> QED
        BY <1>5, <1>19, <2>1, <2>3, <3>1 DEF rank
    <2> QED
      BY <1>20, <2>2, <2>3
  <1>23. \A k \in C : Knows("PSJF", W, job, r.cores[k], "core", now, R)
    BY <1>1, <1>5, <1>14, <1>15
  <1>24. \A m \in Range(r.pqueue) : Knows("PSJF", W, job, m, "queue", now, R)
    BY <1>12, <1>13, <1>20
  <1> QED
    BY <1>1, <1>5, <1>11, <1>21, <1>22, <1>23, <1>24 DEF Serving, job, rank

\* Nothing new is said of the other jobs that have no core.
Kept(C, s, n, job) ==
    \A x \in DOMAIN s.job :
        x # n /\ (\A k \in C : s.cores[k] # x) => x \in DOMAIN job /\ job[x] = s.job[x]

\* An arrival says nothing new of the jobs that are neither it nor running.
LEMMA OthersKept ==
  ASSUME NEW I, NEW C, NEW s, NEW n, NEW policy, NEW W, NEW now \in Nat, NEW R,
         Comes(I, C, s, n, policy, W, now, R), NEW rt, rt = W[n].run_time, NEW pr, pr = W[n].priority,
         NEW r, Got(C, s, policy, n, now, rt, pr, r)
  PROVE  Kept(C, s, n, r.job)
  <1>0. SUFFICES ASSUME NEW x \in DOMAIN s.job, x # n, \A k \in C : s.cores[k] # x
                 PROVE  x \in DOMAIN r.job /\ r.job[x] = s.job[x]
    BY DEF Kept
  <1> DEFINE waits == WithNew(s, n, now, rt, pr)
             runs == WithStarted(s, n, now, rt, pr)
  <1>1. Informed(C, s, n, policy, W, now, R, waits)
    <2>1. Informed(C, s, n, policy, W, now, R, WithNew(s, n, now, W[n].run_time, W[n].priority))
      BY WaitsInformed
    <2> QED
      BY <2>1
  <1>2. Starts(policy, W, now, R, n, waits, runs)
    BY StartedInformed
  <1> HIDE DEF waits
  <1>3. x \in DOMAIN waits /\ waits[x] = s.job[x]
    BY <1>0, <1>1 DEF Informed
  <1>4. CASE GotNone(C, s, policy, n, now, rt, pr, r)
    BY <1>3, <1>4 DEF GotNone, waits
  <1> HIDE DEF runs
  <1>5. x \in DOMAIN runs /\ runs[x] = s.job[x]
    BY <1>0, <1>2, <1>3 DEF Starts
  <1>6. CASE GotFree(C, s, n, now, rt, pr, r)
    BY <1>5, <1>6 DEF GotFree, runs
  <1>7. CASE GotWorst(C, s, policy, n, now, rt, pr, r)
    <2>1. PICK c \in C : r.job = WithPreempted(s, n, now, rt, pr, s.cores[c])
      BY <1>7 DEF GotWorst
    <2>2. r.job = [runs EXCEPT ![s.cores[c]] = Preempt(runs[s.cores[c]], now)]
      BY <2>1 DEF WithPreempted, runs
    <2>3. x # s.cores[c]
      BY <1>0
    <2> QED
      BY <1>5, <2>2, <2>3
  <1> QED
    BY <1>4, <1>6, <1>7 DEF Got

\* An arrival is served under each of the schemes.
LEMMA ArriveServes ==
  ASSUME NEW I, NEW C, NEW b \in Nat, I \subseteq Nat, C \subseteq 0 .. b, NEW list, NEW s, Placed(I, C, list, s),
         NEW i \in 1 .. Len(list), ~ list[i].arrived, NEW n, n = list[i].job_id,
         NEW now \in Nat, list[i].arrival_time = now, NEW R, R[n] = {},
         NEW policy \in Schemes, Serving(policy, Tasks(list), s, C, now, R), Done(s, R),
         NEW r, r = scheduler_new_job(s, policy, n, now, list[i].run_time, list[i].priority).state,
         NEW new \in Seq(Entries(I, C)), NEW core, Assigns(list, new, i, core)
  PROVE  Serving(policy, Tasks(new), r, C, now, R) /\ Done(r, R)
  <1> DEFINE W == Tasks(list)
             V == Tasks(new)
             q == s.pqueue
             D == Range(s.completedjobs)
             rt == list[i].run_time
             pr == list[i].priority
  <1>1. /\ list \in Seq(Entries(I, C)) /\ IsScheduler(s, I, C) /\ Len(list) \in Nat
        /\ Agree(I, C, list, s.cores, Range(q), D) /\ D \subseteq I
        /\ s.cores \in [C -> I \cup {NULL}]
        /\ q # << >> => NULL \notin Range(s.cores)
    <2>1. /\ list \in Seq(Entries(I, C)) /\ IsScheduler(s, I, C)
          /\ Agree(I, C, list, s.cores, Range(q), D)
          /\ q # << >> => NULL \notin Range(s.cores)
      BY DEF Placed
    <2>2. s.completedjobs \in Seq(I) /\ s.cores \in [C -> I \cup {NULL}]
      BY <2>1 DEF IsScheduler
    <2> QED
      BY <2>1, <2>2 DEF Range
  <1> HIDE DEF q, D
  <1>2. n \in I
    <2>1. list[i] \in Entries(I, C)
      BY <1>1
    <2> QED
      BY <2>1 DEF Entries
  <1>3. OneEach(list) /\ OneEach(new)
    <2>1. OneEach(list)
      BY <1>1 DEF Agree, OneEach
    <2> QED
      BY <2>1 DEF Assigns, OneEach
  <1>4. /\ W \in [DOMAIN W -> TaskT] /\ DOMAIN W = Listed(list) /\ n \in Listed(list)
        /\ W[n] = Task(list[i])
    BY <1>1, <1>3, TasksAre
  <1>5. V \in [DOMAIN V -> TaskT] /\ \A m \in Listed(list) : m \in DOMAIN V /\ V[m] = W[m]
    <2>1. Carried(new, list)
      BY CarriedOver
    <2>2. \A m \in Listed(list) : m \in Listed(new) /\ Tasks(list)[m] = Tasks(new)[m]
      BY <1>1, <1>3, <2>1, TasksCarried
    <2>3. V \in [DOMAIN V -> TaskT] /\ DOMAIN V = Listed(new)
      BY <1>3, TasksAre
    <2> QED
      BY <2>2, <2>3
  <1>6. W[n].arrival_time = now /\ rt = W[n].run_time /\ pr = W[n].priority
    BY <1>4 DEF Task
  <1> HIDE DEF W, V, rt, pr
  <1>7. n # NULL /\ n \notin Range(q) /\ \A k \in C : s.cores[k] # n /\ s.cores[k] \notin Range(q)
    <2>1. n # NULL
      BY <1>2, NotNull
    <2>2. n \notin Range(q) /\ \A k \in C : s.cores[k] # n
      <3>1. ~ (n \in Range(q) \/ \E k \in C : s.cores[k] = n)
        BY <1>1 DEF Agree
      <3> QED
        BY <3>1
    <2>3. \A k \in C : s.cores[k] \notin Range(q)
      BY <1>1 DEF Agree
    <2> QED
      BY <2>1, <2>2, <2>3
  <1>8. \A k, c \in C : s.cores[k] = s.cores[c] /\ s.cores[k] # NULL => k = c
    <2>1. SUFFICES ASSUME NEW k \in C, NEW c \in C, s.cores[k] = s.cores[c], s.cores[k] # NULL PROVE k = c
      OBVIOUS
    <2> DEFINE cores == s.cores
               Q == Range(q)
    <2>2. Agree(I, C, list, cores, Q, D) /\ cores[k] = cores[c] /\ cores[k] # NULL
      BY <1>1, <2>1
    <2> HIDE DEF cores, Q
    <2> QED
      BY <2>2, OneCore
  <1>9. Comes(I, C, s, n, policy, W, now, R)
    <2>1. q # << >> => \A k \in C : s.cores[k] # NULL
      BY <1>1 DEF Range
    <2> QED
      BY <1>1, <1>2, <1>4, <1>6, <1>7, <1>8, <2>1 DEF Comes, q, W
  <1>10. Got(C, s, policy, n, now, rt, pr, r)
    <2>1. C \subseteq Nat /\ r = scheduler_new_job(s, policy, n, now, rt, pr).state
      BY DEF rt, pr
    <2> QED
      BY <1>1, <1>2, <2>1, NewJobMakes
  <1>11. Serving(policy, W, r, C, now, R)
    <2>1. CASE GotFree(C, s, n, now, rt, pr, r)
      BY <1>6, <1>9, <2>1, FreeServes
    <2>2. CASE GotWorst(C, s, policy, n, now, rt, pr, r)
      BY <1>6, <1>9, <2>2, WorstServes
    <2>3. CASE GotNone(C, s, policy, n, now, rt, pr, r)
      BY <1>6, <1>9, <2>3, NoneServes
    <2> QED
      BY <1>10, <2>1, <2>2, <2>3 DEF Got
  <1>12. Serving(policy, V, r, C, now, R)
    <2>1. \A m \in Range(r.pqueue) : m \in DOMAIN W
      BY <1>11 DEF Serving, Knows
    <2>2. \A k \in C : r.cores[k] # NULL => r.cores[k] \in DOMAIN W
      BY <1>11 DEF Serving, Knows
    <2>3. /\ \A m \in Range(r.pqueue) : m \in DOMAIN V /\ V[m] = W[m]
          /\ \A k \in C : r.cores[k] # NULL => r.cores[k] \in DOMAIN V /\ V[r.cores[k]] = W[r.cores[k]]
      BY <1>4, <1>5, <2>1, <2>2
    <2>4. TasksKept(r, C, W, V)
      BY <1>5, <2>3 DEF TasksKept
    <2> QED
      BY <1>11, <2>4, OtherTasks
  <1>13. ASSUME NEW m \in D PROVE m \in DOMAIN r.job /\ Counted(r.job[m], R[m])
    <2>1. m \in DOMAIN s.job /\ Counted(s.job[m], R[m])
      BY DEF Done, D
    <2>2. m # n /\ \A k \in C : s.cores[k] # m
      <3>1. m \in I /\ \A j \in 1 .. Len(list) : list[j].job_id # m
        BY <1>1 DEF Agree
      <3>2. m # NULL
        BY <3>1, NotNull
      <3>3. ASSUME NEW k \in C, s.cores[k] = m PROVE FALSE
        <4>1. \E j \in 1 .. Len(list) : list[j].job_id = s.cores[k]
          BY <1>1, <3>2, <3>3 DEF Agree
        <4> QED
          BY <3>1, <3>3, <4>1
      <3> QED
        BY <3>1, <3>3
    <2>3. m \in DOMAIN r.job /\ r.job[m] = s.job[m]
      <3>1. Kept(C, s, n, r.job)
        BY <1>6, <1>9, <1>10, OthersKept
      <3> QED
        BY <2>1, <2>2, <3>1 DEF Kept
    <2> QED
      BY <2>1, <2>3
  <1>14. Done(r, R)
    BY <1>10, <1>13 DEF Done, D, Got
  <1> QED
    BY <1>12, <1>14 DEF V

\* The jobs that have a core run for a time unit.
RunsOnce(list, new) ==
    /\ Len(new) = Len(list)
    /\ \A j \in 1 .. Len(list) :
         /\ new[j].job_id = list[j].job_id
         /\ new[j].arrival_time = list[j].arrival_time /\ new[j].priority = list[j].priority
         /\ new[j].run_time = IF list[j].core_id # -1 THEN list[j].run_time - 1 ELSE list[j].run_time

\* ... and their times become R2.
RanAt(I, list, R, R2, now) ==
    \A n \in I : R2[n] = IF \E j \in 1 .. Len(list) : list[j].core_id # -1 /\ list[j].job_id = n
                         THEN R[n] \cup {now} ELSE R[n]

\* A task and the times of it, of a job that waits, ...
SameTask(W, R, V, R2, n) == n \in DOMAIN V /\ V[n] = W[n] /\ R2[n] = R[n]

\* ... and of one that runs.
NextTask(W, R, V, R2, n, now) ==
    /\ n \in DOMAIN V /\ n \in DOMAIN W /\ V[n].arrival_time = W[n].arrival_time
    /\ V[n].priority = W[n].priority /\ V[n].run_time = W[n].run_time - 1
    /\ R2[n] = R[n] \cup {now}

\* What a time unit makes of the tasks of those that wait, run or are done.
LEMMA RunTasks ==
  ASSUME NEW I, NEW C, I \subseteq Nat, C \subseteq Nat, NEW list, NEW s, Placed(I, C, list, s),
         NEW new \in Seq(Entries(I, C)), RunsOnce(list, new), NEW R, NEW R2, NEW now,
         RanAt(I, list, R, R2, now)
  PROVE  /\ Tasks(new) \in [DOMAIN Tasks(new) -> TaskT]
         /\ \A n \in Range(s.pqueue) : SameTask(Tasks(list), R, Tasks(new), R2, n)
         /\ \A k \in C : s.cores[k] # NULL =>
               NextTask(Tasks(list), R, Tasks(new), R2, s.cores[k], now)
         /\ \A n \in Range(s.completedjobs) : R2[n] = R[n]
  <1> DEFINE W == Tasks(list)
             V == Tasks(new)
             Q == Range(s.pqueue)
             D == Range(s.completedjobs)
             cores == s.cores
             m == Len(list)
  <1>1. /\ list \in Seq(Entries(I, C)) /\ Agree(I, C, list, cores, Q, D) /\ D \subseteq I /\ Q \subseteq I
    BY DEF Placed, IsScheduler, Range
  <1> HIDE DEF Q, D, cores
  <1>2. OneEach(list) /\ OneEach(new)
    <2>1. OneEach(list)
      BY <1>1 DEF Agree, OneEach
    <2> QED
      BY <2>1 DEF RunsOnce, OneEach
  <1>3. \A i \in 1 .. m : W[list[i].job_id] = Task(list[i]) /\ list[i].job_id \in DOMAIN W
    BY <1>1, <1>2, TasksAre
  <1>4. /\ V \in [DOMAIN V -> TaskT]
        /\ \A i \in 1 .. Len(new) : V[new[i].job_id] = Task(new[i]) /\ new[i].job_id \in DOMAIN V
    BY <1>2, TasksAre
  <1> HIDE DEF W, V
  <1>5. ASSUME NEW i \in 1 .. m PROVE list[i].core_id \in C \cup {-1} /\ list[i].job_id \in I
    <2>1. list[i] \in Entries(I, C)
      BY <1>1
    <2> QED
      BY <2>1 DEF Entries
  <1>6. /\ \A i, k \in 1 .. m : list[i].job_id = list[k].job_id => i = k
        /\ \A i \in 1 .. m, c \in C : list[i].core_id = c <=> cores[c] = list[i].job_id
        /\ \A c \in C : cores[c] \notin Q
        /\ \A n \in Q : \E i \in 1 .. m : list[i].job_id = n
        /\ \A c \in C : cores[c] # NULL => \E i \in 1 .. m : list[i].job_id = cores[c]
        /\ \A n \in I : n \in D <=> \A i \in 1 .. m : list[i].job_id # n
    BY <1>1 DEF Agree
  <1>7. /\ Len(new) = m
        /\ \A j \in 1 .. m :
             /\ new[j].job_id = list[j].job_id
             /\ new[j].arrival_time = list[j].arrival_time /\ new[j].priority = list[j].priority
             /\ new[j].run_time = IF list[j].core_id # -1 THEN list[j].run_time - 1 ELSE list[j].run_time
    BY DEF RunsOnce
  <1>8. \A n \in I : R2[n] = IF \E j \in 1 .. m : list[j].core_id # -1 /\ list[j].job_id = n
                             THEN R[n] \cup {now} ELSE R[n]
    BY DEF RanAt
  <1> HIDE DEF m
  <1>9. ASSUME NEW n \in Q PROVE SameTask(W, R, V, R2, n)
    <2>1. PICK i \in 1 .. m : list[i].job_id = n
      BY <1>6
    <2>2. list[i].core_id = -1
      <3>1. ASSUME NEW c \in C, list[i].core_id = c PROVE FALSE
        <4>1. cores[c] = list[i].job_id
          BY <1>6, <3>1
        <4> QED
          BY <1>6, <2>1, <4>1
      <3> QED
        BY <1>5, <3>1
    <2>3. \A j \in 1 .. m : list[j].job_id = n => list[j].core_id = -1
      BY <1>6, <2>1, <2>2
    <2>4. R2[n] = R[n]
      BY <1>1, <1>8, <2>3
    <2>5. V[n] = Task(new[i]) /\ n \in DOMAIN V /\ W[n] = Task(list[i])
      BY <1>3, <1>4, <1>7, <2>1
    <2>6. Task(new[i]) = Task(list[i])
      BY <1>7, <2>2 DEF Task
    <2> QED
      BY <2>4, <2>5, <2>6 DEF SameTask
  <1>10. ASSUME NEW k \in C, cores[k] # NULL PROVE NextTask(W, R, V, R2, cores[k], now)
    <2> DEFINE n == cores[k]
    <2>1. PICK i \in 1 .. m : list[i].job_id = n
      BY <1>6, <1>10
    <2>2. list[i].core_id # -1
      <3>1. list[i].core_id = k
        <4>1. \A j \in 1 .. m : list[j].core_id = k <=> cores[k] = list[j].job_id
          BY <1>6
        <4>2. cores[k] = list[i].job_id
          BY <2>1
        <4> QED
          BY <4>1, <4>2
      <3> QED
        BY <3>1
    <2> HIDE DEF n
    <2>3. n \in I
      BY <1>5, <2>1
    <2>4. R2[n] = R[n] \cup {now}
      BY <1>8, <2>1, <2>2, <2>3
    <2>5. /\ V[n] = Task(new[i]) /\ n \in DOMAIN V
          /\ W[n] = Task(list[i]) /\ n \in DOMAIN W
      BY <1>3, <1>4, <1>7, <2>1
    <2>6. /\ V[n].arrival_time = W[n].arrival_time
          /\ V[n].priority = W[n].priority /\ V[n].run_time = W[n].run_time - 1
      BY <1>7, <2>2, <2>5 DEF Task
    <2>7. NextTask(W, R, V, R2, n, now)
      BY <2>4, <2>5, <2>6 DEF NextTask
    <2> QED
      BY <2>7 DEF n
  <1>11. ASSUME NEW n \in D PROVE R2[n] = R[n]
    <2>1. n \in I /\ \A i \in 1 .. m : list[i].job_id # n
      BY <1>1, <1>6
    <2> QED
      BY <1>8, <2>1
  <1> QED
    BY <1>4, <1>9, <1>10, <1>11 DEF Q, D, cores, W, V

\* The queue stays in order while the jobs on the cores run.
LEMMA RunServes ==
  ASSUME NEW I, NEW C, I \subseteq Nat, C \subseteq Nat, NEW list, NEW s, Placed(I, C, list, s),
         NEW new \in Seq(Entries(I, C)), RunsOnce(list, new),
         NEW now \in Nat, NEW R, NEW R2, RanAt(I, list, R, R2, now),
         NEW policy \in Schemes, Serving(policy, Tasks(list), s, C, now, R), Done(s, R)
  PROVE  Serving(policy, Tasks(new), s, C, now + 1, R2) /\ Done(s, R2)
  <1> DEFINE W == Tasks(list)
             V == Tasks(new)
             q == s.pqueue
             job == s.job
             cores == s.cores
  <1>1. /\ V \in [DOMAIN V -> TaskT]
        /\ \A n \in Range(q) : SameTask(W, R, V, R2, n)
        /\ \A k \in C : cores[k] # NULL => NextTask(W, R, V, R2, cores[k], now)
        /\ \A n \in Range(s.completedjobs) : R2[n] = R[n]
    BY RunTasks
  <1>2. /\ W \in [DOMAIN W -> TaskT] /\ job \in [DOMAIN job -> JobT]
        /\ \A n \in Range(q) : Knows(policy, W, job, n, "queue", now, R)
        /\ \A k \in C : cores[k] # NULL => Knows(policy, W, job, cores[k], "core", now, R)
        /\ InOrder(q, Ranks(policy, W, R))
        /\ policy = "PSJF" => \A k \in C, n \in Range(q) :
                cores[k] # NULL => Before(Ranks(policy, W, R)[cores[k]], Ranks(policy, W, R)[n])
    BY DEF Serving
  <1>3. q \in Seq(I)
    BY DEF Placed, IsScheduler
  <1> HIDE DEF W, V, q, job, cores
  <1>4. ASSUME NEW n \in Range(q) PROVE Knows(policy, V, job, n, "queue", now + 1, R2)
    <2>1. n \in DOMAIN V /\ V[n] = W[n] /\ R2[n] = R[n]
      BY <1>1 DEF SameTask
    <2>2. n \in DOMAIN W /\ n \in DOMAIN job /\ Right(policy, W[n], job[n], "queue", now, R[n])
      BY <1>2 DEF Knows
    <2> DEFINE e == W[n]
               j == job[n]
               X == R[n]
    <2>3. e.arrival_time \in Nat
      BY <1>2, <2>2 DEF TaskT
    <2>4. Right(policy, e, j, "queue", now, X)
      BY <2>2
    <2> HIDE DEF e, j, X
    <2>5. Right(policy, e, j, "queue", now + 1, X)
      BY <2>3, <2>4, WaitsRight
    <2> QED
      BY <2>1, <2>2, <2>5 DEF Knows, e, j, X
  <1>5. ASSUME NEW k \in C, cores[k] # NULL PROVE Knows(policy, V, job, cores[k], "core", now + 1, R2)
    <2> DEFINE n == cores[k]
    <2>1. /\ n \in DOMAIN V /\ n \in DOMAIN W /\ V[n].arrival_time = W[n].arrival_time
          /\ V[n].priority = W[n].priority /\ V[n].run_time = W[n].run_time - 1
          /\ R2[n] = R[n] \cup {now}
      BY <1>1, <1>5 DEF NextTask
    <2>2. n \in DOMAIN W /\ n \in DOMAIN job /\ Right(policy, W[n], job[n], "core", now, R[n])
      BY <1>2, <1>5 DEF Knows
    <2> HIDE DEF n
    <2> DEFINE e == W[n]
               j == job[n]
               X == R[n]
               new1 == V[n]
    <2>3. e.arrival_time \in Nat /\ e.run_time \in Nat /\ j \in JobT
      BY <1>2, <2>2 DEF TaskT
    <2>4. /\ Right(policy, e, j, "core", now, X)
          /\ new1.arrival_time = e.arrival_time /\ new1.priority = e.priority
          /\ new1.run_time = e.run_time - 1
      BY <2>1, <2>2
    <2> HIDE DEF e, j, X, new1
    <2>5. Right(policy, new1, j, "core", now + 1, X \cup {now})
      BY <2>3, <2>4, RunsRight
    <2>6. Knows(policy, V, job, n, "core", now + 1, R2)
      BY <2>1, <2>2, <2>5 DEF Knows, e, j, X, new1
    <2> QED
      BY <2>6 DEF n
  <1> DEFINE old == Ranks(policy, W, R)
             rank == Ranks(policy, V, R2)
  <1>6. ASSUME NEW n \in Range(q) PROVE rank[n] = old[n]
    <2>1. n \in DOMAIN V /\ V[n] = W[n] /\ R2[n] = R[n] /\ n \in DOMAIN W
      BY <1>1, <1>2 DEF SameTask, Knows
    <2> QED
      BY <2>1 DEF Ranks
  <1>7. ASSUME policy = "PSJF", NEW k \in C, NEW n \in Range(q), cores[k] # NULL
        PROVE  Before(rank[cores[k]], rank[n])
    <2> DEFINE c == cores[k]
    <2>1. /\ c \in DOMAIN V /\ c \in DOMAIN W /\ V[c].arrival_time = W[c].arrival_time
          /\ V[c].run_time = W[c].run_time - 1
      BY <1>1, <1>7 DEF NextTask
    <2>2. Before(old[c], old[n]) /\ rank[n] = old[n] /\ n \in DOMAIN W
      BY <1>2, <1>6, <1>7 DEF Knows
    <2> HIDE DEF c
    <2>3. /\ old[c] = <<W[c].run_time, W[c].arrival_time>>
          /\ old[n] = <<W[n].run_time, W[n].arrival_time>>
          /\ rank[c] = <<V[c].run_time, V[c].arrival_time>>
      BY <1>7, <2>1, <2>2 DEF Ranks, RankOf
    <2> DEFINE a == W[c].run_time
               b == W[c].arrival_time
               x == W[n].run_time
               y == W[n].arrival_time
    <2>4. a \in Nat /\ b \in Nat /\ x \in Nat /\ y \in Nat
      BY <1>2, <2>1, <2>2 DEF TaskT
    <2>5. rank[c] = <<a - 1, b>> /\ rank[n] = <<x, y>> /\ Before(<<a, b>>, <<x, y>>)
      BY <2>1, <2>2, <2>3
    <2> HIDE DEF a, b, x, y, rank, old
    <2>6. Before(<<a - 1, b>>, <<x, y>>)
      BY <2>4, <2>5 DEF Before
    <2> QED
      BY <2>5, <2>6 DEF c
  <1> HIDE DEF old, rank
  <1>8. InOrder(q, rank)
    <2>1. InOrder(q, old)
      BY <1>2 DEF old
    <2>2. \A i \in 1 .. Len(q) : rank[q[i]] = old[q[i]]
      BY <1>3, <1>6 DEF Range
    <2> QED
      BY <2>1, <2>2 DEF InOrder
  <1>9. Serving(policy, V, s, C, now + 1, R2)
    <2>1. job \in [DOMAIN job -> JobT]
      BY <1>2
    <2> QED
      BY <1>1, <2>1, <1>4, <1>5, <1>7, <1>8 DEF Serving, q, job, cores, rank
  <1>10. Done(s, R2)
    BY <1>1 DEF Done
  <1> QED
    BY <1>9, <1>10 DEF V

-----------------------------------------------------------------------------
(* The order of the queue and what is known of the jobs, always             *)

\* A job that has not arrived has not run, and one with no time left has just
\* run.
Timely(list, R, now) ==
    \A i \in 1 .. Len(list) :
        /\ ~ list[i].arrived => R[list[i].job_id] = {}
        /\ list[i].arrived /\ list[i].run_time = 0 => now - 1 \in R[list[i].job_id]

\* The job on a core has its quantum before it or has just run.
Quanta(C, cores, clock, q, R, now) ==
    q # 0 /\ \A c \in C : cores[c] # NULL => clock[c] = q \/ now - 1 \in R[cores[c]]

\* With SchedulerInv, this is the inductive invariant of the schemes.
OrderInv ==
    /\ Serving(scheme, Tasks(jobs), sched, Cores, time, ran) /\ Done(sched, ran)
    /\ Timely(jobs, ran, time)
    /\ scheme = "RR" => Quanta(Cores, sched.cores, quantum_clock, quantum, ran, time)
    /\ phase = "quantum" => scheme = "RR"
    /\ Cores \subseteq 0 .. MaxCores

\* An entry of new is one of list, for all that its job's times are concerned.
Alike(list, new) ==
    \A j \in 1 .. Len(new) : \E k \in 1 .. Len(list) :
        /\ new[j].job_id = list[k].job_id /\ (new[j].arrived <=> list[k].arrived)
        /\ new[j].run_time = list[k].run_time

\* So it is when a core is given or taken, ...
LEMMA AlikeMoved ==
  ASSUME NEW list, NEW new, NEW i, NEW c, Moved(list, new, i, c)
  PROVE  Alike(list, new)
  BY DEF Moved, Alike

\* ... or an entry leaves the list, ...
LEMMA AlikeRemoved ==
  ASSUME NEW list, Len(list) \in Nat, NEW i \in 1 .. Len(list), NEW less, Removed(list, less, i)
  PROVE  Alike(list, less)
  <1>1. SUFFICES ASSUME NEW j \in 1 .. Len(less)
                 PROVE  \E k \in 1 .. Len(list) : less[j] = list[k]
    BY DEF Alike
  <1>2. j \in 1 .. Len(list) - 1 /\ less[j] = IF j = i THEN list[Len(list)] ELSE list[j]
    BY DEF Removed
  <1>3. Len(list) \in 1 .. Len(list) /\ j \in 1 .. Len(list)
    BY <1>2
  <1> QED
    BY <1>2, <1>3

\* ... and the entries stay timely.
LEMMA TimelyAlike ==
  ASSUME NEW list, NEW new, Alike(list, new), NEW R, NEW now, Timely(list, R, now)
  PROVE  Timely(new, R, now)
  <1>1. SUFFICES ASSUME NEW j \in 1 .. Len(new)
                 PROVE  /\ ~ new[j].arrived => R[new[j].job_id] = {}
                        /\ new[j].arrived /\ new[j].run_time = 0 => now - 1 \in R[new[j].job_id]
    BY DEF Timely
  <1>2. PICK k \in 1 .. Len(list) :
            /\ new[j].job_id = list[k].job_id /\ (new[j].arrived <=> list[k].arrived)
            /\ new[j].run_time = list[k].run_time
    BY DEF Alike
  <1> QED
    BY <1>2 DEF Timely

\* Which core a job has is of no matter to how well it is served.
LEMMA ServesMoved ==
  ASSUME NEW I, NEW C, NEW list \in Seq(Entries(I, C)), NEW s, NEW policy, NEW now, NEW R,
         Serving(policy, Tasks(list), s, C, now, R), OneEach(list),
         NEW new, Placed(I, C, new, s), NEW m, NEW c, Moved(list, new, m, c)
  PROVE  Serving(policy, Tasks(new), s, C, now, R)
  <1> DEFINE V == Tasks(new)
             W == Tasks(list)
             Q == Range(s.pqueue)
             D == Range(s.completedjobs)
             cores == s.cores
  <1>1. new \in Seq(Entries(I, C)) /\ Agree(I, C, new, cores, Q, D)
    BY DEF Placed
  <1> HIDE DEF Q, D, cores
  <1>2. /\ OneEach(new) /\ Q \subseteq Listed(new)
        /\ \A k \in C : cores[k] # NULL => cores[k] \in Listed(new)
    BY <1>1, TasksListed
  <1>3. Carried(list, new)
    BY CarriedOver
  <1>4. \A n \in Listed(new) : n \in Listed(list) /\ Tasks(new)[n] = Tasks(list)[n]
    BY <1>1, <1>2, <1>3, TasksCarried
  <1>5. V \in [DOMAIN V -> TaskT] /\ DOMAIN V = Listed(new)
    BY <1>1, <1>2, TasksAre
  <1> HIDE DEF V, W
  <1>6. /\ \A n \in Q : n \in DOMAIN V /\ V[n] = W[n]
        /\ \A k \in C : cores[k] # NULL => cores[k] \in DOMAIN V /\ V[cores[k]] = W[cores[k]]
    BY <1>2, <1>4, <1>5 DEF V, W
  <1>7. Serving(policy, W, s, C, now, R)
    BY DEF W
  <1>8. /\ \A n \in Range(s.pqueue) : n \in DOMAIN V /\ V[n] = W[n]
        /\ \A k \in C : s.cores[k] # NULL => s.cores[k] \in DOMAIN V /\ V[s.cores[k]] = W[s.cores[k]]
    BY <1>6 DEF Q, cores
  <1>9. Serving(policy, V, s, C, now, R)
    <2>1. TasksKept(s, C, W, V)
      BY <1>5, <1>8 DEF TasksKept
    <2> QED
      BY <1>7, <2>1, OtherTasks
  <1> QED
    BY <1>9 DEF V

\* The core whose job changes has a whole quantum again.
LEMMA QuantaHanded ==
  ASSUME NEW C, NEW cores, NEW clock, clock \in [C -> Int], NEW q, NEW R, NEW now,
         Quanta(C, cores, clock, q, R, now),
         NEW c \in C, NEW cores2, \A k \in C : k # c => cores2[k] = cores[k]
  PROVE  Quanta(C, cores2, [clock EXCEPT ![c] = q], q, R, now)
  BY DEF Quanta

\* What SchedulerInv says, taken apart.
LEMMA InvSays ==
  SchedulerInv =>
    /\ MachineInv /\ Placed(Ids, Cores, jobs, sched) /\ jobs \in Seq(Entries(Ids, Cores))
    /\ Ids \subseteq Nat /\ Cores \subseteq Nat /\ time \in Nat /\ scheme \in Schemes
    /\ quantum_clock \in [Cores -> Int] /\ quantum \in Int
    /\ ran \in [Ids -> SUBSET (0 .. time)] /\ PhaseInv
    /\ Agree(Ids, Cores, jobs, sched.cores, Range(sched.pqueue), Range(sched.completedjobs))
    /\ Len(jobs) \in Nat
  <1> SUFFICES ASSUME SchedulerInv
               PROVE  /\ MachineInv /\ Placed(Ids, Cores, jobs, sched) /\ jobs \in Seq(Entries(Ids, Cores))
                      /\ Ids \subseteq Nat /\ Cores \subseteq Nat /\ time \in Nat /\ scheme \in Schemes
                      /\ quantum_clock \in [Cores -> Int] /\ quantum \in Int
                      /\ ran \in [Ids -> SUBSET (0 .. time)] /\ PhaseInv
                      /\ Agree(Ids, Cores, jobs, sched.cores, Range(sched.pqueue), Range(sched.completedjobs))
                      /\ Len(jobs) \in Nat
    OBVIOUS
  <1>1. MachineInv /\ Placed(Ids, Cores, jobs, sched) /\ PhaseInv
    BY DEF SchedulerInv
  <1>2. /\ jobs \in Seq(Entries(Ids, Cores))
        /\ Agree(Ids, Cores, jobs, sched.cores, Range(sched.pqueue), Range(sched.completedjobs))
    BY <1>1 DEF Placed
  <1>3. /\ Ids \subseteq Nat /\ Cores \subseteq Nat /\ time \in Nat /\ scheme \in Schemes
        /\ quantum_clock \in [Cores -> Int] /\ quantum \in 0 .. MaxQuantum
        /\ ran \in [Ids -> SUBSET (0 .. time)]
    BY <1>1 DEF MachineInv
  <1>4. Len(jobs) \in Nat
    BY <1>2
  <1>5. quantum \in Int
    BY <1>3
  <1> QED
    BY <1>1, <1>2, <1>3, <1>4, <1>5

\* It takes hold at first, ...
LEMMA InitOrder == Init /\ SchedulerInv => OrderInv
  <1> SUFFICES ASSUME Init, SchedulerInv PROVE OrderInv
    OBVIOUS
  <1>1. PICK cores \in 1 .. MaxCores, file \in Inputs :
            /\ quantum \in IF scheme = "RR" THEN 1 .. MaxQuantum ELSE {0}
            /\ jobs = [i \in DOMAIN file |->
                         [job_id |-> i - 1, arrival_time |-> file[i].arrival_time,
                          run_time |-> file[i].run_time, priority |-> file[i].priority,
                          core_id |-> -1, arrived |-> FALSE]]
            /\ quantum_clock = [c \in 0 .. cores - 1 |-> -1]
            /\ phase = "finish" /\ sched = scheduler_start_up(cores)
            /\ ran = [n \in 0 .. Len(file) - 1 |-> {}]
    BY DEF Init
  <1>2. Cores = 0 .. cores - 1 /\ MaxCores \in Nat /\ Cores \subseteq 0 .. MaxCores /\ MaxQuantum \in Nat
    BY <1>1, Parameters DEF Cores
  <1>3. /\ sched.cores = [c \in Cores |-> NULL] /\ sched.pqueue = << >>
        /\ sched.completedjobs = << >> /\ sched.job = << >>
    BY <1>1, <1>2 DEF scheduler_start_up, priqueue_init
  <1>4. jobs \in Seq(Entries(Ids, Cores)) /\ OneEach(jobs)
    <2> DEFINE Q == Range(sched.pqueue)
               D == Range(sched.completedjobs)
               cs == sched.cores
    <2>1. jobs \in Seq(Entries(Ids, Cores)) /\ Agree(Ids, Cores, jobs, cs, Q, D)
      BY DEF SchedulerInv, Placed
    <2> HIDE DEF Q, D, cs
    <2> QED
      BY <2>1, TasksListed
  <1>5. Timely(jobs, ran, time)
    <2>1. SUFFICES ASSUME NEW i \in 1 .. Len(jobs)
                   PROVE  ~ jobs[i].arrived /\ ran[jobs[i].job_id] = {}
      BY DEF Timely
    <2>2. i \in DOMAIN jobs /\ DOMAIN jobs = DOMAIN file
      BY <1>1, <1>4
    <2>3. ~ jobs[i].arrived
      BY <1>1, <2>2
    <2>4. jobs[i] \in Entries(Ids, Cores)
      BY <1>4
    <2>5. jobs[i].job_id \in Ids
      BY <2>4 DEF Entries
    <2> QED
      BY <1>1, <2>3, <2>5 DEF Ids
  <1>6. Serving(scheme, Tasks(jobs), sched, Cores, time, ran)
    <2>1. Tasks(jobs) \in [DOMAIN Tasks(jobs) -> TaskT]
      BY <1>4, TasksAre
    <2>2. Range(sched.pqueue) = {} /\ InOrder(sched.pqueue, Ranks(scheme, Tasks(jobs), ran))
      BY <1>3 DEF Range, InOrder
    <2>3. sched.job \in [DOMAIN sched.job -> JobT]
      BY <1>3
    <2>4. \A k \in Cores : sched.cores[k] = NULL
      BY <1>3
    <2> QED
      BY <2>1, <2>2, <2>3, <2>4 DEF Serving
  <1>7. Done(sched, ran)
    BY <1>3 DEF Done, Range
  <1>8. scheme = "RR" => Quanta(Cores, sched.cores, quantum_clock, quantum, ran, time)
    <2>1. scheme = "RR" => quantum # 0
      BY <1>1, <1>2
    <2> QED
      BY <1>3, <2>1 DEF Quanta
  <1> QED
    BY <1>1, <1>2, <1>5, <1>6, <1>7, <1>8 DEF OrderInv

\* What a job that finishes does to the simulator.
FinishedAt(i, c, less) ==
    /\ jobs[i].core_id = c /\ jobs[i].run_time = 0 /\ Removed(jobs, less, i)
    /\ phase = "finish" /\ phase' = phase
    /\ sched' = scheduler_job_finished(sched, c, time).state
    /\ \A k \in Cores : k # c => sched'.cores[k] = sched.cores[k]
    /\ quantum_clock' = IF scheme = "RR" THEN [quantum_clock EXCEPT ![c] = quantum] ELSE quantum_clock
    /\ jobs' = less \/ \E m \in 1 .. Len(less) : Moved(less, jobs', m, c)
    /\ UNCHANGED <<options, time, ran>>

\* FinishJob is such a step.
LEMMA FinishStep ==
  ASSUME SchedulerInv, FinishJob
  PROVE  \E i \in 1 .. Len(jobs), c \in Cores, less \in Seq(Entries(Ids, Cores)) :
            FinishedAt(i, c, less)
  <1> DEFINE i == Min(JustFinished)
             c == jobs[i].core_id
             r == scheduler_job_finished(sched, c, time)
             less == Without(i)
             n == jobs[i].job_id
  <1>1. /\ phase = "finish" /\ JustFinished # {} /\ c \in Cores
        /\ sched' = r.state
        /\ quantum_clock' = IF scheme = "RR" THEN [quantum_clock EXCEPT ![c] = quantum]
                            ELSE quantum_clock
        /\ Dispatch(r.returns, c, less)
        /\ UNCHANGED <<options, time, ran>>
    BY DEF FinishJob
  <1>2. /\ Placed(Ids, Cores, jobs, sched) /\ jobs \in Seq(Entries(Ids, Cores))
        /\ Ids \subseteq Nat /\ Cores \subseteq Nat
    BY DEF SchedulerInv, MachineInv, Placed
  <1>3. JustFinished \subseteq 1 .. Len(jobs)
    BY DEF JustFinished, Indices, active_jobs
  <1>4. i \in JustFinished
    <2>1. JustFinished \subseteq Nat
      BY <1>3
    <2> QED
      BY <1>1, <2>1, LeastOf
  <1> HIDE DEF i
  <1>5. i \in 1 .. Len(jobs) /\ jobs[i].run_time = 0
    BY <1>3, <1>4 DEF JustFinished
  <1>6. less \in Seq(Entries(Ids, Cores)) /\ Removed(jobs, less, i)
    BY <1>2, <1>5, WithoutIs DEF Indices, active_jobs
  <1> HIDE DEF less
  <1>7. jobs[i].core_id = c
    OBVIOUS
  <1> HIDE DEF c, r
  <1>8. Handed(Ids, Cores, less, r, c)
    <2>1. Handed(Ids, Cores, less, scheduler_job_finished(sched, c, time), c)
      BY <1>1, <1>2, <1>5, <1>6, <1>7, FinishPlaces
    <2> QED
      BY <2>1 DEF r
  <1>9. \A k \in Cores : k # c => r.state.cores[k] = sched.cores[k]
    <2> DEFINE s2 == FinishedState(sched, n, time)
    <2>1. n = jobs[i].job_id
      OBVIOUS
    <2> HIDE DEF n
    <2>2. Finishes(Ids, Cores, less, sched, c, n, time, s2)
      BY <1>1, <1>2, <1>5, <1>6, <1>7, <2>1, FinishIs
    <2> HIDE DEF s2
    <2>3. r = NextOnCore(s2, c, time) /\ IsScheduler(s2, Ids, Cores) /\ s2.cores = sched.cores
      BY <2>2 DEF Finishes, Leaving, r
    <2>4. TakesHead(Ids, Cores, s2, c, NextOnCore(s2, c, time))
      BY <1>1, <1>2, <2>3, NextOnCoreIs
    <2>5. TakesHead(Ids, Cores, s2, c, r)
      BY <2>3, <2>4
    <2>6. sched.cores \in [Cores -> Ids \cup {NULL}]
      BY <1>2 DEF Placed, IsScheduler
    <2> QED
      BY <2>3, <2>5, <2>6 DEF TakesHead
  <1>10. /\ phase' = phase
         /\ jobs' = less \/ \E m \in 1 .. Len(less) : Moved(less, jobs', m, c)
    BY <1>1, <1>8, DispatchIs
  <1>11. FinishedAt(i, c, less)
    BY <1>1, <1>5, <1>6, <1>7, <1>9, <1>10 DEF FinishedAt, r
  <1> QED
    BY <1>1, <1>5, <1>6, <1>11

\* It is kept when a job finishes, ...
LEMMA FinishOrders == SchedulerInv /\ OrderInv /\ FinishJob /\ SchedulerInv' => OrderInv'
  <1> SUFFICES ASSUME SchedulerInv, OrderInv, FinishJob, SchedulerInv' PROVE OrderInv'
    OBVIOUS
  <1>1. PICK i \in 1 .. Len(jobs) : \E c \in Cores, less \in Seq(Entries(Ids, Cores)) : FinishedAt(i, c, less)
    BY FinishStep
  <1>2. PICK c \in Cores : \E less \in Seq(Entries(Ids, Cores)) : FinishedAt(i, c, less)
    BY <1>1
  <1>3. PICK less \in Seq(Entries(Ids, Cores)) : FinishedAt(i, c, less)
    BY <1>2
  <1>4. /\ MachineInv /\ Placed(Ids, Cores, jobs, sched) /\ jobs \in Seq(Entries(Ids, Cores))
        /\ Ids \subseteq Nat /\ Cores \subseteq Nat /\ time \in Nat /\ scheme \in Schemes
        /\ quantum_clock \in [Cores -> Int] /\ quantum \in Int
        /\ Agree(Ids, Cores, jobs, sched.cores, Range(sched.pqueue), Range(sched.completedjobs))
        /\ Len(jobs) \in Nat
    BY InvSays
  <1>5. Cores' = Cores /\ Ids' = Ids
    BY <1>3, <1>4 DEF FinishedAt, Cores, Ids
  <1>6. Placed(Ids, Cores, jobs', sched')
    <2>1. Placed(Ids', Cores', jobs', sched')
      BY DEF SchedulerInv
    <2> QED
      BY <1>5, <2>1
  <1>7. time - 1 \in ran[jobs[i].job_id]
    <2>1. jobs[i].arrived
      <3>1. sched.cores[c] = jobs[i].job_id
        BY <1>3, <1>4 DEF FinishedAt, Agree
      <3> QED
        BY <1>4, <3>1 DEF Agree
    <2> QED
      BY <1>3, <2>1 DEF OrderInv, Timely, FinishedAt
  <1>8. Serving(scheme, Tasks(less), sched', Cores, time, ran) /\ Done(sched', ran)
    <2>1. /\ Serving(scheme, Tasks(jobs), sched, Cores, time, ran) /\ Done(sched, ran)
          /\ jobs[i].core_id = c /\ jobs[i].run_time = 0 /\ Removed(jobs, less, i)
      BY <1>3 DEF OrderInv, FinishedAt
    <2>2. /\ Serving(scheme, Tasks(less), scheduler_job_finished(sched, c, time).state, Cores, time, ran)
          /\ Done(scheduler_job_finished(sched, c, time).state, ran)
      BY <1>4, <1>7, <2>1, FinishServes
    <2> QED
      BY <1>3, <2>2 DEF FinishedAt
  <1>9. Alike(jobs, less) /\ OneEach(less)
    <2>1. Alike(jobs, less)
      BY <1>3, <1>4, AlikeRemoved DEF FinishedAt
    <2>2. OneEach(less)
      <3>1. \A j, k \in 1 .. Len(jobs) : jobs[j].job_id = jobs[k].job_id => j = k
        BY <1>4 DEF Agree
      <3>2. /\ Len(less) = Len(jobs) - 1
            /\ \A j \in 1 .. Len(jobs) - 1 : less[j] = IF j = i THEN jobs[Len(jobs)] ELSE jobs[j]
        BY <1>3 DEF FinishedAt, Removed
      <3> DEFINE m == Len(jobs)
                 was(j) == IF j = i THEN m ELSE j
      <3>3. \A j \in 1 .. m - 1 : was(j) \in 1 .. m /\ less[j] = jobs[was(j)]
        BY <1>4, <3>2
      <3>4. \A j, k \in 1 .. m - 1 : was(j) = was(k) => j = k
        BY <1>4
      <3> HIDE DEF m, was
      <3>5. \A j, k \in 1 .. m - 1 : less[j].job_id = less[k].job_id => j = k
        BY <3>1, <3>3, <3>4 DEF m
      <3> QED
        BY <3>2, <3>5 DEF OneEach, m
    <2> QED
      BY <2>1, <2>2
  <1>10. Serving(scheme, Tasks(jobs'), sched', Cores, time, ran)
    <2>1. CASE jobs' = less
      BY <1>8, <2>1
    <2>2. CASE \E m \in 1 .. Len(less) : Moved(less, jobs', m, c)
      <3>1. PICK m \in 1 .. Len(less) : Moved(less, jobs', m, c)
        BY <2>2
      <3> QED
        BY <1>6, <1>8, <1>9, <3>1, ServesMoved
    <2> QED
      BY <1>3, <2>1, <2>2 DEF FinishedAt
  <1>11. Timely(jobs', ran, time)
    <2>1. Timely(jobs, ran, time)
      BY DEF OrderInv
    <2>2. Timely(less, ran, time)
      BY <1>9, <2>1, TimelyAlike
    <2>3. CASE \E m \in 1 .. Len(less) : Moved(less, jobs', m, c)
      BY <2>2, <2>3, AlikeMoved, TimelyAlike
    <2> QED
      BY <1>3, <2>2, <2>3 DEF FinishedAt
  <1>12. scheme = "RR" => Quanta(Cores, sched'.cores, quantum_clock', quantum, ran, time)
    <2>1. SUFFICES ASSUME scheme = "RR"
                   PROVE  Quanta(Cores, sched'.cores, [quantum_clock EXCEPT ![c] = quantum], quantum, ran, time)
      BY <1>3 DEF FinishedAt
    <2>2. /\ Quanta(Cores, sched.cores, quantum_clock, quantum, ran, time)
          /\ \A k \in Cores : k # c => sched'.cores[k] = sched.cores[k]
      BY <1>3, <2>1 DEF OrderInv, FinishedAt
    <2> QED
      BY <1>4, <2>2, QuantaHanded
  <1>13. /\ scheme' = scheme /\ quantum' = quantum /\ time' = time /\ ran' = ran
         /\ phase' = phase /\ (phase = "quantum" => scheme = "RR") /\ Cores \subseteq 0 .. MaxCores
    BY <1>3 DEF FinishedAt, options, OrderInv
  <1> QED
    BY <1>5, <1>8, <1>10, <1>11, <1>12, <1>13 DEF OrderInv

\* What a quantum that expires does to the simulator.
ExpiredAt(i, c, off) ==
    /\ jobs[i].core_id = c /\ Moved(jobs, off, i, -1)
    /\ quantum_clock[c] = 0 /\ phase = "quantum" /\ phase' = phase
    /\ sched' = scheduler_quantum_expired(sched, c, time).state
    /\ \A k \in Cores : k # c => sched'.cores[k] = sched.cores[k]
    /\ quantum_clock' = [quantum_clock EXCEPT ![c] = quantum]
    /\ jobs' = off \/ \E m \in 1 .. Len(off) : Moved(off, jobs', m, c)
    /\ UNCHANGED <<options, time, ran>>

\* QuantumExpires is such a step.
LEMMA QuantumStep ==
  ASSUME SchedulerInv, QuantumExpires
  PROVE  \E i \in 1 .. Len(jobs), c \in Cores, off \in Seq(Entries(Ids, Cores)) : ExpiredAt(i, c, off)
  <1> DEFINE c == Min(Expired)
             i == Min(OnCore(c))
             r == scheduler_quantum_expired(sched, c, time)
             off == [jobs EXCEPT ![i].core_id = -1]
             n == jobs[i].job_id
  <1>1. /\ phase = "quantum" /\ Expired # {}
        /\ sched' = r.state
        /\ quantum_clock' = [quantum_clock EXCEPT ![c] = quantum]
        /\ Dispatch(r.returns, c, off)
        /\ UNCHANGED <<options, time, ran>>
    BY DEF QuantumExpires
  <1>2. /\ Placed(Ids, Cores, jobs, sched) /\ jobs \in Seq(Entries(Ids, Cores))
        /\ Ids \subseteq Nat /\ Cores \subseteq Nat
    BY DEF SchedulerInv, MachineInv, Placed
  <1>3. Expired \subseteq Nat
    BY <1>2 DEF Expired
  <1>4. c \in Expired
    BY <1>1, <1>3, LeastOf
  <1> HIDE DEF c
  <1>5. c \in Cores /\ quantum_clock[c] = 0 /\ OnCore(c) # {} /\ OnCore(c) \subseteq Nat
    BY <1>4 DEF Expired, OnCore, Indices, active_jobs
  <1>6. i \in OnCore(c)
    BY <1>5, LeastOf
  <1> HIDE DEF i
  <1>7. i \in 1 .. Len(jobs) /\ jobs[i].core_id = c
    BY <1>6 DEF OnCore, Indices, active_jobs
  <1>8. off \in Seq(Entries(Ids, Cores)) /\ Moved(jobs, off, i, -1)
    <2>1. -1 \in Cores \cup {-1}
      OBVIOUS
    <2> QED
      BY <1>2, <1>7, <2>1, MoveEntry
  <1> HIDE DEF off, r
  <1>9. Handed(Ids, Cores, off, r, c)
    <2>1. Handed(Ids, Cores, off, scheduler_quantum_expired(sched, c, time), c)
      BY <1>2, <1>5, <1>7, <1>8, QuantumPlaces
    <2> QED
      BY <2>1 DEF r
  <1>10. \A k \in Cores : k # c => r.state.cores[k] = sched.cores[k]
    <2> DEFINE s2 == ExpiredState(sched, n)
    <2>1. n = jobs[i].job_id
      OBVIOUS
    <2> HIDE DEF n
    <2>2. Expires(Ids, Cores, off, sched, c, n, time, s2)
      BY <1>2, <1>5, <1>7, <1>8, <2>1, QuantumIs
    <2> HIDE DEF s2
    <2>3. r = NextOnCore(s2, c, time) /\ IsScheduler(s2, Ids, Cores) /\ s2.cores = sched.cores
      BY <2>2 DEF Expires, Leaving, r
    <2>4. TakesHead(Ids, Cores, s2, c, NextOnCore(s2, c, time))
      BY <1>2, <1>5, <2>3, NextOnCoreIs
    <2>5. TakesHead(Ids, Cores, s2, c, r)
      BY <2>3, <2>4
    <2>6. sched.cores \in [Cores -> Ids \cup {NULL}]
      BY <1>2 DEF Placed, IsScheduler
    <2> QED
      BY <2>3, <2>5, <2>6 DEF TakesHead
  <1>11. /\ phase' = phase
         /\ jobs' = off \/ \E m \in 1 .. Len(off) : Moved(off, jobs', m, c)
    BY <1>1, <1>9, DispatchIs
  <1>12. ExpiredAt(i, c, off)
    BY <1>1, <1>5, <1>7, <1>8, <1>10, <1>11 DEF ExpiredAt, r
  <1> QED
    BY <1>5, <1>7, <1>8, <1>12

\* The job whose quantum expires has just run.
LEMMA ExpiredRan ==
  ASSUME SchedulerInv, OrderInv, NEW i \in 1 .. Len(jobs), NEW c \in Cores,
         NEW off \in Seq(Entries(Ids, Cores)), ExpiredAt(i, c, off)
  PROVE  time - 1 \in ran[jobs[i].job_id]
  <1>1. /\ jobs \in Seq(Entries(Ids, Cores)) /\ Ids \subseteq Nat /\ scheme = "RR"
        /\ Agree(Ids, Cores, jobs, sched.cores, Range(sched.pqueue), Range(sched.completedjobs))
    BY InvSays DEF ExpiredAt, OrderInv
  <1>2. sched.cores[c] = jobs[i].job_id
    BY <1>1 DEF ExpiredAt, Agree
  <1>3. jobs[i] \in Entries(Ids, Cores)
    BY <1>1
  <1>4. jobs[i].job_id \in Ids
    BY <1>3 DEF Entries
  <1>5. jobs[i].job_id # NULL
    BY <1>1, <1>4, NotNull
  <1>6. Quanta(Cores, sched.cores, quantum_clock, quantum, ran, time)
    BY <1>1 DEF OrderInv
  <1>7. quantum_clock[c] # quantum
    BY <1>6 DEF ExpiredAt, Quanta
  <1> QED
    BY <1>2, <1>5, <1>6, <1>7 DEF Quanta

\* ... when a quantum expires: the job has just run, ...
LEMMA QuantumOrders == SchedulerInv /\ OrderInv /\ QuantumExpires /\ SchedulerInv' => OrderInv'
  <1> SUFFICES ASSUME SchedulerInv, OrderInv, QuantumExpires, SchedulerInv' PROVE OrderInv'
    OBVIOUS
  <1>1. PICK i \in 1 .. Len(jobs) : \E c \in Cores, off \in Seq(Entries(Ids, Cores)) : ExpiredAt(i, c, off)
    BY QuantumStep
  <1>2. PICK c \in Cores : \E off \in Seq(Entries(Ids, Cores)) : ExpiredAt(i, c, off)
    BY <1>1
  <1>3. PICK off \in Seq(Entries(Ids, Cores)) : ExpiredAt(i, c, off)
    BY <1>2
  <1>4. /\ MachineInv /\ Placed(Ids, Cores, jobs, sched) /\ jobs \in Seq(Entries(Ids, Cores))
        /\ Ids \subseteq Nat /\ Cores \subseteq Nat /\ time \in Nat
        /\ quantum_clock \in [Cores -> Int] /\ quantum \in Int
        /\ Agree(Ids, Cores, jobs, sched.cores, Range(sched.pqueue), Range(sched.completedjobs))
        /\ Len(jobs) \in Nat
    BY InvSays
  <1>5. Cores' = Cores /\ Ids' = Ids /\ scheme = "RR"
    BY <1>3, <1>4 DEF ExpiredAt, Cores, Ids, OrderInv
  <1>6. Placed(Ids, Cores, jobs', sched')
    <2>1. Placed(Ids', Cores', jobs', sched')
      BY DEF SchedulerInv
    <2> QED
      BY <1>5, <2>1
  <1>7. time - 1 \in ran[jobs[i].job_id]
    BY <1>3, ExpiredRan
  <1>8. Serving("RR", Tasks(off), sched', Cores, time, ran) /\ Done(sched', ran)
    <2>1. /\ Serving("RR", Tasks(jobs), sched, Cores, time, ran) /\ Done(sched, ran)
          /\ jobs[i].core_id = c /\ Moved(jobs, off, i, -1)
      BY <1>3, <1>5 DEF OrderInv, ExpiredAt
    <2>2. /\ Serving("RR", Tasks(off), scheduler_quantum_expired(sched, c, time).state, Cores, time, ran)
          /\ Done(scheduler_quantum_expired(sched, c, time).state, ran)
      BY <1>4, <1>7, <2>1, QuantumServes
    <2> QED
      BY <1>3, <2>2 DEF ExpiredAt
  <1>9. Alike(jobs, off) /\ OneEach(off)
    <2>1. Moved(jobs, off, i, -1)
      BY <1>3 DEF ExpiredAt
    <2>2. OneEach(off)
      BY <1>4, <2>1 DEF Agree, Moved, OneEach
    <2> QED
      BY <2>1, <2>2, AlikeMoved
  <1>10. Serving("RR", Tasks(jobs'), sched', Cores, time, ran)
    <2>1. CASE jobs' = off
      BY <1>8, <2>1
    <2>2. CASE \E m \in 1 .. Len(off) : Moved(off, jobs', m, c)
      <3>1. PICK m \in 1 .. Len(off) : Moved(off, jobs', m, c)
        BY <2>2
      <3> QED
        BY <1>6, <1>8, <1>9, <3>1, ServesMoved
    <2> QED
      BY <1>3, <2>1, <2>2 DEF ExpiredAt
  <1>11. Timely(jobs', ran, time)
    <2>1. Timely(jobs, ran, time)
      BY DEF OrderInv
    <2>2. Timely(off, ran, time)
      BY <1>9, <2>1, TimelyAlike
    <2>3. CASE \E m \in 1 .. Len(off) : Moved(off, jobs', m, c)
      BY <2>2, <2>3, AlikeMoved, TimelyAlike
    <2> QED
      BY <1>3, <2>2, <2>3 DEF ExpiredAt
  <1>12. Quanta(Cores, sched'.cores, quantum_clock', quantum, ran, time)
    <2>1. /\ Quanta(Cores, sched.cores, quantum_clock, quantum, ran, time)
          /\ \A k \in Cores : k # c => sched'.cores[k] = sched.cores[k]
      BY <1>3, <1>5 DEF OrderInv, ExpiredAt
    <2>2. Quanta(Cores, sched'.cores, [quantum_clock EXCEPT ![c] = quantum], quantum, ran, time)
      BY <1>4, <2>1, QuantaHanded
    <2> QED
      BY <1>3, <2>2 DEF ExpiredAt
  <1>13. /\ scheme' = scheme /\ quantum' = quantum /\ time' = time /\ ran' = ran
         /\ phase' = phase /\ Cores \subseteq 0 .. MaxCores
    BY <1>3 DEF ExpiredAt, options, OrderInv
  <1> QED
    BY <1>5, <1>8, <1>10, <1>11, <1>12, <1>13 DEF OrderInv

\* What an arrival does to the simulator.
ArrivedAt(i, r, new) ==
    /\ ~ jobs[i].arrived /\ jobs[i].arrival_time = time
    /\ r = scheduler_new_job(sched, scheme, jobs[i].job_id, time, jobs[i].run_time, jobs[i].priority)
    /\ Welcomes(Ids, Cores, sched, jobs[i].job_id, r) /\ Assigns(jobs, new, i, r.returns)
    /\ phase = "arrive" /\ phase' = phase /\ sched' = r.state /\ jobs' = new
    /\ quantum_clock' = IF scheme = "RR" /\ r.returns \in Cores
                        THEN [quantum_clock EXCEPT ![r.returns] = quantum] ELSE quantum_clock
    /\ UNCHANGED <<options, time, ran>>

\* Arrive is such a step.
LEMMA ArriveStep ==
  ASSUME SchedulerInv, Arrive
  PROVE  \E r : \E i \in 1 .. Len(jobs), new \in Seq(Entries(Ids, Cores)) : ArrivedAt(i, r, new)
  <1> DEFINE i == Min(Arriving)
             n == jobs[i].job_id
             r == scheduler_new_job(sched, scheme, n, time, jobs[i].run_time, jobs[i].priority)
             core == r.returns
             new == Assigned(i, core)
  <1>1. /\ phase = "arrive" /\ Arriving # {}
        /\ sched' = r.state /\ jobs' = new
        /\ quantum_clock' = IF scheme = "RR" /\ core \in Cores
                            THEN [quantum_clock EXCEPT ![core] = quantum] ELSE quantum_clock
        /\ phase' = IF core \in Cores \cup {-1} THEN phase ELSE "failed"
        /\ UNCHANGED <<options, time, ran>>
    BY DEF Arrive
  <1>2. /\ Placed(Ids, Cores, jobs, sched) /\ jobs \in Seq(Entries(Ids, Cores))
        /\ Ids \subseteq Nat /\ Cores \subseteq Nat
    BY DEF SchedulerInv, MachineInv, Placed
  <1>3. Arriving \subseteq Nat
    BY DEF Arriving, Indices, active_jobs
  <1>4. i \in Arriving
    BY <1>1, <1>3, LeastOf
  <1> HIDE DEF i
  <1>5. i \in 1 .. Len(jobs) /\ ~ jobs[i].arrived /\ i \in Indices /\ jobs[i].arrival_time = time
    BY <1>4 DEF Arriving, Indices, active_jobs
  <1>6. /\ IsScheduler(sched, Ids, Cores)
        /\ Agree(Ids, Cores, jobs, sched.cores, Range(sched.pqueue), Range(sched.completedjobs))
    BY <1>2 DEF Placed
  <1>7. n \in Ids /\ n \notin Range(sched.pqueue) /\ \A c \in Cores : sched.cores[c] \notin Range(sched.pqueue)
    <2>1. jobs[i] \in Entries(Ids, Cores)
      BY <1>2, <1>5
    <2>2. n \in Ids
      BY <2>1 DEF Entries
    <2> QED
      BY <1>5, <1>6, <2>2 DEF Agree
  <1> HIDE DEF r
  <1>8. Welcomes(Ids, Cores, sched, n, r)
    <2> HIDE DEF n
    <2>1. Welcomes(Ids, Cores, sched, n,
                   scheduler_new_job(sched, scheme, n, time, jobs[i].run_time, jobs[i].priority))
      BY <1>2, <1>6, <1>7, NewJobIs
    <2> QED
      BY <2>1 DEF r
  <1>9. core \in Cores \cup {-1}
    BY <1>8 DEF Welcomes
  <1>10. new \in Seq(Entries(Ids, Cores)) /\ Assigns(jobs, new, i, core)
    <2> HIDE DEF core
    <2> QED
      BY <1>2, <1>5, <1>9, AssignedIs
  <1> HIDE DEF new
  <1>11. ArrivedAt(i, r, new)
    <2>1. r = scheduler_new_job(sched, scheme, n, time, jobs[i].run_time, jobs[i].priority)
      BY DEF r
    <2>2. phase' = phase
      BY <1>1, <1>9
    <2> QED
      BY <1>1, <1>5, <1>8, <1>10, <2>1, <2>2 DEF ArrivedAt
  <1> QED
    BY <1>5, <1>10, <1>11

\* ... when a job arrives, ...
LEMMA ArriveOrders == SchedulerInv /\ OrderInv /\ Arrive /\ SchedulerInv' => OrderInv'
  <1> SUFFICES ASSUME SchedulerInv, OrderInv, Arrive, SchedulerInv' PROVE OrderInv'
    OBVIOUS
  <1>1. PICK r : \E i \in 1 .. Len(jobs), new \in Seq(Entries(Ids, Cores)) : ArrivedAt(i, r, new)
    BY ArriveStep
  <1>2. PICK i \in 1 .. Len(jobs) : \E new \in Seq(Entries(Ids, Cores)) : ArrivedAt(i, r, new)
    BY <1>1
  <1>3. PICK new \in Seq(Entries(Ids, Cores)) : ArrivedAt(i, r, new)
    BY <1>2
  <1>4. /\ MachineInv /\ Placed(Ids, Cores, jobs, sched) /\ jobs \in Seq(Entries(Ids, Cores))
        /\ Ids \subseteq Nat /\ Cores \subseteq Nat /\ time \in Nat /\ scheme \in Schemes
        /\ quantum_clock \in [Cores -> Int] /\ quantum \in Int /\ PhaseInv
    BY InvSays
  <1>5. Cores' = Cores /\ Ids' = Ids
    BY <1>3, <1>4 DEF ArrivedAt, Cores, Ids
  <1>6. Serving(scheme, Tasks(new), r.state, Cores, time, ran) /\ Done(r.state, ran)
    <2> DEFINE n == jobs[i].job_id
               st == r.state
               core == r.returns
    <2>1. /\ Serving(scheme, Tasks(jobs), sched, Cores, time, ran) /\ Done(sched, ran)
          /\ ran[n] = {} /\ ~ jobs[i].arrived /\ jobs[i].arrival_time = time
          /\ Assigns(jobs, new, i, core)
      BY <1>3 DEF OrderInv, Timely, ArrivedAt
    <2>2. st = scheduler_new_job(sched, scheme, n, time, jobs[i].run_time, jobs[i].priority).state
      BY <1>3 DEF ArrivedAt
    <2>3. MaxCores \in Nat /\ Cores \subseteq 0 .. MaxCores
      BY Parameters DEF OrderInv
    <2>4. n = jobs[i].job_id
      OBVIOUS
    <2> HIDE DEF n, st, core
    <2>5. Serving(scheme, Tasks(new), st, Cores, time, ran) /\ Done(st, ran)
      BY <1>4, <2>1, <2>2, <2>3, <2>4, ArriveServes
    <2> QED
      BY <2>5 DEF st
  <1>7. Timely(new, ran, time)
    <2>1. SUFFICES ASSUME NEW j \in 1 .. Len(new)
                   PROVE  (~ new[j].arrived => ran[new[j].job_id] = {}) /\ new[j].run_time # 0
      BY DEF Timely
    <2>2. /\ j \in 1 .. Len(jobs) /\ new[j].job_id = jobs[j].job_id
          /\ (new[j].arrived <=> jobs[j].arrived \/ j = i) /\ new[j].run_time = jobs[j].run_time
      BY <1>3 DEF ArrivedAt, Assigns
    <2>3. ~ jobs[j].arrived => ran[jobs[j].job_id] = {}
      BY <2>2 DEF OrderInv, Timely
    <2>4. jobs[j].run_time > 0
      BY <1>3, <1>4, <2>2 DEF ArrivedAt, PhaseInv, Indices, active_jobs
    <2>5. jobs[j].run_time # 0
      BY <2>4
    <2> QED
      BY <2>2, <2>3, <2>5
  <1>8. scheme = "RR" => Quanta(Cores, sched'.cores, quantum_clock', quantum, ran, time)
    <2> DEFINE cores == sched.cores
               cores2 == r.state.cores
               core == r.returns
               n == jobs[i].job_id
    <2>1. SUFFICES ASSUME scheme = "RR"
                   PROVE  Quanta(Cores, cores2, quantum_clock', quantum, ran, time)
      BY <1>3 DEF ArrivedAt
    <2>2. Quanta(Cores, cores, quantum_clock, quantum, ran, time)
      BY <2>1 DEF OrderInv
    <2>3. \/ core \in Cores /\ cores2 = [cores EXCEPT ![core] = n]
          \/ core = -1 /\ cores2 = cores
      BY <1>3 DEF ArrivedAt, Welcomes
    <2>4. /\ core \in Cores => quantum_clock' = [quantum_clock EXCEPT ![core] = quantum]
          /\ core \notin Cores => quantum_clock' = quantum_clock
      BY <1>3, <2>1 DEF ArrivedAt
    <2>5. cores \in [Cores -> Ids \cup {NULL}]
      BY <1>4 DEF Placed, IsScheduler
    <2>6. -1 \notin Cores
      BY <1>4
    <2> HIDE DEF cores, cores2, core, n
    <2>7. CASE core \in Cores
      <3>1. \A k \in Cores : k # core => cores2[k] = cores[k]
        BY <2>3, <2>5, <2>6, <2>7
      <3>2. Quanta(Cores, cores2, [quantum_clock EXCEPT ![core] = quantum], quantum, ran, time)
        BY <1>4, <2>2, <2>7, <3>1, QuantaHanded
      <3> QED
        BY <2>4, <2>7, <3>2
    <2>8. CASE core \notin Cores
      <3>1. cores2 = cores /\ quantum_clock' = quantum_clock
        BY <2>3, <2>4, <2>8
      <3> QED
        BY <2>2, <3>1
    <2> QED
      BY <2>7, <2>8
  <1>9. /\ sched' = r.state /\ jobs' = new /\ scheme' = scheme /\ quantum' = quantum
        /\ time' = time /\ ran' = ran
        /\ phase' = "arrive" /\ Cores \subseteq 0 .. MaxCores
    BY <1>3 DEF ArrivedAt, options, OrderInv
  <1> QED
    BY <1>5, <1>6, <1>7, <1>8, <1>9 DEF OrderInv

\* What a time unit does to the simulator.
RunAt ==
    /\ phase = "run" /\ phase' = "finish" /\ time' = time + 1
    /\ quantum_clock' = [c \in Cores |-> quantum_clock[c] - Cardinality(OnCore(c))]
    /\ Cores' = Cores /\ Ids' = Ids /\ RanAt(Ids, jobs, ran, ran', time)
    /\ jobs' \in Seq(Entries(Ids, Cores)) /\ RunsOnce(jobs, jobs')
    /\ \A i \in 1 .. Len(jobs) : jobs'[i].arrived = jobs[i].arrived
    /\ UNCHANGED <<options, sched>>

\* RunUnit is such a step.
LEMMA RunStep ==
  ASSUME SchedulerInv, RunUnit, SchedulerInv'
  PROVE  RunAt
  <1>1. jobs \in Seq(Entries(Ids, Cores))
    BY InvSays
  <1>2. /\ phase = "run" /\ phase' = "finish" /\ time' = time + 1
        /\ quantum_clock' = [c \in Cores |-> quantum_clock[c] - Cardinality(OnCore(c))]
        /\ ran' = [n \in Ids |-> IF \E i \in Working : jobs[i].job_id = n
                                 THEN ran[n] \cup {time} ELSE ran[n]]
        /\ UNCHANGED <<options, sched>>
    <2>1. ~ (\E c \in Cores : Cardinality(OnCore(c)) > 1) /\ ~ (jobs_alive > 0 /\ Working = {})
      BY SanityChecks
    <2> QED
      BY <2>1 DEF RunUnit
  <1>3. Cores' = Cores /\ Ids' = Ids
    BY <1>2 DEF Cores, Ids
  <1> DEFINE new == jobs'
             m == Len(jobs)
  <1>4. new \in Seq(Entries(Ids, Cores))
    <2>1. jobs' \in Seq(Entries(Ids', Cores'))
      BY DEF SchedulerInv, Placed
    <2> QED
      BY <1>3, <2>1
  <1>5. /\ Len(new) = m
        /\ \A i \in 1 .. m :
             /\ new[i] = IF jobs[i].core_id # -1 THEN [jobs[i] EXCEPT !.run_time = jobs[i].run_time - 1]
                         ELSE jobs[i]
             /\ jobs[i] \in Entries(Ids, Cores)
    <2>1. new = [i \in 1 .. m |-> IF jobs[i].core_id # -1 THEN [jobs[i] EXCEPT !.run_time = jobs[i].run_time - 1]
                                  ELSE jobs[i]]
      BY DEF RunUnit, Working, Indices, active_jobs
    <2>2. m \in Nat /\ DOMAIN new = 1 .. Len(new) /\ Len(new) \in Nat
      BY <1>1, <1>4
    <2> HIDE DEF new
    <2>3. Len(new) = m
      BY <2>1, <2>2
    <2> QED
      BY <1>1, <2>1, <2>3
  <1> HIDE DEF new
  <1>6. /\ RunsOnce(jobs, new)
        /\ \A i \in 1 .. m : new[i].arrived = jobs[i].arrived
    BY <1>5 DEF RunsOnce, Entries
  <1>7. RanAt(Ids, jobs, ran, ran', time)
    BY <1>2 DEF RanAt, Working, Indices, active_jobs
  <1> QED
    BY <1>2, <1>3, <1>4, <1>6, <1>7 DEF RunAt, new

\* ... when the jobs run for a time unit, ...
LEMMA RunOrders == SchedulerInv /\ OrderInv /\ RunUnit /\ SchedulerInv' => OrderInv'
  <1> SUFFICES ASSUME SchedulerInv, OrderInv, RunUnit, SchedulerInv' PROVE OrderInv'
    OBVIOUS
  <1>1. /\ MachineInv /\ Placed(Ids, Cores, jobs, sched) /\ jobs \in Seq(Entries(Ids, Cores))
        /\ Ids \subseteq Nat /\ Cores \subseteq Nat /\ time \in Nat /\ scheme \in Schemes
        /\ PhaseInv /\ ran \in [Ids -> SUBSET (0 .. time)]
        /\ Agree(Ids, Cores, jobs, sched.cores, Range(sched.pqueue), Range(sched.completedjobs))
    BY InvSays
  <1>2. /\ phase = "run" /\ phase' = "finish" /\ time' = time + 1
        /\ quantum_clock' = [c \in Cores |-> quantum_clock[c] - Cardinality(OnCore(c))]
        /\ UNCHANGED <<options, sched>>
    BY RunStep DEF RunAt
  <1>3. Cores' = Cores /\ Ids' = Ids
    BY RunStep DEF RunAt
  <1> DEFINE new == jobs'
             m == Len(jobs)
  <1>4. new \in Seq(Entries(Ids, Cores))
    BY RunStep DEF RunAt
  <1>5. Len(new) = m /\ \A i \in 1 .. m : jobs[i] \in Entries(Ids, Cores)
    BY <1>1, RunStep DEF RunAt, RunsOnce
  <1>6. /\ RunsOnce(jobs, new)
        /\ \A i \in 1 .. m : new[i].arrived = jobs[i].arrived
    BY RunStep DEF RunAt
  <1> HIDE DEF new
  <1>7. RanAt(Ids, jobs, ran, ran', time)
    BY RunStep DEF RunAt
  <1>8. Serving(scheme, Tasks(new), sched, Cores, time + 1, ran') /\ Done(sched, ran')
    <2> DEFINE R2 == ran'
    <2>1. RanAt(Ids, jobs, ran, R2, time)
      BY <1>7
    <2> HIDE DEF R2
    <2>2. Serving(scheme, Tasks(jobs), sched, Cores, time, ran) /\ Done(sched, ran)
      BY DEF OrderInv
    <2>3. Serving(scheme, Tasks(new), sched, Cores, time + 1, R2) /\ Done(sched, R2)
      BY <1>1, <1>4, <1>6, <2>1, <2>2, RunServes
    <2> QED
      BY <2>3 DEF R2
  <1>9. ASSUME NEW i \in 1 .. m
        PROVE  /\ jobs[i].job_id \in Ids /\ jobs[i].run_time > 0
               /\ \A k \in 1 .. m : jobs[k].job_id = jobs[i].job_id => k = i
               /\ jobs[i].core_id # -1 => jobs[i].arrived
               /\ ran'[jobs[i].job_id] = IF jobs[i].core_id # -1 THEN ran[jobs[i].job_id] \cup {time}
                                         ELSE ran[jobs[i].job_id]
    <2>1. jobs[i].job_id \in Ids /\ jobs[i].core_id \in Cores \cup {-1}
      BY <1>5 DEF Entries
    <2>2. jobs[i].run_time > 0
      BY <1>1, <1>2 DEF PhaseInv, Indices, active_jobs
    <2>3. \A k \in 1 .. m : jobs[k].job_id = jobs[i].job_id => k = i
      BY <1>1 DEF Agree
    <2>4. jobs[i].core_id # -1 => jobs[i].arrived
      <3>1. SUFFICES ASSUME NEW c \in Cores, jobs[i].core_id = c PROVE jobs[i].arrived
        BY <2>1
      <3>2. sched.cores[c] = jobs[i].job_id
        BY <1>1, <3>1 DEF Agree
      <3> QED
        BY <1>1, <3>2 DEF Agree
    <2>5. ran'[jobs[i].job_id] = IF jobs[i].core_id # -1 THEN ran[jobs[i].job_id] \cup {time}
                                 ELSE ran[jobs[i].job_id]
      BY <1>7, <2>1, <2>3 DEF RanAt
    <2> QED
      BY <2>1, <2>2, <2>3, <2>4, <2>5
  <1>10. Timely(new, ran', time + 1)
    <2>1. SUFFICES ASSUME NEW i \in 1 .. m
                   PROVE  /\ ~ new[i].arrived => ran'[new[i].job_id] = {}
                          /\ new[i].arrived /\ new[i].run_time = 0 => (time + 1) - 1 \in ran'[new[i].job_id]
      BY <1>5 DEF Timely
    <2>2. /\ new[i].job_id = jobs[i].job_id /\ new[i].arrived = jobs[i].arrived
          /\ new[i].run_time = IF jobs[i].core_id # -1 THEN jobs[i].run_time - 1 ELSE jobs[i].run_time
      BY <1>6 DEF RunsOnce
    <2>3. ~ jobs[i].arrived => ran[jobs[i].job_id] = {}
      BY DEF OrderInv, Timely
    <2>4. (time + 1) - 1 = time
      BY <1>1
    <2>5. ~ new[i].arrived => ran'[new[i].job_id] = {}
      BY <1>9, <2>2, <2>3
    <2>6. new[i].run_time = 0 => jobs[i].core_id # -1
      <3>1. jobs[i].run_time > 0
        BY <1>9
      <3> QED
        BY <2>2, <3>1
    <2>7. jobs[i].core_id # -1 => time \in ran'[new[i].job_id]
      BY <1>9, <2>2
    <2> QED
      BY <2>4, <2>5, <2>6, <2>7
  <1>11. scheme = "RR" => Quanta(Cores, sched.cores, quantum_clock', quantum, ran', time + 1)
    <2>1. SUFFICES ASSUME scheme = "RR", NEW c \in Cores, sched.cores[c] # NULL
                   PROVE  time \in ran'[sched.cores[c]] /\ quantum # 0
      <3>1. (time + 1) - 1 = time
        BY <1>1
      <3>2. scheme = "RR" => quantum # 0
        BY DEF OrderInv, Quanta
      <3> QED
        BY <3>1, <3>2 DEF Quanta
    <2>2. PICK i \in 1 .. m : jobs[i].job_id = sched.cores[c]
      BY <1>1, <2>1 DEF Agree
    <2>3. jobs[i].core_id = c
      BY <1>1, <2>2 DEF Agree
    <2>4. c # -1
      BY <1>1
    <2>5. time \in ran'[jobs[i].job_id]
      BY <1>9, <2>3, <2>4
    <2> QED
      BY <2>1, <2>2, <2>5 DEF OrderInv, Quanta
  <1>12. /\ scheme' = scheme /\ quantum' = quantum /\ sched' = sched /\ time' = time + 1
         /\ phase' = "finish" /\ Cores \subseteq 0 .. MaxCores
    BY <1>2 DEF options, OrderInv
  <1>13. jobs' = new
    BY DEF new
  <1> QED
    BY <1>3, <1>8, <1>10, <1>11, <1>12, <1>13 DEF OrderInv

\* ... and when main only moves on.
LEMMA OrderStays ==
  ASSUME OrderInv, UNCHANGED <<options, jobs, quantum_clock, time, sched, ran>>,
         phase' = "quantum" => scheme = "RR"
  PROVE  OrderInv'
  <1>1. Cores' = Cores
    BY DEF Cores
  <1> QED
    BY <1>1 DEF OrderInv, options

\* The other actions do no more than that.
LEMMA OthersOrder ==
  OrderInv /\ (FinishOffCore \/ FinishesDone \/ QuantumsDone \/ ArrivalsDone \/ scheduler_clean_up
                 \/ UNCHANGED vars) => OrderInv'
  <1> SUFFICES ASSUME OrderInv, FinishOffCore \/ FinishesDone \/ QuantumsDone \/ ArrivalsDone
                                  \/ scheduler_clean_up \/ UNCHANGED vars
               PROVE  OrderInv'
    OBVIOUS
  <1>1. UNCHANGED <<options, jobs, quantum_clock, time, sched, ran>>
    BY DEF FinishOffCore, FinishesDone, QuantumsDone, ArrivalsDone, scheduler_clean_up, vars
  <1>2. phase' = "quantum" => scheme = "RR"
    BY DEF FinishOffCore, FinishesDone, QuantumsDone, ArrivalsDone, scheduler_clean_up, vars, OrderInv
  <1> QED
    BY <1>1, <1>2, OrderStays

\* The scheduler knows each job's times and serves the jobs in their order
\* throughout every run of the simulator.
THEOREM OrderInductive == Spec => [](SchedulerInv /\ OrderInv)
  <1>1. Init => OrderInv
    BY InitInv, InitOrder
  <1>2. SchedulerInv /\ SchedulerInv' /\ OrderInv /\ [Next]_vars => OrderInv'
    BY FinishOrders, QuantumOrders, ArriveOrders, RunOrders, OthersOrder DEF Next
  <1> QED
    BY <1>1, <1>2, SchedulerInductive, PTL DEF Spec

\* The properties speak of the entries of the list, and OrderInv of its tasks.
LEMMA RankIs ==
  ASSUME SchedulerInv, NEW n \in Listed(jobs)
  PROVE  /\ Rank(n) = Ranks(scheme, Tasks(jobs), ran)[n]
         /\ n \in DOMAIN Tasks(jobs)
  <1>1. /\ jobs \in Seq(Entries(Ids, Cores)) /\ OneEach(jobs) /\ scheme \in Schemes
    <2> DEFINE Q == Range(sched.pqueue)
               D == Range(sched.completedjobs)
               cs == sched.cores
    <2>1. jobs \in Seq(Entries(Ids, Cores)) /\ Agree(Ids, Cores, jobs, cs, Q, D) /\ scheme \in Schemes
      BY DEF SchedulerInv, Placed, MachineInv
    <2> HIDE DEF Q, D, cs
    <2> QED
      BY <2>1, TasksListed
  <1>2. PICK i \in 1 .. Len(jobs) : n = jobs[i].job_id
    BY DEF Listed
  <1>3. Entry(n) = jobs[i]
    <2>1. jobs[i] \in Range(jobs) /\ jobs[i].job_id = n
      BY <1>1, <1>2 DEF Range
    <2>2. \A e \in Range(jobs) : e.job_id = n => e = jobs[i]
      <3>1. SUFFICES ASSUME NEW k \in 1 .. Len(jobs), jobs[k].job_id = n PROVE jobs[k] = jobs[i]
        BY <1>1 DEF Range
      <3> QED
        BY <1>1, <1>2, <3>1 DEF OneEach
    <2> QED
      BY <2>1, <2>2 DEF Entry
  <1>4. n \in DOMAIN Tasks(jobs) /\ Tasks(jobs)[n] = Task(jobs[i])
    BY <1>1, <1>2, TasksAre
  <1> DEFINE e == jobs[i]
             W == Tasks(jobs)
  <1>5. /\ W[n].arrival_time = e.arrival_time /\ W[n].priority = e.priority
        /\ W[n].run_time = e.run_time
    BY <1>4 DEF Task
  <1> HIDE DEF e, W
  <1>6. Ranks(scheme, W, ran)[n] = RankOf(scheme, W[n], ran[n])
    BY <1>4 DEF Ranks, W
  <1>7. Rank(n) = RankOf(scheme, W[n], ran[n])
    <2>1. Entry(n) = e
      BY <1>3 DEF e
    <2>2. CASE scheme = "FCFS"
      BY <1>5, <2>1, <2>2 DEF Rank, RankOf
    <2>3. CASE scheme = "PRI"
      BY <1>5, <2>1, <2>3 DEF Rank, RankOf
    <2>4. CASE scheme = "PSJF"
      BY <1>5, <2>1, <2>4 DEF Rank, RankOf
    <2>5. CASE scheme = "RR"
      BY <1>5, <2>1, <2>5 DEF Rank, RankOf, WaitingSince
    <2> QED
      BY <1>1, <2>2, <2>3, <2>4, <2>5 DEF Schemes
  <1> QED
    BY <1>4, <1>6, <1>7 DEF W

\* The jobs that wait and those that have a core are in the list.
LEMMA PlacedListed ==
  SchedulerInv => /\ \A n \in Queued \cup OnSomeCore : n \in Listed(jobs)
                  /\ sched.pqueue \in Seq(Ids)
                  /\ \A n \in OnSomeCore : \E k \in Cores : n = sched.cores[k] /\ n # NULL
                  /\ sched.pqueue # << >> => NULL \notin Range(sched.cores)
  <1> SUFFICES ASSUME SchedulerInv
               PROVE  /\ \A n \in Queued \cup OnSomeCore : n \in Listed(jobs)
                      /\ sched.pqueue \in Seq(Ids)
                      /\ \A n \in OnSomeCore : \E k \in Cores : n = sched.cores[k] /\ n # NULL
                      /\ sched.pqueue # << >> => NULL \notin Range(sched.cores)
    OBVIOUS
  <1> DEFINE Q == Range(sched.pqueue)
             D == Range(sched.completedjobs)
             cores == sched.cores
  <1>1. /\ jobs \in Seq(Entries(Ids, Cores)) /\ Agree(Ids, Cores, jobs, cores, Q, D)
        /\ cores \in [Cores -> Ids \cup {NULL}] /\ sched.pqueue \in Seq(Ids)
        /\ sched.pqueue # << >> => NULL \notin Range(cores)
    BY DEF SchedulerInv, Placed, IsScheduler
  <1>2. \A n \in OnSomeCore : \E k \in Cores : n = cores[k] /\ n # NULL
    BY <1>1 DEF OnSomeCore, Range
  <1>3. Queued = Q
    BY DEF Queued
  <1> HIDE DEF Q, D, cores
  <1>4. Q \subseteq Listed(jobs) /\ \A k \in Cores : cores[k] # NULL => cores[k] \in Listed(jobs)
    BY <1>1, TasksListed
  <1> QED
    BY <1>1, <1>2, <1>3, <1>4 DEF cores

\* The queue is in the order that the scheme asks for, by the time that each job
\* really has left: for any file of jobs, any number of cores and any quantum.
THEOREM QueueStaysInOrder == Spec => []QueueInOrder
  <1>1. SchedulerInv /\ OrderInv => QueueInOrder
    <2> SUFFICES ASSUME SchedulerInv, OrderInv,
                        NEW i \in DOMAIN sched.pqueue, NEW k \in DOMAIN sched.pqueue, i < k
                 PROVE  Before(Rank(sched.pqueue[i]), Rank(sched.pqueue[k]))
      BY DEF QueueInOrder
    <2> DEFINE q == sched.pqueue
               rank == Ranks(scheme, Tasks(jobs), ran)
    <2>1. i \in 1 .. Len(q) /\ k \in 1 .. Len(q)
      BY PlacedListed
    <2>2. Before(rank[q[i]], rank[q[k]])
      BY <2>1 DEF OrderInv, Serving, InOrder
    <2>3. q[i] \in Listed(jobs) /\ q[k] \in Listed(jobs)
      BY PlacedListed DEF Queued, Range
    <2>4. Rank(q[i]) = rank[q[i]] /\ Rank(q[k]) = rank[q[k]]
      BY <2>3, RankIs
    <2> QED
      BY <2>2, <2>4
  <1> QED
    BY <1>1, OrderInductive, PTL

\* No core idles while a job waits, and under PSJF no job runs for a time unit
\* when one that waits has less left to do.
THEOREM BestJobsAreRun == Spec => []BestJobsRun
  <1>1. SchedulerInv /\ OrderInv => BestJobsRun
    <2> SUFFICES ASSUME SchedulerInv, OrderInv, sched.pqueue # << >>
                 PROVE  /\ NULL \notin Range(sched.cores)
                        /\ scheme = "PSJF" => \A r \in OnSomeCore, w \in Queued : Before(Rank(r), Rank(w))
      BY DEF BestJobsRun
    <2> DEFINE rank == Ranks(scheme, Tasks(jobs), ran)
    <2>1. ASSUME scheme = "PSJF", NEW r \in OnSomeCore, NEW w \in Queued
          PROVE  Before(Rank(r), Rank(w))
      <3>1. PICK k \in Cores : r = sched.cores[k] /\ r # NULL
        BY PlacedListed
      <3>2. Before(rank[r], rank[w])
        BY <2>1, <3>1 DEF OrderInv, Serving, Queued
      <3>3. r \in Listed(jobs) /\ w \in Listed(jobs)
        BY PlacedListed
      <3>4. Rank(r) = rank[r] /\ Rank(w) = rank[w]
        BY <3>3, RankIs
      <3> QED
        BY <3>2, <3>4
    <2> QED
      BY <2>1, PlacedListed
  <1> QED
    BY <1>1, OrderInductive, PTL

-----------------------------------------------------------------------------
(* The averages                                                              *)

\* What holds of 0, and of each number up to n if of the one before.
LEMMA CountingUp ==
  ASSUME NEW n \in Nat, NEW S, 0 \in S, \A k \in 1 .. n : k - 1 \in S => k \in S
  PROVE  0 .. n \subseteq S
  <1> DEFINE D == (0 .. n) \ S
  <1> SUFFICES ASSUME D # {} PROVE FALSE
    OBVIOUS
  <1>1. D \subseteq Nat
    OBVIOUS
  <1>2. PICK k \in D : \A y \in D : k <= y
    <2> HIDE DEF D
    <2> QED
      BY <1>1, LeastOf
  <1>3. k \in 1 .. n /\ k - 1 \in 0 .. n
    OBVIOUS
  <1>4. k - 1 \notin D
    BY <1>2, <1>3
  <1> QED
    BY <1>3, <1>4

\* f is the sums of the first numbers of v.
Adds(n, v, f) == f = [k \in 0 .. n |-> IF k = 0 THEN 0 ELSE f[k - 1] + v[k]]

\* There are such sums, ...
LEMMA SumsExist ==
  ASSUME NEW n \in Nat, NEW v
  PROVE  \E f : Adds(n, v, f)
  <1> DEFINE S == {m \in 0 .. n : \E f : Adds(m, v, f)}
  <1>1. 0 \in S
    <2> DEFINE z == [k \in 0 .. 0 |-> 0]
    <2>1. z = [k \in 0 .. 0 |-> IF k = 0 THEN 0 ELSE z[k - 1] + v[k]]
      OBVIOUS
    <2>2. Adds(0, v, z)
      BY <2>1 DEF Adds
    <2> QED
      BY <2>2
  <1>2. ASSUME NEW m \in 1 .. n, m - 1 \in S PROVE m \in S
    <2>1. PICK f : Adds(m - 1, v, f)
      BY <1>2
    <2> DEFINE g == [k \in 0 .. m |-> IF k = m THEN f[m - 1] + v[m] ELSE f[k]]
    <2>2. ASSUME NEW k \in 0 .. m PROVE g[k] = IF k = 0 THEN 0 ELSE g[k - 1] + v[k]
      <3>1. m \in Int /\ m # 0 /\ k \in Int
        OBVIOUS
      <3>2. k # 0 => g[k - 1] = f[k - 1]
        OBVIOUS
      <3>3. CASE k = m
        BY <3>1, <3>2, <3>3
      <3>4. CASE k # m
        <4>1. k \in 0 .. m - 1 /\ g[k] = f[k]
          BY <3>4
        <4>2. f[k] = IF k = 0 THEN 0 ELSE f[k - 1] + v[k]
          BY <2>1, <4>1 DEF Adds
        <4> QED
          BY <3>2, <4>1, <4>2
      <3> QED
        BY <3>3, <3>4
    <2> DEFINE next(k) == IF k = 0 THEN 0 ELSE g[k - 1] + v[k]
    <2>3. g = [k \in 0 .. m |-> g[k]] /\ \A k \in 0 .. m : g[k] = next(k)
      BY <2>2
    <2> HIDE DEF g
    <2>4. g = [k \in 0 .. m |-> next(k)]
      <3> HIDE DEF next
      <3> QED
        BY <2>3
    <2>5. Adds(m, v, g)
      BY <2>4 DEF Adds
    <2> QED
      BY <2>5
  <1>3. n \in S
    <2> HIDE DEF S
    <2> QED
      BY <1>1, <1>2, CountingUp
  <1> QED
    BY <1>3

\* ... which the loop of the scheduler computes.
LEMMA TotalsAdd ==
  ASSUME NEW s, Len(s.completedjobs) \in Nat, NEW measure, NEW v,
         \A k \in 1 .. Len(s.completedjobs) : v[k] = s.job[s.completedjobs[k]][measure]
  PROVE  Adds(Len(s.completedjobs), v, Totals(s, measure))
  <1> DEFINE n == Len(s.completedjobs)
             w == [k \in 1 .. n |-> s.job[s.completedjobs[k]][measure]]
             T == Totals(s, measure)
  <1>1. PICK f : Adds(n, w, f)
    BY SumsExist
  <1>2. f = [k \in 0 .. n |-> IF k = 0 THEN 0 ELSE f[k - 1] + s.job[s.completedjobs[k]][measure]]
    <2> DEFINE g == [k \in 0 .. n |-> IF k = 0 THEN 0 ELSE f[k - 1] + w[k]]
    <2>1. f = g
      BY <1>1 DEF Adds
    <2>2. g = [k \in 0 .. n |-> IF k = 0 THEN 0 ELSE f[k - 1] + s.job[s.completedjobs[k]][measure]]
      <3>1. \A k \in 0 .. n : k # 0 => w[k] = s.job[s.completedjobs[k]][measure]
        OBVIOUS
      <3> HIDE DEF w
      <3> QED
        BY <3>1
    <2> QED
      BY <2>1, <2>2
  <1>3. T = [k \in 0 .. n |-> IF k = 0 THEN 0 ELSE T[k - 1] + s.job[s.completedjobs[k]][measure]]
    BY <1>2 DEF Totals
  <1>4. \A k \in 0 .. n : k # 0 => v[k] = s.job[s.completedjobs[k]][measure]
    OBVIOUS
  <1> HIDE DEF T
  <1>5. T = [k \in 0 .. n |-> IF k = 0 THEN 0 ELSE T[k - 1] + v[k]]
    BY <1>3, <1>4
  <1> QED
    BY <1>5 DEF Adds, T

\* Sums of numbers are numbers.
LEMMA SumsTyped ==
  ASSUME NEW n \in Nat, NEW v, \A k \in 1 .. n : v[k] \in Int, NEW f, Adds(n, v, f)
  PROVE  \A k \in 0 .. n : f[k] \in Int
  <1> DEFINE S == {k \in 0 .. n : f[k] \in Int}
  <1>1. 0 \in S
    BY DEF Adds
  <1>2. ASSUME NEW k \in 1 .. n, k - 1 \in S PROVE k \in S
    <2>1. f[k] = f[k - 1] + v[k] /\ f[k - 1] \in Int /\ v[k] \in Int
      BY <1>2 DEF Adds
    <2> QED
      BY <2>1
  <1>3. 0 .. n \subseteq S
    <2> HIDE DEF S
    <2> QED
      BY <1>1, <1>2, CountingUp
  <1> QED
    BY <1>3

\* Sums of v, w, r and b are to each other as their terms are.
LEMMA SumsFollow ==
  ASSUME NEW n \in Nat, NEW v, NEW w, NEW r, NEW b,
         \A k \in 1 .. n : v[k] \in Int /\ w[k] \in Int /\ r[k] \in Int /\ b[k] \in Int,
         \A k \in 1 .. n : v[k] = w[k] + b[k] /\ r[k] <= w[k],
         NEW V, NEW W, NEW R, NEW B, Adds(n, v, V), Adds(n, w, W), Adds(n, r, R), Adds(n, b, B)
  PROVE  V[n] = W[n] + B[n] /\ R[n] <= W[n]
  <1> DEFINE S == {k \in 0 .. n : V[k] = W[k] + B[k] /\ R[k] <= W[k]}
  <1>1. \A k \in 0 .. n : V[k] \in Int /\ W[k] \in Int /\ R[k] \in Int /\ B[k] \in Int
    BY SumsTyped
  <1>2. 0 \in S
    BY DEF Adds
  <1>3. ASSUME NEW k \in 1 .. n, k - 1 \in S PROVE k \in S
    <2>1. /\ V[k] = V[k - 1] + v[k] /\ W[k] = W[k - 1] + w[k]
          /\ R[k] = R[k - 1] + r[k] /\ B[k] = B[k - 1] + b[k]
      BY DEF Adds
    <2>2. V[k - 1] = W[k - 1] + B[k - 1] /\ R[k - 1] <= W[k - 1] /\ k - 1 \in 0 .. n
      BY <1>3
    <2>3. /\ v[k] \in Int /\ w[k] \in Int /\ r[k] \in Int /\ b[k] \in Int
          /\ v[k] = w[k] + b[k] /\ r[k] <= w[k]
      OBVIOUS
    <2>4. V[k - 1] \in Int /\ W[k - 1] \in Int /\ R[k - 1] \in Int /\ B[k - 1] \in Int
      BY <1>1, <2>2
    <2>5. V[k] = W[k] + B[k] /\ R[k] <= W[k]
      BY <2>1, <2>2, <2>3, <2>4
    <2> QED
      BY <2>5
  <1>4. 0 .. n \subseteq S
    <2> HIDE DEF S
    <2> QED
      BY <1>2, <1>3, CountingUp
  <1> QED
    BY <1>4

\* The boxes of the jobs K, of which job m fills those of R[m].
BoxesOf(K, T, R) == {box \in K \X T : box[2] \in R[box[1]]}

\* One more job has its boxes more.
OneMore(K, m, T, R) ==
    /\ IsFiniteSet(BoxesOf(K \cup {m}, T, R)) /\ Cardinality(R[m]) \in Nat
    /\ Cardinality(BoxesOf(K \cup {m}, T, R)) = Cardinality(BoxesOf(K, T, R)) + Cardinality(R[m])

LEMMA BoxesAdd ==
  ASSUME NEW K, NEW m, m \notin K, NEW T, IsFiniteSet(T), NEW R, R[m] \subseteq T,
         IsFiniteSet(BoxesOf(K, T, R))
  PROVE  OneMore(K, m, T, R)
  <1> DEFINE O == R[m]
             P == {<<m, t>> : t \in O}
             A == BoxesOf(K, T, R)
             f == [t \in O |-> <<m, t>>]
  <1>1. BoxesOf(K \cup {m}, T, R) = A \cup P /\ A \cap P = {}
    BY DEF BoxesOf
  <1>2. f \in Bijection(O, P)
    <2>1. f \in [O -> P] /\ \A x \in P : \E t \in O : f[t] = x
      OBVIOUS
    <2>2. \A t, u \in O : f[t] = f[u] => t = u
      OBVIOUS
    <2> HIDE DEF f, O, P
    <2> QED
      BY <2>1, <2>2 DEF Bijection, Injection, Surjection, IsInjective
  <1>3. IsFiniteSet(O) /\ Cardinality(O) \in Nat
    BY FS_Subset, FS_CardinalityType
  <1> HIDE DEF O, P, f, A
  <1>4. IsFiniteSet(P) /\ Cardinality(P) = Cardinality(O)
    BY <1>2, <1>3, FS_Bijection DEF ExistsBijection
  <1>5. IsFiniteSet(A \cup P) /\ Cardinality(A \cup P) = Cardinality(A) + Cardinality(P) - Cardinality(A \cap P)
    <2>1. IsFiniteSet(A)
      BY DEF A
    <2> QED
      BY <1>4, <2>1, FS_Union
  <1>6. Cardinality(A) \in Nat /\ Cardinality(A \cap P) = 0
    BY <1>1, FS_EmptySet, FS_CardinalityType DEF A
  <1>7. IsFiniteSet(A \cup P) /\ Cardinality(A \cup P) = Cardinality(A) + Cardinality(O)
    BY <1>3, <1>4, <1>5, <1>6
  <1> QED
    BY <1>1, <1>3, <1>7 DEF A, O, OneMore

\* q lists the jobs K once each, and v how many boxes each has.
Listing(n, q, K, T, R, v) ==
    /\ n \in Nat /\ \A i, k \in 1 .. n : q[i] = q[k] => i = k
    /\ K = {q[k] : k \in 1 .. n}
    /\ IsFiniteSet(T) /\ \A k \in 1 .. n : R[q[k]] \subseteq T /\ v[k] = Cardinality(R[q[k]])

\* All the boxes are those of the jobs that have finished, one after the other.
LEMMA BoxesSum ==
  ASSUME NEW n, NEW q, NEW Q, NEW T, NEW R, NEW v, Listing(n, q, Q, T, R, v),
         NEW f, Adds(n, v, f)
  PROVE  Cardinality(BoxesOf(Q, T, R)) = f[n]
  <1> USE DEF Listing
  <1> DEFINE K(m) == {q[k] : k \in 1 .. m}
             S == {m \in 0 .. n : /\ IsFiniteSet(BoxesOf(K(m), T, R))
                                  /\ Cardinality(BoxesOf(K(m), T, R)) = f[m]}
  <1>1. 0 \in S
    <2>1. BoxesOf(K(0), T, R) = {}
      BY DEF BoxesOf
    <2>2. f[0] = 0
      BY DEF Adds
    <2> QED
      BY <2>1, <2>2, FS_EmptySet
  <1>2. ASSUME NEW m \in 1 .. n, m - 1 \in S PROVE m \in S
    <2>1. f[m] = f[m - 1] + Cardinality(R[q[m]])
      <3>1. f[m] = f[m - 1] + v[m]
        BY DEF Adds
      <3> QED
        BY <3>1
    <2>2. K(m) = K(m - 1) \cup {q[m]} /\ q[m] \notin K(m - 1)
      <3>1. 1 .. m = (1 .. m - 1) \cup {m} /\ m \notin 1 .. m - 1 /\ 1 .. m - 1 \subseteq 1 .. n
        OBVIOUS
      <3> QED
        BY <3>1
    <2> DEFINE L == K(m - 1)
               x == q[m]
    <2>3. IsFiniteSet(BoxesOf(L, T, R)) /\ Cardinality(BoxesOf(L, T, R)) = f[m - 1] /\ R[x] \subseteq T
      BY <1>2
    <2>4. K(m) = L \cup {x} /\ x \notin L
      BY <2>2
    <2> HIDE DEF L, x, K
    <2>5. OneMore(L, x, T, R)
      BY <2>3, <2>4, BoxesAdd
    <2>6. Cardinality(BoxesOf(K(m), T, R)) = f[m] /\ IsFiniteSet(BoxesOf(K(m), T, R))
      BY <2>1, <2>3, <2>4, <2>5 DEF x, OneMore
    <2> QED
      BY <2>6
  <1>3. 0 .. n \subseteq S
    <2> HIDE DEF S, K
    <2> QED
      BY <1>1, <1>2, CountingUp
  <1> QED
    BY <1>3

\* When main reports, every job has finished once and adds to each total.
LEMMA EveryJobCounts ==
  ASSUME SchedulerInv, OrderInv, phase = "report"
  PROVE  LET q == sched.completedjobs
         IN  /\ Len(q) \in Nat /\ \A i, k \in 1 .. Len(q) : q[i] = q[k] => i = k
             /\ {q[k] : k \in 1 .. Len(q)} = Ids /\ DOMAIN sched.job = Ids
             /\ \A k \in 1 .. Len(q) : Counted(sched.job[q[k]], ran[q[k]]) /\ ran[q[k]] \subseteq 0 .. time
  <1> DEFINE q == sched.completedjobs
  <1>1. /\ q \in Seq(Ids) /\ IsInjective(q) /\ DOMAIN sched.job \subseteq Ids /\ Len(jobs) = 0
        /\ Agree(Ids, Cores, jobs, sched.cores, Range(sched.pqueue), Range(q))
    BY DEF SchedulerInv, PhaseInv, Placed, IsScheduler
  <1>2. Done(sched, ran) /\ ran \in [Ids -> SUBSET (0 .. time)]
    BY DEF SchedulerInv, MachineInv, OrderInv
  <1>3. Range(q) = Ids
    <2>1. \A n \in Ids : n \in Range(q)
      BY <1>1 DEF Agree
    <2> QED
      BY <1>1, <2>1 DEF Range
  <1>4. {q[k] : k \in 1 .. Len(q)} = Range(q) /\ Len(q) \in Nat /\ DOMAIN q = 1 .. Len(q)
    BY <1>1 DEF Range
  <1>5. \A n \in Ids : n \in DOMAIN sched.job /\ Counted(sched.job[n], ran[n]) /\ ran[n] \subseteq 0 .. time
    BY <1>2, <1>3 DEF Done
  <1>6. \A k \in 1 .. Len(q) : q[k] \in Ids
    BY <1>3, <1>4
  <1>7. \A i, k \in 1 .. Len(q) : q[i] = q[k] => i = k
    BY <1>1, <1>4 DEF IsInjective
  <1>8. DOMAIN sched.job = Ids
    BY <1>1, <1>5
  <1> HIDE DEF q
  <1>9. /\ Len(q) \in Nat /\ \A i, k \in 1 .. Len(q) : q[i] = q[k] => i = k
        /\ {q[k] : k \in 1 .. Len(q)} = Ids /\ DOMAIN sched.job = Ids
        /\ \A k \in 1 .. Len(q) : Counted(sched.job[q[k]], ran[q[k]]) /\ ran[q[k]] \subseteq 0 .. time
    BY <1>3, <1>4, <1>5, <1>6, <1>7, <1>8
  <1> QED
    BY <1>9 DEF q

\* The statistics of each finished job are those of the timing diagram, and so
\* are the totals over all of them.
THEOREM StatisticsAreTrue == Spec => []StatsTrue
  <1>1. SchedulerInv /\ OrderInv => \A n \in Range(sched.completedjobs) : Statistics(n)
    BY DEF OrderInv, Done, Counted, Statistics
  <1>2. ASSUME SchedulerInv, OrderInv, phase = "report"
        PROVE  /\ total_turnaround(sched) = total_waiting(sched)
                      + Cardinality({box \in Ids \X (0 .. time) : box[2] \in ran[box[1]]})
               /\ total_response(sched) <= total_waiting(sched)
               /\ job_count(sched) = Cardinality(Ids)
    <2> DEFINE q == sched.completedjobs
               n == Len(sched.completedjobs)
               T == 0 .. time
               v == [k \in 1 .. n |-> sched.job[q[k]]["turnaround_time"]]
               w == [k \in 1 .. n |-> sched.job[q[k]]["waiting_time"]]
               r == [k \in 1 .. n |-> sched.job[q[k]]["response_time"]]
               b == [k \in 1 .. n |-> Cardinality(ran[q[k]])]
    <2>1. /\ n \in Nat /\ \A i, k \in 1 .. n : q[i] = q[k] => i = k
          /\ {q[k] : k \in 1 .. n} = Ids /\ DOMAIN sched.job = Ids
          /\ \A k \in 1 .. n : Counted(sched.job[q[k]], ran[q[k]]) /\ ran[q[k]] \subseteq T
      BY <1>2, EveryJobCounts
    <2>2. time \in Nat /\ IsFiniteSet(T)
      <3>1. time \in Nat /\ 0 \in Int /\ time \in Int
        BY <1>2 DEF SchedulerInv, MachineInv
      <3> QED
        BY <3>1, FS_Interval
    <2>3. /\ \A k \in 1 .. n : v[k] \in Int /\ w[k] \in Int /\ r[k] \in Int /\ b[k] \in Int
          /\ \A k \in 1 .. n : v[k] = w[k] + b[k] /\ r[k] <= w[k]
      <3>1. \A k \in 1 .. n : /\ v[k] = w[k] + b[k] /\ r[k] <= w[k]
                              /\ v[k] \in Int /\ w[k] \in Int /\ r[k] \in Int
        BY <2>1 DEF Counted
      <3>2. \A k \in 1 .. n : b[k] \in Int
        <4> TAKE k \in 1 .. n
        <4> DEFINE X == ran[q[k]]
        <4>1. X \subseteq T
          BY <2>1
        <4> HIDE DEF X, T
        <4>2. Cardinality(X) \in Nat
          BY <2>2, <4>1, FS_Subset, FS_CardinalityType
        <4> QED
          BY <4>2 DEF X
      <3> QED
        BY <3>1, <3>2
    <2>4. PICK B : Adds(n, b, B)
      BY <2>1, SumsExist
    <2>5. Cardinality(BoxesOf(Ids, T, ran)) = B[n]
      <3>1. \A k \in 1 .. n : b[k] = Cardinality(ran[q[k]])
        OBVIOUS
      <3> DEFINE Q == Ids
      <3>2. Q = {q[k] : k \in 1 .. n} /\ \A k \in 1 .. n : ran[q[k]] \subseteq T
        BY <2>1
      <3> HIDE DEF q, n, T, b, Q
      <3>3. Listing(n, q, Q, T, ran, b)
        BY <2>1, <2>2, <3>1, <3>2 DEF Listing
      <3>4. Cardinality(BoxesOf(Q, T, ran)) = B[n]
        BY <2>4, <3>3, BoxesSum
      <3> QED
        BY <3>4 DEF Q
    <2>6. /\ Adds(n, v, Totals(sched, "turnaround_time"))
          /\ Adds(n, w, Totals(sched, "waiting_time"))
          /\ Adds(n, r, Totals(sched, "response_time"))
      <3>1. /\ \A k \in 1 .. n : v[k] = sched.job[sched.completedjobs[k]]["turnaround_time"]
            /\ \A k \in 1 .. n : w[k] = sched.job[sched.completedjobs[k]]["waiting_time"]
            /\ \A k \in 1 .. n : r[k] = sched.job[sched.completedjobs[k]]["response_time"]
        OBVIOUS
      <3> HIDE DEF v, w, r
      <3>2. Adds(n, v, Totals(sched, "turnaround_time"))
        BY <2>1, <3>1, TotalsAdd
      <3>3. Adds(n, w, Totals(sched, "waiting_time"))
        BY <2>1, <3>1, TotalsAdd
      <3>4. Adds(n, r, Totals(sched, "response_time"))
        BY <2>1, <3>1, TotalsAdd
      <3> QED
        BY <3>2, <3>3, <3>4
    <2> HIDE DEF v, w, r, b, n, T
    <2>7. /\ Totals(sched, "turnaround_time")[n] = Totals(sched, "waiting_time")[n] + B[n]
          /\ Totals(sched, "response_time")[n] <= Totals(sched, "waiting_time")[n]
      BY <2>1, <2>3, <2>4, <2>6, SumsFollow
    <2>8. BoxesOf(Ids, T, ran) = {box \in Ids \X (0 .. time) : box[2] \in ran[box[1]]}
      BY DEF BoxesOf, T
    <2> QED
      BY <2>1, <2>5, <2>7, <2>8
         DEF n, Total, total_turnaround, total_waiting, total_response, job_count
  <1>3. SchedulerInv /\ OrderInv => StatsTrue
    BY <1>1, <1>2 DEF StatsTrue
  <1> QED
    BY <1>3, OrderInductive, PTL

-----------------------------------------------------------------------------
(* How long a job waits for its turn under RR                               *)

\* What a job n of the queue Q, which waits since since[n], can count on: all
\* cores have been busy since then, no job has run for more than a quantum of that
\* time, and one that is on a core for what its clock says.
Turns(C, cores, Q, clock, q, since, R, now) ==
    /\ \A m \in DOMAIN R : R[m] \subseteq 0 .. now - 1
    /\ \A c \in C : cores[c] # NULL => cores[c] \in DOMAIN R /\ clock[c] \in 0 .. q
    /\ \A n \in Q :
        /\ since[n] \in 0 .. now
        /\ \A u \in since[n] .. now - 1 : Cardinality({m \in DOMAIN R : u \in R[m]}) = Cardinality(C)
        /\ \A m \in DOMAIN R : \A u, v \in R[m] : since[n] <= u /\ since[n] <= v => v - u < q
        /\ \A c \in C : cores[c] # NULL =>
              \A u \in R[cores[c]] : since[n] <= u => now - u <= q - clock[c]

\* A core that gets another job gets one that has not run since anybody waits,
\* for a whole quantum; whoever joins the queue waits since now.
Passed(C, cores, cores2, Q, Q2, clock, clock2, q, since, since2, R, now) ==
    /\ \A k \in C : \/ cores2[k] = cores[k] /\ clock2[k] = clock[k]
                    \/ /\ clock2[k] = q
                       /\ cores2[k] # NULL => cores2[k] \in DOMAIN R /\
                             \A n \in Q2, u \in R[cores2[k]] : u < since2[n]
    /\ \A n \in Q2 : (n \in Q /\ since2[n] = since[n]) \/ since2[n] = now

LEMMA TurnsPass ==
  ASSUME NEW C, NEW cores, NEW cores2, NEW Q, NEW Q2, NEW clock, NEW clock2, NEW q \in Nat,
         NEW since, NEW since2, NEW R, NEW now \in Nat,
         Turns(C, cores, Q, clock, q, since, R, now),
         Passed(C, cores, cores2, Q, Q2, clock, clock2, q, since, since2, R, now)
  PROVE  Turns(C, cores2, Q2, clock2, q, since2, R, now)
  <1>1. \A m \in DOMAIN R : R[m] \subseteq 0 .. now - 1
    BY DEF Turns
  <1>2. \A k \in C : cores2[k] # NULL => cores2[k] \in DOMAIN R /\ clock2[k] \in 0 .. q
    BY DEF Turns, Passed
  <1>3. ASSUME NEW n \in Q2
        PROVE  /\ since2[n] \in 0 .. now
               /\ \A u \in since2[n] .. now - 1 : Cardinality({m \in DOMAIN R : u \in R[m]}) = Cardinality(C)
               /\ \A m \in DOMAIN R : \A u, v \in R[m] : since2[n] <= u /\ since2[n] <= v => v - u < q
    <2>1. CASE n \in Q /\ since2[n] = since[n]
      BY <2>1 DEF Turns
    <2>2. CASE since2[n] = now
      <3>1. \A m \in DOMAIN R : \A u \in R[m] : u \in Int /\ u < now
        BY <1>1
      <3>2. \A m \in DOMAIN R : \A u, v \in R[m] : since2[n] <= u /\ since2[n] <= v => v - u < q
        BY <2>2, <3>1
      <3>3. since2[n] .. now - 1 = {} /\ since2[n] \in 0 .. now
        BY <2>2
      <3> QED
        BY <3>2, <3>3
    <2> QED
      BY <2>1, <2>2 DEF Passed
  <1>4. ASSUME NEW n \in Q2, NEW k \in C, cores2[k] # NULL
        PROVE  \A u \in R[cores2[k]] : since2[n] <= u => now - u <= q - clock2[k]
    <2>1. CASE /\ cores2[k] = cores[k] /\ clock2[k] = clock[k]
               /\ n \in Q /\ since2[n] = since[n]
      BY <1>4, <2>1 DEF Turns
    <2>2. CASE /\ clock2[k] = q /\ cores2[k] \in DOMAIN R
               /\ \A u \in R[cores2[k]] : u < since2[n]
      <3>1. \A u \in R[cores2[k]] : u \in Int /\ since2[n] \in Int
        BY <1>1, <1>3, <2>2
      <3>2. \A u \in R[cores2[k]] : ~ since2[n] <= u
        BY <2>2, <3>1
      <3> QED
        BY <2>2, <3>2
    <2>3. CASE cores2[k] = cores[k] /\ clock2[k] = clock[k] /\ since2[n] = now
      <3>1. \A u \in R[cores2[k]] : u \in Int /\ u < now
        BY <1>1, <1>2, <1>4
      <3> QED
        BY <2>3, <3>1
    <2> QED
      BY <1>4, <2>1, <2>2, <2>3 DEF Passed
  <1> QED
    BY <1>1, <1>2, <1>3, <1>4 DEF Turns

\* The cores have run their jobs for the time unit now.
Ran(C, cores, clock, clock2, R, R2, now) ==
    /\ DOMAIN R2 = DOMAIN R /\ NULL \notin DOMAIN R
    /\ \A m \in DOMAIN R : R2[m] = IF \E c \in C : cores[c] = m THEN R[m] \cup {now} ELSE R[m]
    /\ \A c \in C : cores[c] # NULL => clock[c] # 0 /\ clock2[c] = clock[c] - 1
    /\ \A c, d \in C : cores[c] = cores[d] /\ cores[c] # NULL => c = d

\* A time unit is one more in which all cores were busy.
LEMMA TurnsRun ==
  ASSUME NEW C, IsFiniteSet(C), NEW cores, NEW Q, NEW clock, NEW clock2, NEW q \in Nat, NEW since,
         NEW R, NEW R2, NEW now \in Nat,
         Turns(C, cores, Q, clock, q, since, R, now), Ran(C, cores, clock, clock2, R, R2, now),
         Q # {} => \A c \in C : cores[c] # NULL
  PROVE  Turns(C, cores, Q, clock2, q, since, R2, now + 1)
  <1>1. \A m \in DOMAIN R : \A u \in R[m] : u \in 0 .. now - 1 /\ u \in Int /\ u < now
    BY DEF Turns
  <1>2. \A m \in DOMAIN R : R2[m] \subseteq 0 .. (now + 1) - 1
    BY <1>1 DEF Ran
  <1>3. \A c \in C : cores[c] # NULL =>
           /\ cores[c] \in DOMAIN R2 /\ clock2[c] \in 0 .. q
           /\ clock[c] \in 1 .. q /\ clock2[c] = clock[c] - 1 /\ R2[cores[c]] = R[cores[c]] \cup {now}
    BY DEF Turns, Ran
  <1>4. ASSUME NEW n \in Q, NEW u \in since[n] .. now
        PROVE  Cardinality({m \in DOMAIN R : u \in R2[m]}) = Cardinality(C)
    <2>1. since[n] \in 0 .. now /\ u \in Int
      BY DEF Turns
    <2>2. CASE u # now
      <3>1. u \in since[n] .. now - 1
        BY <2>1, <2>2
      <3>2. {m \in DOMAIN R : u \in R2[m]} = {m \in DOMAIN R : u \in R[m]}
        BY <2>2 DEF Ran
      <3> QED
        BY <3>1, <3>2 DEF Turns
    <2>3. CASE u = now
      <3> DEFINE T == {m \in DOMAIN R : u \in R2[m]}
                 f == [c \in C |-> cores[c]]
      <3>1. \A m \in DOMAIN R : u \in R2[m] <=> \E c \in C : cores[c] = m
        BY <1>1, <2>3 DEF Ran
      <3>2. \A c \in C : cores[c] \in T
        BY <1>3, <3>1 DEF Ran
      <3>3. f \in [C -> T] /\ \A m \in T : \E c \in C : f[c] = m
        BY <3>1, <3>2
      <3>4. \A c, d \in C : f[c] = f[d] => c = d
        BY DEF Ran
      <3> HIDE DEF f, T
      <3>5. f \in Bijection(C, T)
        BY <3>3, <3>4 DEF Bijection, Injection, Surjection, IsInjective
      <3>6. Cardinality(T) = Cardinality(C)
        BY <3>5, FS_Bijection DEF ExistsBijection
      <3> QED
        BY <3>6 DEF T
    <2> QED
      BY <2>2, <2>3
  <1>5. ASSUME NEW n \in Q, NEW m \in DOMAIN R, NEW u \in R2[m], NEW v \in R2[m],
               since[n] <= u, since[n] <= v
        PROVE  v - u < q
    <2>1. CASE u \in R[m] /\ v \in R[m]
      BY <1>5, <2>1 DEF Turns
    <2>2. CASE u = now
      <3>1. v \in Int /\ v <= now /\ \E c \in C : cores[c] = m
        <4>1. v \in 0 .. now
          BY <1>2
        <4>2. now \notin R[m]
          BY <1>1
        <4> QED
          BY <2>2, <4>1, <4>2 DEF Ran
      <3>2. q >= 1
        BY <1>3, <3>1 DEF Ran
      <3> QED
        BY <2>2, <3>1, <3>2
    <2>3. CASE u \in R[m] /\ v = now
      <3>1. PICK c \in C : cores[c] = m
        <4>1. now \notin R[m]
          BY <1>1
        <4> QED
          BY <2>3, <4>1 DEF Ran
      <3>2. now - u <= q - clock[c] /\ clock[c] \in 1 .. q /\ u \in Int
        BY <1>1, <1>3, <1>5, <2>3, <3>1 DEF Turns, Ran
      <3> QED
        BY <2>3, <3>2
    <2>4. (u = now \/ u \in R[m]) /\ (v = now \/ v \in R[m])
      BY DEF Ran
    <2> QED
      BY <2>1, <2>2, <2>3, <2>4
  <1>6. ASSUME NEW n \in Q, NEW c \in C, cores[c] # NULL, NEW u \in R2[cores[c]], since[n] <= u
        PROVE  (now + 1) - u <= q - clock2[c]
    <2>1. CASE u \in R[cores[c]]
      <3>1. now - u <= q - clock[c] /\ u \in Int
        BY <1>1, <1>3, <1>6, <2>1 DEF Turns, Ran
      <3> QED
        BY <1>3, <1>6, <3>1
    <2>2. CASE u = now
      BY <1>3, <1>6, <2>2
    <2> QED
      BY <1>3, <1>6, <2>1, <2>2
  <1>7. DOMAIN R2 = DOMAIN R /\ (now + 1) - 1 = now
    BY DEF Ran
  <1>8. \A n \in Q : since[n] \in 0 .. now + 1
    BY DEF Turns
  <1>9. \A n \in Q : \A u \in since[n] .. (now + 1) - 1 :
           Cardinality({m \in DOMAIN R2 : u \in R2[m]}) = Cardinality(C)
    BY <1>4, <1>7
  <1>10. \A n \in Q : \A m \in DOMAIN R2 : \A u, v \in R2[m] : since[n] <= u /\ since[n] <= v => v - u < q
    BY <1>5, <1>7
  <1>11. \A n \in Q : \A c \in C : cores[c] # NULL =>
            \A u \in R2[cores[c]] : since[n] <= u => (now + 1) - u <= q - clock2[c]
    BY <1>6
  <1>12. /\ \A m \in DOMAIN R2 : R2[m] \subseteq 0 .. (now + 1) - 1
         /\ \A c \in C : cores[c] # NULL => cores[c] \in DOMAIN R2 /\ clock2[c] \in 0 .. q
    BY <1>2, <1>3, <1>7
  <1> QED
    BY <1>8, <1>9, <1>10, <1>11, <1>12 DEF Turns

\* The times q apart.
LEMMA Apart ==
  ASSUME NEW q \in Nat, NEW i \in Nat, NEW j \in Nat, i < j
  PROVE  q * i \in Nat /\ q * j \in Nat /\ q * i + q <= q * j
  <1>1. PICK d \in Nat : j = i + 1 + d
    <2>1. j - i - 1 \in Nat /\ j = i + 1 + (j - i - 1)
      OBVIOUS
    <2> QED
      BY <2>1
  <1>2. q * d \in Nat /\ q * i \in Nat /\ q * j \in Nat
    OBVIOUS
  <1>3. q * (i + 1 + d) = q * i + q + q * d
    OBVIOUS
  <1> QED
    BY <1>1, <1>2, <1>3

\* From w to now c jobs have run at any time, and none for longer than q.
BusySince(R, c, w, q, now) ==
    /\ \A u \in w .. now - 1 : Cardinality({m \in DOMAIN R : u \in R[m]}) = c
    /\ \A m \in DOMAIN R : \A u, v \in R[m] : w <= u /\ w <= v => v - u < q

\* The jobs that have run at one of the first k of those times.
RanBy(R, w, q, k) == {m \in DOMAIN R : \E i \in 0 .. k - 1 : w + q * i \in R[m]}

\* Those that ran q apart were others each time.
LEMMA ManyRan ==
  ASSUME NEW R, IsFiniteSet(DOMAIN R), NEW c \in Nat, NEW w \in Nat, NEW q \in Nat, NEW now \in Nat,
         BusySince(R, c, w, q, now), NEW k \in Nat, q # 0, w + q * k <= now
  PROVE  IsFiniteSet(RanBy(R, w, q, k)) /\ Cardinality(RanBy(R, w, q, k)) = k * c
  <1> DEFINE S == {j \in 0 .. k : /\ IsFiniteSet(RanBy(R, w, q, j))
                                  /\ Cardinality(RanBy(R, w, q, j)) = j * c}
  <1>1. 0 \in S
    <2>1. RanBy(R, w, q, 0) = {} /\ 0 * c = 0
      BY DEF RanBy
    <2> QED
      BY <2>1, FS_EmptySet
  <1>2. ASSUME NEW j \in 1 .. k, j - 1 \in S PROVE j \in S
    <2> DEFINE A == RanBy(R, w, q, j - 1)
               t == w + q * (j - 1)
               B == {m \in DOMAIN R : t \in R[m]}
               a == j - 1
    <2>1. j \in Nat /\ a \in Nat /\ a < k /\ \A i \in 0 .. j - 1 : i \in Nat /\ (i = a \/ i \in 0 .. a - 1)
      OBVIOUS
    <2>2. RanBy(R, w, q, j) = A \cup B
      <3>1. \A i : i \in 0 .. j - 1 <=> (i = a \/ i \in 0 .. a - 1)
        BY <2>1
      <3> HIDE DEF a
      <3>2. A = {m \in DOMAIN R : \E i \in 0 .. a - 1 : w + q * i \in R[m]} /\ t = w + q * a
        BY DEF RanBy, a
      <3> HIDE DEF t, A
      <3> QED
        BY <3>1, <3>2 DEF RanBy
    <2>3. t \in w .. now - 1 /\ t \in Nat
      <3>1. q * a \in Nat /\ q * k \in Nat /\ q * a + q <= q * k
        BY <2>1, Apart
      <3> QED
        BY <3>1
    <2>4. A \cap B = {}
      <3>1. SUFFICES ASSUME NEW m \in DOMAIN R, NEW i \in 0 .. a - 1, w + q * i \in R[m], t \in R[m]
                     PROVE  FALSE
        BY DEF RanBy
      <3>2. q * i \in Nat /\ q * a \in Nat /\ q * i + q <= q * a
        <4>1. i \in Nat /\ i < a
          BY <2>1
        <4> QED
          BY <2>1, <4>1, Apart
      <3> DEFINE u == w + q * i
      <3>3. u \in Nat /\ w <= u /\ w <= t /\ ~ t - u < q
        BY <2>3, <3>2
      <3> HIDE DEF u, t
      <3> QED
        BY <3>1, <3>3 DEF BusySince, u
    <2>5. Cardinality(B) = c
      BY <2>3 DEF BusySince
    <2>6. IsFiniteSet(B)
      BY FS_Subset
    <2>7. IsFiniteSet(A) /\ Cardinality(A) = a * c
      BY <1>2
    <2> HIDE DEF A, B
    <2>8. IsFiniteSet(A \cup B) /\ Cardinality(A \cup B) = Cardinality(A) + Cardinality(B) - Cardinality(A \cap B)
      BY <2>6, <2>7, FS_Union
    <2>9. Cardinality(A \cap B) = 0
      BY <2>4, FS_EmptySet
    <2>10. a * c \in Nat /\ a * c + c = j * c
      <3>1. \A x, y \in Nat : x * y \in Nat /\ x * y + y = (x + 1) * y
        OBVIOUS
      <3>2. j = a + 1
        OBVIOUS
      <3> HIDE DEF a
      <3> QED
        BY <2>1, <3>1, <3>2
    <2>11. Cardinality(A \cup B) = j * c
      BY <2>5, <2>7, <2>8, <2>9, <2>10
    <2>12. IsFiniteSet(RanBy(R, w, q, j)) /\ Cardinality(RanBy(R, w, q, j)) = j * c
      BY <2>2, <2>8, <2>11
    <2>13. j \in 0 .. k
      OBVIOUS
    <2> QED
      BY <2>12, <2>13
  <1>3. 0 .. k \subseteq S
    <2> HIDE DEF S
    <2> QED
      BY <1>1, <1>2, CountingUp
  <1> QED
    BY <1>3

\* What a division leaves is less than what it was by.
LEMMA DivIs ==
  ASSUME NEW x \in Nat, NEW c \in Nat \ {0}
  PROVE  x \div c \in Nat /\ x < (x \div c) * c + c
  <1>1. x \div c \in Nat
    OBVIOUS
  <1>2. x % c \in 0 .. c - 1
    OBVIOUS
  <1>3. x = c * (x \div c) + (x % c)
    BY SMTT(30)
  <1> DEFINE y == x \div c
             z == x % c
  <1>4. y \in Nat /\ z \in 0 .. c - 1 /\ x = c * y + z
    BY <1>1, <1>2, <1>3
  <1> HIDE DEF y, z
  <1>5. c * y = y * c /\ c * y \in Nat
    BY <1>4
  <1>6. y \in Nat /\ x < y * c + c
    BY <1>4, <1>5
  <1> QED
    BY <1>6 DEF y

\* Division rounds up.
LEMMA CeilIs ==
  ASSUME NEW m \in Nat, NEW c \in Nat \ {0}
  PROVE  CeilDiv(m, c) \in Nat /\ m <= CeilDiv(m, c) * c
  <1> DEFINE x == m + c - 1
  <1>1. x \in Nat /\ c \in Nat
    OBVIOUS
  <1> HIDE DEF x
  <1> DEFINE y == x \div c
  <1>2. y \in Nat /\ x < y * c + c
    BY <1>1, DivIs
  <1> HIDE DEF y
  <1>3. m <= y * c
    <2>1. y * c \in Int
      BY <1>1, <1>2
    <2> QED
      BY <1>1, <1>2, <2>1 DEF x
  <1> QED
    BY <1>2, <1>3 DEF CeilDiv, x, y

\* A job n waits since w, and has not run; the jobs O on the cores have, if at
\* all since, for less than a quantum.
WaitsIn(n, O, R, w, q, now) ==
    /\ n \in (DOMAIN R) \ O /\ \A u \in R[n] : u < w
    /\ \A m \in O : m \in DOMAIN R /\ \A u \in R[m] : w <= u => now - u < q

\* It does not wait for more than a quantum each of the others that are not on a
\* core, shared by the c cores.
LEMMA WaitIsBounded ==
  ASSUME NEW R, IsFiniteSet(DOMAIN R), NEW c \in Nat \ {0}, NEW w \in Nat, NEW q \in Nat \ {0},
         NEW now \in Nat, BusySince(R, c, w, q, now), NEW n, NEW O, WaitsIn(n, O, R, w, q, now),
         \A m \in DOMAIN R : R[m] \subseteq Nat
  PROVE  now - w < q * CeilDiv(Cardinality((DOMAIN R) \ O), c)
  <1> DEFINE I == DOMAIN R
             W == I \ O
             k == CeilDiv(Cardinality(W), c)
             X == RanBy(R, w, q, k)
  <1>1. IsFiniteSet(W) /\ Cardinality(W) \in Nat
    BY FS_Subset, FS_CardinalityType
  <1>2. k \in Nat /\ Cardinality(W) <= k * c
    <2> HIDE DEF W
    <2> QED
      BY <1>1, CeilIs
  <1>3. q * k \in Nat
    <2> HIDE DEF k
    <2> QED
      BY <1>2
  <1>4. SUFFICES ASSUME w + q * k <= now PROVE FALSE
    <2> HIDE DEF k
    <2> QED
      BY <1>3 DEF k
  <1>5. IsFiniteSet(X) /\ Cardinality(X) = k * c
    <2>1. q \in Nat /\ q # 0 /\ c \in Nat
      OBVIOUS
    <2> HIDE DEF k
    <2> QED
      BY <1>2, <1>4, <2>1, ManyRan
  <1>6. X \subseteq W /\ n \notin X /\ n \in W
    <2>1. SUFFICES ASSUME NEW m \in X PROVE m \in W /\ m # n
      BY DEF WaitsIn
    <2>2. PICK i \in 0 .. k - 1 : w + q * i \in R[m]
      BY DEF RanBy
    <2>3. m \in I
      BY DEF RanBy
    <2> HIDE DEF k, X
    <2>4. q * i \in Nat /\ q * i + q <= q * k
      <3>1. i \in Nat /\ i < k
        BY <1>2, <2>2
      <3> QED
        BY <1>2, <3>1, Apart
    <2> DEFINE u == w + q * i
    <2>5. u \in Nat /\ w <= u /\ ~ u < w /\ ~ now - u < q
      BY <1>3, <1>4, <2>4
    <2> HIDE DEF u
    <2> QED
      BY <2>2, <2>3, <2>5 DEF WaitsIn, u
  <1> HIDE DEF X, W, k
  <1>7. Cardinality(X) <= Cardinality(W)
    BY <1>1, <1>6, FS_Subset
  <1>8. Cardinality(X) = Cardinality(W)
    BY <1>1, <1>2, <1>5, <1>7
  <1>9. X = W
    BY <1>1, <1>6, <1>8, FS_Subset
  <1> QED
    BY <1>6, <1>9

\* When a job last stopped running, or arrived.
Since(V, R) == [n \in DOMAIN V |-> RankOf("RR", V[n], R[n])[1]]

\* A job has not run since then, nor waited for less than no time.
Waited(V, R, n, now) ==
    /\ n \in DOMAIN V /\ Since(V, R)[n] \in 0 .. now
    /\ \A u \in R[n] : u \in Nat /\ u < Since(V, R)[n]
    /\ Ranks("RR", V, R)[n] = <<Since(V, R)[n], 0>>
    /\ now - 1 \in R[n] => Since(V, R)[n] = now

\* So it is for those of which the scheduler knows.
LEMMA SinceIs ==
  ASSUME NEW V, V \in [DOMAIN V -> TaskT], NEW job, NEW n, NEW place, NEW now \in Nat, NEW R,
         Knows("RR", V, job, n, place, now, R)
  PROVE  Waited(V, R, n, now)
  <1> DEFINE e == V[n]
             X == R[n]
             a == e.arrival_time
  <1>1. n \in DOMAIN V /\ Right("RR", e, job[n], place, now, X) /\ e \in TaskT
    BY DEF Knows
  <1>2. a \in Nat /\ a <= now /\ X \subseteq a .. now - 1
    BY <1>1 DEF Right, TaskT
  <1>3. /\ Since(V, R)[n] = IF X = {} THEN a ELSE Max(X) + 1
        /\ Ranks("RR", V, R)[n] = <<Since(V, R)[n], 0>>
    BY <1>1 DEF Since, Ranks, RankOf
  <1> HIDE DEF e, X, a
  <1>4. X \subseteq 0 .. now /\ \A u \in X : u \in Nat /\ u <= now - 1
    BY <1>2
  <1>5. X # {} => Max(X) \in X /\ \A u \in X : u <= Max(X)
    BY <1>4, GreatestOf
  <1> DEFINE h == Max(X)
  <1>6. X # {} => h \in Nat /\ h <= now - 1 /\ \A u \in X : u \in Nat /\ u <= h
    BY <1>4, <1>5
  <1> HIDE DEF h
  <1>7. Since(V, R)[n] = IF X = {} THEN a ELSE h + 1
    BY <1>3 DEF h
  <1>8. Since(V, R)[n] \in 0 .. now /\ \A u \in X : u \in Nat /\ u < Since(V, R)[n]
    BY <1>2, <1>6, <1>7
  <1>9. now - 1 \in X => Since(V, R)[n] = now
    BY <1>6, <1>7
  <1> QED
    BY <1>1, <1>3, <1>8, <1>9 DEF X, Waited

\* The queue pq is in the order in which its jobs began to wait.
InTurn(pq, V, now, R) ==
    /\ pq \in Seq(DOMAIN R) /\ \A n \in Range(pq) : Waited(V, R, n, now)
    /\ InOrder(pq, Ranks("RR", V, R))

\* Core c goes to the head of the queue pq, which those of Q are in and who has
\* just left a core.
Serves(C, cores, cores2, Q, clock, clock2, q, pq, c, since, now) ==
    /\ cores2 = [cores EXCEPT ![c] = IF pq = << >> THEN NULL ELSE Head(pq)]
    /\ clock2 = [clock EXCEPT ![c] = q]
    /\ \A n \in Range(pq) : n \in Q \/ since[n] = now

\* The head of the queue waits the longest.
LEMMA HeadsTurn ==
  ASSUME NEW C, NEW T, NEW cores \in [C -> T], NEW cores2, NEW Q, NEW clock \in [C -> Int], NEW clock2,
         NEW q, NEW pq, NEW c \in C, NEW V, NEW now \in Nat, NEW R, NEW since2,
         InTurn(pq, V, now, R),
         Serves(C, cores, cores2, Q, clock, clock2, q, pq, c, Since(V, R), now),
         \A n \in Range(priqueue_rest(pq)) : since2[n] = Since(V, R)[n]
  PROVE  Passed(C, cores, cores2, Q, Range(priqueue_rest(pq)), clock, clock2, q, Since(V, R), since2, R, now)
  <1> DEFINE since == Since(V, R)
             rest == priqueue_rest(pq)
  <1>1. /\ pq \in Seq(DOMAIN R) /\ \A n \in Range(pq) : Waited(V, R, n, now)
        /\ InOrder(pq, Ranks("RR", V, R))
    BY DEF InTurn
  <1>2. ASSUME NEW n \in Range(pq)
        PROVE  /\ since[n] \in Int /\ Ranks("RR", V, R)[n] = <<since[n], 0>>
               /\ \A u \in R[n] : u \in Int /\ u < since[n]
    <2>2. Waited(V, R, n, now)
      BY <1>1
    <2>3. since[n] \in 0 .. now /\ Ranks("RR", V, R)[n] = <<since[n], 0>>
          /\ \A u \in R[n] : u \in Nat /\ u < since[n]
      BY <2>2 DEF Waited
    <2> HIDE DEF since
    <2>4. since[n] \in Int
      BY <2>3
    <2>5. \A u \in R[n] : u \in Int /\ u < since[n]
      BY <2>3
    <2> QED
      BY <2>3, <2>4, <2>5
  <1>3. pq # << >> => /\ Head(pq) \in DOMAIN R /\ Head(pq) \in Range(pq)
                      /\ \A n \in Range(rest) : n \in Range(pq) /\ since[Head(pq)] <= since[n]
    <2>1. SUFFICES ASSUME pq # << >>, NEW n \in Range(rest)
                   PROVE  n \in Range(pq) /\ since[Head(pq)] <= since[n]
      <3>1. pq # << >> => Head(pq) \in DOMAIN R /\ Head(pq) \in Range(pq)
        BY <1>1, RestIs
      <3> HIDE DEF rest, since
      <3> QED
        BY <3>1
    <2>2. /\ Head(pq) = pq[1] /\ rest = Tail(pq) /\ Len(rest) = Len(pq) - 1 /\ Head(pq) \in Range(pq)
          /\ \A j \in 1 .. Len(rest) : rest[j] = pq[j + 1]
          /\ rest \in Seq(DOMAIN R) /\ 1 \in 1 .. Len(pq)
      BY <1>1, <2>1, RestIs DEF priqueue_rest
    <2> HIDE DEF rest
    <2>3. PICK j \in 1 .. Len(rest) : n = rest[j]
      BY <2>1, <2>2 DEF Range
    <2>4. j + 1 \in 1 .. Len(pq) /\ 1 < j + 1 /\ n = pq[j + 1] /\ Len(pq) \in Nat
      BY <1>1, <2>2, <2>3
    <2>5. Before(Ranks("RR", V, R)[Head(pq)], Ranks("RR", V, R)[n])
      BY <1>1, <2>2, <2>4 DEF InOrder
    <2>6. n \in Range(pq)
      BY <1>1, <2>4 DEF Range
    <2> HIDE DEF since
    <2>7. Before(<<since[Head(pq)], 0>>, <<since[n], 0>>) /\ since[Head(pq)] \in Int /\ since[n] \in Int
      BY <1>2, <2>2, <2>5, <2>6
    <2>8. since[Head(pq)] <= since[n]
      BY <2>7 DEF Before
    <2> QED
      BY <2>6, <2>8
  <1>4. pq = << >> => Range(rest) = {}
    BY DEF priqueue_rest, Range
  <1>5. ASSUME NEW n \in Range(rest), cores2[c] # NULL, NEW u \in R[cores2[c]]
        PROVE  u < since2[n]
    <2>1. pq # << >> /\ cores2[c] = Head(pq)
      BY <1>5 DEF Serves
    <2> DEFINE h == Head(pq)
    <2>2. h \in Range(pq) /\ n \in Range(pq) /\ since[h] <= since[n] /\ u \in R[h] /\ since2[n] = since[n]
      BY <1>3, <1>5, <2>1
    <2> HIDE DEF h, since
    <2>3. since[h] \in Int /\ since[n] \in Int /\ u \in Int /\ u < since[h]
      BY <1>2, <2>2
    <2> QED
      BY <2>2, <2>3
  <1>6. ASSUME NEW k \in C
        PROVE  \/ cores2[k] = cores[k] /\ clock2[k] = clock[k]
               \/ /\ clock2[k] = q
                  /\ cores2[k] # NULL => cores2[k] \in DOMAIN R /\
                        \A n \in Range(rest), u \in R[cores2[k]] : u < since2[n]
    <2>1. CASE k = c
      <3>1. clock2[c] = q /\ cores2[c] = IF pq = << >> THEN NULL ELSE Head(pq)
        BY DEF Serves
      <3>2. cores2[c] # NULL => cores2[c] \in DOMAIN R
        BY <1>3, <3>1
      <3> HIDE DEF rest
      <3> QED
        BY <1>5, <2>1, <3>1, <3>2
    <2>2. CASE k # c
      BY <2>2 DEF Serves
    <2> QED
      BY <2>1, <2>2
  <1>7. ASSUME NEW n \in Range(rest) PROVE (n \in Q /\ since2[n] = since[n]) \/ since2[n] = now
    <2>1. n \in Range(pq)
      BY <1>3, <1>4
    <2> QED
      BY <2>1 DEF Serves
  <1> HIDE DEF rest, since
  <1>8. Passed(C, cores, cores2, Q, Range(rest), clock, clock2, q, since, since2, R, now)
    BY <1>6, <1>7 DEF Passed
  <1> QED
    BY <1>8 DEF rest, since

\* The queue of a scheduler that serves is one of those.
LEMMA ServedInTurn ==
  ASSUME NEW V, NEW s, NEW K, NEW now \in Nat, NEW R, Serving("RR", V, s, K, now, R),
         s.pqueue \in Seq(DOMAIN R)
  PROVE  InTurn(s.pqueue, V, now, R)
  <1> DEFINE job == s.job
  <1>1. V \in [DOMAIN V -> TaskT] /\ \A n \in Range(s.pqueue) : Knows("RR", V, job, n, "queue", now, R)
    BY DEF Serving
  <1> HIDE DEF job
  <1>2. \A n \in Range(s.pqueue) : Waited(V, R, n, now)
    BY <1>1, SinceIs
  <1> QED
    BY <1>2 DEF Serving, InTurn

\* The jobs wait since the same time in whatever list they are.
LEMMA SinceCarried ==
  ASSUME NEW I, NEW C, NEW list \in Seq(Entries(I, C)), OneEach(list),
         NEW new \in Seq(Entries(I, C)), OneEach(new), Carried(list, new), NEW R
  PROVE  \A n \in Listed(new) : Since(Tasks(new), R)[n] = Since(Tasks(list), R)[n]
  <1>1. ASSUME NEW n \in Listed(new) PROVE Since(Tasks(new), R)[n] = Since(Tasks(list), R)[n]
    <2> DEFINE V == Tasks(list)
               W == Tasks(new)
    <2>1. DOMAIN V = Listed(list) /\ DOMAIN W = Listed(new)
      BY TasksAre
    <2>2. n \in Listed(list) /\ W[n] = V[n]
      BY <1>1, TasksCarried
    <2> HIDE DEF V, W
    <2>3. Since(W, R)[n] = Since(V, R)[n]
      BY <1>1, <2>1, <2>2 DEF Since
    <2> QED
      BY <2>3 DEF V, W
  <1> QED
    BY <1>1

\* Of who waits since when, only the jobs in the queue count.
SameSince(Q, since, since2) == \A n \in Q : since2[n] = since[n]

\* The queue is of who was in it and who has just left a core.
Joined(pq, Q, since, now) == \A n \in Range(pq) : n \in Q \/ since[n] = now

\* What NextOnCore does to those who wait.
LEMMA NextsTurn ==
  ASSUME NEW I, NEW C, I \subseteq Nat, C \subseteq Nat, NEW s, IsScheduler(s, I, C), NEW c \in C,
         NEW Q, NEW clock \in [C -> Int], NEW q \in Nat, NEW V, NEW now \in Nat, NEW R, NEW since2,
         InTurn(s.pqueue, V, now, R), Turns(C, s.cores, Q, clock, q, Since(V, R), R, now),
         Joined(s.pqueue, Q, Since(V, R), now), NEW st, st = NextOnCore(s, c, now).state,
         SameSince(Range(st.pqueue), Since(V, R), since2),
         NEW clock2, clock2 = [clock EXCEPT ![c] = q]
  PROVE  Turns(C, st.cores, Range(st.pqueue), clock2, q, since2, R, now)
  <1> DEFINE r == NextOnCore(s, c, now)
             cores == s.cores
             cores2 == st.cores
             pq == s.pqueue
             since == Since(V, R)
             T == I \cup {NULL}
             Q2 == Range(st.pqueue)
  <1>1. /\ cores2 = [cores EXCEPT ![c] = IF pq = << >> THEN NULL ELSE Head(pq)]
        /\ Q2 = Range(priqueue_rest(pq)) /\ cores \in [C -> T]
    <2>1. TakesHead(I, C, s, c, r) /\ st = r.state
      BY NextOnCoreIs
    <2> HIDE DEF r
    <2> QED
      BY <2>1 DEF TakesHead, IsScheduler
  <1>2. InTurn(pq, V, now, R) /\ Turns(C, cores, Q, clock, q, since, R, now)
    OBVIOUS
  <1>3. Serves(C, cores, cores2, Q, clock, clock2, q, pq, c, Since(V, R), now)
    <2> HIDE DEF cores2
    <2> QED
      BY <1>1 DEF Serves, Joined
  <1>4. \A n \in Range(priqueue_rest(pq)) : since2[n] = Since(V, R)[n]
    BY <1>1 DEF SameSince
  <1> HIDE DEF cores, cores2, pq, T, Q2
  <1>5. Passed(C, cores, cores2, Q, Range(priqueue_rest(pq)), clock, clock2, q, Since(V, R), since2, R, now)
    BY <1>1, <1>2, <1>3, <1>4, HeadsTurn
  <1> HIDE DEF since
  <1>6. Passed(C, cores, cores2, Q, Q2, clock, clock2, q, since, since2, R, now)
    BY <1>1, <1>5 DEF since
  <1>7. Turns(C, cores2, Q2, clock2, q, since2, R, now)
    BY <1>2, <1>6, TurnsPass
  <1> QED
    BY <1>7 DEF cores2, Q2

\* The jobs of the queue wait since the same time in the list that main makes.
LEMMA KeepsSince ==
  ASSUME NEW I, NEW C, NEW list, NEW s, Placed(I, C, list, s), NEW new, NEW s2, Placed(I, C, new, s2),
         Carried(list, new), NEW R
  PROVE  SameSince(Range(s2.pqueue), Since(Tasks(list), R), Since(Tasks(new), R))
  <1> DEFINE Q == Range(s.pqueue)
             Q2 == Range(s2.pqueue)
             D == Range(s.completedjobs)
             D2 == Range(s2.completedjobs)
             cores == s.cores
             cores2 == s2.cores
  <1>1. /\ list \in Seq(Entries(I, C)) /\ Agree(I, C, list, cores, Q, D)
        /\ new \in Seq(Entries(I, C)) /\ Agree(I, C, new, cores2, Q2, D2)
    BY DEF Placed
  <1> HIDE DEF Q, Q2, D, D2, cores, cores2
  <1>2. OneEach(list) /\ OneEach(new) /\ Q2 \subseteq Listed(new)
    BY <1>1, TasksListed
  <1>3. \A n \in Listed(new) : Since(Tasks(new), R)[n] = Since(Tasks(list), R)[n]
    BY <1>1, <1>2, SinceCarried
  <1>4. SameSince(Q2, Since(Tasks(list), R), Since(Tasks(new), R))
    BY <1>2, <1>3 DEF SameSince
  <1> QED
    BY <1>4 DEF Q2

\* A core is given to an entry, or to none.
LEMMA CarriedThen ==
  ASSUME NEW list, NEW mid, Carried(list, mid), NEW new, NEW c,
         new = mid \/ \E m \in 1 .. Len(mid) : Moved(mid, new, m, c)
  PROVE  Carried(list, new)
  <1>1. CASE new = mid
    BY <1>1
  <1>2. CASE \E m \in 1 .. Len(mid) : Moved(mid, new, m, c)
    <2>1. PICK m \in 1 .. Len(mid) : Moved(mid, new, m, c)
      BY <1>2
    <2>2. /\ Len(new) = Len(mid)
          /\ \A j \in 1 .. Len(mid) : new[j].job_id = mid[j].job_id /\ Task(new[j]) = Task(mid[j])
      BY <2>1 DEF Moved, Task
    <2> QED
      BY <2>2 DEF Carried
  <1> QED
    BY <1>1, <1>2

\* What NextOnCore and main make of it, who puts the next job on the core in mid.
LEMMA HandedTurn ==
  ASSUME NEW I, NEW C, I \subseteq Nat, C \subseteq Nat, NEW list, NEW s, Placed(I, C, list, s),
         NEW mid, Carried(list, mid), NEW new, NEW st, Placed(I, C, new, st), NEW c \in C,
         new = mid \/ \E m \in 1 .. Len(mid) : Moved(mid, new, m, c),
         NEW s2, IsScheduler(s2, I, C), NEW now \in Nat, st = NextOnCore(s2, c, now).state,
         NEW Q, NEW clock \in [C -> Int], NEW q \in Nat, NEW R, NEW clock2,
         clock2 = [clock EXCEPT ![c] = q], InTurn(s2.pqueue, Tasks(list), now, R),
         Joined(s2.pqueue, Q, Since(Tasks(list), R), now),
         Turns(C, s2.cores, Q, clock, q, Since(Tasks(list), R), R, now)
  PROVE  Turns(C, st.cores, Range(st.pqueue), clock2, q, Since(Tasks(new), R), R, now)
  <1> DEFINE V == Tasks(list)
             since2 == Since(Tasks(new), R)
  <1>1. Carried(list, new)
    BY CarriedThen
  <1>2. SameSince(Range(st.pqueue), Since(V, R), since2)
    BY <1>1, KeepsSince
  <1>3. /\ InTurn(s2.pqueue, V, now, R) /\ Joined(s2.pqueue, Q, Since(V, R), now)
        /\ Turns(C, s2.cores, Q, clock, q, Since(V, R), R, now)
    OBVIOUS
  <1> HIDE DEF V, since2
  <1>4. Turns(C, st.cores, Range(st.pqueue), clock2, q, since2, R, now)
    BY <1>2, <1>3, NextsTurn
  <1> QED
    BY <1>4 DEF since2

\* The jobs that wait, while main goes through its loop: they have their turns,
\* and no quantum has run out where the jobs are about to run.
TurnsInv ==
  scheme = "RR" =>
    /\ Turns(Cores, sched.cores, Range(sched.pqueue), quantum_clock, quantum,
             Since(Tasks(jobs), ran), ran, time)
    /\ phase \in {"arrive", "run"} =>
          \A c \in Cores : sched.cores[c] # NULL => quantum_clock[c] # 0

\* They have them when a job finishes, ...
LEMMA FinishTurns ==
  SchedulerInv /\ OrderInv /\ TurnsInv /\ FinishJob /\ SchedulerInv' => TurnsInv'
  <1> SUFFICES ASSUME SchedulerInv, OrderInv, TurnsInv, FinishJob, SchedulerInv', scheme' = "RR"
               PROVE  /\ Turns(Cores', sched'.cores, Range(sched'.pqueue), quantum_clock', quantum',
                               Since(Tasks(jobs'), ran'), ran', time')
                      /\ phase' \notin {"arrive", "run"}
    BY DEF TurnsInv
  <1>1. PICK i \in 1 .. Len(jobs) : \E c \in Cores, less \in Seq(Entries(Ids, Cores)) : FinishedAt(i, c, less)
    BY FinishStep
  <1>2. PICK c \in Cores : \E less \in Seq(Entries(Ids, Cores)) : FinishedAt(i, c, less)
    BY <1>1
  <1>3. PICK less \in Seq(Entries(Ids, Cores)) : FinishedAt(i, c, less)
    BY <1>2
  <1>4. /\ Placed(Ids, Cores, jobs, sched) /\ jobs \in Seq(Entries(Ids, Cores))
        /\ Ids \subseteq Nat /\ Cores \subseteq Nat /\ time \in Nat
        /\ quantum_clock \in [Cores -> Int] /\ quantum \in Int /\ Len(jobs) \in Nat
    BY InvSays
  <1>5. /\ Cores' = Cores /\ Ids' = Ids /\ scheme = "RR" /\ quantum' = quantum /\ time' = time
        /\ ran' = ran /\ phase' = "finish"
        /\ quantum_clock' = [quantum_clock EXCEPT ![c] = quantum]
        /\ sched' = scheduler_job_finished(sched, c, time).state
        /\ jobs[i].core_id = c /\ Removed(jobs, less, i)
        /\ jobs' = less \/ \E m \in 1 .. Len(less) : Moved(less, jobs', m, c)
    BY <1>3, <1>4 DEF FinishedAt, options, Cores, Ids
  <1>6. Placed(Ids, Cores, jobs', sched')
    <2>1. Placed(Ids', Cores', jobs', sched')
      BY DEF SchedulerInv
    <2> QED
      BY <1>5, <2>1
  <1>7. quantum \in Nat
    BY Parameters DEF SchedulerInv, MachineInv
  <1> DEFINE n == jobs[i].job_id
             s2 == FinishedState(sched, n, time)
             V == Tasks(jobs)
             Q == Range(sched.pqueue)
             new == jobs'
             st == sched'
             clock2 == quantum_clock'
  <1>8. n = jobs[i].job_id
    OBVIOUS
  <1> HIDE DEF n
  <1>9. Finishes(Ids, Cores, less, sched, c, n, time, s2)
    BY <1>4, <1>5, <1>8, FinishIs
  <1>10. /\ st = NextOnCore(s2, c, time).state /\ IsScheduler(s2, Ids, Cores)
         /\ s2.cores = sched.cores /\ s2.pqueue = sched.pqueue
    <2> HIDE DEF s2
    <2> QED
      BY <1>5, <1>9 DEF Finishes, Leaving
  <1>11. InTurn(s2.pqueue, V, time, ran)
    <2>1. Serving("RR", V, sched, Cores, time, ran)
      BY <1>5 DEF OrderInv
    <2>2. sched.pqueue \in Seq(DOMAIN ran)
      BY <1>4 DEF Placed, IsScheduler, Ids
    <2> HIDE DEF V, s2
    <2> QED
      BY <1>4, <1>10, <2>1, <2>2, ServedInTurn
  <1>12. Joined(s2.pqueue, Q, Since(V, ran), time)
    BY <1>10 DEF Joined
  <1>13. Turns(Cores, s2.cores, Q, quantum_clock, quantum, Since(V, ran), ran, time)
    <2> HIDE DEF s2
    <2> QED
      BY <1>5, <1>10 DEF TurnsInv
  <1>14. /\ Placed(Ids, Cores, new, st) /\ Carried(jobs, less)
         /\ new = less \/ \E m \in 1 .. Len(less) : Moved(less, new, m, c)
         /\ clock2 = [quantum_clock EXCEPT ![c] = quantum]
    BY <1>4, <1>5, <1>6, CarriedOn
  <1> HIDE DEF s2, Q, new, st, clock2
  <1>15. Turns(Cores, st.cores, Range(st.pqueue), clock2, quantum, Since(Tasks(new), ran), ran, time)
    BY <1>4, <1>7, <1>10, <1>11, <1>12, <1>13, <1>14, HandedTurn
  <1> QED
    BY <1>5, <1>15 DEF st, clock2, new

\* ... when a quantum expires: the job that leaves has just run, ...
LEMMA QuantumTurns ==
  SchedulerInv /\ OrderInv /\ TurnsInv /\ QuantumExpires /\ SchedulerInv' => TurnsInv'
  <1> SUFFICES ASSUME SchedulerInv, OrderInv, TurnsInv, QuantumExpires, SchedulerInv', scheme' = "RR"
               PROVE  /\ Turns(Cores', sched'.cores, Range(sched'.pqueue), quantum_clock', quantum',
                               Since(Tasks(jobs'), ran'), ran', time')
                      /\ phase' \notin {"arrive", "run"}
    BY DEF TurnsInv
  <1>1. PICK i \in 1 .. Len(jobs) : \E c \in Cores, off \in Seq(Entries(Ids, Cores)) : ExpiredAt(i, c, off)
    BY QuantumStep
  <1>2. PICK c \in Cores : \E off \in Seq(Entries(Ids, Cores)) : ExpiredAt(i, c, off)
    BY <1>1
  <1>3. PICK off \in Seq(Entries(Ids, Cores)) : ExpiredAt(i, c, off)
    BY <1>2
  <1>4. /\ Placed(Ids, Cores, jobs, sched) /\ jobs \in Seq(Entries(Ids, Cores))
        /\ Ids \subseteq Nat /\ Cores \subseteq Nat /\ time \in Nat
        /\ quantum_clock \in [Cores -> Int] /\ quantum \in Int
    BY InvSays
  <1>5. /\ Cores' = Cores /\ Ids' = Ids /\ scheme = "RR" /\ quantum' = quantum /\ time' = time
        /\ ran' = ran /\ phase' = "quantum"
        /\ quantum_clock' = [quantum_clock EXCEPT ![c] = quantum]
        /\ sched' = scheduler_quantum_expired(sched, c, time).state
        /\ jobs[i].core_id = c /\ Moved(jobs, off, i, -1)
        /\ jobs' = off \/ \E m \in 1 .. Len(off) : Moved(off, jobs', m, c)
    BY <1>3, <1>4 DEF ExpiredAt, options, Cores, Ids, OrderInv
  <1>6. Placed(Ids, Cores, jobs', sched')
    <2>1. Placed(Ids', Cores', jobs', sched')
      BY DEF SchedulerInv
    <2> QED
      BY <1>5, <2>1
  <1>7. quantum \in Nat
    BY Parameters DEF SchedulerInv, MachineInv
  <1> DEFINE n == jobs[i].job_id
             s2 == ExpiredState(sched, n)
             V == Tasks(jobs)
             Q == Range(sched.pqueue)
             new == jobs'
             st == sched'
             clock2 == quantum_clock'
  <1>8. n = jobs[i].job_id /\ time - 1 \in ran[n]
    BY <1>3, ExpiredRan
  <1> HIDE DEF n
  <1>9. Expires(Ids, Cores, off, sched, c, n, time, s2)
    BY <1>4, <1>5, <1>8, QuantumIs
  <1>10. /\ st = NextOnCore(s2, c, time).state /\ IsScheduler(s2, Ids, Cores)
         /\ s2.cores = sched.cores /\ Range(s2.pqueue) = Range(sched.pqueue) \cup {n}
    <2> HIDE DEF s2
    <2> QED
      BY <1>5, <1>9 DEF Expires, Leaving
  <1>11. InTurn(s2.pqueue, V, time, ran)
    <2>1. Serving("RR", Tasks(jobs), sched, Cores, time, ran) /\ Done(sched, ran)
      BY <1>5 DEF OrderInv
    <2>2. Serving("RR", V, s2, Cores \ {c}, time, ran)
      <3>1. Serving("RR", Tasks(jobs), ExpiredState(sched, jobs[i].job_id), Cores \ {c}, time, ran)
        BY <1>4, <1>5, <1>8, <2>1, QuantumServes
      <3> QED
        BY <1>8, <3>1
    <2>3. s2.pqueue \in Seq(DOMAIN ran)
      <3> HIDE DEF s2
      <3> QED
        BY <1>10 DEF IsScheduler, Ids
    <2> HIDE DEF V, s2
    <2> QED
      BY <1>4, <2>2, <2>3, ServedInTurn
  <1>12. Joined(s2.pqueue, Q, Since(V, ran), time)
    <2> HIDE DEF s2, V
    <2>1. n \in Range(s2.pqueue)
      BY <1>10
    <2>2. Since(V, ran)[n] = time
      BY <1>8, <1>11, <2>1 DEF InTurn, Waited
    <2> QED
      BY <1>10, <2>2 DEF Joined
  <1>13. Turns(Cores, s2.cores, Q, quantum_clock, quantum, Since(V, ran), ran, time)
    <2> HIDE DEF s2
    <2> QED
      BY <1>5, <1>10 DEF TurnsInv
  <1>14. /\ Placed(Ids, Cores, new, st) /\ Carried(jobs, off)
         /\ new = off \/ \E m \in 1 .. Len(off) : Moved(off, new, m, c)
         /\ clock2 = [quantum_clock EXCEPT ![c] = quantum]
    BY <1>5, <1>6, CarriedOver
  <1> HIDE DEF s2, Q, new, st, clock2
  <1>15. Turns(Cores, st.cores, Range(st.pqueue), clock2, quantum, Since(Tasks(new), ran), ran, time)
    BY <1>4, <1>7, <1>10, <1>11, <1>12, <1>13, <1>14, HandedTurn
  <1> QED
    BY <1>5, <1>15 DEF st, clock2, new

\* A job that arrives takes a core that is free or waits.
ArrivesInTurn(C, cores, cores2, Q, Q2, clock, clock2, q, n) ==
    \/ /\ Q2 = Q /\ \E c \in C : /\ cores[c] = NULL /\ cores2 = [cores EXCEPT ![c] = n]
                                 /\ clock2 = [clock EXCEPT ![c] = q]
    \/ Q2 = Q \cup {n} /\ cores2 = cores /\ clock2 = clock

\* None is preempted under RR.
LEMMA NonePreempted ==
  ASSUME NEW I, NEW C, I \subseteq Nat, C \subseteq Nat, NEW s, IsScheduler(s, I, C), NEW n \in I,
         NEW t, NEW rt, NEW pr, NEW r, r = scheduler_new_job(s, "RR", n, t, rt, pr),
         Welcomes(I, C, s, n, r), \A c \in C : s.cores[c] # n,
         NEW clock, NEW clock2, NEW q,
         clock2 = IF r.returns \in C THEN [clock EXCEPT ![r.returns] = q] ELSE clock
  PROVE  ArrivesInTurn(C, s.cores, r.state.cores, Range(s.pqueue), Range(r.state.pqueue), clock, clock2, q, n)
  <1> DEFINE st == r.state
             cores == s.cores
             cores2 == st.cores
  <1>1. Got(C, s, "RR", n, t, rt, pr, st)
    BY NewJobMakes
  <1>2. CASE \E c \in C : /\ cores[c] = NULL /\ r.returns = c
                          /\ cores2 = [cores EXCEPT ![c] = n] /\ st.pqueue = s.pqueue
    BY <1>2 DEF ArrivesInTurn
  <1>3. cores \in [C -> I \cup {NULL}]
    BY DEF IsScheduler
  <1>4. ASSUME NEW c \in C, \A k \in C : cores[k] # NULL, cores2 = [cores EXCEPT ![c] = n] PROVE FALSE
    <2>1. cores2 = cores
      BY <1>1, <1>4 DEF Got, GotFree, GotWorst, GotNone
    <2> HIDE DEF cores, cores2
    <2>2. cores[c] = n
      BY <1>3, <1>4, <2>1
    <2> QED
      BY <2>2 DEF cores
  <1>5. CASE /\ r.returns = -1 /\ cores2 = cores /\ Offered(I, s.pqueue, st.pqueue, n)
    <2>1. r.returns \notin C
      BY <1>5
    <2> QED
      BY <1>5, <2>1 DEF ArrivesInTurn, Offered
  <1> QED
    BY <1>2, <1>4, <1>5 DEF Welcomes

\* The new job has not run.
LEMMA ArrivalPasses ==
  ASSUME NEW C, NEW T, NEW cores \in [C -> T], NEW cores2, NEW Q, NEW Q2, NEW clock \in [C -> Int],
         NEW clock2, NEW q, NEW n, ArrivesInTurn(C, cores, cores2, Q, Q2, clock, clock2, q, n),
         NEW R, n \in DOMAIN R, R[n] = {}, NEW since, NEW since2, NEW now, since[n] = now,
         SameSince(Q2, since, since2)
  PROVE  Passed(C, cores, cores2, Q, Q2, clock, clock2, q, since, since2, R, now)
  <1>1. ASSUME NEW k \in C
        PROVE  \/ cores2[k] = cores[k] /\ clock2[k] = clock[k]
               \/ /\ clock2[k] = q
                  /\ cores2[k] # NULL => cores2[k] \in DOMAIN R /\
                        \A m \in Q2, u \in R[cores2[k]] : u < since2[m]
    <2>1. CASE cores2 = cores /\ clock2 = clock
      BY <2>1
    <2>2. ASSUME NEW c \in C, cores2 = [cores EXCEPT ![c] = n], clock2 = [clock EXCEPT ![c] = q]
          PROVE  \/ cores2[k] = cores[k] /\ clock2[k] = clock[k]
                 \/ clock2[k] = q /\ cores2[k] = n
      BY <2>2
    <2> QED
      BY <2>1, <2>2 DEF ArrivesInTurn
  <1>2. ASSUME NEW m \in Q2 PROVE (m \in Q /\ since2[m] = since[m]) \/ since2[m] = now
    BY DEF ArrivesInTurn, SameSince
  <1> QED
    BY <1>1, <1>2 DEF Passed

\* ... when a job arrives, ...
LEMMA ArriveTurns ==
  SchedulerInv /\ OrderInv /\ TurnsInv /\ Arrive /\ SchedulerInv' => TurnsInv'
  <1> SUFFICES ASSUME SchedulerInv, OrderInv, TurnsInv, Arrive, SchedulerInv', scheme' = "RR"
               PROVE  /\ Turns(Cores', sched'.cores, Range(sched'.pqueue), quantum_clock', quantum',
                               Since(Tasks(jobs'), ran'), ran', time')
                      /\ \A c \in Cores' : sched'.cores[c] # NULL => quantum_clock'[c] # 0
    BY DEF TurnsInv
  <1>1. PICK r : \E i \in 1 .. Len(jobs), new \in Seq(Entries(Ids, Cores)) : ArrivedAt(i, r, new)
    BY ArriveStep
  <1>2. PICK i \in 1 .. Len(jobs) : \E new \in Seq(Entries(Ids, Cores)) : ArrivedAt(i, r, new)
    BY <1>1
  <1>3. PICK new \in Seq(Entries(Ids, Cores)) : ArrivedAt(i, r, new)
    BY <1>2
  <1>4. /\ Placed(Ids, Cores, jobs, sched) /\ jobs \in Seq(Entries(Ids, Cores))
        /\ Agree(Ids, Cores, jobs, sched.cores, Range(sched.pqueue), Range(sched.completedjobs))
        /\ Ids \subseteq Nat /\ Cores \subseteq Nat /\ time \in Nat
        /\ quantum_clock \in [Cores -> Int] /\ quantum \in Int
    BY InvSays
  <1> DEFINE n == jobs[i].job_id
             rt == jobs[i].run_time
             pr == jobs[i].priority
             V == Tasks(jobs)
             since == Since(V, ran)
             since2 == Since(Tasks(new), ran)
             Q == Range(sched.pqueue)
             Q2 == Range(r.state.pqueue)
             cores == sched.cores
             cores2 == r.state.cores
             clock == quantum_clock
             clock2 == quantum_clock'
  <1>5. /\ Cores' = Cores /\ Ids' = Ids /\ scheme = "RR" /\ quantum' = quantum /\ time' = time
        /\ ran' = ran /\ phase = "arrive" /\ sched' = r.state /\ jobs' = new
        /\ clock2 = IF r.returns \in Cores THEN [clock EXCEPT ![r.returns] = quantum] ELSE clock
        /\ Welcomes(Ids, Cores, sched, n, r) /\ Assigns(jobs, new, i, r.returns)
        /\ r = scheduler_new_job(sched, "RR", n, time, rt, pr)
        /\ ~ jobs[i].arrived /\ jobs[i].arrival_time = time
    BY <1>3, <1>4 DEF ArrivedAt, options, Cores, Ids
  <1>6. Placed(Ids, Cores, new, r.state)
    <2>1. Placed(Ids', Cores', jobs', sched')
      BY DEF SchedulerInv
    <2> QED
      BY <1>5, <2>1
  <1>7. quantum \in Nat /\ quantum # 0
    <2>1. quantum # 0
      BY <1>5 DEF OrderInv, Quanta
    <2> QED
      BY <2>1, Parameters DEF SchedulerInv, MachineInv
  <1>8. n \in Ids /\ ran[n] = {} /\ \A c \in Cores : cores[c] # n
    <2>1. jobs[i] \in Entries(Ids, Cores)
      BY <1>4
    <2>2. n \in Ids
      BY <2>1 DEF Entries
    <2>3. ran[n] = {}
      BY <1>5 DEF OrderInv, Timely
    <2>4. \A c \in Cores : cores[c] # n
      BY <1>4, <1>5 DEF Agree
    <2> QED
      BY <2>2, <2>3, <2>4
  <1>9. since[n] = time
    <2>1. OneEach(jobs)
      BY <1>4 DEF Agree, OneEach
    <2>2. n \in DOMAIN V /\ V[n] = Task(jobs[i])
      BY <1>4, <2>1, TasksAre
    <2>3. V[n].arrival_time = time
      BY <1>5, <2>2 DEF Task
    <2> HIDE DEF n, V
    <2> QED
      BY <1>8, <2>2, <2>3 DEF Since, RankOf
  <1>10. SameSince(Q2, since, since2)
    <2>1. Carried(jobs, new)
      BY <1>5, CarriedOver
    <2> QED
      BY <1>4, <1>6, <2>1, KeepsSince
  <1>11. Turns(Cores, cores, Q, clock, quantum, since, ran, time)
    BY <1>5 DEF TurnsInv
  <1>12. cores \in [Cores -> Ids \cup {NULL}] /\ IsScheduler(sched, Ids, Cores)
    BY <1>4 DEF Placed, IsScheduler
  <1>13. n \in DOMAIN ran
    BY <1>8 DEF Ids
  <1> HIDE DEF n, rt, pr, clock, clock2
  <1>14. ArrivesInTurn(Cores, cores, cores2, Q, Q2, clock, clock2, quantum, n)
    BY <1>4, <1>5, <1>8, <1>12, NonePreempted
  <1>15. \A c \in Cores : (cores[c] # NULL => clock[c] # 0) => (cores2[c] # NULL => clock2[c] # 0)
    <2>1. clock \in [Cores -> Int]
      BY <1>4 DEF clock
    <2> QED
      BY <1>7, <1>12, <1>14, <2>1 DEF ArrivesInTurn
  <1>16. clock \in [Cores -> Int] /\ \A c \in Cores : cores[c] # NULL => clock[c] # 0
    BY <1>4, <1>5 DEF TurnsInv, clock
  <1> HIDE DEF V, since, since2, Q, Q2, cores, cores2
  <1>17. Passed(Cores, cores, cores2, Q, Q2, clock, clock2, quantum, since, since2, ran, time)
    BY <1>8, <1>9, <1>10, <1>12, <1>13, <1>14, <1>16, ArrivalPasses
  <1>18. Turns(Cores, cores2, Q2, clock2, quantum, since2, ran, time)
    BY <1>4, <1>7, <1>11, <1>17, TurnsPass
  <1> QED
    BY <1>5, <1>15, <1>16, <1>18 DEF since2, Q2, cores2, clock2

\* A time unit does not change since when they wait, but for those that run.
LEMMA RunSince ==
  ASSUME NEW I, NEW C, NEW list \in Seq(Entries(I, C)), OneEach(list),
         NEW new \in Seq(Entries(I, C)), OneEach(new), RunsOnce(list, new),
         NEW Q, Q \subseteq Listed(list), NEW R, NEW R2, \A n \in Q : R2[n] = R[n]
  PROVE  SameSince(Q, Since(Tasks(list), R), Since(Tasks(new), R2))
  <1>1. ASSUME NEW n \in Q PROVE Since(Tasks(new), R2)[n] = Since(Tasks(list), R)[n]
    <2>1. PICK i \in 1 .. Len(list) : n = list[i].job_id
      BY DEF Listed
    <2>2. i \in 1 .. Len(new) /\ n = new[i].job_id /\ new[i].arrival_time = list[i].arrival_time
      BY <2>1 DEF RunsOnce
    <2> DEFINE V == Tasks(list)
               W == Tasks(new)
    <2>3. n \in DOMAIN V /\ V[n] = Task(list[i]) /\ n \in DOMAIN W /\ W[n] = Task(new[i])
      <3>1. n \in DOMAIN V /\ V[n] = Task(list[i])
        BY <2>1, TasksAre
      <3>2. n \in DOMAIN W /\ W[n] = Task(new[i])
        BY <2>2, TasksAre
      <3> HIDE DEF V, W
      <3> QED
        BY <3>1, <3>2
    <2>4. W[n].arrival_time = V[n].arrival_time /\ R2[n] = R[n]
      BY <2>2, <2>3 DEF Task
    <2> HIDE DEF V, W
    <2>5. Since(W, R2)[n] = Since(V, R)[n]
      BY <2>3, <2>4 DEF Since, RankOf
    <2> QED
      BY <2>5 DEF V, W
  <1> QED
    BY <1>1 DEF SameSince

ListRuns(I, C, list, cores, Q, D, R, R2, now) ==
    /\ I \subseteq Nat /\ C \subseteq Nat /\ list \in Seq(Entries(I, C))
    /\ Agree(I, C, list, cores, Q, D) /\ RanAt(I, list, R, R2, now)

\* The cores run the jobs that the list has on them, one each.
CoresRan(I, C, cores, Q, R, R2, now) ==
    /\ \A m \in I : R2[m] = IF \E c \in C : cores[c] = m THEN R[m] \cup {now} ELSE R[m]
    /\ \A c, d \in C : cores[c] = cores[d] /\ cores[c] # NULL => c = d
    /\ \A m \in Q : (\A c \in C : cores[c] # m) /\ m \in I

LEMMA CoresRun ==
  ASSUME NEW I, NEW C, NEW list, NEW cores, NEW Q, NEW D, NEW R, NEW R2, NEW now,
         ListRuns(I, C, list, cores, Q, D, R, R2, now)
  PROVE  CoresRan(I, C, cores, Q, R, R2, now)
  <1> SUFFICES ASSUME I \subseteq Nat, C \subseteq Nat, list \in Seq(Entries(I, C)),
                      Agree(I, C, list, cores, Q, D), RanAt(I, list, R, R2, now)
               PROVE  CoresRan(I, C, cores, Q, R, R2, now)
    BY DEF ListRuns
  <1>1. \A j \in 1 .. Len(list) : list[j].job_id \in I /\ list[j].core_id \in C \cup {-1}
    <2>1. SUFFICES ASSUME NEW j \in 1 .. Len(list)
                   PROVE  list[j].job_id \in I /\ list[j].core_id \in C \cup {-1}
      OBVIOUS
    <2>2. list[j] \in Entries(I, C)
      OBVIOUS
    <2> QED
      BY <2>2 DEF Entries
  <1>2. ASSUME NEW m \in I
        PROVE  (\E j \in 1 .. Len(list) : list[j].core_id # -1 /\ list[j].job_id = m) <=> \E c \in C : cores[c] = m
    <2>1. ASSUME NEW j \in 1 .. Len(list), list[j].core_id # -1, list[j].job_id = m
          PROVE  \E c \in C : cores[c] = m
      <3>1. list[j].core_id \in C
        BY <1>1, <2>1
      <3> QED
        BY <2>1, <3>1 DEF Agree
    <2>2. ASSUME NEW c \in C, cores[c] = m
          PROVE  \E j \in 1 .. Len(list) : list[j].core_id # -1 /\ list[j].job_id = m
      <3>1. m # NULL
        BY NotNull
      <3>2. PICK j \in 1 .. Len(list) : list[j].job_id = m
        BY <2>2, <3>1 DEF Agree
      <3>3. list[j].core_id = c
        BY <2>2, <3>2 DEF Agree
      <3>4. c # -1
        OBVIOUS
      <3> QED
        BY <3>2, <3>3, <3>4
    <2> QED
      BY <2>1, <2>2
  <1>3. ASSUME NEW c \in C, NEW d \in C, cores[c] = cores[d], cores[c] # NULL PROVE c = d
    <2>1. PICK j \in 1 .. Len(list) : list[j].job_id = cores[c]
      BY <1>3 DEF Agree
    <2>2. \A k \in C : list[j].core_id = k <=> cores[k] = list[j].job_id
      BY DEF Agree
    <2> QED
      BY <1>3, <2>1, <2>2
  <1>4. ASSUME NEW m \in Q PROVE (\A c \in C : cores[c] # m) /\ m \in I
    <2>1. PICK j \in 1 .. Len(list) : list[j].job_id = m
      BY DEF Agree
    <2>2. \A c \in C : cores[c] # m
      BY DEF Agree
    <2> QED
      BY <1>1, <2>1, <2>2
  <1>5. \A m \in I : R2[m] = IF \E c \in C : cores[c] = m THEN R[m] \cup {now} ELSE R[m]
    BY <1>2 DEF RanAt
  <1> QED
    BY <1>3, <1>4, <1>5 DEF CoresRan

\* ... when the jobs run for a time unit, ...
LEMMA RunTurns ==
  SchedulerInv /\ OrderInv /\ TurnsInv /\ RunUnit /\ SchedulerInv' => TurnsInv'
  <1> SUFFICES ASSUME SchedulerInv, OrderInv, TurnsInv, RunUnit, SchedulerInv', scheme' = "RR"
               PROVE  /\ Turns(Cores', sched'.cores, Range(sched'.pqueue), quantum_clock', quantum',
                               Since(Tasks(jobs'), ran'), ran', time')
                      /\ phase' \notin {"arrive", "run"}
    BY DEF TurnsInv
  <1> DEFINE new == jobs'
             R == ran
             R2 == ran'
             clock == quantum_clock
             clock2 == quantum_clock'
             cores == sched.cores
             Q == Range(sched.pqueue)
             D == Range(sched.completedjobs)
             since == Since(Tasks(jobs), R)
             since2 == Since(Tasks(new), R2)
             I == Ids
             C == Cores
  <1>1. /\ phase = "run" /\ phase' = "finish" /\ time' = time + 1 /\ C' = C /\ I' = I
        /\ clock2 = [c \in C |-> clock[c] - Cardinality(OnCore(c))]
        /\ RanAt(I, jobs, R, R2, time) /\ scheme = "RR" /\ quantum' = quantum /\ sched' = sched
        /\ new \in Seq(Entries(I, C)) /\ RunsOnce(jobs, new)
    BY RunStep DEF RunAt, options
  <1>2. /\ Placed(I, C, jobs, sched) /\ jobs \in Seq(Entries(I, C)) /\ Agree(I, C, jobs, cores, Q, D)
        /\ I \subseteq Nat /\ C \subseteq Nat /\ time \in Nat /\ clock \in [C -> Int]
    BY InvSays
  <1>3. quantum \in Nat /\ IsFiniteSet(C)
    <2>1. IsFiniteSet(0 .. MaxCores) /\ C \subseteq 0 .. MaxCores
      <3>1. 0 \in Int /\ MaxCores \in Int
        BY Parameters
      <3> QED
        BY <3>1, FS_Interval DEF OrderInv
    <2>2. IsFiniteSet(C)
      <3> HIDE DEF C
      <3> QED
        BY <2>1, FS_Subset
    <2> QED
      BY <2>2, Parameters DEF SchedulerInv, MachineInv
  <1>4. Turns(C, cores, Q, clock, quantum, since, R, time)
    BY <1>1 DEF TurnsInv
  <1>5. \A c \in C : cores[c] # NULL => clock[c] # 0
    BY <1>1 DEF TurnsInv
  <1>6. Q # {} => \A c \in C : cores[c] # NULL
    <2>1. sched.pqueue # << >> => NULL \notin Range(cores)
      BY <1>2 DEF Placed
    <2>2. sched.pqueue = << >> => Q = {}
      BY DEF Range
    <2>3. DOMAIN cores = C
      BY <1>2 DEF Agree
    <2> QED
      BY <2>1, <2>2, <2>3 DEF Range
  <1>7. \A c \in C : cores[c] # NULL => clock2[c] = clock[c] - 1
    <2>1. SUFFICES ASSUME NEW c \in C, cores[c] # NULL PROVE Cardinality(OnCore(c)) = 1
      BY <1>1
    <2>2. IsFiniteSet(OnCore(c)) /\ Cardinality(OnCore(c)) \in {0, 1}
      BY SanityChecks
    <2>3. PICK j \in 1 .. Len(jobs) : jobs[j].job_id = cores[c]
      BY <1>2, <2>1 DEF Agree
    <2>4. j \in OnCore(c)
      BY <1>2, <2>3 DEF Agree, OnCore, Indices, active_jobs
    <2>5. Cardinality(OnCore(c)) # 0
      BY <2>2, <2>4, FS_EmptySet
    <2> QED
      BY <2>2, <2>5
  <1>8. /\ I' = DOMAIN R2 /\ I = DOMAIN R /\ NULL \notin I
    BY <1>2, Parameters DEF Ids
  <1> HIDE DEF new, R, R2, clock, clock2, cores, Q, D, since, since2, I, C
  <1>9. /\ \A m \in I : R2[m] = IF \E c \in C : cores[c] = m THEN R[m] \cup {time} ELSE R[m]
        /\ \A c, d \in C : cores[c] = cores[d] /\ cores[c] # NULL => c = d
        /\ \A m \in Q : (\A c \in C : cores[c] # m) /\ m \in I
    <2>1. ListRuns(I, C, jobs, cores, Q, D, R, R2, time)
      BY <1>1, <1>2 DEF ListRuns
    <2>2. CoresRan(I, C, cores, Q, R, R2, time)
      BY <2>1, CoresRun
    <2> QED
      BY <2>2 DEF CoresRan
  <1>10. Ran(C, cores, clock, clock2, R, R2, time)
    BY <1>1, <1>5, <1>7, <1>8, <1>9 DEF Ran
  <1>11. Turns(C, cores, Q, clock2, quantum, since, R2, time + 1)
    BY <1>2, <1>3, <1>4, <1>6, <1>10, TurnsRun
  <1>12. SameSince(Q, since, since2)
    <2>1. OneEach(jobs) /\ Q \subseteq Listed(jobs)
      BY <1>2, TasksListed
    <2>2. OneEach(new)
      BY <1>1, <2>1 DEF OneEach, RunsOnce
    <2>3. \A m \in Q : R2[m] = R[m]
      BY <1>9
    <2> QED
      BY <1>1, <1>2, <2>1, <2>2, <2>3, RunSince DEF since, since2
  <1>13. Turns(C, cores, Q, clock2, quantum, since2, R2, time + 1)
    BY <1>11, <1>12 DEF Turns, SameSince
  <1> QED
    BY <1>1, <1>13 DEF C, cores, Q, clock2, since2, R2, new

\* They have their turns at first, ...
LEMMA InitTurns == Init => TurnsInv
  <1> SUFFICES ASSUME Init PROVE TurnsInv
    OBVIOUS
  <1>1. PICK cores \in 1 .. MaxCores, file \in Inputs :
            /\ quantum_clock = [c \in 0 .. cores - 1 |-> -1]
            /\ time = 0 /\ phase = "finish" /\ sched = scheduler_start_up(cores)
            /\ ran = [n \in 0 .. Len(file) - 1 |-> {}]
    BY DEF Init
  <1>2. Range(sched.pqueue) = {} /\ \A c \in Cores : sched.cores[c] = NULL
    BY <1>1 DEF scheduler_start_up, priqueue_init, Range, Cores
  <1>3. \A m \in DOMAIN ran : ran[m] = {}
    BY <1>1
  <1>4. Turns(Cores, sched.cores, Range(sched.pqueue), quantum_clock, quantum, Since(Tasks(jobs), ran), ran, time)
    BY <1>2, <1>3 DEF Turns
  <1> QED
    BY <1>1, <1>4 DEF TurnsInv

\* ... and when main only moves on, past the quantums when none has run out.
LEMMA OthersTurns ==
  SchedulerInv /\ TurnsInv /\ (FinishOffCore \/ FinishesDone \/ QuantumsDone \/ ArrivalsDone
                                 \/ scheduler_clean_up \/ UNCHANGED vars) => TurnsInv'
  <1> SUFFICES ASSUME SchedulerInv, TurnsInv, scheme' = "RR",
                      FinishOffCore \/ FinishesDone \/ QuantumsDone \/ ArrivalsDone
                        \/ scheduler_clean_up \/ UNCHANGED vars
               PROVE  TurnsInv'
    BY DEF TurnsInv
  <1>1. UNCHANGED <<options, jobs, quantum_clock, time, sched, ran>>
    BY DEF FinishOffCore, FinishesDone, QuantumsDone, ArrivalsDone, scheduler_clean_up, vars
  <1>2. Cores' = Cores /\ scheme = "RR"
    BY <1>1 DEF Cores, options
  <1>3. Turns(Cores, sched.cores, Range(sched.pqueue), quantum_clock, quantum, Since(Tasks(jobs), ran), ran, time)'
    BY <1>1, <1>2 DEF TurnsInv, options
  <1>4. phase' \in {"arrive", "run"} => phase \in {"arrive", "run"} \/ Expired = {}
    BY <1>2 DEF FinishOffCore, FinishesDone, QuantumsDone, ArrivalsDone, scheduler_clean_up, vars
  <1>5. ASSUME Expired = {}, NEW c \in Cores, sched.cores[c] # NULL PROVE quantum_clock[c] # 0
    <2>1. /\ Agree(Ids, Cores, jobs, sched.cores, Range(sched.pqueue), Range(sched.completedjobs))
          /\ Len(jobs) \in Nat
      BY InvSays
    <2>2. PICK j \in 1 .. Len(jobs) : jobs[j].job_id = sched.cores[c]
      BY <1>5, <2>1 DEF Agree
    <2>3. j \in OnCore(c)
      BY <2>1, <2>2 DEF Agree, OnCore, Indices, active_jobs
    <2> QED
      BY <1>5, <2>3 DEF Expired
  <1>6. phase' \in {"arrive", "run"} => \A c \in Cores : sched.cores[c] # NULL => quantum_clock[c] # 0
    BY <1>2, <1>4, <1>5 DEF TurnsInv
  <1> QED
    BY <1>1, <1>2, <1>3, <1>6 DEF TurnsInv

\* Every job that waits under RR has its turn, throughout every run.
THEOREM TurnsInductive == Spec => [](SchedulerInv /\ OrderInv /\ TurnsInv)
  <1>1. SchedulerInv /\ SchedulerInv' /\ OrderInv /\ TurnsInv /\ [Next]_vars => TurnsInv'
    BY FinishTurns, QuantumTurns, ArriveTurns, RunTurns, OthersTurns DEF Next
  <1> QED
    BY <1>1, InitTurns, OrderInductive, PTL DEF Spec

\* There are only so many jobs.
LEMMA FewJobs ==
  ASSUME SchedulerInv
  PROVE  IsFiniteSet(Ids)
  <1> DEFINE I == Ids
             q == sched.completedjobs
             D == {q[k] : k \in 1 .. Len(q)}
             L == {jobs[i].job_id : i \in 1 .. Len(jobs)}
  <1>1. /\ Agree(I, Cores, jobs, sched.cores, Range(sched.pqueue), Range(q))
        /\ q \in Seq(I) /\ Len(jobs) \in Nat
    BY InvSays DEF Placed, IsScheduler
  <1>2. I \subseteq D \cup L
    <2>1. Range(q) = D
      BY <1>1 DEF Range
    <2> QED
      BY <1>1, <2>1 DEF Agree
  <1>3. IsFiniteSet(D) /\ IsFiniteSet(L)
    <2>1. \A m \in Nat : IsFiniteSet(1 .. m)
      BY FS_Interval
    <2>2. Len(q) \in Nat
      BY <1>1
    <2>3. IsFiniteSet(1 .. Len(q)) /\ IsFiniteSet(1 .. Len(jobs))
      BY <1>1, <2>1, <2>2
    <2> DEFINE f == [k \in 1 .. Len(q) |-> q[k]]
               g == [i \in 1 .. Len(jobs) |-> jobs[i].job_id]
    <2>4. f \in Surjection(1 .. Len(q), D)
      BY DEF Surjection
    <2>5. g \in Surjection(1 .. Len(jobs), L)
      BY DEF Surjection
    <2> HIDE DEF f, g, D, L
    <2> QED
      BY <2>3, <2>4, <2>5, FS_Surjection
  <1> HIDE DEF D, L, I
  <1>4. IsFiniteSet(D \cup L)
    BY <1>3, FS_Union
  <1>5. IsFiniteSet(I)
    BY <1>2, <1>4, FS_Subset
  <1> QED
    BY <1>5 DEF I

\* Under RR a job waits for no more than a quantum each of the jobs that can be
\* ahead of it, shared by the cores.
THEOREM RoundRobinWaits == Spec => []RoundRobinBound
  <1>1. ASSUME SchedulerInv, OrderInv, TurnsInv, scheme = "RR", phase = "run", NEW n \in Queued
        PROVE  time - WaitingSince(n)
                  < quantum * CeilDiv(Cardinality(Ids \ OnSomeCore), Cardinality(Cores))
    <2> DEFINE R == ran
               C == Cores
               O == OnSomeCore
               Q == Range(sched.pqueue)
               V == Tasks(jobs)
               since == Since(V, R)
               w == since[n]
               c == Cardinality(C)
               cores == sched.cores
               clock == quantum_clock
    <2>1. /\ Placed(Ids, C, jobs, sched) /\ time \in Nat /\ sched.pqueue \in Seq(Ids)
          /\ cores \in [C -> Ids \cup {NULL}]
          /\ Agree(Ids, C, jobs, sched.cores, Q, Range(sched.completedjobs))
      BY <1>1, InvSays DEF Placed, IsScheduler
    <2>2. Turns(C, cores, Q, clock, quantum, since, R, time) /\ \A k \in C : cores[k] # NULL => clock[k] # 0
      BY <1>1 DEF TurnsInv
    <2>3. quantum \in Nat \ {0}
      <3>1. quantum \in 0 .. MaxQuantum /\ quantum # 0
        BY <1>1 DEF SchedulerInv, MachineInv, OrderInv, Quanta
      <3> QED
        BY <3>1, Parameters
    <2>4. c \in Nat \ {0}
      <3>1. IsFiniteSet(0 .. MaxCores) /\ C \subseteq 0 .. MaxCores /\ C # {}
        <4>1. 0 \in Int /\ MaxCores \in Int
          BY Parameters
        <4> QED
          BY <1>1, <4>1, FS_Interval DEF OrderInv, SchedulerInv, MachineInv
      <3> HIDE DEF C
      <3>2. IsFiniteSet(C)
        BY <3>1, FS_Subset
      <3> QED
        BY <3>1, <3>2, FS_CardinalityType, FS_EmptySet
    <2>5. IsFiniteSet(DOMAIN R) /\ Ids = DOMAIN R
      BY <1>1, FewJobs DEF Ids
    <2>6. Waited(V, R, n, time)
      <3>1. Serving("RR", V, sched, C, time, R)
        BY <1>1 DEF OrderInv
      <3>2. sched.pqueue \in Seq(DOMAIN R)
        BY <2>1, <2>5
      <3> HIDE DEF V, C, R
      <3>3. InTurn(sched.pqueue, V, time, R)
        BY <2>1, <3>1, <3>2, ServedInTurn
      <3> QED
        BY <1>1, <3>3 DEF InTurn, Queued
    <2>7. WaitingSince(n) = w
      <3>1. n \in Listed(jobs)
        BY <1>1, PlacedListed
      <3>2. Rank(n) = Ranks("RR", V, R)[n]
        BY <1>1, <3>1, RankIs
      <3>3. Rank(n) = <<WaitingSince(n), 0>>
        BY <1>1 DEF Rank
      <3> HIDE DEF V, R
      <3> QED
        BY <2>6, <3>2, <3>3 DEF Waited
    <2>8. n \in Q
      BY <1>1 DEF Queued
    <2>9. n \in DOMAIN R /\ n \notin O
      <3>1. n \in Ids
        BY <2>1, <2>8 DEF Range
      <3>2. \A k \in C : cores[k] # n
        BY <2>1, <2>8 DEF Agree
      <3> QED
        BY <2>1, <2>5, <3>1, <3>2 DEF OnSomeCore, Range
    <2>10. \A m \in O : \E k \in C : m = cores[k] /\ m # NULL
      BY <1>1, PlacedListed
    <2> HIDE DEF R, C, O, Q, V, since, cores, clock
    <2>11. BusySince(R, c, w, quantum, time) /\ w \in Nat /\ w <= time
      BY <2>1, <2>2, <2>8 DEF Turns, BusySince
    <2>12. \A m \in DOMAIN R : R[m] \subseteq Nat
      BY <2>2 DEF Turns
    <2>13. ASSUME NEW m \in O, NEW u \in R[m], w <= u
           PROVE  m \in DOMAIN R /\ time - u < quantum
      <3>1. PICK k \in C : m = cores[k] /\ m # NULL
        BY <2>10
      <3>2. m \in DOMAIN R /\ clock[k] \in 0 .. quantum /\ clock[k] # 0
        BY <2>2, <3>1 DEF Turns
      <3>3. time - u <= quantum - clock[k]
        BY <2>2, <2>8, <2>13, <3>1 DEF Turns
      <3>4. u \in Nat
        BY <2>12, <3>2
      <3> QED
        BY <2>1, <2>3, <3>2, <3>3, <3>4
    <2>14. \A m \in O : m \in DOMAIN R
      BY <2>2, <2>10 DEF Turns
    <2>15. \A u \in R[n] : u < w
      BY <2>6 DEF Waited, since
    <2> HIDE DEF w, c
    <2>16. WaitsIn(n, O, R, w, quantum, time)
      BY <2>9, <2>13, <2>14, <2>15 DEF WaitsIn
    <2>17. time - w < quantum * CeilDiv(Cardinality((DOMAIN R) \ O), c)
      BY <2>1, <2>3, <2>4, <2>5, <2>11, <2>12, <2>16, WaitIsBounded
    <2> QED
      BY <2>5, <2>7, <2>17 DEF O, c, C
  <1>2. SchedulerInv /\ OrderInv /\ TurnsInv => RoundRobinBound
    BY <1>1 DEF RoundRobinBound
  <1> QED
    BY <1>2, TurnsInductive, PTL
=============================================================================
