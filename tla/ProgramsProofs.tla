---------------------------- MODULE ProgramsProofs ----------------------------
(***************************************************************************)
(* The programs of one file: Brutus for any journal and any size of a page,*)
(* CountPrimes for any interval and any number of threads, Lookup for any  *)
(* tree, and MiniValgrind for any addresses and sizes.                     *)
(***************************************************************************)
EXTENDS Programs, FiniteSetTheorems, WellFoundedInduction, TLAPS

(* Brutus *)

States == {"none", "failed", "decrypting", "blocked", "exited", "reaped"}

JournalTypeOK ==
    /\ lengths \in Seq(Lengths) /\ lineNum \in Nat \ {0}
    /\ children \in [1 .. lineNum -> States]
    /\ DOMAIN pipes = 1 .. lineNum
    /\ parent \in {"fork", "wait", "read", "end"}
    /\ i \in 1 .. lineNum
    /\ parent = "fork" => \A j \in i .. lineNum : children[j] = "none"

\* What the parent has written.
Written ==
    CASE parent = "fork" -> 0
      [] parent \in {"wait", "read"} -> i - 1
      [] parent = "end" -> lineNum

\* A line that was decrypted lies whole in its pipe until its turn comes, and
\* then its child has been waited for.
LinesInPipes ==
    /\ \A j \in 1 .. lineNum :
          /\ children[j] # "blocked"
          /\ children[j] \in {"exited", "reaped"} /\ (parent = "fork" \/ j >= i)
             /\ parent # "end" => pipes[j] = lengths[j] + 1
    /\ parent = "read" => children[i] = "reaped"
    /\ outputfile = [j \in 1 .. Written |-> j]

Fair == AllForked /\ maxSize < PAGE

JournalInv == JournalTypeOK /\ (Fair => LinesInPipes)

-----------------------------------------------------------------------------
(* A bounded set of numbers has a greatest one. *)
LEMMA Greatest ==
  ASSUME NEW S, NEW m \in Nat, S \subseteq 0 .. m, NEW x \in S
  PROVE  x <= Max(S) /\ Max(S) \in S
  <1> DEFINE T == {m - y : y \in S}
  <1>1. T \subseteq Nat /\ T # {}
    OBVIOUS
  <1>2. PICK d \in T : \A e \in T : <<e, d>> \notin OpToRel(<, Nat)
    BY <1>1, NatLessThanWellFounded, WFMin
  <1>3. PICK y \in S : d = m - y
    OBVIOUS
  <1>4. \A z \in S : y >= z
    <2> SUFFICES ASSUME NEW z \in S PROVE y >= z
      OBVIOUS
    <2>1. m - z \in T /\ m - z \in Nat /\ m - y \in Nat
      BY <1>1
    <2>2. ~ (m - z < m - y)
      BY <2>1, <1>2, <1>3 DEF OpToRel
    <2> QED
      BY <2>1, <2>2
  <1>5. Max(S) \in S /\ \A z \in S : Max(S) >= z
    BY <1>4 DEF Max
  <1> QED
    BY <1>5

(* A line with its NUL fits a pipe and the buffer when the longest is shorter *)
(* than a page.                                                               *)
LEMMA LineFits ==
  ASSUME JournalTypeOK, maxSize < PAGE, NEW j \in 1 .. lineNum
  PROVE  /\ lengths[j] \in Nat \ {0}
         /\ capacity = PAGE /\ lengths[j] + 1 <= PAGE
  <1> DEFINE S == {lengths[k] : k \in 1 .. lineNum}
  <1>1. \A k \in 1 .. lineNum : lengths[k] \in Lengths
    BY DEF JournalTypeOK, lineNum
  <1>2. S \subseteq 1 .. MaxLength /\ MaxLength \in Nat
    BY <1>1, LengthsAssumption
  <1>3. lengths[j] \in S
    OBVIOUS
  <1>4. lengths[j] <= Max(S) /\ Max(S) \in S
    <2> HIDE DEF S
    <2>1. S \subseteq 0 .. MaxLength
      BY <1>2
    <2> QED
      BY <2>1, <1>2, <1>3, Greatest
  <1>5. maxSize = Max(S)
    BY DEF maxSize
  <1> HIDE DEF S
  <1>6. lengths[j] \in Nat \ {0} /\ maxSize \in Nat /\ lengths[j] <= maxSize
    <2>1. lengths[j] \in 1 .. MaxLength /\ Max(S) \in 1 .. MaxLength
      BY <1>2, <1>3, <1>4
    <2> QED
      BY <2>1, <1>2, <1>4, <1>5
  <1>7. capacity = PAGE
    BY <1>6, PageAssumption DEF capacity
  <1> QED
    BY <1>6, <1>7, PageAssumption

LEMMA OneMoreLine ==
  ASSUME NEW n \in Nat
  PROVE  Append([j \in 1 .. n |-> j], n + 1) = [j \in 1 .. n + 1 |-> j]
  OBVIOUS

LEMMA InitJournalInv == JournalInit => JournalInv
  <1> SUFFICES ASSUME JournalInit PROVE JournalInv
    OBVIOUS
  <1>0. PICK n \in 1 .. MaxLines : \E ls \in [1 .. n -> Lengths] : Journal(ls)
    BY DEF JournalInit
  <1>1. PICK ls \in [1 .. n -> Lengths] : Journal(ls)
    BY <1>0
  <1> USE <1>1 DEF Journal
  <1>2. lengths \in Seq(Lengths) /\ lineNum = n
    BY DEF lineNum
  <1>3. JournalTypeOK
    BY <1>2 DEF JournalTypeOK, States
  <1>4. LinesInPipes
    <2>1. Written = 0
      BY DEF Written
    <2> QED
      BY <1>2, <2>1 DEF LinesInPipes
  <1> QED
    BY <1>3, <1>4 DEF JournalInv

-----------------------------------------------------------------------------
(* One lemma per action; a step never makes up for a fork that failed. *)
LEMMA ForkKeepsJournalInv ==
  ASSUME JournalInv, Fork
  PROVE  JournalInv'
  <1> USE DEF JournalInv
  <1>1. PICK pid \in {"decrypting", "failed"} : children' = [children EXCEPT ![i] = pid]
    BY DEF Fork
  <1>2. /\ parent = "fork" /\ UNCHANGED <<lengths, pipes, outputfile>>
        /\ i \in 1 .. lineNum /\ lineNum \in Nat \ {0}
        /\ \/ i < lineNum /\ i' = i + 1 /\ parent' = "fork"
           \/ i = lineNum /\ i' = 1 /\ parent' = "wait"
    BY DEF Fork, NextLine, JournalTypeOK
  <1>3. lineNum' = lineNum /\ maxSize' = maxSize
    BY <1>2 DEF lineNum, maxSize
  <1>4. children[i] = "none" /\ children'[i] = pid
        /\ \A j \in 1 .. lineNum : j # i => children'[j] = children[j]
    BY <1>1, <1>2 DEF JournalTypeOK
  <1>5. JournalTypeOK'
    <2>1. children' \in [1 .. lineNum -> States]
      BY <1>1 DEF JournalTypeOK, States
    <2>2. i' \in 1 .. lineNum
      BY <1>2
    <2>3. parent' = "fork" => \A j \in i' .. lineNum : children'[j] = "none"
      <3> SUFFICES ASSUME parent' = "fork", NEW j \in i' .. lineNum
                   PROVE  children'[j] = "none"
        OBVIOUS
      <3>1. j \in i .. lineNum /\ j # i /\ j \in 1 .. lineNum
        BY <1>2
      <3> QED
        BY <3>1, <1>2, <1>4 DEF JournalTypeOK
    <2> QED
      BY <1>2, <1>3, <2>1, <2>2, <2>3 DEF JournalTypeOK
  <1>6. ASSUME Fair' PROVE LinesInPipes'
    <2>1. AllForked
      <3>1. \A j \in 1 .. lineNum : children'[j] # "failed"
        BY <1>3, <1>6 DEF Fair, AllForked
      <3> QED
        BY <3>1, <1>4 DEF AllForked
    <2>2. LinesInPipes
      BY <1>3, <1>6, <2>1 DEF Fair
    <2>3. Written' = 0 /\ Written = 0
      BY <1>2 DEF Written
    <2>4. \A j \in 1 .. lineNum :
            children'[j] \in {"exited", "reaped", "blocked"} => children'[j] = children[j]
      BY <1>4
    <2>5. \A j \in 1 .. lineNum : children'[j] \in {"exited", "reaped"}
                                     => pipes'[j] = lengths'[j] + 1
      BY <1>2, <2>2, <2>4 DEF LinesInPipes
    <2> QED
      BY <1>2, <1>3, <2>2, <2>3, <2>4, <2>5 DEF LinesInPipes
  <1> QED
    BY <1>5, <1>6

LEMMA DecryptKeepsJournalInv ==
  ASSUME JournalInv, NEW j \in 1 .. lineNum, Decrypt(j)
  PROVE  JournalInv'
  <1> USE DEF JournalInv
  <1>1. children[j] = "decrypting" /\ UNCHANGED <<lengths, parent, i, outputfile>>
    BY DEF Decrypt
  <1>2. lineNum' = lineNum /\ maxSize' = maxSize /\ Written' = Written
    BY <1>1 DEF lineNum, maxSize, Written
  <1>3. PICK state \in {"exited", "blocked"} : children' = [children EXCEPT ![j] = state]
    BY DEF Decrypt
  <1>4. JournalTypeOK'
    <2>1. children' \in [1 .. lineNum -> States]
      BY <1>3 DEF JournalTypeOK, States
    <2>2. DOMAIN pipes' = 1 .. lineNum
      BY DEF Decrypt, JournalTypeOK
    <2>3. parent = "fork" => \A k \in i .. lineNum : children'[k] = "none"
      BY <1>1, <1>3 DEF JournalTypeOK
    <2> QED
      BY <1>1, <1>2, <2>1, <2>2, <2>3 DEF JournalTypeOK
  <1>5. ASSUME Fair' PROVE LinesInPipes'
    <2>1. \A k \in 1 .. lineNum : k # j => children'[k] = children[k] /\ pipes'[k] = pipes[k]
      BY <1>3 DEF Decrypt, JournalTypeOK
    <2>2. AllForked
      BY <1>1, <1>2, <1>5, <2>1 DEF Fair, AllForked
    <2>3. LinesInPipes /\ maxSize < PAGE
      BY <1>2, <1>5, <2>2 DEF Fair
    <2>4. lengths[j] \in Nat \ {0} /\ capacity = PAGE /\ lengths[j] + 1 <= PAGE
      BY <2>3, LineFits
    <2>5. children'[j] = "exited"
      BY <2>4 DEF Decrypt, JournalTypeOK
    <2>6. Min({lengths[j] + 1, capacity}) = lengths[j] + 1
      BY <2>4, PageAssumption DEF Min
    <2>7. pipes'[j] = lengths[j] + 1
      BY <2>6 DEF Decrypt, JournalTypeOK
    <2>8. \A k \in 1 .. lineNum :
             /\ children'[k] # "blocked"
             /\ children'[k] \in {"exited", "reaped"} /\ (parent = "fork" \/ k >= i)
                /\ parent # "end" => pipes'[k] = lengths[k] + 1
      BY <2>1, <2>3, <2>5, <2>7 DEF LinesInPipes
    <2>9. parent = "read" => children'[i] = "reaped"
      BY <1>1, <2>1, <2>3 DEF LinesInPipes, JournalTypeOK
    <2> QED
      BY <1>1, <1>2, <2>3, <2>8, <2>9 DEF LinesInPipes
  <1> QED
    BY <1>4, <1>5

LEMMA WaitKeepsJournalInv ==
  ASSUME JournalInv, Wait
  PROVE  JournalInv'
  <1> USE DEF JournalInv
  <1>1. parent = "wait" /\ parent' = "read" /\ UNCHANGED <<lengths, pipes, i, outputfile>>
    BY DEF Wait
  <1>2. lineNum' = lineNum /\ maxSize' = maxSize /\ Written' = Written
    BY <1>1 DEF lineNum, maxSize, Written
  <1>3. \/ children' = children /\ children[i] \in {"failed", "reaped"}
        \/ \E j \in 1 .. lineNum : /\ j = i \/ children[i] = "failed"
                                   /\ children[j] = "exited"
                                   /\ children' = [children EXCEPT ![j] = "reaped"]
    BY DEF Wait, JournalTypeOK
  <1>4. JournalTypeOK'
    <2>1. children' \in [1 .. lineNum -> States]
      BY <1>3 DEF JournalTypeOK, States
    <2> QED
      BY <1>1, <1>2, <2>1 DEF JournalTypeOK
  <1>5. ASSUME Fair' PROVE LinesInPipes'
    <2>1. \A j \in 1 .. lineNum : children'[j] # "failed"
      BY <1>2, <1>5 DEF Fair, AllForked
    <2>2. \A j \in 1 .. lineNum : children[j] # "failed"
      BY <1>3, <2>1 DEF JournalTypeOK
    <2>3. LinesInPipes
      BY <1>2, <1>5, <2>2 DEF Fair, AllForked
    <2>4. /\ children'[i] = "reaped"
          /\ \A j \in 1 .. lineNum : children'[j] = children[j]
                                     \/ (children[j] = "exited" /\ children'[j] = "reaped")
      BY <1>3, <2>2 DEF JournalTypeOK
    <2> QED
      BY <1>1, <1>2, <2>3, <2>4 DEF LinesInPipes
  <1> QED
    BY <1>4, <1>5

LEMMA ReadKeepsJournalInv ==
  ASSUME JournalInv, Read
  PROVE  JournalInv'
  <1> USE DEF JournalInv
  <1>1. /\ parent = "read" /\ UNCHANGED <<lengths, children>>
        /\ i \in 1 .. lineNum /\ lineNum \in Nat \ {0}
        /\ \/ i < lineNum /\ i' = i + 1 /\ parent' = "wait"
           \/ i = lineNum /\ i' = i /\ parent' = "end"
    BY DEF Read, JournalTypeOK
  <1>2. lineNum' = lineNum /\ maxSize' = maxSize
    BY <1>1 DEF lineNum, maxSize
  <1>3. DOMAIN pipes' = 1 .. lineNum /\ \A j \in 1 .. lineNum : j # i => pipes'[j] = pipes[j]
    BY DEF Read, JournalTypeOK
  <1>4. JournalTypeOK'
    BY <1>1, <1>2, <1>3 DEF JournalTypeOK
  <1>5. ASSUME Fair' PROVE LinesInPipes'
    <2>1. LinesInPipes /\ maxSize < PAGE
      BY <1>1, <1>2, <1>5 DEF Fair, AllForked
    <2>2. pipes[i] = lengths[i] + 1
      BY <1>1, <2>1 DEF LinesInPipes
    <2>3. lengths[i] \in Nat \ {0} /\ lengths[i] + 1 <= PAGE
      BY <1>1, <2>1, LineFits
    <2>4. pipes[i] # 0 /\ pipes[i] <= PAGE
      BY <2>2, <2>3
    <2>5. outputfile' = Append(outputfile, i)
      BY <2>2, <2>4 DEF Read
    <2>6. outputfile = [j \in 1 .. i - 1 |-> j]
      BY <1>1, <2>1 DEF LinesInPipes, Written
    <2>7. outputfile' = [j \in 1 .. i |-> j]
      <3>1. i - 1 \in Nat /\ (i - 1) + 1 = i
        BY <1>1
      <3> QED
        BY <2>5, <2>6, <3>1, OneMoreLine
    <2>8. Written' = i
      BY <1>1, <1>2 DEF Written
    <2>9. \A j \in 1 .. lineNum :
             children[j] \in {"exited", "reaped"} /\ j >= i' /\ parent' # "end"
               => pipes'[j] = lengths[j] + 1
      BY <1>1, <1>3, <2>1 DEF LinesInPipes
    <2> QED
      BY <1>1, <1>2, <2>1, <2>7, <2>8, <2>9 DEF LinesInPipes
  <1> QED
    BY <1>4, <1>5

LEMMA StepKeepsJournalInv ==
  ASSUME JournalInv, [Parent \/ \E j \in 1 .. lineNum : Decrypt(j)]_journal
  PROVE  JournalInv'
  <1>1. UNCHANGED journal => JournalInv'
    BY DEF journal, JournalInv, JournalTypeOK, Fair, AllForked, LinesInPipes, Written,
       lineNum, maxSize
  <1> QED
    BY <1>1, ForkKeepsJournalInv, DecryptKeepsJournalInv, WaitKeepsJournalInv,
       ReadKeepsJournalInv DEF Parent

LEMMA JournalInvMeans ==
  ASSUME JournalInv
  PROVE  JournalInOrder
  <1> SUFFICES ASSUME Fair
               PROVE  outputfile = [j \in 1 .. Len(outputfile) |-> j]
    BY DEF JournalInOrder, Fair
  <1>1. outputfile = [j \in 1 .. Written |-> j]
    BY DEF JournalInv, LinesInPipes
  <1>2. Written \in Nat
    BY DEF JournalInv, JournalTypeOK, Written
  <1>3. Len(outputfile) = Written
    BY <1>1, <1>2
  <1> QED
    BY <1>1, <1>3

(* The lines are written in their order, whole and once each, however the     *)
(* children run, when the longest is shorter than a page and none failed.     *)
THEOREM WrittenInOrder == JournalSpec => []JournalInOrder
  BY InitJournalInv, StepKeepsJournalInv, JournalInvMeans, PTL DEF JournalSpec

-----------------------------------------------------------------------------
(* CountPrimes: isPrime *)

IsPrime(n) == n >= 2 /\ \A d \in 2 .. n - 1 : n % d # 0

\* m is the root of n, rounded down.
IsRoot(n, m) == m * m <= n /\ n < (m + 1) * (m + 1)

LEMMA LimitIs ==
  ASSUME NEW n \in Nat, n > 2
  PROVE  \E m \in Nat : limit(n) = m + 1 /\ IsRoot(n, m) /\ m <= n - 2
  <1> DEFINE S == {r \in 0 .. n : r * r <= n}
             m == Max(S)
  <1>1. 0 \in S /\ S \subseteq 0 .. n
    OBVIOUS
  <1>2. m \in S /\ \A r \in S : r <= m
    <2> HIDE DEF S
    <2> QED
      BY <1>1, Greatest
  <1>3. limit(n) = m + 1
    BY DEF limit
  <1> HIDE DEF m
  <1>4. m \in Nat /\ m <= n /\ m * m <= n
    BY <1>2
  <1>5. m <= n - 2
    <2> SUFFICES ASSUME m >= n - 1 PROVE FALSE
      BY <1>4
    <2>1. m * m >= (n - 1) * (n - 1)
      BY <1>4
    <2>2. (n - 1) * (n - 1) = n * (n - 2) + 1
      OBVIOUS
    <2>3. n * (n - 2) >= n
      OBVIOUS
    <2> QED
      BY <1>4, <2>1, <2>2, <2>3
  <1>6. n < (m + 1) * (m + 1)
    <2> SUFFICES ASSUME (m + 1) * (m + 1) <= n PROVE FALSE
      BY <1>4
    <2>1. m + 1 \in S
      BY <1>4, <1>5
    <2> QED
      BY <1>2, <1>4, <2>1
  <1> QED
    BY <1>3, <1>4, <1>5, <1>6 DEF IsRoot

(* Of two factors one is at most the root. *)
LEMMA SmallFactor ==
  ASSUME NEW n \in Nat, NEW m \in Nat, IsRoot(n, m), NEW a \in Nat, NEW b \in Nat, n = a * b
  PROVE  a <= m \/ b <= m
  <1> SUFFICES ASSUME m + 1 <= a, m + 1 <= b PROVE FALSE
    OBVIOUS
  <1>1. (m + 1) * (m + 1) <= a * b
    OBVIOUS
  <1> QED
    BY <1>1 DEF IsRoot

LEMMA Factor ==
  ASSUME NEW n \in Nat, NEW d \in Nat \ {0}, n % d = 0
  PROVE  n \div d \in Nat /\ n = d * (n \div d)
  OBVIOUS

LEMMA FactorDivides ==
  ASSUME NEW a \in Nat \ {0}, NEW b \in Nat
  PROVE  (a * b) % a = 0
  OBVIOUS

LEMMA EvenFactor ==
  ASSUME NEW a \in Nat, NEW b \in Nat, a % 2 = 0
  PROVE  (a * b) % 2 = 0
  <1>1. PICK h \in Nat : a = 2 * h
    BY Factor
  <1>2. PICK c \in Nat : a * b = 2 * c
    <2>1. h * b \in Nat /\ (2 * h) * b = 2 * (h * b)
      OBVIOUS
    <2> QED
      BY <1>1, <2>1
  <1>3. (2 * c) % 2 = 0
    BY FactorDivides
  <1> QED
    BY <1>2, <1>3

LEMMA OddFactors ==
  ASSUME NEW a \in Nat, NEW b \in Nat, (a * b) % 2 = 1
  PROVE  a % 2 = 1 /\ b % 2 = 1
  <1>1. a % 2 # 0 /\ b % 2 # 0
    <2>1. a % 2 = 0 => (a * b) % 2 = 0
      BY EvenFactor
    <2>2. b % 2 = 0 => (b * a) % 2 = 0
      BY EvenFactor
    <2>3. b * a = a * b
      OBVIOUS
    <2> QED
      BY <2>1, <2>2, <2>3
  <1> QED
    BY <1>1

(* To try the odd numbers up to the root and one more is enough, and never   *)
(* too much.                                                                 *)
LEMMA IsPrimeIsRight ==
  ASSUME NEW n \in Int
  PROVE  isPrime(n) <=> IsPrime(n)
  <1>1. CASE n <= 2
    BY <1>1 DEF isPrime, IsPrime
  <1>2. CASE n > 2
    <2>1. n \in Nat
      BY <1>2
    <2>2. PICK m \in Nat : limit(n) = m + 1 /\ IsRoot(n, m) /\ m <= n - 2
      BY <1>2, <2>1, LimitIs
    <2>3. ASSUME isPrime(n) PROVE IsPrime(n)
      <3>1. n % 2 = 1 /\ \A d \in 3 .. m + 1 : d % 2 = 1 => n % d # 0
        BY <1>2, <2>2, <2>3 DEF isPrime
      <3> SUFFICES ASSUME NEW d \in 2 .. n - 1, n % d = 0 PROVE FALSE
        BY <1>2 DEF IsPrime
      <3> DEFINE q == n \div d
      <3>2. d \in Nat \ {0} /\ q \in Nat /\ n = d * q
        BY <2>1, Factor
      <3> HIDE DEF q
      <3>3. d % 2 = 1 /\ q % 2 = 1
        BY <3>1, <3>2, OddFactors
      <3>4. q # 1
        BY <3>2
      <3>5. d >= 3 /\ q >= 3
        BY <3>2, <3>3, <3>4
      <3>6. n % q = 0
        <4>1. (q * d) % q = 0
          BY <3>2, <3>5, FactorDivides
        <4>2. n = q * d
          BY <3>2
        <4> QED
          BY <4>1, <4>2
      <3>7. d <= m \/ q <= m
        BY <2>1, <2>2, <3>2, SmallFactor
      <3>8. d \in 3 .. m + 1 \/ q \in 3 .. m + 1
        BY <2>2, <3>2, <3>5, <3>7
      <3> QED
        BY <3>1, <3>3, <3>6, <3>8
    <2>4. ASSUME IsPrime(n) PROVE isPrime(n)
      <3>1. \A d \in 2 .. n - 1 : n % d # 0
        BY <2>4 DEF IsPrime
      <3>2. n % 2 = 1
        <4>1. 2 \in 2 .. n - 1
          BY <1>2
        <4>2. n % 2 # 0
          BY <3>1, <4>1
        <4> QED
          BY <2>1, <4>2
      <3>3. \A d \in 3 .. m + 1 : n % d # 0
        <4>1. 3 .. m + 1 \subseteq 2 .. n - 1
          BY <2>1, <2>2
        <4> QED
          BY <3>1, <4>1
      <3> QED
        BY <1>2, <2>2, <3>2, <3>3 DEF isPrime
    <2> QED
      BY <2>3, <2>4
  <1> QED
    BY <1>1, <1>2

-----------------------------------------------------------------------------
(* CountPrimes: the split of the interval *)

Part(t) == first(t) .. last(t)

\* The primes that a store was made for.
Counted == {p \in start .. end :
              isPrime(p) /\ \E t \in Counters : p \in Part(t) /\ p < num[t]}

CountTypeOK ==
    /\ start \in Int /\ end \in Int /\ start <= end /\ threadNum \in Nat \ {0}
    /\ counter \in [Counters -> {"test", "add", "store", "done"}]
    /\ num \in [Counters -> Int]
    /\ read \in [Counters -> Nat]
    /\ cnt \in Nat /\ lost \in BOOLEAN

\* What a thread has read is at most what had been counted then, and so at most
\* what has been counted when it stores.
CountsStores ==
    /\ \A t \in Counters :
          /\ first(t) <= num[t]
          /\ counter[t] \in {"add", "store"} => num[t] \in Part(t) /\ isPrime(num[t])
          /\ counter[t] = "done" => \A p \in Part(t) : isPrime(p) => p < num[t]
          /\ counter[t] = "store" => read[t] <= Cardinality(Counted)
    /\ cnt <= Cardinality(Counted)
    /\ ~lost => cnt = Cardinality(Counted)

CountInv == CountTypeOK /\ (SplitFits => CountsStores)

LEMMA LenIs ==
  ASSUME CountTypeOK
  PROVE  len \in Nat /\ \A t \in Counters : first(t) \in Int /\ last(t) \in Int
  <1>1. len \in Nat
    BY DEF CountTypeOK, len
  <1> QED
    BY <1>1 DEF CountTypeOK, first, last, Counters

LEMMA StepIsMonotone ==
  ASSUME NEW w \in Nat, NEW a \in Int, NEW b \in Int, a < b
  PROVE  a * w + w <= b * w
  <1>1. (a + 1) * w <= b * w
    OBVIOUS
  <1>2. (a + 1) * w = a * w + w
    OBVIOUS
  <1> QED
    BY <1>1, <1>2

LEMMA PartsInside ==
  ASSUME CountTypeOK, SplitFits, NEW t \in Counters
  PROVE  Part(t) \subseteq start .. end
  <1>1. /\ len \in Nat /\ threadNum \in Nat \ {0} /\ t \in Nat /\ t <= threadNum - 1
        /\ start \in Int /\ end \in Int
    BY LenIs DEF CountTypeOK, Counters
  <1>2. (threadNum - 1) * (len + 1) <= end - start + 1 /\ t * (len + 1) \in Nat
    BY <1>1 DEF SplitFits
  <1>3. t # threadNum - 1 => t * (len + 1) + (len + 1) <= (threadNum - 1) * (len + 1)
    BY <1>1, StepIsMonotone
  <1>4. (threadNum - 1) * (len + 1) \in Int
    BY <1>1
  <1> QED
    BY <1>1, <1>2, <1>3, <1>4 DEF Part, first, last

LEMMA PartsInOrder ==
  ASSUME CountTypeOK, NEW t \in Counters, NEW u \in Counters, t < u,
         NEW p \in Part(t), NEW q \in Part(u)
  PROVE  p < q
  <1>1. /\ len \in Nat /\ threadNum \in Nat \ {0} /\ t \in Nat /\ u \in Nat
        /\ u <= threadNum - 1 /\ start \in Int /\ end \in Int
    BY LenIs DEF CountTypeOK, Counters
  <1>2. t * (len + 1) + (len + 1) <= u * (len + 1)
    BY <1>1, StepIsMonotone
  <1>3. t * (len + 1) \in Int /\ u * (len + 1) \in Int
    BY <1>1
  <1> QED
    BY <1>1, <1>2, <1>3 DEF Part, first, last

LEMMA PartsApart ==
  ASSUME CountTypeOK, NEW t \in Counters, NEW u \in Counters, t # u, NEW p \in Part(t)
  PROVE  p \notin Part(u)
  <1>1. (t < u \/ u < t) /\ p \in Int
    BY DEF Counters, Part, CountTypeOK
  <1> QED
    BY <1>1, PartsInOrder

LEMMA PartsCover ==
  ASSUME CountTypeOK, NEW p \in start .. end
  PROVE  \E t \in Counters : p \in Part(t)
  <1> DEFINE w == len + 1
             z == threadNum - 1
  <1>1. /\ w \in Nat \ {0} /\ z \in Nat /\ start \in Int /\ end \in Int
        /\ Counters = 0 .. z /\ len = w - 1 /\ threadNum - 1 = z
    <2>1. len \in Nat
      BY LenIs
    <2>2. start \in Int /\ end \in Int /\ threadNum \in Nat \ {0}
      BY DEF CountTypeOK
    <2> QED
      BY <2>1, <2>2 DEF Counters
  <1> HIDE DEF w, z
  <1>2. CASE p - start >= z * w
    <2>1. p \in Part(z)
      BY <1>1, <1>2 DEF Part, first, last, w, z
    <2> QED
      BY <1>1, <2>1
  <1>3. CASE ~ (p - start >= z * w)
    <2>1. PICK t \in Nat : t * w <= p - start /\ p - start < t * w + w
      <3>1. /\ (p - start) \div w \in Nat
            /\ w * ((p - start) \div w) <= p - start
            /\ p - start < w * ((p - start) \div w) + w
        BY <1>1
      <3>2. w * ((p - start) \div w) = ((p - start) \div w) * w
        BY <1>1, <3>1
      <3> QED
        BY <3>1, <3>2
    <2>2. t < z
      <3>1. CASE z < t
        <4>1. z * w + w <= t * w /\ z * w \in Int /\ t * w \in Int
          BY <1>1, <3>1, StepIsMonotone
        <4> QED
          BY <1>1, <1>3, <2>1, <4>1
      <3>2. CASE z = t
        BY <1>1, <1>3, <2>1, <3>2
      <3> QED
        BY <1>1, <3>1, <3>2
    <2>3. t * w \in Int
      BY <1>1
    <2>4. first(t) = start + t * w /\ last(t) = start + t * w + w - 1
      BY <1>1, <2>2, <2>3 DEF first, last, w, z
    <2>5. p \in Part(t)
      BY <1>1, <2>1, <2>3, <2>4 DEF Part
    <2> QED
      BY <1>1, <2>2, <2>5
  <1> QED
    BY <1>2, <1>3

LEMMA LeastOf ==
  ASSUME NEW a \in Int, NEW S, S # {}, \A y \in S : y \in Int /\ a <= y
  PROVE  Min(S) \in S /\ \A y \in S : Min(S) <= y
  <1> DEFINE T == {y - a : y \in S}
  <1>1. T \subseteq Nat /\ T # {}
    OBVIOUS
  <1>2. PICK d \in T : \A e \in T : <<e, d>> \notin OpToRel(<, Nat)
    BY <1>1, NatLessThanWellFounded, WFMin
  <1>3. PICK y \in S : d = y - a
    OBVIOUS
  <1>4. \A z \in S : y <= z
    <2> SUFFICES ASSUME NEW z \in S PROVE y <= z
      OBVIOUS
    <2>1. z - a \in T /\ z - a \in Nat /\ y - a \in Nat /\ z \in Int /\ y \in Int
      BY <1>1
    <2>2. ~ (z - a < y - a)
      BY <2>1, <1>2, <1>3 DEF OpToRel
    <2> QED
      BY <2>1, <2>2
  <1> QED
    BY <1>4 DEF Min

-----------------------------------------------------------------------------
(* CountPrimes: the steps *)

LEMMA CountedIsFinite ==
  ASSUME CountTypeOK
  PROVE  IsFiniteSet(Counted) /\ Cardinality(Counted) \in Nat
  <1>1. IsFiniteSet(start .. end) /\ Counted \subseteq start .. end
    BY FS_Interval DEF CountTypeOK, Counted
  <1> QED
    BY <1>1, FS_Subset, FS_CardinalityType

LEMMA InitCountInv ==
  ASSUME NEW a \in Int, NEW b \in Int, NEW n \in Nat \ {0}, a <= b, Count(a, b, n)
  PROVE  CountInv
  <1>1. Counters \subseteq Int /\ start = a /\ end = b /\ threadNum = n
    BY DEF Count, Counters
  <1>2. len \in Nat
    BY <1>1 DEF len
  <1>3. \A t \in Counters : first(t) \in Int
    BY <1>1, <1>2 DEF first
  <1>4. CountTypeOK
    BY <1>1, <1>3 DEF Count, CountTypeOK
  <1>5. Counted = {}
    <2> SUFFICES ASSUME NEW p \in Int, NEW t \in Counters, p \in Part(t), p < num[t] PROVE FALSE
      BY <1>1 DEF Counted
    <2>1. num[t] = first(t) /\ first(t) \in Int
      BY <1>3 DEF Count
    <2> QED
      BY <2>1 DEF Part
  <1>6. CountsStores
    BY <1>3, <1>5, FS_EmptySet DEF Count, CountsStores
  <1> QED
    BY <1>4, <1>6 DEF CountInv

LEMMA SameSplit ==
  ASSUME UNCHANGED <<start, end, threadNum>>
  PROVE  /\ Counters' = Counters /\ (SplitFits <=> SplitFits')
         /\ \A t : first(t)' = first(t) /\ last(t)' = last(t) /\ Part(t)' = Part(t)
  BY DEF Counters, SplitFits, first, last, Part, len

LEMMA TestKeepsCountInv ==
  ASSUME CountInv, NEW t \in Counters, Test(t)
  PROVE  CountInv'
  <1> DEFINE primes == {p \in num[t] .. last(t) : isPrime(p)}
             place == IF primes = {} THEN "done" ELSE "add"
             next  == IF primes = {} THEN num[t] ELSE Min(primes)
  <1>1. /\ counter[t] = "test"
        /\ counter' = [counter EXCEPT ![t] = place]
        /\ num' = [num EXCEPT ![t] = next]
        /\ UNCHANGED <<start, end, threadNum, read, cnt, lost>>
    BY DEF Test
  <1>2. CountTypeOK
    BY DEF CountInv
  <1>3. /\ next \in Int /\ num[t] <= next
        /\ place = "add" => next \in num[t] .. last(t) /\ isPrime(next)
        /\ \A p \in primes : next <= p
        /\ place = "done" => primes = {}
    <2>1. num[t] \in Int
      BY <1>2 DEF CountTypeOK
    <2>2. CASE primes = {}
      BY <2>1, <2>2
    <2>3. CASE primes # {}
      <3>1. \A y \in primes : y \in Int /\ num[t] <= y
        BY <2>1
      <3>2. Min(primes) \in primes /\ \A p \in primes : Min(primes) <= p
        <4> HIDE DEF primes
        <4> QED
          BY <2>1, <2>3, <3>1, LeastOf
      <3> QED
        BY <2>1, <2>3, <3>1, <3>2
    <2> QED
      BY <2>2, <2>3
  <1>4. place \in {"done", "add"}
    OBVIOUS
  <1>5. \A p \in Int : isPrime(p) /\ p \in num[t] .. last(t) => p \in primes
    OBVIOUS
  <1> HIDE DEF place, next, primes
  <1>6. CountTypeOK'
    <2>1. num' \in [Counters -> Int] /\ counter' \in [Counters -> {"test", "add", "store", "done"}]
      BY <1>1, <1>2, <1>3, <1>4 DEF CountTypeOK
    <2> QED
      BY <1>1, <1>2, <2>1, SameSplit DEF CountTypeOK
  <1>7. /\ num'[t] = next /\ counter'[t] = place
        /\ \A u \in Counters \ {t} : num'[u] = num[u] /\ counter'[u] = counter[u]
    BY <1>1, <1>2 DEF CountTypeOK
  <1>8. ASSUME SplitFits PROVE CountsStores'
    <2>1. CountsStores
      BY <1>8 DEF CountInv
    <2>2. num[t] \in Int /\ first(t) \in Int /\ last(t) \in Int
      BY <1>2, LenIs DEF CountTypeOK
    <2>3. \A p \in Part(t) : isPrime(p) => (p < next <=> p < num[t])
      <3> SUFFICES ASSUME NEW p \in Part(t), isPrime(p) PROVE p < next <=> p < num[t]
        OBVIOUS
      <3>1. p \in Int /\ p <= last(t)
        BY <2>2 DEF Part
      <3>2. p >= num[t] => next <= p
        BY <1>3, <1>5, <2>2, <3>1
      <3> QED
        BY <1>3, <2>2, <3>1, <3>2
    <2>4. Counted' = Counted
      <3>1. \A p \in start .. end : isPrime(p) =>
              \A u \in Counters : p \in Part(u) => (p < num'[u] <=> p < num[u])
        BY <1>7, <2>3
      <3> QED
        BY <1>1, <3>1, SameSplit DEF Counted
    <2>5. place = "add" => next \in Part(t) /\ isPrime(next)
      <3>1. first(t) <= num[t]
        BY <2>1 DEF CountsStores
      <3> QED
        BY <1>3, <2>2, <3>1 DEF Part
    <2>6. place = "done" => \A p \in Part(t) : isPrime(p) => p < next
      <3> SUFFICES ASSUME place = "done", NEW p \in Part(t), isPrime(p) PROVE p < next
        OBVIOUS
      <3>1. p \in Int /\ p <= last(t) /\ p \notin num[t] .. last(t)
        BY <1>3, <1>5, <2>2 DEF Part
      <3> QED
        BY <1>3, <2>2, <3>1
    <2>7. \A u \in Counters : first(u) <= num'[u]
      BY <1>3, <1>7, <2>1, <2>2 DEF CountsStores
    <2> QED
      BY <1>1, <1>4, <1>7, <2>1, <2>4, <2>5, <2>6, <2>7, SameSplit DEF CountsStores
  <1> QED
    BY <1>1, <1>6, <1>8, SameSplit DEF CountInv

LEMMA AddKeepsCountInv ==
  ASSUME CountInv, NEW t \in Counters, Add(t)
  PROVE  CountInv'
  <1>1. /\ counter[t] = "add" /\ counter' = [counter EXCEPT ![t] = "store"]
        /\ read' = [read EXCEPT ![t] = cnt]
        /\ UNCHANGED <<start, end, threadNum, num, cnt, lost>>
    BY DEF Add
  <1>2. CountTypeOK /\ CountTypeOK'
    BY <1>1, SameSplit DEF CountInv, CountTypeOK
  <1>3. /\ counter'[t] = "store" /\ read'[t] = cnt
        /\ \A u \in Counters \ {t} : counter'[u] = counter[u] /\ read'[u] = read[u]
    BY <1>1, <1>2 DEF CountTypeOK
  <1>4. Counted' = Counted
    BY <1>1, SameSplit DEF Counted
  <1>5. SplitFits => CountsStores'
    BY <1>1, <1>3, <1>4, SameSplit DEF CountInv, CountsStores
  <1> QED
    BY <1>1, <1>2, <1>5, SameSplit DEF CountInv

(* A store counts the number its thread is at, and no other number is counted *)
(* or taken back.                                                            *)
LEMMA StoreKeepsCountInv ==
  ASSUME CountInv, NEW t \in Counters, Store(t)
  PROVE  CountInv'
  <1>1. /\ counter[t] = "store" /\ counter' = [counter EXCEPT ![t] = "test"]
        /\ num' = [num EXCEPT ![t] = @ + 1]
        /\ cnt' = read[t] + 1 /\ lost' = (lost \/ cnt # read[t])
        /\ UNCHANGED <<start, end, threadNum, read>>
    BY DEF Store
  <1>2. CountTypeOK
    BY DEF CountInv
  <1>3. CountTypeOK'
    <2>1. cnt' \in Nat /\ lost' \in BOOLEAN
      BY <1>1, <1>2 DEF CountTypeOK
    <2>2. num' \in [Counters -> Int] /\ counter' \in [Counters -> {"test", "add", "store", "done"}]
      BY <1>1, <1>2 DEF CountTypeOK
    <2> QED
      BY <1>1, <1>2, <2>1, <2>2, SameSplit DEF CountTypeOK
  <1>4. /\ num'[t] = num[t] + 1 /\ counter'[t] = "test" /\ num[t] \in Int
        /\ \A u \in Counters \ {t} : num'[u] = num[u] /\ counter'[u] = counter[u]
    BY <1>1, <1>2 DEF CountTypeOK
  <1>5. ASSUME SplitFits PROVE CountsStores'
    <2>1. CountsStores
      BY <1>5 DEF CountInv
    <2>2. num[t] \in Part(t) /\ isPrime(num[t]) /\ num[t] \in start .. end
      BY <1>1, <1>2, <1>5, <2>1, PartsInside DEF CountsStores
    <2>3. num[t] \notin Counted
      <3> SUFFICES ASSUME NEW u \in Counters, num[t] \in Part(u), num[t] < num[u] PROVE FALSE
        BY DEF Counted
      <3>1. u = t
        BY <1>2, <2>2, PartsApart
      <3> QED
        BY <1>4, <3>1
    <2>4. Counted' = Counted \cup {num[t]}
      <3>1. \A p \in start .. end, u \in Counters :
              p < num'[u] <=> p < num[u] \/ (u = t /\ p = num[t])
        BY <1>2, <1>4 DEF CountTypeOK
      <3>2. \A p : p \in Counted' => p \in Counted \/ p = num[t]
        BY <1>1, <3>1, SameSplit DEF Counted
      <3>3. \A p : p \in Counted => p \in Counted'
        BY <1>1, <3>1, SameSplit DEF Counted
      <3>4. num[t] \in Counted'
        BY <1>1, <2>2, <3>1, SameSplit DEF Counted
      <3> QED
        BY <3>2, <3>3, <3>4
    <2>5. /\ Cardinality(Counted') = Cardinality(Counted) + 1
          /\ Cardinality(Counted) \in Nat
      BY <1>2, <2>3, <2>4, CountedIsFinite, FS_AddElement
    <2>6. read[t] \in Nat /\ cnt \in Nat /\ read[t] <= Cardinality(Counted)
      BY <1>1, <1>2, <2>1 DEF CountTypeOK, CountsStores
    <2>7. /\ cnt' <= Cardinality(Counted')
          /\ ~lost' => cnt' = Cardinality(Counted')
      <3>1. cnt' <= Cardinality(Counted')
        BY <1>1, <2>5, <2>6
      <3>2. ASSUME ~lost' PROVE cnt' = Cardinality(Counted')
        <4>1. ~lost /\ cnt = read[t]
          BY <1>1, <1>2, <3>2 DEF CountTypeOK
        <4>2. cnt = Cardinality(Counted)
          BY <2>1, <4>1 DEF CountsStores
        <4> QED
          BY <1>1, <2>5, <4>1, <4>2
      <3> QED
        BY <3>1, <3>2
    <2>8. \A u \in Counters : counter'[u] = "store" => read'[u] <= Cardinality(Counted')
      <3> SUFFICES ASSUME NEW u \in Counters, counter'[u] = "store"
                   PROVE  read'[u] <= Cardinality(Counted')
        OBVIOUS
      <3>1. read'[u] <= Cardinality(Counted) /\ read'[u] \in Nat
        BY <1>1, <1>2, <1>4, <2>1 DEF CountTypeOK, CountsStores
      <3> QED
        BY <2>5, <3>1
    <2>9. \A u \in Counters : first(u) <= num'[u]
      <3>1. first(t) \in Int /\ first(t) <= num[t]
        BY <1>2, <2>1, LenIs DEF CountsStores
      <3>2. first(t) <= num'[t]
        BY <1>4, <3>1
      <3> QED
        BY <1>4, <2>1, <3>2 DEF CountsStores
    <2>10. \A u \in Counters : counter'[u] \in {"add", "store", "done"} =>
              u # t /\ counter'[u] = counter[u] /\ num'[u] = num[u]
      BY <1>4
    <2> QED
      BY <1>1, <2>1, <2>7, <2>8, <2>9, <2>10, SameSplit DEF CountsStores
  <1> QED
    BY <1>1, <1>3, <1>5, SameSplit DEF CountInv

LEMMA StepKeepsCountInv ==
  ASSUME CountInv, CountStep \/ UNCHANGED counting
  PROVE  CountInv'
  <1>1. CASE CountStep
    BY <1>1, TestKeepsCountInv, AddKeepsCountInv, StoreKeepsCountInv DEF CountStep
  <1>2. CASE UNCHANGED counting
    <2>1. Counted' = Counted
      BY <1>2, SameSplit DEF counting, Counted
    <2>2. CountTypeOK' /\ (SplitFits => CountsStores')
      BY <1>2, <2>1, SameSplit DEF counting, CountInv, CountTypeOK, CountsStores
    <2> QED
      BY <1>2, <2>2, SameSplit DEF counting, CountInv
  <1> QED
    BY <1>1, <1>2

(* When all threads are done they have counted every prime of the interval. *)
LEMMA CountInvMeans == CountInv => CountRight
  <1> SUFFICES ASSUME CountInv, SplitFits, Joined
               PROVE  /\ cnt <= PrimesBetween
                      /\ ~lost => cnt = PrimesBetween
    BY DEF CountRight
  <1>1. CountTypeOK /\ CountsStores
    BY DEF CountInv
  <1>2. Counted = {p \in start .. end : IsPrime(p)}
    <2>1. \A p \in start .. end : isPrime(p) <=> IsPrime(p)
      BY <1>1, IsPrimeIsRight DEF CountTypeOK
    <2>2. ASSUME NEW p \in start .. end, isPrime(p)
          PROVE  \E t \in Counters : p \in Part(t) /\ p < num[t]
      BY <1>1, <2>2, PartsCover DEF Joined, CountsStores
    <2> QED
      BY <2>1, <2>2 DEF Counted
  <1>3. PrimesBetween = Cardinality(Counted)
    BY <1>2 DEF PrimesBetween, IsPrime
  <1> QED
    BY <1>1, <1>3 DEF CountsStores

-----------------------------------------------------------------------------
(* Lookup *)

\* No word above node k in the file tells the word w from that of k.
SameSide(ws, k, w) == \A m \in 1 .. k - 1 : (w < ws[m]) = (ws[k] < ws[m])

\* The words that come after node k in the file and belong below it.
BelowOf(ws, k) == {j \in k + 1 .. Len(ws) : SameSide(ws, k, ws[j])}

ChildOf(js) == IF js = {} THEN 0 ELSE Min(js)

\* If the word is in the file at all, then at the node of the search or below it.
OnPath(ws, k, w) ==
    \A j \in 1 .. Len(ws) : ws[j] = w => j >= k /\ SameSide(ws, k, w)

\* ws is the order in which the words were inserted.
SearchOf(ws) ==
    /\ file = Tree(ws) /\ offset \in 1 .. Len(ws)
    /\ wanted # << >> => OnPath(ws, offset, Head(wanted))

LookupInv ==
    /\ wanted \in Seq(Int)
    /\ \E ws \in Seq(Int) : SearchOf(ws)
    /\ LookupsRight

LEMMA TreeIs ==
  ASSUME NEW ws \in Seq(Int)
  PROVE  /\ DOMAIN Tree(ws) = 1 .. Len(ws)
         /\ \A k \in 1 .. Len(ws) :
               /\ Tree(ws)[k].word = ws[k]
               /\ Tree(ws)[k].left_child = ChildOf({j \in BelowOf(ws, k) : ws[j] < ws[k]})
               /\ Tree(ws)[k].right_child = ChildOf({j \in BelowOf(ws, k) : ws[j] > ws[k]})
  <1>1. Tree(ws) = [k \in DOMAIN ws |->
           [word |-> ws[k],
            left_child  |-> ChildOf({j \in BelowOf(ws, k) : ws[j] < ws[k]}),
            right_child |-> ChildOf({j \in BelowOf(ws, k) : ws[j] > ws[k]})]]
    BY DEF Tree, BelowOf, SameSide, ChildOf
  <1> DEFINE left(k)  == ChildOf({j \in BelowOf(ws, k) : ws[j] < ws[k]})
             right(k) == ChildOf({j \in BelowOf(ws, k) : ws[j] > ws[k]})
  <1>2. Tree(ws) = [k \in DOMAIN ws |-> [word |-> ws[k], left_child |-> left(k), right_child |-> right(k)]]
    BY <1>1
  <1>3. DOMAIN ws = 1 .. Len(ws)
    OBVIOUS
  <1> HIDE DEF left, right
  <1>4. /\ DOMAIN Tree(ws) = 1 .. Len(ws)
        /\ \A k \in 1 .. Len(ws) :
              Tree(ws)[k] = [word |-> ws[k], left_child |-> left(k), right_child |-> right(k)]
    BY <1>2, <1>3
  <1>5. \A k \in 1 .. Len(ws) :
          /\ Tree(ws)[k].word = ws[k]
          /\ Tree(ws)[k].left_child = left(k) /\ Tree(ws)[k].right_child = right(k)
    BY <1>4
  <1> QED
    BY <1>4, <1>5 DEF left, right

(* A node lies below every node it is reached from, and the nodes between the *)
(* two in the file tell none of the words below both apart.                   *)
LEMMA ChildIsOnPath ==
  ASSUME NEW ws \in Seq(Int), NEW k \in 1 .. Len(ws), NEW w \in Int, OnPath(ws, k, w),
         w # ws[k], NEW js,
         \/ w < ws[k] /\ js = {j \in BelowOf(ws, k) : ws[j] < ws[k]}
         \/ w > ws[k] /\ js = {j \in BelowOf(ws, k) : ws[j] > ws[k]}
  PROVE  /\ js # {} => ChildOf(js) \in 1 .. Len(ws) /\ OnPath(ws, ChildOf(js), w)
         /\ js = {} => \A j \in 1 .. Len(ws) : ws[j] # w
  <1>1. ASSUME NEW j \in 1 .. Len(ws), ws[j] = w
        PROVE  j \in js
    <2>1. j >= k /\ SameSide(ws, k, ws[j]) /\ j # k
      BY <1>1 DEF OnPath
    <2>2. j \in BelowOf(ws, k)
      BY <2>1 DEF BelowOf
    <2> QED
      BY <1>1, <2>2
  <1>2. ASSUME js # {}
        PROVE  ChildOf(js) \in 1 .. Len(ws) /\ OnPath(ws, ChildOf(js), w)
    <2> DEFINE c == ChildOf(js)
    <2>1. js \subseteq k + 1 .. Len(ws) /\ \A y \in js : y \in Int /\ 0 <= y
      BY DEF BelowOf
    <2>2. c \in js /\ \A j \in js : c <= j
      <3>1. Min(js) \in js /\ \A j \in js : Min(js) <= j
        BY ONLY <1>2, <2>1, LeastOf, 0 \in Int
      <3> QED
        BY <1>2, <3>1 DEF ChildOf
    <2> HIDE DEF c
    <2>3. ASSUME NEW j \in 1 .. Len(ws), ws[j] = w, NEW m \in 1 .. c - 1
          PROVE  (ws[j] < ws[m]) = (ws[c] < ws[m])
      <3>1. /\ j \in js /\ j >= c /\ m \in 1 .. Len(ws) /\ c \in 1 .. Len(ws)
            /\ ws[j] \in Int /\ ws[m] \in Int /\ ws[c] \in Int /\ ws[k] \in Int
        BY <1>1, <2>1, <2>2, <2>3
      <3>2. /\ SameSide(ws, k, ws[j]) /\ SameSide(ws, k, ws[c])
            /\ \/ ws[j] < ws[k] /\ ws[c] < ws[k]
               \/ ws[j] > ws[k] /\ ws[c] > ws[k]
        BY <2>2, <3>1 DEF BelowOf
      <3>3. CASE m < k
        BY <3>1, <3>2, <3>3 DEF SameSide
      <3>4. CASE m = k
        BY <3>1, <3>2, <3>4
      <3>5. CASE m > k /\ SameSide(ws, k, ws[m])
        <4>1. m \in BelowOf(ws, k) /\ m \notin js
          BY <2>1, <2>2, <3>1, <3>5 DEF BelowOf
        <4> QED
          BY <3>1, <3>2, <4>1, <2>3
      <3>6. CASE m > k /\ ~ SameSide(ws, k, ws[m])
        <4>1. PICK l \in 1 .. k - 1 : (ws[m] < ws[l]) # (ws[k] < ws[l])
          BY <3>6 DEF SameSide
        <4>2. /\ ws[l] \in Int
              /\ (ws[j] < ws[l]) = (ws[k] < ws[l]) /\ (ws[c] < ws[l]) = (ws[k] < ws[l])
          BY <3>2, <4>1 DEF SameSide
        <4>3. CASE ws[m] < ws[l]
          <5>1. ~ (ws[j] < ws[l]) /\ ~ (ws[c] < ws[l])
            BY <4>1, <4>2, <4>3
          <5> QED
            BY ONLY <3>1, <4>2, <4>3, <5>1
        <4>4. CASE ~ (ws[m] < ws[l])
          <5>1. ws[j] < ws[l] /\ ws[c] < ws[l]
            BY <4>1, <4>2, <4>4
          <5> QED
            BY ONLY <3>1, <4>2, <4>4, <5>1
        <4> QED
          BY <4>3, <4>4
      <3> QED
        BY <3>1, <3>3, <3>4, <3>5, <3>6
    <2>4. \A j \in 1 .. Len(ws) : ws[j] = w => j >= c /\ SameSide(ws, c, w)
      BY <1>1, <2>2, <2>3 DEF SameSide
    <2>5. c \in 1 .. Len(ws)
      BY <2>1, <2>2
    <2> QED
      BY <2>4, <2>5 DEF OnPath, c
  <1> QED
    BY <1>1, <1>2

LEMMA InitLookupInv ==
  ASSUME NEW ws \in Seq(Int), ws # << >>, NEW asked \in Seq(Int), LookUp(ws, asked)
  PROVE  LookupInv
  <1>1. (\A w : OnPath(ws, 1, w)) /\ 1 \in 1 .. Len(ws)
    BY DEF OnPath, SameSide
  <1> QED
    BY <1>1 DEF LookUp, LookupInv, SearchOf, LookupsRight

(* Where the loop goes from node k, for a word that is not the one of k. *)
LEMMA ChildFinds ==
  ASSUME NEW ws \in Seq(Int), NEW k \in 1 .. Len(ws), NEW w \in Int, OnPath(ws, k, w),
         w # ws[k], NEW child, child = Child(Tree(ws)[k], w)
  PROVE  /\ child # 0 => child \in 1 .. Len(ws) /\ OnPath(ws, child, w)
         /\ child = 0 => \A j \in 1 .. Len(ws) : ws[j] # w
  <1> DEFINE left  == {j \in BelowOf(ws, k) : ws[j] < ws[k]}
             right == {j \in BelowOf(ws, k) : ws[j] > ws[k]}
  <1>1. child = IF w < ws[k] THEN ChildOf(left) ELSE ChildOf(right)
    BY TreeIs DEF Child
  <1>2. ws[k] \in Int
    OBVIOUS
  <1>3. CASE w < ws[k]
    <2>1. /\ left # {} => ChildOf(left) \in 1 .. Len(ws) /\ OnPath(ws, ChildOf(left), w)
          /\ left = {} => \A j \in 1 .. Len(ws) : ws[j] # w
      BY <1>3, ChildIsOnPath
    <2>2. left # {} => ChildOf(left) # 0
      BY <2>1
    <2>3. left = {} => ChildOf(left) = 0
      BY DEF ChildOf
    <2> QED
      BY <1>1, <1>3, <2>1, <2>2, <2>3
  <1>4. CASE w > ws[k]
    <2>1. /\ right # {} => ChildOf(right) \in 1 .. Len(ws) /\ OnPath(ws, ChildOf(right), w)
          /\ right = {} => \A j \in 1 .. Len(ws) : ws[j] # w
      BY <1>4, ChildIsOnPath
    <2>2. right # {} => ChildOf(right) # 0
      BY <2>1
    <2>3. right = {} => ChildOf(right) = 0
      BY DEF ChildOf
    <2>4. ~ (w < ws[k])
      BY <1>2, <1>4
    <2> QED
      BY <1>1, <2>1, <2>2, <2>3, <2>4
  <1> QED
    BY <1>2, <1>3, <1>4

(* The word asked for is answered; the search for the next begins at the root. *)
LEMMA AnswerKeepsLookupInv ==
  ASSUME LookupInv, NEW found \in BOOLEAN, wanted # << >>, Answer(found),
         found = (\E k \in DOMAIN file : file[k].word = Head(wanted))
  PROVE  LookupInv'
  <1>1. /\ answers' = answers \cup {<<Head(wanted), found>>}
        /\ wanted' = Tail(wanted) /\ offset' = 1 /\ file' = file
    BY DEF Answer
  <1>2. wanted' \in Seq(Int)
    BY <1>1 DEF LookupInv
  <1>3. LookupsRight'
    <2> SUFFICES ASSUME NEW a \in answers'
                 PROVE  a[2] = (\E k \in DOMAIN file : file[k].word = a[1])
      BY <1>1 DEF LookupsRight
    <2>1. CASE a \in answers
      BY <2>1 DEF LookupInv, LookupsRight
    <2>2. CASE a = <<Head(wanted), found>>
      <3>1. a[1] = Head(wanted) /\ a[2] = found
        BY <2>2
      <3> QED
        BY <3>1
    <2> QED
      BY <1>1, <2>1, <2>2
  <1>4. PICK ws \in Seq(Int) : SearchOf(ws)
    BY DEF LookupInv
  <1>5. 1 \in 1 .. Len(ws) /\ \A w : OnPath(ws, 1, w)
    BY <1>4 DEF SearchOf, OnPath, SameSide
  <1>6. SearchOf(ws)'
    BY <1>1, <1>4, <1>5 DEF SearchOf, OnPath, SameSide
  <1> QED
    BY <1>2, <1>3, <1>6 DEF LookupInv

LEMMA VisitKeepsLookupInv ==
  ASSUME LookupInv, Visit
  PROVE  LookupInv'
  <1> DEFINE w     == Head(wanted)
             node  == file[offset]
             child == Child(node, w)
  <1>1. PICK ws \in Seq(Int) : SearchOf(ws)
    BY DEF LookupInv
  <1>2. wanted # << >> /\ w \in Int /\ offset \in 1 .. Len(ws) /\ OnPath(ws, offset, w)
    BY <1>1 DEF Visit, LookupInv, SearchOf
  <1>3. /\ file = Tree(ws) /\ DOMAIN file = 1 .. Len(ws) /\ node.word = ws[offset]
        /\ \A k \in 1 .. Len(ws) : file[k].word = ws[k]
    BY <1>1, <1>2, TreeIs DEF SearchOf
  <1>4. node.word # w =>
           /\ child # 0 => child \in 1 .. Len(ws) /\ OnPath(ws, child, w)
           /\ child = 0 => \A j \in 1 .. Len(ws) : ws[j] # w
    BY <1>2, <1>3, ChildFinds
  <1>5. \/ node.word = w /\ Answer(TRUE)
        \/ node.word # w /\ child = 0 /\ Answer(FALSE)
        \/ node.word # w /\ child # 0 /\ offset' = child /\ UNCHANGED <<file, wanted, answers>>
    BY DEF Visit
  <1> HIDE DEF w, node, child
  <1>6. CASE node.word = w /\ Answer(TRUE)
    <2>1. \E k \in DOMAIN file : file[k].word = w
      BY <1>2, <1>3, <1>6
    <2> QED
      BY <1>2, <1>6, <2>1, AnswerKeepsLookupInv DEF w
  <1>7. CASE node.word # w /\ child = 0 /\ Answer(FALSE)
    <2>1. ~ \E k \in DOMAIN file : file[k].word = w
      BY <1>3, <1>4, <1>7
    <2> QED
      BY <1>2, <1>7, <2>1, AnswerKeepsLookupInv DEF w
  <1>8. CASE node.word # w /\ child # 0 /\ offset' = child /\ UNCHANGED <<file, wanted, answers>>
    <2>1. SearchOf(ws)'
      BY <1>1, <1>4, <1>8 DEF SearchOf, OnPath, SameSide, w
    <2> QED
      BY <1>8, <2>1 DEF LookupInv, LookupsRight
  <1> QED
    BY <1>5, <1>6, <1>7, <1>8

-----------------------------------------------------------------------------
(* MiniValgrind: what the blocks of a list add up to *)

Blocks == [ptr : Addresses, size : Int]

Added(list, n, f) ==
    /\ f = [k \in 0 .. n |-> f[k]] /\ f[0] = 0
    /\ \A k \in 1 .. n : f[k] = f[k - 1] + list[k].size

(* There is one way to add the blocks of a list up. *)
LEMMA SumsAreUnique ==
  ASSUME NEW list \in Seq(Blocks), NEW f, NEW g,
         Added(list, Len(list), f), Added(list, Len(list), g)
  PROVE  f = g
  <1> DEFINE D == {k \in 0 .. Len(list) : f[k] # g[k]}
  <1>1. CASE D = {}
    <2>1. \A k \in 0 .. Len(list) : f[k] = g[k]
      BY <1>1
    <2>2. f = [k \in 0 .. Len(list) |-> f[k]] /\ g = [k \in 0 .. Len(list) |-> g[k]]
      BY DEF Added
    <2>3. [k \in 0 .. Len(list) |-> f[k]] = [k \in 0 .. Len(list) |-> g[k]]
      BY <2>1
    <2> QED
      BY <2>2, <2>3
  <1>2. CASE D # {}
    <2>1. D \subseteq Int /\ \A y \in D : 0 <= y
      OBVIOUS
    <2>2. PICK k \in D : \A y \in D : k <= y
      <3> HIDE DEF D
      <3> QED
        BY ONLY <1>2, <2>1, LeastOf, 0 \in Int
    <2>3. k # 0 /\ k \in 1 .. Len(list) /\ k - 1 \in 0 .. Len(list)
      BY DEF Added
    <2>4. f[k - 1] = g[k - 1]
      BY <2>2, <2>3
    <2> QED
      BY <2>3, <2>4 DEF Added
  <1> QED
    BY <1>1, <1>2

LEMMA SumsExist ==
  ASSUME NEW list \in Seq(Blocks)
  PROVE  \E f \in [0 .. Len(list) -> Int] : Added(list, Len(list), f)
  <1> DEFINE Has(n) == \E f \in [0 .. n -> Int] : Added(list, n, f)
             D == {n \in 0 .. Len(list) : ~ Has(n)}
  <1>1. Has(0)
    <2> DEFINE z == [k \in 0 .. 0 |-> 0]
    <2>1. z \in [0 .. 0 -> Int] /\ z[0] = 0 /\ 1 .. 0 = {}
      OBVIOUS
    <2>2. z = [k \in 0 .. 0 |-> z[k]]
      OBVIOUS
    <2> HIDE DEF z
    <2> QED
      BY <2>1, <2>2 DEF Added
  <1>2. ASSUME NEW n \in 1 .. Len(list), Has(n - 1) PROVE Has(n)
    <2>1. PICK f \in [0 .. n - 1 -> Int] : Added(list, n - 1, f)
      BY <1>2
    <2> DEFINE g == [k \in 0 .. n |-> IF k = n THEN f[n - 1] + list[n].size ELSE f[k]]
    <2>2. /\ n \in Int /\ 1 <= n /\ n - 1 \in 0 .. n - 1
          /\ \A k \in 0 .. n : k # n => k \in 0 .. n - 1
      OBVIOUS
    <2>3. f[n - 1] + list[n].size \in Int
      <3>1. f[n - 1] \in Int
        BY <2>2
      <3>2. list[n] \in Blocks
        OBVIOUS
      <3> QED
        BY <3>1, <3>2 DEF Blocks
    <2>4. g \in [0 .. n -> Int]
      BY <2>2, <2>3
    <2>5. g = [k \in 0 .. n |-> g[k]]
      OBVIOUS
    <2>6. g[0] = 0
      BY <2>1, <2>2 DEF Added
    <2>7. ASSUME NEW k \in 1 .. n PROVE g[k] = g[k - 1] + list[k].size
      <3>1. g[k - 1] = f[k - 1] /\ k \in Int
        OBVIOUS
      <3>2. CASE k = n
        BY <3>1, <3>2
      <3>3. CASE k # n
        <4>1. k \in 1 .. n - 1 /\ g[k] = f[k]
          BY <3>3
        <4> QED
          BY <3>1, <4>1, <2>1 DEF Added
      <3> QED
        BY <3>2, <3>3
    <2> HIDE DEF g
    <2>8. Added(list, n, g)
      BY <2>5, <2>6, <2>7 DEF Added
    <2> QED
      BY <2>4, <2>8
  <1>3. D = {}
    <2> HIDE DEF Has
    <2> SUFFICES ASSUME D # {} PROVE FALSE
      OBVIOUS
    <2>1. D \subseteq Int /\ \A y \in D : 0 <= y
      OBVIOUS
    <2>2. D # {}
      OBVIOUS
    <2>3. PICK n \in D : \A y \in D : n <= y
      <3> HIDE DEF D
      <3> QED
        BY ONLY <2>1, <2>2, LeastOf, 0 \in Int
    <2>4. n # 0
      BY <1>1
    <2>5. n \in 1 .. Len(list) /\ n - 1 \in 0 .. Len(list) /\ n - 1 \notin D
      BY <2>3, <2>4
    <2> QED
      BY <1>2, <2>5
  <1>4. Has(Len(list))
    <2> HIDE DEF Has
    <2> QED
      BY <1>3
  <1> QED
    BY <1>4

(* The recursive function is the one that adds the blocks up. *)
LEMMA SumsAre ==
  ASSUME NEW list \in Seq(Blocks)
  PROVE  Sums(list) \in [0 .. Len(list) -> Int] /\ Added(list, Len(list), Sums(list))
  <1>1. PICK f \in [0 .. Len(list) -> Int] : Added(list, Len(list), f)
    BY SumsExist
  <1>2. f = [k \in 0 .. Len(list) |-> IF k = 0 THEN 0 ELSE f[k - 1] + list[k].size]
    <2>1. f = [k \in 0 .. Len(list) |-> f[k]]
      OBVIOUS
    <2>2. ASSUME NEW k \in 0 .. Len(list)
          PROVE  f[k] = IF k = 0 THEN 0 ELSE f[k - 1] + list[k].size
      <3>1. f[0] = 0 /\ (k \in 1 .. Len(list) => f[k] = f[k - 1] + list[k].size)
        BY <1>1 DEF Added
      <3>2. k = 0 \/ (k \in 1 .. Len(list) /\ k # 0)
        OBVIOUS
      <3> QED
        BY <3>1, <3>2
    <2> DEFINE next(k) == IF k = 0 THEN 0 ELSE f[k - 1] + list[k].size
    <2>3. \A k \in 0 .. Len(list) : f[k] = next(k)
      BY <2>2
    <2> HIDE DEF next
    <2>4. f = [k \in 0 .. Len(list) |-> next(k)]
      BY <2>1, <2>3
    <2> QED
      BY <2>4 DEF next
  <1>3. Sums(list) = [k \in 0 .. Len(list) |->
                        IF k = 0 THEN 0 ELSE Sums(list)[k - 1] + list[k].size]
    BY <1>2 DEF Sums
  <1>4. Added(list, Len(list), Sums(list))
    BY <1>3 DEF Added
  <1> QED
    BY <1>1, <1>4, SumsAreUnique

LEMMA SumsOf ==
  ASSUME NEW list \in Seq(Blocks), NEW f, Added(list, Len(list), f)
  PROVE  Sums(list) = f
  BY SumsAre, SumsAreUnique

Total(list) == Sums(list)[Len(list)]

(* Inserting a block in front adds its size, and removing one takes it away. *)
LEMMA InsertAdds ==
  ASSUME NEW list \in Seq(Blocks), NEW ptr \in Addresses, NEW size \in Int
  PROVE  /\ insert_meta_data(list, ptr, size) \in Seq(Blocks)
         /\ Total(insert_meta_data(list, ptr, size)) = Total(list) + size
         /\ Len(insert_meta_data(list, ptr, size)) = Len(list) + 1
  <1> DEFINE b == [ptr |-> ptr, size |-> size]
             new == insert_meta_data(list, ptr, size)
             f == Sums(list)
             g == [k \in 0 .. Len(list) + 1 |-> IF k = 0 THEN 0 ELSE f[k - 1] + size]
  <1>1. b \in Blocks /\ b.size = size
    BY DEF Blocks
  <1>2. new = <<b>> \o list
    BY DEF insert_meta_data
  <1> HIDE DEF b, new
  <1>3. /\ new \in Seq(Blocks) /\ Len(new) = Len(list) + 1 /\ new[1] = b
        /\ \A k \in 2 .. Len(list) + 1 : new[k] = list[k - 1]
    BY <1>1, <1>2
  <1>4. /\ f \in [0 .. Len(list) -> Int] /\ f[0] = 0
        /\ \A k \in 1 .. Len(list) : f[k] = f[k - 1] + list[k].size
    BY SumsAre DEF Added
  <1> HIDE DEF f
  <1>5. Len(list) \in Nat
    OBVIOUS
  <1>6. ASSUME NEW k \in 1 .. Len(list) + 1 PROVE g[k] = g[k - 1] + new[k].size
    <2>1. CASE k = 1
      BY <1>1, <1>3, <1>4, <1>5, <2>1
    <2>2. CASE k # 1
      <3>1. /\ k - 1 \in 1 .. Len(list) /\ k \in 2 .. Len(list) + 1 /\ k \in Int
            /\ k - 1 \in 0 .. Len(list) /\ k - 2 \in 0 .. Len(list)
        BY <1>5, <2>2
      <3>2. g[k] = f[k - 1] + size /\ g[k - 1] = f[k - 2] + size
        BY <1>5, <3>1, <2>2
      <3>3. f[k - 1] = f[k - 2] + list[k - 1].size /\ new[k] = list[k - 1]
        BY <1>3, <1>4, <3>1
      <3>4. list[k - 1].size \in Int /\ f[k - 2] \in Int /\ f[k - 1] \in Int
        <4>1. list[k - 1] \in Blocks
          BY <3>1
        <4> QED
          BY <1>4, <3>1, <4>1 DEF Blocks
      <3> QED
        BY ONLY <3>2, <3>3, <3>4, size \in Int
    <2> QED
      BY <2>1, <2>2
  <1>7. g = [k \in 0 .. Len(list) + 1 |-> g[k]] /\ g[0] = 0
    BY <1>5
  <1>8. g[Len(list) + 1] = f[Len(list)] + size
    BY <1>5
  <1> HIDE DEF g
  <1>9. Added(new, Len(new), g)
    BY <1>3, <1>6, <1>7 DEF Added
  <1>10. Sums(new) = g
    BY <1>3, <1>9, SumsOf
  <1>11. Total(new) = Total(list) + size
    BY <1>3, <1>8, <1>10 DEF Total, f
  <1> QED
    BY <1>3, <1>11 DEF new

LEMMA Concatenated ==
  ASSUME NEW s \in Seq(Blocks), NEW t \in Seq(Blocks)
  PROVE  /\ s \o t \in Seq(Blocks) /\ Len(s \o t) = Len(s) + Len(t)
         /\ \A k \in 1 .. Len(s) : (s \o t)[k] = s[k]
         /\ \A k \in 1 .. Len(t) : (s \o t)[Len(s) + k] = t[k]
  OBVIOUS

LEMMA RemoveTakes ==
  ASSUME NEW list \in Seq(Blocks), NEW p \in 1 .. Len(list)
  PROVE  /\ RemoveAt(list, p) \in Seq(Blocks)
         /\ Total(RemoveAt(list, p)) = Total(list) - list[p].size
         /\ Len(RemoveAt(list, p)) = Len(list) - 1
         /\ \A k \in 1 .. Len(list) - 1 :
               RemoveAt(list, p)[k] = IF k < p THEN list[k] ELSE list[k + 1]
  <1> DEFINE size == list[p].size
             new == RemoveAt(list, p)
             f == Sums(list)
             g == [k \in 0 .. Len(list) - 1 |-> IF k < p THEN f[k] ELSE f[k + 1] - size]
  <1>1. Len(list) \in Nat /\ p \in Int /\ 1 <= p /\ p <= Len(list)
    OBVIOUS
  <1> DEFINE u == SubSeq(list, 1, p - 1)
             v == SubSeq(list, p + 1, Len(list))
  <1>2. new = u \o v
    BY DEF RemoveAt
  <1>3. u \in Seq(Blocks) /\ Len(u) = p - 1 /\ \A k \in 1 .. p - 1 : u[k] = list[k]
    BY <1>1
  <1>4. /\ v \in Seq(Blocks) /\ Len(v) = Len(list) - p
        /\ \A k \in 1 .. Len(list) - p : v[k] = list[k + p]
    BY <1>1
  <1> HIDE DEF new, u, v
  <1>5. /\ new \in Seq(Blocks) /\ Len(new) = Len(list) - 1
        /\ \A k \in 1 .. Len(list) - 1 : new[k] = IF k < p THEN list[k] ELSE list[k + 1]
    <2>1. /\ new \in Seq(Blocks) /\ Len(new) = Len(u) + Len(v)
          /\ \A k \in 1 .. Len(u) : new[k] = u[k]
          /\ \A k \in 1 .. Len(v) : new[Len(u) + k] = v[k]
      <3>1. u \in Seq(Blocks) /\ v \in Seq(Blocks)
        BY <1>3, <1>4
      <3>2. /\ u \o v \in Seq(Blocks) /\ Len(u \o v) = Len(u) + Len(v)
            /\ \A k \in 1 .. Len(u) : (u \o v)[k] = u[k]
            /\ \A k \in 1 .. Len(v) : (u \o v)[Len(u) + k] = v[k]
        BY ONLY <3>1, Concatenated
      <3> QED
        BY ONLY <1>2, <3>2
    <2>2. Len(new) = Len(list) - 1
      BY <1>1, <1>3, <1>4, <2>1
    <2>3. ASSUME NEW k \in 1 .. Len(list) - 1, k < p PROVE new[k] = list[k]
      <3>1. k \in 1 .. p - 1
        BY <1>1, <2>3
      <3> QED
        BY <1>3, <2>1, <3>1
    <2>4. ASSUME NEW k \in 1 .. Len(list) - 1, ~ k < p PROVE new[k] = list[k + 1]
      <3>1. /\ k - (p - 1) \in 1 .. Len(list) - p /\ (k - (p - 1)) + p = k + 1
            /\ (p - 1) + (k - (p - 1)) = k
        BY <1>1, <2>4
      <3>2. new[(p - 1) + (k - (p - 1))] = v[k - (p - 1)]
        BY <1>3, <1>4, <2>1, <3>1
      <3> QED
        BY <1>4, <3>1, <3>2
    <2> QED
      BY <2>1, <2>2, <2>3, <2>4
  <1>6. /\ f \in [0 .. Len(list) -> Int] /\ f[0] = 0
        /\ \A k \in 1 .. Len(list) : f[k] = f[k - 1] + list[k].size
    BY SumsAre DEF Added
  <1>7. \A k \in 1 .. Len(list) : list[k].size \in Int /\ f[k] \in Int /\ f[k - 1] \in Int
    <2>1. \A k \in 1 .. Len(list) : list[k] \in Blocks
      OBVIOUS
    <2> QED
      BY <1>1, <1>6, <2>1 DEF Blocks
  <1> HIDE DEF f
  <1>8. ASSUME NEW k \in 1 .. Len(list) - 1 PROVE g[k] = g[k - 1] + new[k].size
    <2>1. k \in 1 .. Len(list) /\ k + 1 \in 1 .. Len(list) /\ k \in 0 .. Len(list) - 1
          /\ k - 1 \in 0 .. Len(list) - 1 /\ k \in Int /\ (k + 1) - 1 = k /\ (k - 1) + 1 = k
      BY <1>1
    <2>2. CASE k < p
      <3>1. g[k] = f[k] /\ g[k - 1] = f[k - 1] /\ new[k] = list[k]
        BY <1>1, <1>5, <2>1, <2>2
      <3> QED
        BY <1>6, <2>1, <3>1
    <2>3. CASE k = p
      <3>1. g[k] = f[k + 1] - size /\ g[k - 1] = f[k - 1] /\ new[k] = list[k + 1]
        BY <1>1, <1>5, <2>1, <2>3
      <3>2. f[k] = f[k - 1] + size /\ f[k + 1] = f[k] + list[k + 1].size
        BY <1>6, <2>1, <2>3
      <3>3. size \in Int /\ list[k + 1].size \in Int /\ f[k] \in Int /\ f[k - 1] \in Int
        BY <1>7, <2>1, <2>3
      <3> HIDE DEF size, g
      <3> QED
        BY ONLY <3>1, <3>2, <3>3
    <2>4. CASE k > p
      <3>1. g[k] = f[k + 1] - size /\ g[k - 1] = f[k] - size /\ new[k] = list[k + 1]
        BY <1>1, <1>5, <2>1, <2>4
      <3>2. f[k + 1] = f[k] + list[k + 1].size
        BY <1>6, <2>1
      <3>3. size \in Int /\ list[k + 1].size \in Int /\ f[k] \in Int
        BY <1>7, <2>1
      <3> HIDE DEF size, g
      <3> QED
        BY ONLY <3>1, <3>2, <3>3
    <2> QED
      BY <1>1, <2>1, <2>2, <2>3, <2>4
  <1>9. g = [k \in 0 .. Len(list) - 1 |-> g[k]] /\ g[0] = 0
    BY <1>1, <1>6
  <1>10. g[Len(list) - 1] = f[Len(list)] - size
    <2>1. CASE p = Len(list)
      <3>1. g[Len(list) - 1] = f[Len(list) - 1]
        BY <1>1, <2>1
      <3>2. f[Len(list)] = f[Len(list) - 1] + size
        BY <1>1, <1>6, <2>1
      <3>3. size \in Int /\ f[Len(list) - 1] \in Int
        BY <1>1, <1>7, <2>1
      <3> HIDE DEF g, size
      <3> QED
        BY ONLY <3>1, <3>2, <3>3
    <2>2. CASE p # Len(list)
      BY <1>1, <2>2
    <2> QED
      BY <2>1, <2>2
  <1> HIDE DEF g, size
  <1>11. Added(new, Len(new), g)
    BY <1>5, <1>8, <1>9 DEF Added
  <1>12. Sums(new) = g
    BY <1>5, <1>11, SumsOf
  <1>13. Total(new) = Total(list) - size
    BY <1>5, <1>10, <1>12 DEF Total, f
  <1> QED
    BY <1>5, <1>13 DEF new, size

(* What the list and the totals are at every step. The list names no block  *)
(* twice, and while the program has not called realloc with NULL it holds   *)
(* exactly the blocks of the list.                                          *)
Ptrs(list) == {list[k].ptr : k \in 1 .. Len(list)}

WellListed(list) ==
    /\ list \in Seq(Blocks)
    /\ \A j, k \in 1 .. Len(list) : list[j].ptr = list[k].ptr => j = k

Held(list, h) ==
    /\ DOMAIN h = Ptrs(list)
    /\ \A k \in 1 .. Len(list) : h[list[k].ptr] = list[k].size

AccountsInv ==
    /\ WellListed(head)
    /\ total_usage \in Int /\ total_free \in Int
    /\ total_usage - total_free = Total(head)
    /\ ~dropped => bad_frees = wrong /\ Held(head, held)

LEMMA PlaceIs ==
  ASSUME NEW ptr \in Listed, WellListed(head)
  PROVE  /\ Place(ptr) \in 1 .. Len(head) /\ head[Place(ptr)].ptr = ptr
         /\ head[Place(ptr)] \in Blocks /\ head[Place(ptr)].size \in Int
  <1>1. DOMAIN head = 1 .. Len(head)
    BY DEF WellListed
  <1>2. PICK k \in 1 .. Len(head) : head[k].ptr = ptr
    BY <1>1 DEF Listed
  <1>3. Place(ptr) \in 1 .. Len(head) /\ head[Place(ptr)].ptr = ptr
    BY <1>1, <1>2 DEF Place
  <1>4. head[Place(ptr)] \in Blocks
    BY <1>3 DEF WellListed
  <1> QED
    BY <1>3, <1>4 DEF Blocks

LEMMA InsertKeeps ==
  ASSUME NEW list, WellListed(list), NEW ptr \in Addresses \ Ptrs(list), NEW size \in Int
  PROVE  /\ WellListed(insert_meta_data(list, ptr, size))
         /\ Total(insert_meta_data(list, ptr, size)) = Total(list) + size
         /\ \A h, g : /\ Held(list, h) /\ DOMAIN g = DOMAIN h \cup {ptr} /\ g[ptr] = size
                      /\ \A q \in DOMAIN h : g[q] = h[q]
                      => Held(insert_meta_data(list, ptr, size), g)
  <1> DEFINE new == insert_meta_data(list, ptr, size)
  <1>1. list \in Seq(Blocks) /\ Len(list) \in Nat
    BY DEF WellListed
  <1>2. new \in Seq(Blocks) /\ Total(new) = Total(list) + size /\ Len(new) = Len(list) + 1
    BY <1>1, InsertAdds
  <1>3. /\ new[1] = [ptr |-> ptr, size |-> size]
        /\ \A k \in 2 .. Len(list) + 1 : new[k] = list[k - 1]
    BY <1>1 DEF insert_meta_data
  <1> HIDE DEF new
  <1>4. new[1].ptr = ptr /\ new[1].size = size
    BY <1>3
  <1>5. \A k \in 2 .. Len(list) + 1 : k - 1 \in 1 .. Len(list) /\ new[k].ptr # ptr
    BY <1>1, <1>3 DEF Ptrs
  <1>6. WellListed(new)
    <2> SUFFICES ASSUME NEW j \in 1 .. Len(list) + 1, NEW k \in 1 .. Len(list) + 1,
                        new[j].ptr = new[k].ptr
                 PROVE  j = k
      BY <1>2 DEF WellListed
    <2>1. CASE j = 1 \/ k = 1
      BY <1>1, <1>4, <1>5, <2>1
    <2>2. CASE j # 1 /\ k # 1
      <3>1. /\ j \in 2 .. Len(list) + 1 /\ k \in 2 .. Len(list) + 1
            /\ j - 1 \in 1 .. Len(list) /\ k - 1 \in 1 .. Len(list)
        BY <1>1, <2>2
      <3>2. list[j - 1].ptr = list[k - 1].ptr
        BY <1>3, <3>1
      <3>3. j - 1 = k - 1
        BY <3>1, <3>2 DEF WellListed
      <3> QED
        BY <3>3
    <2> QED
      BY <2>1, <2>2
  <1>7. ASSUME NEW h, NEW g, Held(list, h), DOMAIN g = DOMAIN h \cup {ptr}, g[ptr] = size,
               \A q \in DOMAIN h : g[q] = h[q]
        PROVE  Held(new, g)
    <2>1. Ptrs(new) = Ptrs(list) \cup {ptr}
      <3>1. ASSUME NEW k \in 1 .. Len(list) + 1 PROVE new[k].ptr \in Ptrs(list) \cup {ptr}
        <4>1. CASE k = 1
          BY <1>4, <4>1
        <4>2. CASE k # 1
          <5>1. k \in 2 .. Len(list) + 1
            BY <1>1, <4>2
          <5> QED
            BY <1>3, <1>5, <5>1 DEF Ptrs
        <4> QED
          BY <4>1, <4>2
      <3>2. ASSUME NEW k \in 1 .. Len(list) PROVE list[k].ptr \in Ptrs(new)
        <4>1. k + 1 \in 2 .. Len(list) + 1 /\ k + 1 \in 1 .. Len(list) + 1 /\ (k + 1) - 1 = k
          BY <1>1
        <4>2. new[k + 1] = list[k]
          BY <1>3, <4>1
        <4> QED
          BY <1>2, <4>1, <4>2 DEF Ptrs
      <3>3. 1 \in 1 .. Len(list) + 1
        BY <1>1
      <3>4. ptr \in Ptrs(new)
        BY <1>2, <1>4, <3>3 DEF Ptrs
      <3> QED
        BY <1>2, <3>1, <3>2, <3>4 DEF Ptrs
    <2>2. ASSUME NEW k \in 1 .. Len(list) + 1 PROVE g[new[k].ptr] = new[k].size
      <3>1. CASE k = 1
        BY <1>4, <1>7, <3>1
      <3>2. CASE k # 1
        <4>1. k \in 2 .. Len(list) + 1 /\ k - 1 \in 1 .. Len(list) /\ new[k] = list[k - 1]
          BY <1>1, <1>3, <3>2
        <4>2. list[k - 1].ptr \in DOMAIN h /\ h[list[k - 1].ptr] = list[k - 1].size
          BY <1>7, <4>1 DEF Held, Ptrs
        <4> QED
          BY <1>7, <4>1, <4>2
      <3> QED
        BY <3>1, <3>2
    <2> QED
      BY <1>2, <1>7, <2>1, <2>2 DEF Held
  <1> QED
    BY <1>2, <1>6, <1>7 DEF new

LEMMA RemoveKeeps ==
  ASSUME NEW list, WellListed(list), NEW p \in 1 .. Len(list)
  PROVE  /\ WellListed(RemoveAt(list, p))
         /\ Total(RemoveAt(list, p)) = Total(list) - list[p].size
         /\ Ptrs(RemoveAt(list, p)) = Ptrs(list) \ {list[p].ptr}
         /\ \A h, g : /\ Held(list, h) /\ DOMAIN g = DOMAIN h \ {list[p].ptr}
                      /\ \A q \in DOMAIN g : g[q] = h[q]
                      => Held(RemoveAt(list, p), g)
  <1> DEFINE new == RemoveAt(list, p)
  <1>1. list \in Seq(Blocks) /\ Len(list) \in Nat /\ p \in Int /\ 1 <= p /\ p <= Len(list)
    BY DEF WellListed
  <1>2. /\ new \in Seq(Blocks) /\ Total(new) = Total(list) - list[p].size
        /\ Len(new) = Len(list) - 1
        /\ \A k \in 1 .. Len(list) - 1 : new[k] = IF k < p THEN list[k] ELSE list[k + 1]
    BY <1>1, RemoveTakes
  <1> HIDE DEF new
  <1> DEFINE from(k) == IF k < p THEN k ELSE k + 1
  <1>3. \A k \in 1 .. Len(list) - 1 :
           from(k) \in 1 .. Len(list) /\ from(k) # p /\ new[k] = list[from(k)]
    BY <1>1, <1>2
  <1>4. \A j, k \in 1 .. Len(list) - 1 : from(j) = from(k) => j = k
    BY <1>1
  <1>5. \A j \in 1 .. Len(list) : j # p => \E k \in 1 .. Len(list) - 1 : from(k) = j
    <2> SUFFICES ASSUME NEW j \in 1 .. Len(list), j # p
                 PROVE  \E k \in 1 .. Len(list) - 1 : from(k) = j
      OBVIOUS
    <2>1. CASE j < p
      <3>1. j \in 1 .. Len(list) - 1 /\ from(j) = j
        BY <1>1, <2>1
      <3> QED
        BY <3>1
    <2>2. CASE j > p
      <3>1. j - 1 \in 1 .. Len(list) - 1 /\ from(j - 1) = j
        BY <1>1, <2>2
      <3> QED
        BY <3>1
    <2> QED
      BY <1>1, <2>1, <2>2
  <1> HIDE DEF from
  <1>6. \A j, k \in 1 .. Len(list) : list[j].ptr = list[k].ptr => j = k
    BY DEF WellListed
  <1>7. WellListed(new)
    <2> SUFFICES ASSUME NEW j \in 1 .. Len(list) - 1, NEW k \in 1 .. Len(list) - 1,
                        new[j].ptr = new[k].ptr
                 PROVE  j = k
      BY <1>2 DEF WellListed
    <2>1. from(j) = from(k)
      BY <1>3, <1>6
    <2> QED
      BY <1>4, <2>1
  <1>8. Ptrs(new) = Ptrs(list) \ {list[p].ptr}
    <2>1. ASSUME NEW k \in 1 .. Len(list) - 1
          PROVE  new[k].ptr \in Ptrs(list) \ {list[p].ptr}
      BY <1>3, <1>6 DEF Ptrs
    <2>2. ASSUME NEW j \in 1 .. Len(list), list[j].ptr # list[p].ptr
          PROVE  list[j].ptr \in Ptrs(new)
      <3>1. PICK k \in 1 .. Len(list) - 1 : from(k) = j
        BY <1>5, <2>2
      <3>2. new[k] = list[j]
        BY <1>3, <3>1
      <3> QED
        BY <1>2, <3>2 DEF Ptrs
    <2>3. Ptrs(new) = {new[k].ptr : k \in 1 .. Len(list) - 1}
      BY <1>2 DEF Ptrs
    <2>4. Ptrs(list) = {list[j].ptr : j \in 1 .. Len(list)}
      BY DEF Ptrs
    <2> QED
      BY <2>1, <2>2, <2>3, <2>4
  <1>9. ASSUME NEW h, NEW g, Held(list, h), DOMAIN g = DOMAIN h \ {list[p].ptr},
               \A q \in DOMAIN g : g[q] = h[q]
        PROVE  Held(new, g)
    <2>1. DOMAIN g = Ptrs(new)
      BY <1>8, <1>9 DEF Held
    <2>2. ASSUME NEW k \in 1 .. Len(list) - 1 PROVE g[new[k].ptr] = new[k].size
      <3>1. from(k) \in 1 .. Len(list) /\ new[k] = list[from(k)]
        BY <1>3
      <3>2. h[list[from(k)].ptr] = list[from(k)].size
        BY <1>9, <3>1 DEF Held
      <3>3. new[k].ptr \in DOMAIN g
        BY <1>2, <2>1 DEF Ptrs
      <3> QED
        BY <1>9, <3>1, <3>2, <3>3
    <2> QED
      BY <1>2, <2>1, <2>2 DEF Held
  <1> QED
    BY <1>2, <1>7, <1>8, <1>9 DEF new

(* Each call keeps the accounts. *)
LEMMA MallocKeeps ==
  ASSUME AccountsInv, NEW size \in Int, NEW ptr \in Fresh({}),
         head' = insert_meta_data(head, ptr, size), total_usage' = total_usage + size,
         UNCHANGED <<total_free, bad_frees, wrong>>,
         dropped' = TRUE \/ (dropped' = dropped /\ held' = Holding(DOMAIN held, ptr, size))
  PROVE  AccountsInv'
  <1>1. WellListed(head) /\ ptr \in Addresses \ Ptrs(head)
    BY DEF AccountsInv, WellListed, Fresh, Listed, Ptrs
  <1>2. WellListed(head') /\ Total(head') = Total(head) + size
    BY <1>1, InsertKeeps
  <1>3. total_usage' - total_free' = Total(head')
    <2>1. /\ total_usage \in Int /\ total_free \in Int /\ size \in Int
          /\ total_usage - total_free = Total(head)
      BY DEF AccountsInv
    <2> QED
      BY ONLY <1>2, <2>1, total_usage' = total_usage + size, total_free' = total_free
  <1>4. ASSUME ~dropped' PROVE bad_frees' = wrong' /\ Held(head', held')
    <2>1. ~dropped /\ held' = Holding(DOMAIN held, ptr, size)
      BY <1>4
    <2>2. bad_frees = wrong /\ Held(head, held)
      BY <2>1 DEF AccountsInv
    <2>3. ptr \notin DOMAIN held
      BY <1>1, <2>2 DEF Held
    <2>4. /\ DOMAIN held' = DOMAIN held \cup {ptr} /\ held'[ptr] = size
          /\ \A q \in DOMAIN held : held'[q] = held[q]
      BY <2>1, <2>3 DEF Holding
    <2> QED
      BY <1>1, <2>2, <2>4, InsertKeeps
  <1>5. total_usage' \in Int /\ total_free' \in Int
    BY DEF AccountsInv
  <1> QED
    BY <1>2, <1>3, <1>4, <1>5 DEF AccountsInv, WellListed, Total, Held, Ptrs

LEMMA ReallocKeeps ==
  ASSUME AccountsInv, NEW size \in Int, NEW ptr, Realloc(ptr, size)
  PROVE  AccountsInv'
  <1> DEFINE k == Place(ptr)
             old == head[k].size
             rest == RemoveAt(head, k)
  <1>1. WellListed(head) /\ ptr \in Listed /\ Listed = Ptrs(head)
    BY DEF AccountsInv, Realloc, WellListed, Listed, Ptrs
  <1>2. k \in 1 .. Len(head) /\ head[k].ptr = ptr /\ old \in Int
    BY <1>1, PlaceIs
  <1>3. PICK new \in Fresh({ptr}) :
           /\ head' = insert_meta_data(rest, new, size)
           /\ held' = Holding(DOMAIN held \ {ptr}, new, size)
    BY DEF Realloc
  <1>4. /\ total_usage' = IF size > old THEN total_usage + size - old ELSE total_usage
        /\ total_free'  = IF size < old THEN total_free + old - size ELSE total_free
        /\ UNCHANGED <<bad_frees, wrong, dropped>>
    BY DEF Realloc
  <1> HIDE DEF k
  <1>5. /\ WellListed(rest) /\ Total(rest) = Total(head) - old
        /\ Ptrs(rest) = Ptrs(head) \ {ptr}
        /\ \A h, g : /\ Held(head, h) /\ DOMAIN g = DOMAIN h \ {ptr}
                     /\ \A q \in DOMAIN g : g[q] = h[q]
                     => Held(rest, g)
    BY <1>1, <1>2, RemoveKeeps
  <1> HIDE DEF rest
  <1>6. new \in Addresses \ Ptrs(rest)
    BY <1>1, <1>3, <1>5 DEF Fresh
  <1>7. /\ WellListed(head') /\ Total(head') = Total(rest) + size
        /\ \A h, g : /\ Held(rest, h) /\ DOMAIN g = DOMAIN h \cup {new} /\ g[new] = size
                     /\ \A q \in DOMAIN h : g[q] = h[q]
                     => Held(head', g)
    <2>1. WellListed(rest) /\ head' = insert_meta_data(rest, new, size)
      BY <1>3, <1>5
    <2> QED
      BY <1>6, <2>1, InsertKeeps
  <1> HIDE DEF old
  <1>8. /\ total_usage \in Int /\ total_free \in Int
        /\ total_usage - total_free = Total(head)
    BY DEF AccountsInv
  <1>9. /\ total_usage' \in Int /\ total_free' \in Int
        /\ total_usage' - total_free' = Total(head')
    BY ONLY <1>2, <1>4, <1>5, <1>7, <1>8, size \in Int
  <1>10. ASSUME ~dropped' PROVE bad_frees' = wrong' /\ Held(head', held')
    <2>1. bad_frees = wrong /\ Held(head, held)
      BY <1>4, <1>10 DEF AccountsInv
    <2> DEFINE h == [q \in DOMAIN held \ {ptr} |-> held[q]]
    <2>2. Held(rest, h)
      <3>1. DOMAIN h = DOMAIN held \ {ptr} /\ \A q \in DOMAIN h : h[q] = held[q]
        OBVIOUS
      <3> HIDE DEF h
      <3> QED
        BY <1>5, <2>1, <3>1
    <2>3. new \notin DOMAIN h
      BY <1>6, <2>2 DEF Held
    <2>4. DOMAIN h = DOMAIN held \ {ptr}
      OBVIOUS
    <2>5. /\ DOMAIN held' = DOMAIN h \cup {new} /\ held'[new] = size
          /\ \A q \in DOMAIN h : held'[q] = h[q]
      BY <1>3, <2>3, <2>4 DEF Holding
    <2> HIDE DEF h
    <2> QED
      BY <1>4, <1>7, <2>1, <2>2, <2>5
  <1> QED
    BY <1>7, <1>9, <1>10 DEF AccountsInv, WellListed, Total, Held, Ptrs

LEMMA FreeKeeps ==
  ASSUME AccountsInv, NEW ptr, mini_free(ptr)
  PROVE  AccountsInv'
  <1>1. WellListed(head) /\ Listed = Ptrs(head)
    BY DEF AccountsInv, WellListed, Listed, Ptrs
  <1>2. UNCHANGED <<total_usage, dropped>>
    BY DEF mini_free
  <1>3. CASE ptr \in Listed
    <2> DEFINE k == Place(ptr)
               size == head[k].size
    <2>1. k \in 1 .. Len(head) /\ head[k].ptr = ptr /\ size \in Int
      BY <1>1, <1>3, PlaceIs
    <2>2. total_free' = total_free + size /\ head' = RemoveAt(head, k) /\ UNCHANGED bad_frees
      BY <1>3 DEF mini_free, remove_meta_data
    <2> HIDE DEF k
    <2>3. /\ WellListed(head') /\ Total(head') = Total(head) - size
          /\ \A h, g : /\ Held(head, h) /\ DOMAIN g = DOMAIN h \ {ptr}
                       /\ \A q \in DOMAIN g : g[q] = h[q]
                       => Held(head', g)
      BY <1>1, <2>1, <2>2, RemoveKeeps
    <2> HIDE DEF size
    <2>4. /\ total_usage \in Int /\ total_free \in Int
          /\ total_usage - total_free = Total(head)
      BY DEF AccountsInv
    <2>5. /\ total_usage' \in Int /\ total_free' \in Int
          /\ total_usage' - total_free' = Total(head')
      BY ONLY <1>2, <2>1, <2>2, <2>3, <2>4
    <2>6. ASSUME ~dropped' PROVE bad_frees' = wrong' /\ Held(head', held')
      <3>1. bad_frees = wrong /\ Held(head, held)
        BY <1>2, <2>6 DEF AccountsInv
      <3>2. ptr \in DOMAIN held
        BY <1>1, <1>3, <3>1 DEF Held
      <3>3. held' = [q \in DOMAIN held \ {ptr} |-> held[q]] /\ UNCHANGED wrong
        BY <3>2 DEF mini_free
      <3>4. /\ DOMAIN held' = DOMAIN held \ {ptr}
            /\ \A q \in DOMAIN held' : held'[q] = held[q]
        BY <3>3
      <3> QED
        BY <2>2, <2>3, <3>1, <3>3, <3>4
    <2> QED
      BY <2>3, <2>5, <2>6 DEF AccountsInv, WellListed, Total, Held, Ptrs
  <1>4. CASE ptr \notin Listed
    <2>1. bad_frees' = bad_frees + 1 /\ UNCHANGED <<head, total_free>>
      BY <1>4 DEF mini_free, remove_meta_data
    <2>2. ASSUME ~dropped' PROVE bad_frees' = wrong' /\ Held(head', held')
      <3>1. bad_frees = wrong /\ Held(head, held)
        BY <1>2, <2>2 DEF AccountsInv
      <3>2. wrong' = wrong + 1 /\ UNCHANGED held
        BY <1>1, <1>4, <3>1 DEF mini_free, Held
      <3> QED
        BY <2>1, <3>1, <3>2
    <2> QED
      BY <1>2, <2>1, <2>2 DEF AccountsInv
  <1> QED
    BY <1>3, <1>4

LEMMA StepKeepsAccountsInv ==
  ASSUME AccountsInv, AccountsStep \/ UNCHANGED accounts
  PROVE  AccountsInv'
  <1>1. CASE UNCHANGED accounts
    BY <1>1 DEF AccountsInv, accounts
  <1>2. ASSUME NEW size \in BlockSizes, mini_malloc(size) \/ ReallocNull(size)
        PROVE  AccountsInv'
    <2>1. size \in Int
      BY BlockSizesAssumption
    <2>2. CASE mini_malloc(size)
      <3>1. PICK ptr \in Fresh({}) :
               /\ head' = insert_meta_data(head, ptr, size)
               /\ total_usage' = total_usage + size
               /\ held' = Holding(DOMAIN held, ptr, size)
               /\ UNCHANGED <<total_free, bad_frees, wrong, dropped>>
        BY <2>2 DEF mini_malloc
      <3> QED
        BY <2>1, <3>1, MallocKeeps
    <2>3. CASE ReallocNull(size)
      <3>1. PICK ptr \in Fresh({}) :
               /\ head' = insert_meta_data(head, ptr, size)
               /\ total_usage' = total_usage + size
               /\ dropped' = TRUE
               /\ UNCHANGED <<total_free, bad_frees, held, wrong, memory>>
        BY <2>3 DEF ReallocNull
      <3>2. dropped' = TRUE \/ (dropped' = dropped /\ held' = Holding(DOMAIN held, ptr, size))
        BY <3>1
      <3>3. UNCHANGED <<total_free, bad_frees, wrong>>
        BY <3>1
      <3> QED
        BY <2>1, <3>1, <3>2, <3>3, MallocKeeps
    <2> QED
      BY <1>2, <2>2, <2>3
  <1>3. ASSUME NEW size \in BlockSizes, NEW ptr, mini_realloc(ptr, size)
        PROVE  AccountsInv'
    <2>1. CASE Realloc(ptr, size)
      <3>1. size \in Int
        BY BlockSizesAssumption
      <3> QED
        BY <2>1, <3>1, ReallocKeeps
    <2>2. CASE ReallocFails(ptr, size)
      BY <2>2 DEF ReallocFails, AccountsInv
    <2> QED
      BY <1>3, <2>1, <2>2 DEF mini_realloc
  <1>4. ASSUME NEW ptr, mini_free(ptr) PROVE AccountsInv'
    BY <1>4, FreeKeeps
  <1>5. CASE Report
    BY <1>5 DEF Report, AccountsInv
  <1> QED
    BY <1>1, <1>2, <1>3, <1>4, <1>5 DEF AccountsStep

LEMMA InitAccountsInv ==
  ASSUME AccountsInit
  PROVE  AccountsInv
  <1>1. head = << >> /\ << >> \in Seq(Blocks) /\ Len(<< >>) = 0
    BY DEF AccountsInit
  <1>2. Sums(<< >>)[0] = 0
    BY <1>1, SumsAre DEF Added
  <1>3. WellListed(head) /\ Total(head) = 0
    BY <1>1, <1>2 DEF WellListed, Total
  <1>4. Held(head, held)
    BY <1>1 DEF AccountsInit, Held, Ptrs
  <1> QED
    BY <1>3, <1>4 DEF AccountsInit, AccountsInv

LEMMA AccountsInvMeans ==
  ASSUME AccountsInv
  PROVE  AccountsTrue
  <1>1. WellListed(head) /\ DOMAIN head = 1 .. Len(head) /\ Len(head) \in Nat
        /\ Listed = Ptrs(head)
    BY DEF AccountsInv, WellListed, Listed, Ptrs
  <1>2. Len(head) = Cardinality(Listed)
    <2> DEFINE f == [k \in 1 .. Len(head) |-> head[k].ptr]
    <2>1. f \in Bijection(1 .. Len(head), Ptrs(head))
      <3>1. f \in [1 .. Len(head) -> Ptrs(head)]
        BY DEF Ptrs
      <3>2. \A a, b \in 1 .. Len(head) : f[a] = f[b] => a = b
        BY <1>1 DEF WellListed
      <3>3. \A q \in Ptrs(head) : \E a \in 1 .. Len(head) : f[a] = q
        BY DEF Ptrs
      <3> HIDE DEF f
      <3>4. f \in Injection(1 .. Len(head), Ptrs(head))
        BY <3>1, <3>2 DEF Injection, IsInjective
      <3>5. f \in Surjection(1 .. Len(head), Ptrs(head))
        BY <3>1, <3>3 DEF Surjection
      <3> QED
        BY <3>4, <3>5 DEF Bijection
    <2>2. ExistsBijection(1 .. Len(head), Listed)
      BY <1>1, <2>1 DEF ExistsBijection
    <2> QED
      BY <1>1, <2>2, FS_CountingElements
  <1>3. ASSUME ~dropped
        PROVE  /\ bad_frees = wrong /\ Listed = DOMAIN held
               /\ \A p \in Listed : held[p] = head[Place(p)].size
    <2>1. bad_frees = wrong /\ Held(head, held)
      BY <1>3 DEF AccountsInv
    <2>2. ASSUME NEW p \in Listed PROVE held[p] = head[Place(p)].size
      <3>1. Place(p) \in 1 .. Len(head) /\ head[Place(p)].ptr = p
        BY <1>1, PlaceIs
      <3> QED
        BY <2>1, <3>1 DEF Held
    <2> QED
      BY <1>1, <2>1, <2>2 DEF Held
  <1> QED
    BY <1>2, <1>3 DEF AccountsTrue, AccountsInv, Total

-----------------------------------------------------------------------------
(* The programs together: one of them runs, and the others stay at their start. *)
ProgramsInv ==
    /\ IF program = "brutus" THEN JournalInv ELSE outputfile = << >>
    /\ CountInv
    /\ LookupInv
    /\ AccountsInv

LEMMA LookupInitInv == LookupInit => LookupInv
  <1> SUFFICES ASSUME LookupInit PROVE LookupInv
    OBVIOUS
  <1>0. PICK S \in (SUBSET Words) \ {{}} :
           \E ws \in SetToSeqs(S), n \in 1 .. MaxLookups :
              \E asked \in [1 .. n -> Words] : LookUp(ws, asked)
    BY DEF LookupInit
  <1>1. PICK ws \in SetToSeqs(S), n \in 1 .. MaxLookups :
           \E asked \in [1 .. n -> Words] : LookUp(ws, asked)
    BY <1>0
  <1>2. S # {} /\ S \subseteq Int /\ IsFiniteSet(S)
    <2>1. S # {} /\ S \subseteq Words
      OBVIOUS
    <2>2. IsFiniteSet(S)
      BY <2>1, WordsAssumption, FS_Subset
    <2> QED
      BY <2>1, <2>2, WordsAssumption
  <1>3. Cardinality(S) \in Nat \ {0}
    BY <1>2, FS_CardinalityType, FS_EmptySet
  <1>4. ws \in [1 .. Cardinality(S) -> S]
    BY DEF SetToSeqs
  <1>5. ws \in Seq(Int) /\ ws # << >>
    <2>1. PICK c \in Nat : c # 0 /\ ws \in [1 .. c -> S]
      BY <1>3, <1>4
    <2>2. ws \in [1 .. c -> Int]
      BY <1>2, <2>1
    <2>3. ws \in Seq(Int) /\ Len(ws) = c
      BY <2>1, <2>2
    <2> QED
      BY <2>1, <2>3
  <1>6. PICK asked \in [1 .. n -> Words] : LookUp(ws, asked)
    BY <1>1
  <1>7. asked \in Seq(Int)
    <2>1. n \in Nat
      BY WordsAssumption
    <2>2. Words \subseteq Int
      BY WordsAssumption
    <2>3. asked \in [1 .. n -> Int]
      BY <2>2
    <2> QED
      BY <2>1, <2>3
  <1> QED
    BY <1>5, <1>6, <1>7, InitLookupInv

LEMMA InitProgramsInv == Init => ProgramsInv
  <1> SUFFICES ASSUME Init PROVE ProgramsInv
    OBVIOUS
  <1>1. IF program = "brutus" THEN JournalInv ELSE outputfile = << >>
    BY InitJournalInv DEF Init, Journal
  <1>2. CountInv
    <2>1. CASE CountInit
      BY <2>1, CountAssumption, InitCountInv DEF CountInit
    <2>2. CASE Count(1, 1, 1)
      <3>1. 1 \in Int /\ 1 \in Nat \ {0} /\ 1 <= 1
        OBVIOUS
      <3> QED
        BY <2>2, <3>1, InitCountInv
    <2> QED
      BY <2>1, <2>2 DEF Init
  <1>3. LookupInv
    <2>1. <<1>> \in Seq(Int) /\ <<1>> # << >>
      OBVIOUS
    <2> QED
      BY <2>1, LookupInitInv, InitLookupInv DEF Init
  <1>4. AccountsInv
    BY InitAccountsInv DEF Init
  <1> QED
    BY <1>1, <1>2, <1>3, <1>4 DEF ProgramsInv

LEMMA StepKeepsProgramsInv ==
  ASSUME ProgramsInv, [Next]_all
  PROVE  ProgramsInv'
  <1>1. IF program' = "brutus" THEN JournalInv' ELSE outputfile' = << >>
    <2>1. CASE UNCHANGED <<program, journal>>
      <3>1. JournalInv => JournalInv'
        BY <2>1, StepKeepsJournalInv
      <3> QED
        BY <2>1, <3>1 DEF ProgramsInv, journal
    <2>2. CASE ParentRuns \/ \E j \in 1 .. lineNum : ChildRuns(j)
      <3>1. program = "brutus" /\ program' = program
        BY <2>2 DEF ParentRuns, ChildRuns
      <3>2. [Parent \/ \E j \in 1 .. lineNum : Decrypt(j)]_journal
        BY <2>2 DEF ParentRuns, ChildRuns
      <3> QED
        BY <3>1, <3>2, StepKeepsJournalInv DEF ProgramsInv
    <2> QED
      BY <2>1, <2>2 DEF Next, all, CounterRuns, BlocksChange, NodeVisited
  <1>2. CountInv'
    <2>1. CountStep \/ UNCHANGED counting
      BY DEF Next, all, ParentRuns, ChildRuns, CounterRuns, BlocksChange, NodeVisited
    <2> QED
      BY <2>1, StepKeepsCountInv DEF ProgramsInv
  <1>3. LookupInv'
    <2>1. Visit \/ UNCHANGED lookups
      BY DEF Next, all, ParentRuns, ChildRuns, CounterRuns, BlocksChange, NodeVisited
    <2>2. UNCHANGED lookups /\ LookupInv => LookupInv'
      BY DEF lookups, LookupInv, SearchOf, LookupsRight
    <2> QED
      BY <2>1, <2>2, VisitKeepsLookupInv DEF ProgramsInv
  <1>4. AccountsInv'
    <2>1. AccountsStep \/ UNCHANGED accounts
      BY DEF Next, all, ParentRuns, ChildRuns, CounterRuns, BlocksChange, NodeVisited
    <2> QED
      BY <2>1, StepKeepsAccountsInv DEF ProgramsInv
  <1> QED
    BY <1>1, <1>2, <1>3, <1>4 DEF ProgramsInv

THEOREM Invariance == FairSpec => []ProgramsInv
  BY InitProgramsInv, StepKeepsProgramsInv, PTL DEF FairSpec

(* What main prints is the number of primes, whatever the interval and the    *)
(* number of threads, when the parts fit the interval and no store undid      *)
(* another (count_primes.c:36); if one did, it is never too large.            *)
THEOREM PrimesAreCounted == FairSpec => []CountRight
  BY Invariance, CountInvMeans, PTL DEF ProgramsInv

(* A word is found if and only if the file holds it, for every set of words   *)
(* and every order in which the tree was built.                               *)
THEOREM WordsAreFound == FairSpec => []LookupsRight
  <1>1. ProgramsInv => LookupsRight
    BY DEF ProgramsInv, LookupInv
  <1> QED
    BY <1>1, Invariance, PTL

(* The report of what leaked is right after any sequence of calls, for every  *)
(* memory and every size of a block.                                          *)
THEOREM AccountsAddUp == FairSpec => []AccountsTrue
  <1>1. ProgramsInv => AccountsTrue
    BY AccountsInvMeans DEF ProgramsInv
  <1> QED
    BY <1>1, Invariance, PTL
===============================================================================
