----------------------------- MODULE VectorProofs -----------------------------
(***************************************************************************)
(* The vector and the document, for any initial capacity, values and       *)
(* bounds.                                                                 *)
(***************************************************************************)
EXTENDS Document, SequenceTheorems, WellFoundedInduction, TLAPS

(* A set of numbers has a least one, and Min finds it. *)
LEMMA Least ==
  ASSUME NEW S, S \subseteq Nat, S # {}
  PROVE  Min(S) \in S /\ \A y \in S : Min(S) <= y
  <1>1. PICK x \in S : \A y \in S : <<y, x>> \notin OpToRel(<, Nat)
    BY NatLessThanWellFounded, WFMin
  <1>2. ASSUME NEW y \in S
        PROVE  x <= y
    <2>1. x \in Nat /\ y \in Nat
      OBVIOUS
    <2>2. ~ (y < x)
      BY <1>1, <2>1 DEF OpToRel
    <2> QED
      BY <2>1, <2>2
  <1> QED
    BY <1>2 DEF Min

(* And a bounded one has a greatest. *)
LEMMA Greatest ==
  ASSUME NEW S, NEW m \in Nat, S \subseteq 0 .. m, S # {}
  PROVE  Max(S) \in S /\ \A y \in S : Max(S) >= y
  <1> DEFINE T == {m - y : y \in S}
  <1>1. T \subseteq Nat /\ T # {}
    <2>1. \A y \in S : y \in 0 .. m
      OBVIOUS
    <2>2. \A y \in S : m - y \in Nat
      BY <2>1
    <2> QED
      BY <2>2
  <1>2. Min(T) \in T /\ \A d \in T : Min(T) <= d
    <2> HIDE DEF T
    <2> QED
      BY <1>1, Least
  <1>3. PICK x \in S : Min(T) = m - x
    BY <1>2
  <1>4. \A y \in S : x >= y
    <2> SUFFICES ASSUME NEW y \in S PROVE x >= y
      OBVIOUS
    <2>1. m - y \in T /\ m - x <= m - y
      BY <1>2, <1>3
    <2> QED
      BY <2>1
  <1> QED
    BY <1>4 DEF Max

-----------------------------------------------------------------------------
(* Powers of two. pow2 exists because each of its finite beginnings does and *)
(* any two of them agree.                                                    *)

Beginnings(n) ==
    {g \in [0 .. n -> Nat] : g[0] = 1 /\ \A k \in 1 .. n : g[k] = 2 * g[k - 1]}

LEMMA BeginningExists ==
  ASSUME NEW n \in Nat
  PROVE  Beginnings(n) # {}
  <1> DEFINE Wrong == {k \in Nat : Beginnings(k) = {}}
  <1> SUFFICES ASSUME Wrong # {} PROVE FALSE
    OBVIOUS
  <1>1. Min(Wrong) \in Wrong /\ \A k \in Wrong : Min(Wrong) <= k
    <2>1. Wrong \subseteq Nat
      OBVIOUS
    <2> HIDE DEF Wrong
    <2> QED
      BY <2>1, Least
  <1>2. PICK m \in Nat : Beginnings(m) = {} /\ \A k \in Wrong : m <= k
    BY <1>1
  <1>3. CASE m = 0
    <2>1. [k \in 0 .. 0 |-> 1] \in Beginnings(0)
      BY DEF Beginnings
    <2> QED
      BY <1>2, <1>3, <2>1
  <1>4. CASE m > 0
    <2>1. m - 1 \in Nat /\ Beginnings(m - 1) # {}
      BY <1>2, <1>4
    <2>2. PICK g \in [0 .. m - 1 -> Nat] : g[0] = 1 /\ \A k \in 1 .. m - 1 : g[k] = 2 * g[k - 1]
      BY <2>1 DEF Beginnings
    <2>3. PICK h : h = [k \in 0 .. m |-> IF k < m THEN g[k] ELSE 2 * g[m - 1]]
      OBVIOUS
    <2>4. h \in [0 .. m -> Nat] /\ h[0] = 1
      BY <1>4, <2>2, <2>3
    <2>5. \A k \in 1 .. m : h[k] = 2 * h[k - 1]
      BY <1>4, <2>2, <2>3
    <2> QED
      BY <1>2, <2>4, <2>5 DEF Beginnings
  <1> QED
    BY <1>3, <1>4

LEMMA BeginningsAgree ==
  ASSUME NEW m \in Nat, NEW n \in Nat, NEW g \in Beginnings(m), NEW h \in Beginnings(n),
         NEW k \in 0 .. m, k <= n
  PROVE  g[k] = h[k]
  <1> DEFINE Wrong == {j \in 0 .. m : j <= n /\ g[j] # h[j]}
  <1> SUFFICES ASSUME Wrong # {} PROVE FALSE
    OBVIOUS
  <1>1. Min(Wrong) \in Wrong /\ \A j \in Wrong : Min(Wrong) <= j
    <2>1. Wrong \subseteq Nat
      OBVIOUS
    <2> HIDE DEF Wrong
    <2> QED
      BY <2>1, Least
  <1>2. PICK j \in 0 .. m : j <= n /\ g[j] # h[j] /\ \A i \in Wrong : j <= i
    BY <1>1
  <1>3. j # 0
    BY <1>2 DEF Beginnings
  <1>4. j - 1 \in 0 .. m /\ j - 1 <= n /\ g[j - 1] = h[j - 1]
    BY <1>2, <1>3
  <1>5. g[j] = 2 * g[j - 1] /\ h[j] = 2 * h[j - 1]
    BY <1>2, <1>3 DEF Beginnings
  <1> QED
    BY <1>2, <1>4, <1>5

LEMMA pow2Unfolds == pow2 = [k \in Nat |-> IF k = 0 THEN 1 ELSE 2 * pow2[k - 1]]
  <1> DEFINE B(k) == CHOOSE g : g \in Beginnings(k)
             f == [k \in Nat |-> B(k)[k]]
             Unfolded(g) == [k \in Nat |-> IF k = 0 THEN 1 ELSE 2 * g[k - 1]]
  <1>1. \A k \in Nat : B(k) \in Beginnings(k)
    BY BeginningExists
  <1>2. ASSUME NEW k \in Nat
        PROVE  f[k] = Unfolded(f)[k]
    <2>1. CASE k = 0
      BY <1>1, <2>1 DEF Beginnings
    <2>2. CASE k > 0
      <3>1. k - 1 \in Nat /\ B(k) \in Beginnings(k) /\ B(k - 1) \in Beginnings(k - 1)
        BY <1>1, <2>2
      <3>2. B(k)[k] = 2 * B(k)[k - 1]
        <4> HIDE DEF B
        <4> QED
          BY <2>2, <3>1 DEF Beginnings
      <3>3. B(k)[k - 1] = B(k - 1)[k - 1]
        <4> HIDE DEF B
        <4> QED
          BY <3>1, BeginningsAgree
      <3>4. f[k] = B(k)[k] /\ f[k - 1] = B(k - 1)[k - 1]
        BY <3>1
      <3> HIDE DEF B, f
      <3> QED
        BY <2>2, <3>2, <3>3, <3>4
    <2> QED
      BY <2>1, <2>2
  <1>3. f = Unfolded(f)
    <2> HIDE DEF B
    <2> QED
      BY <1>2
  <1>4. \E g : g = Unfolded(g)
    BY <1>3
  <1>5. pow2 = CHOOSE g : g = Unfolded(g)
    BY DEF pow2
  <1> QED
    BY <1>4, <1>5

LEMMA pow2Step ==
  /\ pow2[0] = 1
  /\ \A k \in Nat \ {0} : pow2[k] = 2 * pow2[k - 1]
  BY pow2Unfolds

LEMMA pow2Type ==
  ASSUME NEW n \in Nat
  PROVE  pow2[n] \in Nat /\ pow2[n] > n
  <1> DEFINE Wrong == {k \in Nat : ~ (pow2[k] \in Nat /\ pow2[k] > k)}
  <1> SUFFICES ASSUME Wrong # {} PROVE FALSE
    OBVIOUS
  <1>1. Min(Wrong) \in Wrong /\ \A k \in Wrong : Min(Wrong) <= k
    <2>1. Wrong \subseteq Nat
      OBVIOUS
    <2> HIDE DEF Wrong
    <2> QED
      BY <2>1, Least
  <1>2. PICK m \in Nat : ~ (pow2[m] \in Nat /\ pow2[m] > m) /\ \A k \in Wrong : m <= k
    BY <1>1
  <1>3. m # 0
    BY <1>2, pow2Step
  <1>4. m - 1 \in Nat /\ pow2[m - 1] \in Nat /\ pow2[m - 1] > m - 1
    BY <1>2, <1>3
  <1>5. pow2[m] = 2 * pow2[m - 1]
    BY <1>3, pow2Step
  <1> QED
    BY <1>2, <1>4, <1>5

LEMMA pow2Sum ==
  ASSUME NEW a \in Nat, NEW b \in Nat
  PROVE  pow2[a + b] = pow2[a] * pow2[b]
  <1> DEFINE Wrong == {k \in Nat : pow2[a + k] # pow2[a] * pow2[k]}
  <1> SUFFICES ASSUME Wrong # {} PROVE FALSE
    OBVIOUS
  <1>1. Min(Wrong) \in Wrong /\ \A k \in Wrong : Min(Wrong) <= k
    <2>1. Wrong \subseteq Nat
      OBVIOUS
    <2> HIDE DEF Wrong
    <2> QED
      BY <2>1, Least
  <1>2. PICK m \in Nat : pow2[a + m] # pow2[a] * pow2[m] /\ \A k \in Wrong : m <= k
    BY <1>1
  <1>3. m # 0
    BY <1>2, pow2Step, pow2Type
  <1>4. m - 1 \in Nat /\ a + (m - 1) \in Nat /\ pow2[a + (m - 1)] = pow2[a] * pow2[m - 1]
    BY <1>2, <1>3
  <1>5. pow2[a + m] = 2 * pow2[a + (m - 1)]
    <2>1. a + m \in Nat \ {0} /\ (a + m) - 1 = a + (m - 1)
      BY <1>3
    <2>2. pow2[a + m] = 2 * pow2[(a + m) - 1]
      BY <2>1, pow2Step
    <2> QED
      BY <2>1, <2>2
  <1>6. pow2[m] = 2 * pow2[m - 1]
    BY <1>3, pow2Step
  <1>7. pow2[a] \in Nat /\ pow2[m - 1] \in Nat
    BY <1>4, pow2Type
  <1> QED
    BY <1>2, <1>4, <1>5, <1>6, <1>7

-----------------------------------------------------------------------------
(* The capacities that Vector_resize chooses *)

Capacity(c) == \E k \in Nat : c = INITIAL_CAPACITY * pow2[k]

LEMMA CapacityType ==
  ASSUME NEW k \in Nat, NEW c, c = INITIAL_CAPACITY * pow2[k]
  PROVE  c \in Nat /\ c > k /\ c >= INITIAL_CAPACITY
  <1>1. pow2[k] \in Nat /\ pow2[k] > k
    BY pow2Type
  <1>2. INITIAL_CAPACITY \in Nat /\ INITIAL_CAPACITY >= 1
    BY InitialCapacityAssumption
  <1>3. \A a, b \in Nat : a >= 1 /\ b >= 1 => a * b \in Nat /\ a * b >= a /\ a * b >= b
    OBVIOUS
  <1> QED
    BY <1>1, <1>2, <1>3

(* The array that grows is large enough, and no more than twice too large. *)
LEMMA DoubledIs ==
  ASSUME Capacity(capacity), NEW n \in Nat, n > capacity
  PROVE  Capacity(Doubled(n)) /\ Doubled(n) >= n /\ Doubled(n) <= 2 * n
  <1>1. PICK K \in Nat : capacity = INITIAL_CAPACITY * pow2[K]
    BY DEF Capacity
  <1>2. capacity \in Nat /\ capacity >= 1
    BY <1>1, CapacityType, InitialCapacityAssumption
  <1> DEFINE S == {capacity * pow2[k] : k \in 0 .. n} \ (0 .. n - 1)
  <1>3. \A k \in 0 .. n : capacity * pow2[k] \in Nat /\ pow2[k] \in Nat
    BY <1>2, pow2Type
  <1>4. capacity * pow2[n] > n
    <2>1. pow2[n] \in Nat /\ pow2[n] > n
      BY pow2Type
    <2> QED
      BY <1>2, <2>1
  <1>5. S \subseteq Nat
    BY <1>3
  <1>6. capacity * pow2[n] \in S
    BY <1>4
  <1>7. Min(S) \in S /\ \A y \in S : Min(S) <= y
    <2> HIDE DEF S
    <2> QED
      BY <1>5, <1>6, Least
  <1>8. PICK k \in 0 .. n : Min(S) = capacity * pow2[k] /\ Min(S) >= n
    BY <1>3, <1>7
  <1>9. k # 0
    BY <1>2, <1>8, pow2Step
  <1>10. pow2[k] = 2 * pow2[k - 1] /\ k - 1 \in 0 .. n
    BY <1>9, pow2Step
  <1>11. Min(S) = 2 * (capacity * pow2[k - 1])
    BY <1>2, <1>3, <1>8, <1>10
  <1>12. capacity * pow2[k - 1] < n
    <2> SUFFICES ASSUME capacity * pow2[k - 1] >= n PROVE FALSE
      BY <1>3, <1>10
    <2>1. capacity * pow2[k - 1] \in S
      BY <1>3, <1>10
    <2>2. Min(S) <= capacity * pow2[k - 1]
      BY <1>7, <2>1
    <2> HIDE DEF S
    <2> QED
      BY <1>2, <1>3, <1>10, <1>11, <2>2
  <1>13. Doubled(n) = Min(S)
    BY DEF Doubled
  <1>14. Min(S) = INITIAL_CAPACITY * pow2[K + k]
    <2> HIDE DEF S
    <2>1. pow2[K + k] = pow2[K] * pow2[k]
      BY ONLY K \in Nat, k \in 0 .. n, n \in Nat, pow2Sum
    <2>2. pow2[K] \in Nat /\ pow2[k] \in Nat
      BY <1>3, pow2Type
    <2> QED
      BY <1>1, <1>8, <2>1, <2>2, InitialCapacityAssumption
  <1> HIDE DEF S
  <1> QED
    BY <1>3, <1>8, <1>10, <1>11, <1>12, <1>13, <1>14 DEF Capacity

LEMMA DivideProduct ==
  ASSUME NEW a \in Nat, NEW p \in Nat \ {0}
  PROVE  (a * p) \div p = a
  OBVIOUS

LEMMA DivideSmaller ==
  ASSUME NEW a \in Nat, NEW b \in Nat, NEW p \in Nat \ {0}, a < b * p
  PROVE  a \div p \in Nat /\ a \div p < b
  OBVIOUS

(* A capacity divided by a power of two is a capacity, or below the initial one. *)
LEMMA Shifted ==
  ASSUME NEW K \in Nat, NEW k \in Nat, NEW c, c = INITIAL_CAPACITY * pow2[K]
  PROVE  /\ c \div pow2[k] \in Nat
         /\ k <= K => c \div pow2[k] = INITIAL_CAPACITY * pow2[K - k]
         /\ k > K => c \div pow2[k] < INITIAL_CAPACITY
  <1>1. CASE k <= K
    <2>1. K - k \in Nat /\ K = (K - k) + k
      BY <1>1
    <2>2. pow2[K] = pow2[K - k] * pow2[k]
      BY <2>1, pow2Sum
    <2>3. pow2[K - k] \in Nat /\ pow2[k] \in Nat \ {0} /\ INITIAL_CAPACITY * pow2[K - k] \in Nat
      BY <2>1, pow2Type, InitialCapacityAssumption
    <2>4. c = (INITIAL_CAPACITY * pow2[K - k]) * pow2[k]
      BY <2>2, <2>3, InitialCapacityAssumption
    <2>5. c \div pow2[k] = INITIAL_CAPACITY * pow2[K - k]
      BY <2>3, <2>4, DivideProduct
    <2> QED
      BY <1>1, <2>3, <2>5
  <1>2. CASE k > K
    <2>1. k - K \in Nat \ {0} /\ k = K + (k - K)
      BY <1>2
    <2>2. pow2[k] = pow2[K] * pow2[k - K]
      BY <2>1, pow2Sum
    <2>3. pow2[K] \in Nat \ {0} /\ pow2[k - K] \in Nat /\ pow2[k - K] >= 2 /\ pow2[k] \in Nat \ {0}
      BY <2>1, pow2Type
    <2>4. pow2[k] >= 2 * pow2[K]
      BY <2>2, <2>3
    <2>5. c \in Nat /\ c < INITIAL_CAPACITY * pow2[k]
      <3>1. \A a, x, y \in Nat : a >= 1 /\ x >= 1 /\ y >= 2 * x => a * x < a * y
        OBVIOUS
      <3> QED
        BY <2>3, <2>4, <3>1, CapacityType, InitialCapacityAssumption
    <2> QED
      BY <1>2, <2>3, <2>5, DivideSmaller, InitialCapacityAssumption
  <1> QED
    BY <1>1, <1>2

(* The array that is halved still holds the entries, and is a capacity again. *)
LEMMA HalvedIs ==
  ASSUME Capacity(capacity), NEW n \in Nat, capacity > 2 * n, capacity > INITIAL_CAPACITY
  PROVE  /\ Capacity(Halved(n)) /\ Halved(n) >= n /\ Halved(n) <= capacity
         /\ Halved(n) > INITIAL_CAPACITY => Halved(n) <= 2 * n
  <1>1. PICK K \in Nat : capacity = INITIAL_CAPACITY * pow2[K]
    BY DEF Capacity
  <1>2. capacity \in Nat /\ capacity > K
    BY <1>1, CapacityType
  <1> DEFINE T == {capacity \div pow2[k] : k \in 0 .. capacity} \cap (0 .. 2 * n)
             S == T \cup {INITIAL_CAPACITY}
  <1>3. Halved(n) = Max(S)
    BY DEF Halved
  <1>4. Max(S) \in S /\ \A y \in S : Max(S) >= y
    <2>1. S \subseteq 0 .. capacity + INITIAL_CAPACITY /\ S # {}
      BY <1>2, InitialCapacityAssumption
    <2>2. capacity + INITIAL_CAPACITY \in Nat
      BY <1>2, InitialCapacityAssumption
    <2> HIDE DEF S
    <2> QED
      BY <2>1, <2>2, Greatest
  <1>5. Max(S) = INITIAL_CAPACITY \/ Max(S) \in T
    BY <1>4
  <1>6. ASSUME Max(S) \in T, Max(S) # INITIAL_CAPACITY
        PROVE  Capacity(Max(S)) /\ Max(S) <= 2 * n
    <2>1. PICK k \in 0 .. capacity : Max(S) = capacity \div pow2[k] /\ Max(S) <= 2 * n
      BY <1>6
    <2>2. Max(S) >= INITIAL_CAPACITY
      BY <1>4
    <2> HIDE DEF S
    <2>3. k <= K
      BY <1>1, <2>1, <2>2, Shifted, InitialCapacityAssumption
    <2>4. Max(S) = INITIAL_CAPACITY * pow2[K - k] /\ K - k \in Nat
      BY <1>1, <2>1, <2>3, Shifted
    <2> QED
      BY <2>1, <2>4 DEF Capacity
  <1>7. Capacity(INITIAL_CAPACITY)
    BY pow2Step, InitialCapacityAssumption DEF Capacity
  <1>8. Max(S) >= n
    <2>1. CASE n <= INITIAL_CAPACITY
      <3>1. Max(S) >= INITIAL_CAPACITY
        BY <1>4
      <3>2. Max(S) \in Nat
        BY <1>5, InitialCapacityAssumption
      <3> HIDE DEF S
      <3> QED
        BY <2>1, <3>1, <3>2, InitialCapacityAssumption
    <2>2. CASE n > INITIAL_CAPACITY
      <3> DEFINE Low == {k \in 0 .. K : capacity \div pow2[k] <= 2 * n}
      <3>1. capacity \div pow2[K] = INITIAL_CAPACITY
        BY <1>1, Shifted, pow2Step, InitialCapacityAssumption
      <3>2. K \in Low
        BY <2>2, <3>1, InitialCapacityAssumption
      <3>3. Min(Low) \in Low /\ \A k \in Low : Min(Low) <= k
        <4>1. Low \subseteq Nat
          OBVIOUS
        <4> HIDE DEF Low
        <4> QED
          BY <3>2, <4>1, Least
      <3>4. PICK k \in 0 .. K : capacity \div pow2[k] <= 2 * n /\ \A j \in Low : k <= j
        BY <3>3
      <3>5. capacity \div pow2[0] = capacity
        BY <1>2, pow2Step
      <3>6. k # 0
        BY <1>2, <3>4, <3>5
      <3>7. k - 1 \in 0 .. K /\ k - 1 \notin Low
        BY <3>4, <3>6
      <3>8. capacity \div pow2[k - 1] > 2 * n
        BY <1>1, <3>7, Shifted
      <3>9. capacity \div pow2[k - 1] = INITIAL_CAPACITY * pow2[K - (k - 1)]
            /\ capacity \div pow2[k] = INITIAL_CAPACITY * pow2[K - k]
        BY <1>1, <3>4, <3>7, Shifted
      <3>10. pow2[K - (k - 1)] = 2 * pow2[K - k] /\ pow2[K - k] \in Nat
        <4>1. K - k \in Nat /\ K - (k - 1) \in Nat \ {0} /\ (K - (k - 1)) - 1 = K - k
          BY <3>4, <3>6
        <4>2. pow2[K - (k - 1)] = 2 * pow2[(K - (k - 1)) - 1]
          BY <4>1, pow2Step
        <4> QED
          BY <4>1, <4>2, pow2Type
      <3>11. capacity \div pow2[k] >= n /\ capacity \div pow2[k] \in Nat
        BY <3>8, <3>9, <3>10, InitialCapacityAssumption
      <3>12. capacity \div pow2[k] \in S
        BY <1>2, <3>4, <3>11
      <3>13. Max(S) >= capacity \div pow2[k]
        BY <1>4, <3>12
      <3>14. Max(S) \in Nat
        BY <1>5, InitialCapacityAssumption
      <3> HIDE DEF S
      <3> QED
        BY <3>11, <3>13, <3>14
    <2> QED
      BY <2>1, <2>2, InitialCapacityAssumption
  <1> HIDE DEF S
  <1> QED
    BY <1>2, <1>3, <1>5, <1>6, <1>7, <1>8, InitialCapacityAssumption

-----------------------------------------------------------------------------
(* The inductive invariant *)

(* CapacityTight as the code keeps it, which halves the array before the *)
(* header asks for it: a vector that does not shrink is never halved.    *)
AtMostDouble ==
    /\ \E k \in 0 .. capacity : capacity = INITIAL_CAPACITY * pow2[k]
    /\ capacity > INITIAL_CAPACITY => capacity <= 2 * size

(* A copy that is allocated is in at most one slot, and until the first fault *)
(* an entry is NULL or allocated.                                             *)
Owned ==
    /\ \A i, j \in 1 .. capacity : array[i] = array[j] /\ array[i] \in DOMAIN heap => i = j
    /\ faults = {} /\ ~destroyed =>
          \A i \in 1 .. size : array[i] # NULL => array[i] \in DOMAIN heap

(* Without the two calls that break it, every copy is in an entry, the slots *)
(* past the last entry are NULL, and nothing goes wrong.                     *)
Kept ==
    ~shrunk /\ ~self_set =>
        /\ faults = {}
        /\ destroyed => DOMAIN heap = {}
        /\ ~destroyed =>
              /\ \A c \in DOMAIN heap : \E i \in 1 .. size : array[i] = c
              /\ \A i \in size + 1 .. capacity : array[i] = NULL

HeapTypeOK == copies \in Nat /\ heap = [c \in DOMAIN heap |-> heap[c]]

IInv == TypeOK /\ HeapTypeOK /\ AtMostDouble /\ Owned /\ Kept

Slots == 1 .. copies \cup {NULL}

LEMMA AtMostDoubleIs ==
  ASSUME NEW a \in Seq(Slots), NEW n \in Nat
  PROVE  /\ AtMostDouble => Capacity(capacity) /\ (capacity > INITIAL_CAPACITY => capacity <= 2 * size)
         /\ Capacity(Len(a)) => \E k \in 0 .. Len(a) : Len(a) = INITIAL_CAPACITY * pow2[k]
  <1>1. AtMostDouble => Capacity(capacity) /\ (capacity > INITIAL_CAPACITY => capacity <= 2 * size)
    <2>1. ASSUME NEW k \in 0 .. capacity, capacity = INITIAL_CAPACITY * pow2[k]
          PROVE  Capacity(capacity)
      BY <2>1 DEF Capacity
    <2> QED
      BY <2>1 DEF AtMostDouble
  <1>2. Capacity(Len(a)) => \E k \in 0 .. Len(a) : Len(a) = INITIAL_CAPACITY * pow2[k]
    BY CapacityType DEF Capacity
  <1> QED
    BY <1>1, <1>2

LEMMA CapacityIs ==
  ASSUME TypeOK, AtMostDouble
  PROVE  /\ Capacity(capacity) /\ size \in Nat /\ capacity \in Nat /\ size <= capacity
         /\ capacity > INITIAL_CAPACITY => capacity <= 2 * size
  <1>1. array \in Seq(Slots) /\ size \in 0 .. capacity
    BY DEF TypeOK, Slots
  <1>2. capacity \in Nat
    BY <1>1 DEF capacity
  <1> QED
    BY <1>1, <1>2, AtMostDoubleIs

(* Vector_resize never halves the array of a vector that does not shrink. *)
LEMMA NoHalving ==
  ASSUME TypeOK, AtMostDouble, NEW n \in Nat, n >= size
  PROVE  ~Halves(n)
  BY CapacityIs, InitialCapacityAssumption DEF Halves

(* What Vector_resize to n leaves in each slot of an array a as long as this one: *)
(* r, whose length is a capacity that holds n and wastes no more than half.       *)
Fits(r, a, n, S) ==
    /\ r \in Seq(S) /\ Capacity(Len(r)) /\ Len(r) >= n
    /\ Len(r) > INITIAL_CAPACITY => Len(r) <= 2 * n
    /\ \E kept \in SUBSET (1 .. Len(r)) :
          /\ \A j \in 1 .. Len(r) : r[j] = IF j \in kept THEN a[j] ELSE NULL
          /\ \A j \in 1 .. n : j \in kept <=> j <= size
          /\ kept \subseteq 1 .. capacity

LEMMA ResizedIs ==
  ASSUME TypeOK, AtMostDouble, NEW S, NULL \in S,
         NEW a \in Seq(S), Len(a) = capacity, NEW n \in Nat
  PROVE  Fits(Resized(a, n), a, n, S)
  <1> SUFFICES ASSUME NEW r, r = Resized(a, n) PROVE Fits(r, a, n, S)
    OBVIOUS
  <1>1. /\ Capacity(capacity) /\ size \in Nat /\ capacity \in Nat /\ size <= capacity
        /\ capacity > INITIAL_CAPACITY => capacity <= 2 * size
    BY CapacityIs
  <1>2. CASE n > capacity
    <2>1. Capacity(Doubled(n)) /\ Doubled(n) >= n /\ Doubled(n) <= 2 * n /\ Doubled(n) \in Nat
      BY <1>1, <1>2, DoubledIs, CapacityType DEF Capacity
    <2>2. r = [j \in 1 .. Doubled(n) |-> IF j <= size THEN a[j] ELSE NULL]
      BY <1>2 DEF Resized
    <2>3. r \in [1 .. Doubled(n) -> S]
      BY <1>1, <2>1, <2>2
    <2>4. r \in Seq(S) /\ Len(r) = Doubled(n)
      BY <2>1, <2>3
    <2>5. \A j \in 1 .. Len(r) : r[j] = IF j \in 1 .. size THEN a[j] ELSE NULL
      BY <1>1, <2>1, <2>2, <2>4
    <2>6. 1 .. size \in SUBSET (1 .. Len(r)) /\ 1 .. size \subseteq 1 .. capacity
          /\ \A j \in 1 .. n : j \in 1 .. size <=> j <= size
      BY <1>1, <1>2, <2>1, <2>4
    <2> QED
      BY <2>1, <2>4, <2>5, <2>6 DEF Fits
  <1>3. CASE n <= capacity /\ Halves(n)
    <2>1. n < size
      BY <1>1, <1>3, NoHalving
    <2>2. /\ Capacity(Halved(n)) /\ Halved(n) >= n /\ Halved(n) <= capacity /\ Halved(n) \in Nat
          /\ Halved(n) > INITIAL_CAPACITY => Halved(n) <= 2 * n
      BY <1>1, <1>3, HalvedIs, CapacityType DEF Halves, Capacity
    <2>3. r = SubSeq(a, 1, Halved(n))
      <3>1. ~ (n > capacity)
        BY <1>1, <1>3
      <3> QED
        BY <1>3, <3>1 DEF Resized
    <2>4. r \in Seq(S) /\ Len(r) = Halved(n) /\ \A j \in 1 .. Len(r) : r[j] = a[j]
      BY <1>1, <2>2, <2>3
    <2>5. /\ 1 .. Len(r) \in SUBSET (1 .. Len(r)) /\ 1 .. Len(r) \subseteq 1 .. capacity
          /\ \A j \in 1 .. n : j \in 1 .. Len(r) <=> j <= size
      BY <1>1, <2>1, <2>2, <2>4
    <2>6. \A j \in 1 .. Len(r) : r[j] = IF j \in 1 .. Len(r) THEN a[j] ELSE NULL
      BY <2>4
    <2> QED
      BY <2>2, <2>4, <2>5, <2>6 DEF Fits
  <1>4. CASE n <= capacity /\ ~Halves(n)
    <2>1. r = [j \in DOMAIN a |-> IF j \in size + 1 .. n THEN NULL ELSE a[j]]
      BY <1>1, <1>4 DEF Resized
    <2>2. r \in [1 .. capacity -> S]
      BY <2>1
    <2>3. r \in Seq(S) /\ Len(r) = capacity
      BY <1>1, <2>2
    <2>4. capacity > INITIAL_CAPACITY => capacity <= 2 * n
      BY <1>1, <1>4, InitialCapacityAssumption DEF Halves
    <2>5. \A j \in 1 .. Len(r) : r[j] = IF j \in 1 .. capacity \ (size + 1 .. n) THEN a[j] ELSE NULL
      BY <1>1, <2>1, <2>3
    <2>6. \A j \in 1 .. n : j \in 1 .. capacity \ (size + 1 .. n) <=> j <= size
      BY <1>1, <1>4
    <2>7. 1 .. capacity \ (size + 1 .. n) \in SUBSET (1 .. Len(r))
      BY <2>3
    <2> QED
      BY <1>1, <1>4, <2>3, <2>4, <2>5, <2>6, <2>7 DEF Fits
  <1>5. n > capacity \/ n <= capacity
    BY <1>1
  <1> QED
    BY <1>2, <1>3, <1>4, <1>5

(* What Vector_resize deallocates of an array a as long as this one. *)
LEMMA DroppedIs ==
  ASSUME TypeOK, AtMostDouble, NEW S, NEW a \in Seq(S), Len(a) = capacity, NEW n \in Nat
  PROVE  /\ Dropped(a, n) \in Seq(S)
         /\ \A x \in DOMAIN Dropped(a, n) :
               n + x \in n + 1 .. capacity /\ Dropped(a, n)[x] = a[n + x]
         /\ n >= size => Dropped(a, n) = << >>
  <1> DEFINE d == Dropped(a, n)
  <1> HIDE DEF d
  <1>1. PICK e \in Nat : d = SubSeq(a, n + 1, e) /\ e <= capacity /\ (n >= size => e = size)
    <2>1. CASE Halves(n)
      <3>1. Halved(n) \in Nat /\ Halved(n) <= capacity
        BY <2>1, CapacityIs, HalvedIs, CapacityType DEF Halves, Capacity
      <3>2. ~ (n >= size)
        BY <2>1, NoHalving
      <3>3. d = SubSeq(a, n + 1, Halved(n))
        BY <2>1 DEF d, Dropped
      <3> QED
        BY <3>1, <3>2, <3>3
    <2>2. CASE ~Halves(n)
      <3>1. d = SubSeq(a, n + 1, size)
        BY <2>2 DEF d, Dropped
      <3> QED
        BY <3>1, CapacityIs
    <2> QED
      BY <2>1, <2>2
  <1>2. \A k \in n + 1 .. e : a[k] \in S
    BY <1>1, CapacityIs
  <1>3. /\ d \in Seq(S)
        /\ Len(d) = IF n + 1 <= e THEN e - n ELSE 0
        /\ \A k \in 1 .. e - n : d[k] = a[n + k]
    BY <1>1, <1>2, SubSeqProperties
  <1>4. DOMAIN d = 1 .. Len(d)
    BY <1>3
  <1>5. \A x \in DOMAIN d : x \in 1 .. e - n /\ n + x \in n + 1 .. capacity
    BY <1>1, <1>3, <1>4, CapacityIs
  <1>6. n >= size => d = << >>
    BY <1>1, <1>3, CapacityIs
  <1> QED
    BY <1>3, <1>5, <1>6 DEF d

(* What the destructor and copy_constructor do to the heap. *)
Recopied(p, v) ==
    /\ copies' = IF v = NULL THEN copies ELSE copies + 1
    /\ DOMAIN heap' = (DOMAIN heap \ ToSet(p)) \cup (IF v = NULL THEN {} ELSE {copies + 1})
    /\ \A c \in DOMAIN heap \ ToSet(p) : heap'[c] = heap[c]
    /\ v # NULL => heap'[copies + 1] = v
    /\ faults \subseteq faults' /\ faults' \subseteq {"double_free", "use_after_free"}
    /\ HeapTypeOK' /\ DOMAIN heap' \subseteq 1 .. copies'
    /\ /\ \A x \in DOMAIN p : p[x] = NULL \/ p[x] \in DOMAIN heap
       /\ \A x, y \in DOMAIN p : p[x] = p[y] /\ p[x] # NULL => x = y
       => faults' = faults

LEMMA FreedThenCopied ==
  ASSUME TypeOK, HeapTypeOK, NEW p, NEW v, FreeThenCopy(p, v)
  PROVE  Recopied(p, v)
  <1> DEFINE freed == ToSet(p) \ {NULL}
             twice == \E i, j \in DOMAIN p : i # j /\ p[i] = p[j] /\ p[i] # NULL
             new   == IF v = NULL THEN {} ELSE {copies + 1}
             left  == DOMAIN heap \ freed
  <1>1. /\ heap' = [c \in left \cup new |-> IF c \in new THEN v ELSE heap[c]]
        /\ copies' = IF v = NULL THEN copies ELSE copies + 1
        /\ faults' = faults \cup (IF freed \subseteq DOMAIN heap /\ ~twice THEN {} ELSE {"double_free"})
    BY DEF FreeThenCopy
  <1>2. DOMAIN heap \subseteq 1 .. copies /\ copies \in Nat /\ faults \subseteq {"double_free", "use_after_free"}
    BY DEF TypeOK, HeapTypeOK
  <1>3. NULL \notin DOMAIN heap /\ copies + 1 \notin DOMAIN heap
    BY <1>2, NullAssumption
  <1>4. left = DOMAIN heap \ ToSet(p)
    BY <1>3
  <1>5. DOMAIN heap' = left \cup new /\ \A c \in left \cup new : heap'[c] = IF c \in new THEN v ELSE heap[c]
    BY <1>1
  <1>6. (\A c \in DOMAIN heap \ ToSet(p) : heap'[c] = heap[c]) /\ (v # NULL => heap'[copies + 1] = v)
    BY <1>3, <1>4, <1>5
  <1>7. HeapTypeOK' /\ DOMAIN heap' \subseteq 1 .. copies'
    <2>1. copies' \in Nat /\ DOMAIN heap' \subseteq 1 .. copies'
      <3>1. copies' \in Nat /\ 1 .. copies \subseteq 1 .. copies'
        BY <1>1, <1>2
      <3>2. new \subseteq 1 .. copies'
        BY <1>1, <1>2
      <3>3. left \subseteq 1 .. copies'
        BY <1>2, <3>1
      <3> HIDE DEF left, new
      <3> QED
        BY <1>5, <3>1, <3>2, <3>3
    <2>2. heap' = [c \in DOMAIN heap' |-> heap'[c]]
      <3> HIDE DEF left, new
      <3> QED
        BY <1>1, <1>5
    <2> QED
      BY <2>1, <2>2 DEF HeapTypeOK
  <1>8. ASSUME \A x \in DOMAIN p : p[x] = NULL \/ p[x] \in DOMAIN heap,
               \A x, y \in DOMAIN p : p[x] = p[y] /\ p[x] # NULL => x = y
        PROVE  faults' = faults
    <2>1. freed \subseteq DOMAIN heap
      BY <1>8 DEF ToSet
    <2>2. ~twice
      BY <1>8
    <2> QED
      BY <1>1, <2>1, <2>2
  <1>9. faults \subseteq faults' /\ faults' \subseteq {"double_free", "use_after_free"}
    BY <1>1, <1>2
  <1>10. DOMAIN heap' = (DOMAIN heap \ ToSet(p)) \cup new
    BY <1>4, <1>5
  <1> QED
    BY <1>1, <1>6, <1>7, <1>8, <1>9, <1>10 DEF Recopied

(* A step that frees the pointers p, puts a copy of v in slot at (0: none) and *)
(* fills slot j with what was in slot from[j] (0: with NULL). No slot is the    *)
(* source of two, and nothing that is freed stays in an entry.                  *)
Rearranged(p, v, at, from) ==
    /\ FreeThenCopy(p, v)
    /\ array' \in Seq(Slots \cup {copies + 1}) /\ size' \in 0 .. capacity'
    /\ at \in 0 .. size' /\ (at = 0 => v = NULL)
    /\ from \in [1 .. capacity' -> 0 .. capacity]
    /\ \A j \in 1 .. capacity' :
          array'[j] = IF j = at THEN CopyOf(v) ELSE IF from[j] = 0 THEN NULL ELSE array[from[j]]
    /\ \A i, j \in 1 .. capacity' : from[i] = from[j] /\ from[i] # 0 => i = j
    /\ \A j \in 1 .. size' : j # at => from[j] \in 0 .. size
    /\ \A x \in DOMAIN p :
          p[x] = NULL \/ \E k \in 1 .. capacity :
                            p[x] = array[k] /\ \A j \in 1 .. size' : j # at => from[j] # k

(* Then the copies stay where they belong, and each entry has the value it had. *)
LEMMA RearrangedKeeps ==
  ASSUME TypeOK, HeapTypeOK, AtMostDouble, Owned, faults = {}, ~destroyed, ~destroyed',
         NEW p, NEW v, NEW at, NEW from, Rearranged(p, v, at, from)
  PROVE  /\ TypeOK' /\ HeapTypeOK' /\ Owned'
         /\ faults' = {} => \A j \in 1 .. size' :
               Contents'[j] = IF j = at THEN v ELSE IF from[j] = 0 THEN NULL ELSE Contents[from[j]]
  <1>1. /\ copies' = IF v = NULL THEN copies ELSE copies + 1
        /\ DOMAIN heap' = (DOMAIN heap \ ToSet(p)) \cup (IF v = NULL THEN {} ELSE {copies + 1})
        /\ \A c \in DOMAIN heap \ ToSet(p) : heap'[c] = heap[c]
        /\ v # NULL => heap'[copies + 1] = v
        /\ faults' \subseteq {"double_free", "use_after_free"}
        /\ HeapTypeOK' /\ DOMAIN heap' \subseteq 1 .. copies'
    <2>1. FreeThenCopy(p, v)
      BY DEF Rearranged
    <2>2. Recopied(p, v)
      BY <2>1, FreedThenCopied
    <2> QED
      BY <2>2 DEF Recopied
  <1>2. /\ copies \in Nat /\ copies' \in Nat /\ DOMAIN heap \subseteq 1 .. copies
        /\ capacity \in Nat /\ size \in Nat /\ size <= capacity /\ NULL \notin Nat
        /\ \A k \in 1 .. capacity : array[k] \in Slots
    <2>1. array \in Seq(Slots)
      BY DEF TypeOK, Slots
    <2>2. \A k \in 1 .. capacity : array[k] \in Slots
      BY <2>1 DEF capacity
    <2> QED
      BY <1>1, <2>2, CapacityIs, NullAssumption DEF HeapTypeOK, TypeOK
  <1>3. /\ capacity' \in Nat /\ size' \in Nat /\ size' <= capacity'
        /\ array' \in Seq(Slots \cup {copies + 1}) /\ Len(array') = capacity'
    BY DEF Rearranged, capacity
  <1>4. ASSUME NEW j \in 1 .. capacity'
        PROVE  \/ array'[j] = NULL /\ (j = at => v = NULL) /\ (j # at /\ from[j] # 0 => array[from[j]] = NULL)
               \/ j = at /\ v # NULL /\ array'[j] = copies + 1
               \/ j # at /\ from[j] \in 1 .. capacity /\ array'[j] = array[from[j]]
                  /\ array'[j] \in 1 .. copies
    <2>1. from[j] \in 0 .. capacity
      BY DEF Rearranged
    <2>2. array'[j] = IF j = at THEN CopyOf(v) ELSE IF from[j] = 0 THEN NULL ELSE array[from[j]]
      BY DEF Rearranged
    <2>3. CASE j = at
      BY <2>2, <2>3 DEF CopyOf
    <2>4. CASE j # at /\ from[j] = 0
      BY <2>2, <2>4
    <2>5. CASE j # at /\ from[j] \in 1 .. capacity
      BY <1>2, <2>2, <2>5 DEF Slots
    <2> QED
      BY <1>2, <2>1, <2>3, <2>4, <2>5
  <1>5. TypeOK'
    <2>1. \A j \in 1 .. capacity' : array'[j] \in 1 .. copies' \cup {NULL}
      BY <1>1, <1>2, <1>4
    <2>2. array' \in Seq(1 .. copies' \cup {NULL})
      BY <1>3, <2>1
    <2>3. size' \in 0 .. capacity'
      BY DEF Rearranged
    <2> QED
      BY <1>1, <2>2, <2>3 DEF TypeOK
  <1>6. ASSUME NEW i \in 1 .. capacity', NEW j \in 1 .. capacity',
               array'[i] = array'[j], array'[i] \in DOMAIN heap'
        PROVE  i = j
    <2>1. array'[i] # NULL /\ array'[j] # NULL
      BY <1>1, <1>2, <1>6
    <2>2. CASE i = at
      BY <1>2, <1>4, <1>6, <2>1, <2>2
    <2>3. CASE i # at
      <3>1. from[i] \in 1 .. capacity /\ array'[i] = array[from[i]] /\ array'[i] \in 1 .. copies
        BY <1>4, <2>1, <2>3
      <3>2. from[j] \in 1 .. capacity /\ array'[j] = array[from[j]]
        <4>1. array'[j] \in 1 .. copies /\ array'[j] # copies + 1
          BY <1>2, <1>6, <3>1
        <4> QED
          BY <1>4, <2>1, <4>1
      <3>3. array[from[i]] \in DOMAIN heap
        BY <1>1, <1>2, <1>6, <3>1
      <3>4. from[i] = from[j]
        BY <1>6, <3>1, <3>2, <3>3 DEF Owned
      <3> QED
        BY <3>1, <3>4 DEF Rearranged
    <2> QED
      BY <2>2, <2>3
  <1>7. ASSUME NEW j \in 1 .. size', j # at, from[j] # 0, array[from[j]] # NULL
        PROVE  /\ from[j] \in 1 .. size
               /\ array'[j] = array[from[j]]
               /\ array[from[j]] \in DOMAIN heap \ ToSet(p)
    <2>1. from[j] \in 1 .. size /\ j \in 1 .. capacity'
      BY <1>2, <1>3, <1>7 DEF Rearranged
    <2>2. array'[j] = array[from[j]]
      BY <1>7, <2>1 DEF Rearranged
    <2>3. array[from[j]] \in DOMAIN heap
      BY <1>7, <2>1 DEF Owned
    <2>4. ASSUME NEW x \in DOMAIN p, p[x] = array[from[j]]
          PROVE  FALSE
      <3>1. PICK k \in 1 .. capacity : p[x] = array[k] /\ from[j] # k
        BY <1>7, <2>4 DEF Rearranged
      <3>2. from[j] \in 1 .. capacity
        BY <1>2, <2>1
      <3> QED
        BY <2>3, <2>4, <3>1, <3>2 DEF Owned
    <2> QED
      BY <2>1, <2>2, <2>3, <2>4 DEF ToSet
  <1>8. ASSUME NEW j \in 1 .. size', array'[j] # NULL
        PROVE  array'[j] \in DOMAIN heap'
    <2>1. j \in 1 .. capacity'
      BY <1>3
    <2>2. CASE j = at
      BY <1>1, <1>2, <1>4, <1>8, <2>1, <2>2
    <2>3. CASE j # at
      BY <1>1, <1>2, <1>4, <1>7, <1>8, <2>1, <2>3
    <2> QED
      BY <2>2, <2>3
  <1>9. Owned'
    BY <1>6, <1>8 DEF Owned
  <1>10. ASSUME NEW j \in 1 .. size'
         PROVE  Contents'[j] = IF j = at THEN v ELSE IF from[j] = 0 THEN NULL ELSE Contents[from[j]]
    <2>1. j \in 1 .. capacity'
      BY <1>3
    <2>2. Contents'[j] = IF array'[j] = NULL THEN NULL
                         ELSE IF array'[j] \in DOMAIN heap' THEN heap'[array'[j]] ELSE "dangling"
      BY DEF Contents
    <2>3. CASE j = at
      BY <1>1, <1>2, <1>4, <1>8, <2>1, <2>2, <2>3
    <2>4. CASE j # at /\ from[j] = 0
      BY <1>4, <2>1, <2>2, <2>4, <1>2
    <2>5. CASE j # at /\ from[j] # 0
      <3>1. from[j] \in 1 .. size
        BY <1>2, <2>5 DEF Rearranged
      <3>2. Contents[from[j]] = IF array[from[j]] = NULL THEN NULL
                  ELSE IF array[from[j]] \in DOMAIN heap THEN heap[array[from[j]]] ELSE "dangling"
        BY <3>1 DEF Contents
      <3>3. array'[j] = array[from[j]]
        BY <2>1, <2>5 DEF Rearranged
      <3> QED
        BY <1>1, <1>7, <2>2, <2>5, <3>2, <3>3
    <2> QED
      BY <2>3, <2>4, <2>5
  <1> QED
    BY <1>1, <1>5, <1>9, <1>10

-----------------------------------------------------------------------------
(* Each operation rearranges the slots *)

\* Nothing is lost: what is freed is allocated and freed once, what is not freed
\* is an entry again, and the slots past the entries are NULL.
Whole(p, at, from) ==
    /\ \A x \in DOMAIN p : p[x] = NULL \/ p[x] \in DOMAIN heap
    /\ \A x, y \in DOMAIN p : p[x] = p[y] /\ p[x] # NULL => x = y
    /\ \A k \in 1 .. size :
          array[k] \in ToSet(p) \cup {NULL} \/ \E j \in 1 .. size' : j # at /\ from[j] = k
    /\ \A j \in size' + 1 .. capacity' : array'[j] = NULL

\* What an operation does to the list, slot by slot.
Does(v, at, from) ==
    faults' = {} => \A j \in 1 .. size' :
        Contents'[j] = IF j = at THEN v ELSE IF from[j] = 0 THEN NULL ELSE Contents[from[j]]

LEMMA WholeKeeps ==
  ASSUME IInv, Alive, ~destroyed', AtMostDouble',
         NEW p, NEW v, NEW at, NEW from, Rearranged(p, v, at, from),
         ~shrunk' /\ ~self_set' => ~shrunk /\ ~self_set /\ Whole(p, at, from)
  PROVE  IInv' /\ Does(v, at, from)
  <1>1. faults = {} /\ ~destroyed /\ TypeOK /\ HeapTypeOK /\ AtMostDouble /\ Owned /\ Kept
    BY DEF IInv, Alive
  <1>2. TypeOK' /\ HeapTypeOK' /\ Owned' /\ Does(v, at, from)
    BY <1>1, RearrangedKeeps DEF Does
  <1>3. ASSUME ~shrunk', ~self_set'
        PROVE  /\ faults' = {}
               /\ \A c \in DOMAIN heap' : \E i \in 1 .. size' : array'[i] = c
               /\ \A i \in size' + 1 .. capacity' : array'[i] = NULL
    <2>1. Whole(p, at, from) /\ FreeThenCopy(p, v)
      BY <1>3 DEF Rearranged
    <2>2. /\ faults' = faults
          /\ DOMAIN heap' = (DOMAIN heap \ ToSet(p)) \cup (IF v = NULL THEN {} ELSE {copies + 1})
      <3>1. Recopied(p, v)
        BY <1>1, <2>1, FreedThenCopied
      <3> QED
        BY <2>1, <3>1 DEF Whole, Recopied
    <2>3. size' \in Nat /\ size' <= capacity' /\ capacity' \in Nat /\ size <= capacity /\ size \in Nat
          /\ capacity \in Nat
      <3>1. size' \in 0 .. capacity' /\ array' \in Seq(Slots \cup {copies + 1})
        BY DEF Rearranged
      <3>2. capacity' \in Nat
        BY <3>1 DEF capacity
      <3> QED
        BY <1>1, <3>1, <3>2, CapacityIs
    <2>4. ASSUME v # NULL
          PROVE  \E i \in 1 .. size' : array'[i] = copies + 1
      <3>1. at \in 1 .. size' /\ at \in 1 .. capacity'
        BY <2>3, <2>4 DEF Rearranged
      <3>2. array'[at] = CopyOf(v)
        BY <3>1 DEF Rearranged
      <3> QED
        BY <2>4, <3>1, <3>2 DEF CopyOf
    <2>5. ASSUME NEW c \in DOMAIN heap \ ToSet(p)
          PROVE  \E i \in 1 .. size' : array'[i] = c
      <3>1. PICK k \in 1 .. size : array[k] = c
        BY <1>1, <1>3 DEF Kept
      <3>2. c # NULL
        <4>1. DOMAIN heap \subseteq 1 .. copies /\ copies \in Nat
          BY <1>1 DEF TypeOK, HeapTypeOK
        <4> QED
          BY <4>1, NullAssumption
      <3>3. PICK j \in 1 .. size' : j # at /\ from[j] = k
        BY <2>1, <3>1, <3>2 DEF Whole
      <3>4. j \in 1 .. capacity' /\ k # 0
        BY <2>3
      <3>5. array'[j] = array[k]
        BY <3>3, <3>4 DEF Rearranged
      <3> QED
        BY <3>1, <3>5
    <2>6. \A c \in DOMAIN heap' : \E i \in 1 .. size' : array'[i] = c
      BY <2>2, <2>4, <2>5
    <2> QED
      BY <1>1, <2>1, <2>2, <2>6 DEF Whole
  <1>4. Kept'
    BY <1>3 DEF Kept
  <1> QED
    BY <1>2, <1>4 DEF IInv

LEMMA ResizeRearranges ==
  ASSUME IInv, NEW n \in Nat, Vector_resize(n)
  PROVE  /\ AtMostDouble' /\ size' = n
         /\ \E from : /\ Rearranged(Dropped(array, n), NULL, 0, from)
                      /\ n >= size /\ ~shrunk /\ ~self_set => Whole(Dropped(array, n), 0, from)
                      /\ \A j \in 1 .. n : from[j] = IF j <= size THEN j ELSE 0
  <1>1. /\ array' = Resized(array, n) /\ size' = n /\ FreeThenCopy(Dropped(array, n), NULL)
        /\ faults = {} /\ ~destroyed
    BY DEF Vector_resize, Alive
  <1>2. /\ TypeOK /\ AtMostDouble /\ Owned /\ array \in Seq(Slots) /\ Len(array) = capacity
        /\ NULL \in Slots /\ copies \in Nat
    BY DEF IInv, TypeOK, HeapTypeOK, Slots, capacity
  <1>3. Fits(array', array, n, Slots)
    <2> HIDE DEF Slots
    <2> QED
      BY <1>1, <1>2, ResizedIs
  <1>4. PICK kept \in SUBSET (1 .. capacity') :
              /\ \A j \in 1 .. capacity' : array'[j] = IF j \in kept THEN array[j] ELSE NULL
              /\ \A j \in 1 .. n : j \in kept <=> j <= size
              /\ kept \subseteq 1 .. capacity
    BY <1>3 DEF Fits, capacity
  <1>5. capacity' \in Nat /\ capacity \in Nat /\ size \in Nat /\ size <= capacity /\ capacity' >= n
    BY <1>2, <1>3, CapacityIs DEF Fits, capacity
  <1>6. AtMostDouble'
    BY <1>1, <1>3, AtMostDoubleIs DEF AtMostDouble, Fits, capacity
  <1>7. PICK from : from = [j \in 1 .. capacity' |-> IF j \in kept THEN j ELSE 0]
    OBVIOUS
  <1>8. PICK d : d = Dropped(array, n)
    OBVIOUS
  <1>9. /\ \A x \in DOMAIN d : n + x \in n + 1 .. capacity /\ d[x] = array[n + x]
        /\ n >= size => d = << >>
    <2> HIDE DEF Slots
    <2> QED
      BY <1>2, <1>8, DroppedIs
  <1>10. Rearranged(d, NULL, 0, from)
    <2>1. FreeThenCopy(d, NULL) /\ array' \in Seq(Slots \cup {copies + 1}) /\ size' \in 0 .. capacity'
      BY <1>1, <1>3, <1>5, <1>8 DEF Fits
    <2>2. from \in [1 .. capacity' -> 0 .. capacity]
      BY <1>4, <1>5, <1>7
    <2>3. \A j \in 1 .. capacity' :
            array'[j] = IF j = 0 THEN CopyOf(NULL) ELSE IF from[j] = 0 THEN NULL ELSE array[from[j]]
      BY <1>4, <1>5, <1>7
    <2>4. \A i, j \in 1 .. capacity' : from[i] = from[j] /\ from[i] # 0 => i = j
      BY <1>7
    <2>5. \A j \in 1 .. size' : from[j] \in 0 .. size
      BY <1>1, <1>4, <1>5, <1>7
    <2>6. ASSUME NEW x \in DOMAIN d
          PROVE  \E k \in 1 .. capacity : d[x] = array[k] /\ \A j \in 1 .. size' : from[j] # k
      <3>1. n + x \in n + 1 .. capacity /\ d[x] = array[n + x]
        BY <1>9
      <3>2. n + x \in 1 .. capacity /\ \A j \in 1 .. size' : from[j] # n + x
        BY <1>1, <1>5, <1>7, <3>1
      <3> QED
        BY <3>1, <3>2
    <2> QED
      BY <1>1, <2>1, <2>2, <2>3, <2>4, <2>5, <2>6 DEF Rearranged
  <1>11. ASSUME n >= size, ~shrunk, ~self_set
         PROVE  Whole(d, 0, from)
    <2>1. d = << >> /\ DOMAIN d = {}
      BY <1>9, <1>11
    <2>2. ASSUME NEW k \in 1 .. size
          PROVE  k \in 1 .. size' /\ k # 0 /\ from[k] = k
      BY <1>1, <1>4, <1>5, <1>7, <1>11
    <2>3. ASSUME NEW j \in size' + 1 .. capacity'
          PROVE  array'[j] = NULL
      <3>1. \A k \in size + 1 .. capacity : array[k] = NULL
        BY <1>1, <1>2, <1>11 DEF IInv, Kept
      <3>2. j \in 1 .. capacity' /\ (j \in kept => j \in size + 1 .. capacity)
        BY <1>1, <1>4, <1>5, <1>11
      <3> QED
        BY <1>4, <3>1, <3>2
    <2> QED
      BY <2>1, <2>2, <2>3 DEF Whole
  <1> QED
    BY <1>1, <1>4, <1>5, <1>6, <1>7, <1>8, <1>10, <1>11

LEMMA SetRearranges ==
  ASSUME IInv, NEW i \in 1 .. size, NEW v, Vector_set(i, v)
  PROVE  /\ AtMostDouble' /\ size' = size
         /\ \E from : /\ Rearranged(<<array[i]>>, v, i, from)
                      /\ ~shrunk /\ ~self_set => Whole(<<array[i]>>, i, from)
                      /\ \A j \in 1 .. size : from[j] = j
  <1>1. /\ array' = [array EXCEPT ![i] = CopyOf(v)] /\ size' = size /\ FreeThenCopy(<<array[i]>>, v)
        /\ faults = {} /\ ~destroyed
    BY DEF Vector_set, Alive
  <1>2. /\ TypeOK /\ AtMostDouble /\ Owned /\ array \in Seq(Slots) /\ Len(array) = capacity
        /\ NULL \in Slots /\ copies \in Nat
    BY DEF IInv, TypeOK, HeapTypeOK, Slots, capacity
  <1>3. capacity \in Nat /\ size \in Nat /\ size <= capacity /\ i \in 1 .. capacity
    BY <1>2, CapacityIs
  <1>4. array' \in Seq(Slots \cup {copies + 1}) /\ capacity' = capacity /\ Len(array') = Len(array)
    <2>1. array \in [1 .. capacity -> Slots] /\ CopyOf(v) \in Slots \cup {copies + 1}
      BY <1>2 DEF CopyOf, Slots
    <2>2. array' \in [1 .. capacity -> Slots \cup {copies + 1}]
      <3> HIDE DEF Slots
      <3> QED
        BY <1>1, <1>3, <2>1
    <2> QED
      BY <1>2, <1>3, <2>2 DEF capacity
  <1>5. AtMostDouble'
    BY <1>1, <1>2, <1>4 DEF AtMostDouble
  <1>6. PICK from : from = [j \in 1 .. capacity |-> j]
    OBVIOUS
  <1>7. Rearranged(<<array[i]>>, v, i, from)
    <2>1. \A j \in 1 .. capacity :
            array'[j] = IF j = i THEN CopyOf(v) ELSE IF from[j] = 0 THEN NULL ELSE array[from[j]]
      BY <1>1, <1>2, <1>3, <1>6
    <2>2. from \in [1 .. capacity -> 0 .. capacity] /\ \A j \in 1 .. size : from[j] = j /\ j \in 0 .. size
      BY <1>3, <1>6
    <2>3. \A j, k \in 1 .. capacity : from[j] = from[k] => j = k
      BY <1>6
    <2>4. \A x \in DOMAIN <<array[i]>> : <<array[i]>>[x] = array[i] /\ \A j \in 1 .. size : j # i => from[j] # i
      BY <2>2
    <2> QED
      BY <1>1, <1>3, <1>4, <2>1, <2>2, <2>3, <2>4 DEF Rearranged
  <1>8. ASSUME ~shrunk, ~self_set
        PROVE  Whole(<<array[i]>>, i, from)
    <2>1. DOMAIN <<array[i]>> = {1} /\ <<array[i]>>[1] = array[i]
      OBVIOUS
    <2>2. array[i] \in ToSet(<<array[i]>>)
      BY <2>1 DEF ToSet
    <2>3. array[i] = NULL \/ array[i] \in DOMAIN heap
      BY <1>1, <1>2 DEF Owned
    <2>4. \A j \in size + 1 .. capacity : array'[j] = NULL
      <3>1. \A j \in size + 1 .. capacity : array[j] = NULL /\ j # i /\ j \in 1 .. capacity
        BY <1>1, <1>3, <1>8 DEF IInv, Kept
      <3> QED
        BY <1>1, <1>2, <3>1
    <2>5. \A k \in 1 .. size : k # i => from[k] = k
      BY <1>3, <1>6
    <2> QED
      BY <1>1, <1>4, <2>1, <2>2, <2>3, <2>4, <2>5 DEF Whole
  <1> QED
    BY <1>1, <1>3, <1>5, <1>6, <1>7, <1>8

LEMMA InsertRearranges ==
  ASSUME IInv, NEW i \in Nat \ {0}, NEW v, Vector_insert(i, v)
  PROVE  /\ AtMostDouble' /\ size' = IF i <= size THEN size + 1 ELSE i
         /\ \E p, from : /\ Rearranged(p, v, i, from)
                         /\ ~shrunk /\ ~self_set => Whole(p, i, from)
                         /\ \A j \in 1 .. size' : from[j] =
                               IF j = i THEN 0 ELSE IF i < j /\ i <= size THEN j - 1
                               ELSE IF j <= size THEN j ELSE 0
  <1>1. PICK n : n = IF i <= size THEN size + 1 ELSE i
    OBVIOUS
  <1>2. PICK grown : grown = Resized(array, n)
    OBVIOUS
  <1>3. PICK shift : shift = IF i <= size THEN i + 1 .. n ELSE {}
    OBVIOUS
  <1>4. /\ array' = [j \in DOMAIN grown |-> IF j = i THEN CopyOf(v)
                                            ELSE IF j \in shift THEN grown[j - 1] ELSE grown[j]]
        /\ size' = n /\ FreeThenCopy(Dropped(array, n), v) /\ faults = {} /\ ~destroyed
    BY <1>1, <1>2, <1>3 DEF Vector_insert, Alive
  <1>5. /\ TypeOK /\ AtMostDouble /\ Owned /\ array \in Seq(Slots) /\ Len(array) = capacity
        /\ NULL \in Slots /\ copies \in Nat
    BY DEF IInv, TypeOK, HeapTypeOK, Slots, capacity
  <1>6. /\ capacity \in Nat /\ size \in Nat /\ size <= capacity
        /\ n \in Nat /\ n > size /\ i <= n
    BY <1>1, <1>5, CapacityIs
  <1>7. Fits(grown, array, n, Slots) /\ Dropped(array, n) = << >>
    <2> HIDE DEF Slots
    <2> QED
      BY <1>2, <1>5, <1>6, ResizedIs, DroppedIs
  <1>8. Len(grown) \in Nat /\ DOMAIN grown = 1 .. Len(grown) /\ Len(grown) >= n
    BY <1>7 DEF Fits
  <1>9. PICK kept \in SUBSET (1 .. Len(grown)) :
              /\ \A j \in 1 .. Len(grown) : grown[j] = IF j \in kept THEN array[j] ELSE NULL
              /\ \A j \in 1 .. n : j \in kept <=> j <= size
              /\ kept \subseteq 1 .. capacity
    BY <1>7 DEF Fits
  <1>10. array' \in Seq(Slots \cup {copies + 1}) /\ capacity' = Len(grown) /\ Len(array') = Len(grown)
    <2>1. grown \in [1 .. Len(grown) -> Slots] /\ CopyOf(v) \in Slots \cup {copies + 1}
      BY <1>7 DEF Fits, CopyOf, Slots
    <2>2. \A j \in shift : j - 1 \in 1 .. Len(grown)
      BY <1>3, <1>6, <1>8
    <2>3. array' \in [1 .. Len(grown) -> Slots \cup {copies + 1}]
      <3> HIDE DEF Slots
      <3> QED
        BY <1>4, <1>8, <2>1, <2>2
    <2> QED
      BY <1>8, <2>3 DEF capacity
  <1>11. AtMostDouble'
    <2>1. Capacity(Len(grown)) /\ (Len(grown) > INITIAL_CAPACITY => Len(grown) <= 2 * n) /\ grown \in Seq(Slots)
      BY <1>7 DEF Fits
    <2> QED
      BY <1>4, <1>6, <1>10, <2>1, AtMostDoubleIs DEF AtMostDouble
  <1>12. PICK from : from = [j \in 1 .. capacity' |->
                               IF j = i THEN 0 ELSE IF j \in shift THEN j - 1
                               ELSE IF j \in kept THEN j ELSE 0]
    OBVIOUS
  <1>13. \A j \in shift : j - 1 \in 1 .. size /\ j - 1 \in kept /\ j - 1 \in 1 .. capacity
    BY <1>3, <1>1, <1>6, <1>9
  <1>14. Rearranged(Dropped(array, n), v, i, from)
    <2>1. from \in [1 .. capacity' -> 0 .. capacity]
      <3>1. \A j \in 1 .. capacity' : from[j] \in 0 .. capacity
        BY <1>6, <1>9, <1>12, <1>13
      <3> QED
        BY <1>12, <3>1
    <2>2. ASSUME NEW j \in 1 .. capacity'
          PROVE  array'[j] = IF j = i THEN CopyOf(v) ELSE IF from[j] = 0 THEN NULL ELSE array[from[j]]
      <3>1. CASE j = i
        BY <1>4, <1>8, <1>10, <3>1
      <3>2. CASE j # i /\ j \in shift
        <4>1. j - 1 \in 1 .. Len(grown) /\ grown[j - 1] = array[j - 1]
          BY <1>9, <1>13, <3>2
        <4>2. from[j] = j - 1 /\ j - 1 # 0
          BY <1>12, <1>13, <3>2
        <4> QED
          BY <1>4, <1>8, <1>10, <3>2, <4>1, <4>2
      <3>3. CASE j # i /\ j \notin shift
        <4>1. grown[j] = IF j \in kept THEN array[j] ELSE NULL
          BY <1>9, <1>10
        <4>2. array'[j] = grown[j]
          BY <1>4, <1>8, <1>10, <3>3
        <4> QED
          BY <1>12, <3>3, <4>1, <4>2
      <3> QED
        BY <3>1, <3>2, <3>3
    <2>3. ASSUME NEW j \in 1 .. capacity', NEW k \in 1 .. capacity', from[j] = from[k], from[j] # 0
          PROVE  j = k
      <3>1. ASSUME NEW x \in 1 .. capacity', from[x] # 0
            PROVE  x # i /\ from[x] = IF x \in shift THEN x - 1 ELSE x
        BY <1>12, <3>1
      <3>2. ASSUME NEW x \in 1 .. capacity', x \notin shift, from[x] # 0
            PROVE  i <= size => (x < i \/ x > n)
        BY <1>3, <1>6, <3>1, <3>2
      <3>3. CASE i <= size
        <4>1. shift = i + 1 .. n
          BY <1>3, <3>3
        <4> QED
          BY <1>6, <2>3, <3>1, <3>2, <3>3, <4>1
      <3>4. CASE ~ (i <= size)
        BY <1>3, <2>3, <3>1, <3>4
      <3> QED
        BY <3>3, <3>4
    <2>4. \A j \in 1 .. size' : from[j] \in 0 .. size
      BY <1>4, <1>6, <1>8, <1>9, <1>10, <1>12, <1>13
    <2>5. DOMAIN Dropped(array, n) = {}
      BY <1>7
    <2>6. size' \in 0 .. capacity' /\ i \in 0 .. size' /\ i # 0
      BY <1>4, <1>6, <1>8, <1>10
    <2> QED
      BY <1>4, <1>10, <2>1, <2>2, <2>3, <2>4, <2>5, <2>6 DEF Rearranged
  <1>15. \A j \in 1 .. size' : from[j] = IF j = i THEN 0 ELSE IF i < j /\ i <= size THEN j - 1
                                         ELSE IF j <= size THEN j ELSE 0
    <2>1. \A j \in 1 .. n : j \in 1 .. capacity' /\ (j \in shift <=> i < j /\ i <= size)
      BY <1>3, <1>6, <1>8, <1>10
    <2> QED
      BY <1>4, <1>9, <1>12, <2>1
  <1>16. ASSUME ~shrunk, ~self_set
         PROVE  Whole(Dropped(array, n), i, from)
    <2>1. DOMAIN Dropped(array, n) = {}
      BY <1>7
    <2>2. ASSUME NEW k \in 1 .. size
          PROVE  \E j \in 1 .. size' : j # i /\ from[j] = k
      <3>1. CASE k < i
        <4>1. k \in 1 .. size' /\ k # i /\ ~ (i < k) /\ k <= size
          BY <1>4, <1>6, <3>1
        <4> QED
          BY <1>15, <4>1
      <3>2. CASE i <= k
        <4>1. k + 1 \in 1 .. size' /\ k + 1 # i /\ i < k + 1 /\ i <= size /\ (k + 1) - 1 = k
          BY <1>1, <1>4, <1>6, <3>2
        <4> QED
          BY <1>15, <4>1
      <3> QED
        BY <3>1, <3>2
    <2>3. ASSUME NEW j \in size' + 1 .. capacity'
          PROVE  array'[j] = NULL
      <3>1. j \in 1 .. Len(grown) /\ j # i /\ j \notin shift
        BY <1>3, <1>4, <1>6, <1>10
      <3>2. array'[j] = IF j \in kept THEN array[j] ELSE NULL
        BY <1>4, <1>8, <1>9, <3>1
      <3>3. j \in kept => j \in size + 1 .. capacity
        BY <1>4, <1>6, <1>9
      <3>4. \A k \in size + 1 .. capacity : array[k] = NULL
        BY <1>4, <1>16 DEF IInv, Kept
      <3> QED
        BY <3>2, <3>3, <3>4
    <2> QED
      BY <2>1, <2>2, <2>3 DEF Whole
  <1> QED
    BY <1>1, <1>4, <1>11, <1>14, <1>15, <1>16

LEMMA DeleteRearranges ==
  ASSUME IInv, NEW i \in 1 .. size, Vector_delete(i)
  PROVE  /\ AtMostDouble' /\ size' = size - 1
         /\ \E p, from : /\ Rearranged(p, NULL, 0, from)
                         /\ ~shrunk /\ ~self_set => Whole(p, 0, from)
                         /\ \A j \in 1 .. size - 1 : from[j] = IF j < i THEN j ELSE j + 1
  <1>1. PICK moved : moved = [j \in DOMAIN array |->
                                IF j \in i .. size - 1 THEN array[j + 1]
                                ELSE IF j = size THEN NULL ELSE array[j]]
    OBVIOUS
  <1>2. PICK n : n = size - 1
    OBVIOUS
  <1>3. PICK d : d = Dropped(moved, n)
    OBVIOUS
  <1>4. PICK p : p = <<array[i]>> \o d
    OBVIOUS
  <1>5. /\ array' = Resized(moved, n) /\ size' = n /\ FreeThenCopy(p, NULL)
        /\ faults = {} /\ ~destroyed
    BY <1>1, <1>2, <1>3, <1>4 DEF Vector_delete, Alive
  <1>6. /\ TypeOK /\ AtMostDouble /\ Owned /\ array \in Seq(Slots) /\ Len(array) = capacity
        /\ NULL \in Slots /\ copies \in Nat
    BY DEF IInv, TypeOK, HeapTypeOK, Slots, capacity
  <1>7. /\ capacity \in Nat /\ size \in Nat /\ size <= capacity /\ n \in Nat /\ i <= size /\ i \in Nat /\ i >= 1
    BY <1>2, <1>6, CapacityIs
  <1>8. moved \in Seq(Slots) /\ Len(moved) = capacity
    <2>1. array \in [1 .. capacity -> Slots] /\ \A j \in i .. size - 1 : j + 1 \in 1 .. capacity
      BY <1>6, <1>7
    <2>2. moved \in [1 .. capacity -> Slots]
      <3> HIDE DEF Slots
      <3> QED
        BY <1>1, <1>6, <2>1
    <2> QED
      BY <1>7, <2>2
  <1>9. /\ \A j \in i .. size - 1 : moved[j] = array[j + 1]
        /\ \A j \in 1 .. i - 1 : moved[j] = array[j]
        /\ \A j \in size + 1 .. capacity : moved[j] = array[j]
        /\ moved[size] = NULL
    BY <1>1, <1>6, <1>7
  <1>10. Fits(array', moved, n, Slots)
    <2> HIDE DEF Slots
    <2> QED
      BY <1>5, <1>6, <1>7, <1>8, ResizedIs
  <1>11. /\ d \in Seq(Slots)
         /\ \A x \in DOMAIN d : n + x \in n + 1 .. capacity /\ d[x] = moved[n + x]
    <2> HIDE DEF Slots
    <2> QED
      BY <1>3, <1>6, <1>7, <1>8, DroppedIs
  <1>12. /\ DOMAIN p = 1 .. 1 + Len(d) /\ p[1] = array[i] /\ Len(d) \in Nat
         /\ \A x \in 2 .. 1 + Len(d) :
               p[x] = NULL \/ \E k \in size + 1 .. capacity : p[x] = array[k]
    <2>1. <<array[i]>> \in Seq(Slots) /\ Len(<<array[i]>>) = 1 /\ <<array[i]>>[1] = array[i]
      BY <1>6, <1>7
    <2>2. Len(p) = 1 + Len(d) /\ DOMAIN p = 1 .. 1 + Len(d) /\ Len(d) \in Nat
      BY <1>4, <1>11, <2>1
    <2>3. p[1] = array[i]
      BY <1>4, <1>11, <2>1
    <2>4. ASSUME NEW x \in 2 .. 1 + Len(d)
          PROVE  p[x] = NULL \/ \E k \in size + 1 .. capacity : p[x] = array[k]
      <3>1. x - 1 \in DOMAIN d /\ p[x] = d[x - 1]
        BY <1>4, <1>11, <2>1, <2>2
      <3>2. n + (x - 1) \in n + 1 .. capacity /\ p[x] = moved[n + (x - 1)]
        BY <1>11, <3>1
      <3>3. n + (x - 1) = size \/ n + (x - 1) \in size + 1 .. capacity
        BY <1>2, <1>7, <2>2, <3>2
      <3> QED
        BY <1>9, <3>2, <3>3
    <2> QED
      BY <2>2, <2>3, <2>4
  <1>13. PICK kept \in SUBSET (1 .. capacity') :
              /\ \A j \in 1 .. capacity' : array'[j] = IF j \in kept THEN moved[j] ELSE NULL
              /\ \A j \in 1 .. n : j \in kept <=> j <= size
              /\ kept \subseteq 1 .. capacity
    BY <1>10 DEF Fits, capacity
  <1>14. capacity' \in Nat /\ capacity' >= n /\ array' \in Seq(Slots)
    BY <1>10 DEF Fits, capacity
  <1>15. AtMostDouble'
    BY <1>5, <1>7, <1>10, AtMostDoubleIs DEF AtMostDouble, Fits, capacity
  <1>16. PICK from : from = [j \in 1 .. capacity' |->
                               IF j \notin kept \/ j = size THEN 0
                               ELSE IF j \in i .. size - 1 THEN j + 1 ELSE j]
    OBVIOUS
  <1>17. \A j \in 1 .. n : j \in 1 .. capacity' /\ from[j] = IF j < i THEN j ELSE j + 1
    BY <1>2, <1>7, <1>13, <1>14, <1>16
  <1>18. Rearranged(p, NULL, 0, from)
    <2>1. from \in [1 .. capacity' -> 0 .. capacity]
      <3>1. \A j \in 1 .. capacity' : from[j] \in 0 .. capacity
        BY <1>7, <1>13, <1>16
      <3> QED
        BY <1>16, <3>1
    <2>2. ASSUME NEW j \in 1 .. capacity'
          PROVE  array'[j] = IF j = 0 THEN CopyOf(NULL) ELSE IF from[j] = 0 THEN NULL ELSE array[from[j]]
      <3>1. CASE j \notin kept \/ j = size
        BY <1>9, <1>13, <1>16, <3>1
      <3>2. CASE j \in kept /\ j # size /\ j \in i .. size - 1
        BY <1>7, <1>9, <1>13, <1>16, <3>2
      <3>3. CASE j \in kept /\ j # size /\ j \notin i .. size - 1
        <4>1. j \in 1 .. i - 1 \/ j \in size + 1 .. capacity
          BY <1>7, <1>13, <3>3
        <4> QED
          BY <1>9, <1>13, <1>16, <3>3, <4>1
      <3> QED
        BY <3>1, <3>2, <3>3
    <2>3. \A j, k \in 1 .. capacity' : from[j] = from[k] /\ from[j] # 0 => j = k
      BY <1>7, <1>16
    <2>4. \A j \in 1 .. size' : from[j] \in 0 .. size /\ from[j] # i
      BY <1>2, <1>5, <1>7, <1>17
    <2>5. ASSUME NEW x \in DOMAIN p
          PROVE  p[x] = NULL \/ \E k \in 1 .. capacity :
                                   p[x] = array[k] /\ \A j \in 1 .. size' : from[j] # k
      <3>1. CASE x = 1
        BY <1>7, <1>12, <2>4, <3>1
      <3>2. CASE x \in 2 .. 1 + Len(d)
        <4>1. p[x] = NULL \/ \E k \in size + 1 .. capacity : p[x] = array[k]
          BY <1>12, <3>2
        <4>2. \A k \in size + 1 .. capacity : k \in 1 .. capacity /\ \A j \in 1 .. size' : from[j] # k
          BY <1>7, <2>4
        <4> QED
          BY <4>1, <4>2
      <3> QED
        BY <1>12, <3>1, <3>2
    <2>6. size' \in 0 .. capacity' /\ 0 \in 0 .. size' /\ array' \in Seq(Slots \cup {copies + 1})
      BY <1>5, <1>7, <1>14
    <2> QED
      BY <1>5, <2>1, <2>2, <2>3, <2>4, <2>5, <2>6 DEF Rearranged
  <1>19. ASSUME ~shrunk, ~self_set
         PROVE  Whole(p, 0, from)
    <2>1. \A k \in size + 1 .. capacity : array[k] = NULL
      BY <1>5, <1>19 DEF IInv, Kept
    <2>2. \A x \in 2 .. 1 + Len(d) : p[x] = NULL
      BY <1>12, <2>1
    <2>3. array[i] = NULL \/ array[i] \in DOMAIN heap
      BY <1>5, <1>6 DEF Owned
    <2>4. \A x \in DOMAIN p : p[x] = NULL \/ p[x] \in DOMAIN heap
      BY <1>12, <2>2, <2>3
    <2>5. \A x, y \in DOMAIN p : p[x] = p[y] /\ p[x] # NULL => x = y
      BY <1>12, <2>2
    <2>6. ASSUME NEW k \in 1 .. size
          PROVE  array[k] \in ToSet(p) \cup {NULL} \/ \E j \in 1 .. size' : j # 0 /\ from[j] = k
      <3>1. CASE k = i
        <4>1. 1 \in DOMAIN p
          BY <1>12
        <4> QED
          BY <1>12, <3>1, <4>1 DEF ToSet
      <3>2. CASE k < i
        BY <1>2, <1>5, <1>7, <1>17, <3>2
      <3>3. CASE k > i
        <4>1. k - 1 \in 1 .. n /\ ~ (k - 1 < i) /\ (k - 1) + 1 = k /\ k - 1 # 0
          BY <1>2, <1>7, <3>3
        <4> QED
          BY <1>5, <1>17, <4>1
      <3> QED
        BY <1>7, <3>1, <3>2, <3>3
    <2>7. ASSUME NEW j \in size' + 1 .. capacity'
          PROVE  array'[j] = NULL
      <3>1. j \in 1 .. capacity' /\ (j \in kept => j = size \/ j \in size + 1 .. capacity)
        BY <1>2, <1>5, <1>7, <1>13, <1>14
      <3> QED
        BY <1>9, <1>13, <2>1, <3>1
    <2> QED
      BY <2>4, <2>5, <2>6, <2>7 DEF Whole
  <1> QED
    BY <1>2, <1>5, <1>15, <1>17, <1>18, <1>19

(* Appending is inserting behind the last entry. *)
LEMMA AppendInserts ==
  ASSUME IInv, NEW v, Vector_append(v)
  PROVE  Vector_insert(size + 1, v)
  <1>1. TypeOK /\ AtMostDouble /\ array \in Seq(Slots) /\ Len(array) = capacity /\ NULL \in Slots
    BY DEF IInv, TypeOK, Slots, capacity
  <1>2. size \in Nat /\ ~ (size + 1 <= size)
    BY <1>1, CapacityIs
  <1>3. PICK grown : grown = Resized(array, size + 1)
    OBVIOUS
  <1>4. array' = [grown EXCEPT ![size + 1] = CopyOf(v)]
    BY <1>3 DEF Vector_append
  <1>5. Fits(grown, array, size + 1, Slots)
    <2>1. size + 1 \in Nat
      BY <1>2
    <2> HIDE DEF Slots
    <2> QED
      BY <1>1, <1>3, <2>1, ResizedIs
  <1>6. grown = [j \in DOMAIN grown |-> grown[j]]
    BY <1>5 DEF Fits
  <1>7. array' = [j \in DOMAIN grown |-> IF j = size + 1 THEN CopyOf(v) ELSE grown[j]]
    BY <1>4, <1>6
  <1> QED
    BY <1>2, <1>3, <1>7 DEF Vector_append, Vector_insert

-----------------------------------------------------------------------------
(* Each operation keeps the invariant *)

LEMMA ResizeKeepsIInv ==
  ASSUME IInv, NEW n \in Nat, Vector_resize(n)
  PROVE  IInv'
  <1>1. size' = n /\ Alive /\ ~destroyed' /\ shrunk' = (shrunk \/ n < size) /\ self_set' = self_set
    BY DEF Vector_resize, Alive
  <1>2. n < size \/ n >= size
    BY CapacityIs DEF IInv
  <1>3. PICK from : /\ AtMostDouble'
                    /\ Rearranged(Dropped(array, n), NULL, 0, from)
                    /\ n >= size /\ ~shrunk /\ ~self_set => Whole(Dropped(array, n), 0, from)
    BY ResizeRearranges
  <1>4. ~shrunk' /\ ~self_set' => ~shrunk /\ ~self_set /\ Whole(Dropped(array, n), 0, from)
    BY <1>1, <1>2, <1>3
  <1> QED
    BY <1>1, <1>3, <1>4, WholeKeeps

LEMMA SetKeepsIInv ==
  ASSUME IInv, NEW i \in 1 .. size, NEW v, Vector_set(i, v)
  PROVE  IInv'
  <1>1. Alive /\ ~destroyed' /\ shrunk' = shrunk /\ self_set' = self_set
    BY DEF Vector_set, Alive
  <1> QED
    BY <1>1, SetRearranges, WholeKeeps

LEMMA InsertKeepsIInv ==
  ASSUME IInv, NEW i \in Nat \ {0}, NEW v, Vector_insert(i, v)
  PROVE  IInv'
  <1>1. Alive /\ ~destroyed' /\ shrunk' = shrunk /\ self_set' = self_set
    BY DEF Vector_insert, Alive
  <1> QED
    BY <1>1, InsertRearranges, WholeKeeps

LEMMA DeleteKeepsIInv ==
  ASSUME IInv, NEW i \in 1 .. size, Vector_delete(i)
  PROVE  IInv'
  <1>1. Alive /\ ~destroyed' /\ shrunk' = shrunk /\ self_set' = self_set
    BY DEF Vector_delete, Alive
  <1> QED
    BY <1>1, DeleteRearranges, WholeKeeps

LEMMA AppendKeepsIInv ==
  ASSUME IInv, NEW v, Vector_append(v)
  PROVE  IInv'
  <1>1. size + 1 \in Nat \ {0}
    BY CapacityIs DEF IInv
  <1> QED
    BY <1>1, AppendInserts, InsertKeepsIInv

LEMMA SetItselfKeepsIInv ==
  ASSUME IInv, NEW i \in 1 .. size, Vector_set_itself(i)
  PROVE  IInv'
  <1>1. /\ array[i] \in DOMAIN heap /\ array' = [array EXCEPT ![i] = CopyOf(heap[array[i]])]
        /\ heap' = [c \in (DOMAIN heap \ {array[i]}) \cup {copies + 1} |->
                       IF c \in DOMAIN heap THEN heap[c] ELSE heap[array[i]]]
        /\ copies' = copies + 1 /\ faults' = faults \cup {"use_after_free"}
        /\ self_set' /\ size' = size
    BY DEF Vector_set_itself
  <1>2. /\ TypeOK /\ HeapTypeOK /\ AtMostDouble /\ Owned /\ array \in Seq(Slots)
        /\ Len(array) = capacity /\ copies \in Nat /\ DOMAIN heap \subseteq 1 .. copies
    BY DEF IInv, TypeOK, HeapTypeOK, Slots, capacity
  <1>3. capacity \in Nat /\ size \in Nat /\ size <= capacity /\ i \in 1 .. capacity
    BY <1>2, CapacityIs
  <1>4. array' \in Seq(1 .. copies + 1 \cup {NULL}) /\ capacity' = capacity
    <2>1. array \in [1 .. capacity -> 1 .. copies + 1 \cup {NULL}]
          /\ CopyOf(heap[array[i]]) \in 1 .. copies + 1 \cup {NULL}
      BY <1>2 DEF CopyOf, Slots
    <2>2. array' \in [1 .. capacity -> 1 .. copies + 1 \cup {NULL}]
      BY <1>1, <1>3, <2>1
    <2> QED
      BY <1>2, <1>3, <2>2 DEF capacity
  <1>5. DOMAIN heap' = (DOMAIN heap \ {array[i]}) \cup {copies + 1} /\ HeapTypeOK'
    BY <1>1, <1>2 DEF HeapTypeOK
  <1>6. TypeOK'
    BY <1>1, <1>2, <1>3, <1>4, <1>5 DEF TypeOK
  <1>7. AtMostDouble'
    BY <1>1, <1>2, <1>4 DEF AtMostDouble
  <1>8. Owned' /\ Kept'
    <2>1. \A j \in 1 .. capacity : array[j] \in Slots /\ array[j] # copies + 1
      BY <1>2, <1>3, NullAssumption DEF Slots
    <2>2. \A j \in 1 .. capacity : j # i => array'[j] = array[j]
      BY <1>1, <1>2, <1>3
    <2>3. array'[i] \in {NULL, copies + 1}
      BY <1>1, <1>2, <1>3 DEF CopyOf
    <2>4. NULL \notin DOMAIN heap'
      BY <1>2, <1>5, NullAssumption
    <2>5. \A j, k \in 1 .. capacity : array'[j] = array'[k] /\ array'[j] \in DOMAIN heap' => j = k
      BY <1>2, <1>5, <2>1, <2>2, <2>3, <2>4 DEF Owned
    <2> QED
      BY <1>1, <1>4, <2>5 DEF Owned, Kept
  <1> QED
    BY <1>5, <1>6, <1>7, <1>8 DEF IInv

LEMMA DestroyKeepsIInv ==
  ASSUME IInv, Vector_destroy
  PROVE  IInv'
  <1>1. FreeThenCopy(array, NULL) /\ destroyed' /\ faults = {} /\ ~destroyed
        /\ UNCHANGED <<array, size, shrunk, self_set>>
    BY DEF Vector_destroy, Alive
  <1>2. /\ TypeOK /\ HeapTypeOK /\ AtMostDouble /\ Owned /\ array \in Seq(Slots)
        /\ DOMAIN array = 1 .. capacity /\ copies \in Nat
    BY DEF IInv, TypeOK, HeapTypeOK, Slots, capacity
  <1>3. Recopied(array, NULL)
    BY <1>1, <1>2, FreedThenCopied
  <1>4. /\ copies' = copies /\ DOMAIN heap' = DOMAIN heap \ ToSet(array) /\ HeapTypeOK'
        /\ DOMAIN heap' \subseteq 1 .. copies' /\ faults' \subseteq {"double_free", "use_after_free"}
    BY <1>3 DEF Recopied
  <1>5. TypeOK' /\ AtMostDouble'
    BY <1>1, <1>2, <1>4 DEF TypeOK, AtMostDouble, capacity
  <1>6. Owned'
    BY <1>1, <1>2, <1>4 DEF Owned, capacity
  <1>7. capacity \in Nat /\ size \in Nat /\ size <= capacity
    BY <1>2, CapacityIs
  <1>8. ASSUME ~shrunk, ~self_set
        PROVE  faults' = {} /\ DOMAIN heap' = {}
    <2>1. /\ \A c \in DOMAIN heap : \E i \in 1 .. size : array[i] = c
          /\ \A i \in size + 1 .. capacity : array[i] = NULL
      BY <1>1, <1>8 DEF IInv, Kept
    <2>2. \A x \in DOMAIN array : array[x] = NULL \/ array[x] \in DOMAIN heap
      BY <1>1, <1>2, <1>7, <2>1 DEF Owned
    <2>3. \A x, y \in DOMAIN array : array[x] = array[y] /\ array[x] # NULL => x = y
      BY <1>2, <2>2 DEF Owned
    <2>4. faults' = faults
      BY <1>3, <2>2, <2>3 DEF Recopied
    <2>5. \A i \in 1 .. size : array[i] \in ToSet(array)
      BY <1>2, <1>7 DEF ToSet
    <2> QED
      BY <1>1, <1>4, <2>1, <2>4, <2>5
  <1>9. Kept'
    BY <1>1, <1>8 DEF Kept
  <1> QED
    BY <1>4, <1>5, <1>6, <1>9 DEF IInv

(* The invariant holds of a vector that is used directly and of the one in a *)
(* document, which is created again after it was destroyed.                  *)

LEMMA CreatedIsTight ==
  ASSUME NEW a, a = [i \in 1 .. INITIAL_CAPACITY |-> NULL], NEW S, NULL \in S
  PROVE  /\ a \in Seq(S) /\ Len(a) = INITIAL_CAPACITY
         /\ \E k \in 0 .. Len(a) : Len(a) = INITIAL_CAPACITY * pow2[k]
  <1>1. a \in [1 .. INITIAL_CAPACITY -> S] /\ INITIAL_CAPACITY \in Nat
    BY InitialCapacityAssumption
  <1>2. a \in Seq(S) /\ Len(a) = INITIAL_CAPACITY
    BY <1>1
  <1>3. INITIAL_CAPACITY = INITIAL_CAPACITY * pow2[0]
    BY <1>1, pow2Step
  <1> QED
    BY <1>1, <1>2, <1>3

LEMMA CreateKeepsIInv ==
  ASSUME IInv, Document_create
  PROVE  IInv'
  <1>1. /\ array' = [i \in 1 .. INITIAL_CAPACITY |-> NULL] /\ size' = 0 /\ ~destroyed' /\ destroyed
        /\ UNCHANGED <<heap, copies, faults, shrunk, self_set>>
    BY DEF Document_create
  <1>2. TypeOK /\ HeapTypeOK /\ Kept /\ DOMAIN heap \subseteq 1 .. copies /\ copies \in Nat
    BY DEF IInv, TypeOK, HeapTypeOK
  <1>3. /\ array' \in Seq(1 .. copies' \cup {NULL}) /\ capacity' = INITIAL_CAPACITY
        /\ \E k \in 0 .. capacity' : capacity' = INITIAL_CAPACITY * pow2[k]
    BY <1>1, CreatedIsTight DEF capacity
  <1>4. TypeOK' /\ HeapTypeOK' /\ AtMostDouble'
    BY <1>1, <1>2, <1>3, InitialCapacityAssumption DEF TypeOK, HeapTypeOK, AtMostDouble
  <1>5. NULL \notin DOMAIN heap'
    BY <1>1, <1>2, NullAssumption
  <1>6. Owned' /\ Kept'
    BY <1>1, <1>2, <1>3, <1>5, InitialCapacityAssumption DEF Owned, Kept
  <1> QED
    BY <1>4, <1>6 DEF IInv

LEMMA InitIInv == Init => IInv
  <1> SUFFICES ASSUME Init PROVE IInv
    OBVIOUS
  <1>1. /\ array = [i \in 1 .. INITIAL_CAPACITY |-> NULL] /\ size = 0 /\ heap = << >> /\ copies = 0
        /\ faults = {} /\ ~destroyed
    BY DEF Init, Vector_create
  <1>2. /\ array \in Seq(1 .. copies \cup {NULL}) /\ capacity = INITIAL_CAPACITY
        /\ \E k \in 0 .. capacity : capacity = INITIAL_CAPACITY * pow2[k]
    BY <1>1, CreatedIsTight DEF capacity
  <1>3. DOMAIN heap = {} /\ heap = [c \in DOMAIN heap |-> heap[c]]
    BY <1>1
  <1>4. TypeOK /\ HeapTypeOK /\ AtMostDouble
    BY <1>1, <1>2, <1>3, InitialCapacityAssumption DEF TypeOK, HeapTypeOK, AtMostDouble
  <1>5. Owned /\ Kept
    BY <1>1, <1>2, <1>3, InitialCapacityAssumption DEF Owned, Kept
  <1> QED
    BY <1>4, <1>5 DEF IInv

LEMMA NextKeepsIInv ==
  ASSUME IInv, Next
  PROVE  IInv'
  <1>1. ASSUME NEW n \in 0 .. MaxSize, Vector_resize(n)
        PROVE  IInv'
    BY <1>1, MaxSizeAssumption, ResizeKeepsIInv
  <1>2. ASSUME NEW i \in 1 .. MaxSize, Vector_delete(i)
        PROVE  IInv'
    BY <1>2, DeleteKeepsIInv DEF Vector_delete
  <1>3. ASSUME NEW i \in 1 .. MaxSize, Vector_set_itself(i)
        PROVE  IInv'
    BY <1>3, SetItselfKeepsIInv DEF Vector_set_itself
  <1>4. ASSUME NEW i \in 1 .. MaxSize, NEW v, Vector_set(i, v)
        PROVE  IInv'
    BY <1>4, SetKeepsIInv DEF Vector_set
  <1>5. ASSUME NEW i \in 1 .. MaxSize, NEW v, Vector_insert(i, v)
        PROVE  IInv'
    BY <1>5, MaxSizeAssumption, InsertKeepsIInv
  <1> QED
    BY <1>1, <1>2, <1>3, <1>4, <1>5, AppendKeepsIInv, DestroyKeepsIInv DEF Next

LEMMA UnchangedKeepsIInv ==
  ASSUME IInv, UNCHANGED vars
  PROVE  IInv'
  BY DEF vars, IInv, TypeOK, HeapTypeOK, AtMostDouble, Owned, Kept, capacity

DocumentIInv == IInv /\ line_number \in Nat

LEMMA DocumentNextKeepsIInv ==
  ASSUME DocumentIInv, DocumentNext
  PROVE  IInv'
  <1>0. IInv
    BY DEF DocumentIInv
  <1>1. ASSUME Edit
        PROVE  IInv'
    <2>1. ASSUME NEW i \in 1 .. MaxLines, Document_delete_line(i)
          PROVE  IInv'
      BY <1>0, <2>1, DeleteKeepsIInv DEF Document_delete_line, Vector_delete
    <2>2. ASSUME NEW i \in 1 .. MaxLines, NEW str, Document_set_line(i, str)
          PROVE  IInv'
      BY <1>0, <2>2, SetKeepsIInv DEF Document_set_line, Vector_set
    <2>3. ASSUME NEW i \in 1 .. MaxLines, NEW str, Document_insert_line(i, str)
          PROVE  IInv'
      BY <1>0, <2>3, MaxLinesAssumption, InsertKeepsIInv DEF Document_insert_line
    <2>4. CASE Document_destroy
      BY <1>0, <2>4, DestroyKeepsIInv DEF Document_destroy
    <2>5. CASE Document_write_to_file
      BY <1>0, <2>5, UnchangedKeepsIInv DEF Document_write_to_file
    <2>6. CASE Document_create
      BY <1>0, <2>6, CreateKeepsIInv
    <2> QED
      BY <1>0, <1>1, <2>1, <2>2, <2>3, <2>4, <2>5, <2>6, CreateKeepsIInv DEF Edit, OpenFile
  <1>2. CASE ReadLine
    <2>1. line_number + 1 \in Nat \ {0}
      BY DEF DocumentIInv
    <2> QED
      BY <1>0, <1>2, <2>1, InsertKeepsIInv DEF ReadLine, Document_insert_line
  <1>3. CASE EndOfFile
    BY <1>0, <1>3, UnchangedKeepsIInv DEF EndOfFile
  <1> QED
    BY <1>0, <1>1, <1>2, <1>3, NextKeepsIInv DEF DocumentNext

LEMMA DocumentStepKeepsIInv == DocumentIInv /\ [DocumentNext]_<<vars, documentVars>> => DocumentIInv'
  <1> SUFFICES ASSUME DocumentIInv, [DocumentNext]_<<vars, documentVars>> PROVE DocumentIInv'
    OBVIOUS
  <1>1. IInv'
    BY DocumentNextKeepsIInv, UnchangedKeepsIInv DEF DocumentIInv
  <1>2. line_number' \in Nat
    BY DEF DocumentIInv, DocumentNext, Edit, Document_delete_line, Document_set_line, Document_destroy,
       Document_write_to_file, OpenFile, ReadLine, EndOfFile, documentVars
  <1> QED
    BY <1>1, <1>2 DEF DocumentIInv

(* The inductive invariant. *)
THEOREM Invariance == (Spec => []IInv) /\ (DocumentSpec => []DocumentIInv)
  <1>1. IInv /\ [Next]_vars => IInv'
    BY NextKeepsIInv, UnchangedKeepsIInv
  <1>2. Spec => []IInv
    BY <1>1, InitIInv, PTL DEF Spec
  <1>3. DocumentInit => DocumentIInv
    BY InitIInv DEF DocumentInit, DocumentIInv
  <1>4. DocumentSpec => []DocumentIInv
    BY <1>3, DocumentStepKeepsIInv, PTL DEF DocumentSpec
  <1> QED
    BY <1>2, <1>4

(* Whatever is called, the capacity is the initial one doubled some number of *)
(* times and, unless it is the initial one, less than four times the size     *)
(* (Vector_resize, vector.c:79).                                              *)
THEOREM CapacityIsTight == (Spec => []CapacityTight) /\ (DocumentSpec => []CapacityTight)
  <1>1. IInv => CapacityTight
    <2> SUFFICES ASSUME IInv PROVE CapacityTight
      OBVIOUS
    <2>1. TypeOK /\ AtMostDouble
      BY DEF IInv
    <2>2. size \in Nat /\ capacity \in Nat /\ (capacity > INITIAL_CAPACITY => capacity <= 2 * size)
      BY <2>1, CapacityIs
    <2>3. capacity > INITIAL_CAPACITY => capacity < 4 * size
      BY <2>2, InitialCapacityAssumption
    <2> QED
      BY <2>1, <2>3 DEF AtMostDouble, CapacityTight
  <1>2. DocumentIInv => CapacityTight
    BY <1>1 DEF DocumentIInv
  <1> QED
    BY <1>1, <1>2, Invariance, PTL

(* Without a resize below the size and a set of an entry to itself, every copy *)
(* is freed, once.                                                             *)
THEOREM CopiesAreFreedOnce == (Spec => []FreedOnce) /\ (DocumentSpec => []FreedOnce)
  <1>1. IInv => FreedOnce
    BY DEF IInv, FreedOnce, HeapTypeOK, Kept
  <1>2. DocumentIInv => FreedOnce
    BY <1>1 DEF DocumentIInv
  <1> QED
    BY <1>1, <1>2, Invariance, PTL

-----------------------------------------------------------------------------
(* The refinement: each operation does to the entries what the abstract list does *)

LEMMA SeqOfFunction ==
  ASSUME NEW n \in Nat, NEW s, s = [j \in 1 .. n |-> s[j]]
  PROVE  s \in Seq({s[j] : j \in 1 .. n}) /\ Len(s) = n /\ DOMAIN s = 1 .. n
  <1> DEFINE S == {s[j] : j \in 1 .. n}
  <1>1. s \in [1 .. n -> S]
    OBVIOUS
  <1> HIDE DEF S
  <1>2. s \in Seq(S) /\ Len(s) = n /\ DOMAIN s = 1 .. n
    BY <1>1
  <1> QED
    BY <1>2 DEF S

LEMMA ContentsAre ==
  ASSUME IInv, ~destroyed
  PROVE  /\ size \in Nat /\ Len(Contents) = size /\ DOMAIN Contents = 1 .. size
         /\ Contents = [j \in 1 .. size |-> Contents[j]]
         /\ Contents \in Seq({Contents[j] : j \in 1 .. size})
  <1>1. size \in Nat
    BY CapacityIs DEF IInv
  <1>2. Contents = [j \in 1 .. size |-> Contents[j]]
    BY DEF Contents
  <1> HIDE DEF Contents
  <1> QED
    BY <1>1, <1>2, SeqOfFunction

LEMMA ContentsBecome ==
  ASSUME IInv', ~destroyed'
  PROVE  /\ size' \in Nat /\ Len(Contents') = size'
         /\ Contents' = [j \in 1 .. size' |-> Contents'[j]]
  <1>1. size' \in Nat
    <2>1. (TypeOK /\ AtMostDouble => size \in Nat)'
      BY CapacityIs, PTL
    <2> QED
      BY <2>1 DEF IInv
  <1>2. Contents' = [j \in 1 .. size' |-> Contents'[j]]
    BY DEF Contents
  <1> HIDE DEF Contents
  <1> QED
    BY <1>1, <1>2, SeqOfFunction

LEMMA InsertAtPointwise ==
  ASSUME NEW S, NEW s \in Seq(S), NEW i \in 1 .. Len(s), NEW e
  PROVE  InsertAt(s, i, e) = [j \in 1 .. Len(s) + 1 |->
                                IF j < i THEN s[j] ELSE IF j = i THEN e ELSE s[j - 1]]
  <1> DEFINE T == S \cup {e}
             r == [j \in 1 .. Len(s) + 1 |-> IF j < i THEN s[j] ELSE IF j = i THEN e ELSE s[j - 1]]
             front == SubSeq(s, 1, i - 1)
             back  == SubSeq(s, i, Len(s))
  <1>1. s \in Seq(T) /\ e \in T /\ Len(s) \in Nat
    OBVIOUS
  <1> HIDE DEF T
  <1>2. front \in Seq(T) /\ Len(front) = i - 1 /\ \A j \in 1 .. i - 1 : front[j] = s[j]
    BY <1>1
  <1>3. back \in Seq(T) /\ Len(back) = Len(s) - i + 1
        /\ \A j \in 1 .. Len(s) - i + 1 : back[j] = s[i + j - 1]
    BY <1>1, SubSeqProperties
  <1> HIDE DEF front, back
  <1>4. /\ front \o <<e>> \in Seq(T) /\ Len(front \o <<e>>) = i
        /\ \A j \in 1 .. i : (front \o <<e>>)[j] = IF j < i THEN s[j] ELSE e
    BY <1>1, <1>2
  <1> DEFINE head == front \o <<e>>
  <1> HIDE DEF head
  <1>5. head \in Seq(T) /\ Len(head) = i /\ \A j \in 1 .. i : head[j] = IF j < i THEN s[j] ELSE e
    BY <1>4 DEF head
  <1>6. head \o back \in Seq(T) /\ Len(head \o back) = Len(s) + 1
    <2>1. Len(head \o back) = Len(head) + Len(back) /\ head \o back \in Seq(T)
      BY <1>3, <1>5, ConcatProperties
    <2> QED
      BY <1>1, <1>3, <1>5, <2>1
  <1>7. \A j \in 1 .. Len(s) + 1 : (head \o back)[j] = IF j <= i THEN head[j] ELSE back[j - i]
    BY <1>1, <1>3, <1>5
  <1>8. \A j \in 1 .. Len(s) + 1 : (head \o back)[j] = r[j]
    <2> SUFFICES ASSUME NEW j \in 1 .. Len(s) + 1 PROVE (head \o back)[j] = r[j]
      OBVIOUS
    <2>0. r[j] = IF j < i THEN s[j] ELSE IF j = i THEN e ELSE s[j - 1]
      BY <1>1
    <2>3. j \in Nat /\ i \in Nat /\ (j <= i \/ j > i) /\ (j > i => ~ (j <= i) /\ ~ (j < i) /\ j # i)
      BY <1>1
    <2> HIDE DEF r
    <2>1. CASE j <= i
      BY <1>5, <1>7, <2>0, <2>1, <2>3
    <2>2. CASE j > i
      <3>1. j - i \in 1 .. Len(s) - i + 1 /\ i + (j - i) - 1 = j - 1
        BY <1>1, <2>2
      <3>2. back[j - i] = s[j - 1]
        BY <1>3, <3>1
      <3> QED
        BY <1>7, <2>0, <2>2, <2>3, <3>2
    <2> QED
      BY <2>1, <2>2, <2>3
  <1>9. r \in Seq(T) /\ Len(r) = Len(s) + 1
    <2>1. \A j \in 1 .. Len(s) + 1 : (head \o back)[j] \in T
      BY <1>6
    <2>2. r \in [1 .. Len(s) + 1 -> T]
      BY <1>8, <2>1
    <2> HIDE DEF r
    <2> QED
      BY <1>1, <2>2
  <1>10. head \o back = r
    <2> HIDE DEF r
    <2> QED
      BY <1>6, <1>8, <1>9, SeqEqual
  <1> QED
    BY <1>10 DEF InsertAt, head, front, back

LEMMA RemoveAtPointwise ==
  ASSUME NEW S, NEW s \in Seq(S), NEW i \in 1 .. Len(s)
  PROVE  RemoveAt(s, i) = [j \in 1 .. Len(s) - 1 |-> IF j < i THEN s[j] ELSE s[j + 1]]
  <1> DEFINE r == [j \in 1 .. Len(s) - 1 |-> IF j < i THEN s[j] ELSE s[j + 1]]
             front == SubSeq(s, 1, i - 1)
             back  == SubSeq(s, i + 1, Len(s))
  <1>1. Len(s) \in Nat
    OBVIOUS
  <1>2. front \in Seq(S) /\ Len(front) = i - 1 /\ \A j \in 1 .. i - 1 : front[j] = s[j]
    BY <1>1
  <1>3. back \in Seq(S) /\ Len(back) = Len(s) - i
        /\ \A j \in 1 .. Len(s) - i : back[j] = s[i + j]
    <2>1. \A j \in i + 1 .. Len(s) : s[j] \in S
      BY <1>1
    <2>2. /\ back \in Seq(S) /\ Len(back) = IF i + 1 <= Len(s) THEN Len(s) - (i + 1) + 1 ELSE 0
          /\ \A j \in 1 .. Len(s) - (i + 1) + 1 : back[j] = s[(i + 1) + j - 1]
      BY <1>1, <2>1, SubSeqProperties
    <2> HIDE DEF back
    <2> QED
      BY <1>1, <2>2
  <1> HIDE DEF front, back
  <1>4. front \o back \in Seq(S) /\ Len(front \o back) = Len(s) - 1
    BY <1>1, <1>2, <1>3
  <1>5. \A j \in 1 .. Len(s) - 1 : (front \o back)[j] = IF j < i THEN front[j] ELSE back[j - i + 1]
    BY <1>1, <1>2, <1>3
  <1>6. \A j \in 1 .. Len(s) - 1 : (front \o back)[j] = r[j]
    <2> SUFFICES ASSUME NEW j \in 1 .. Len(s) - 1 PROVE (front \o back)[j] = r[j]
      OBVIOUS
    <2>0. r[j] = IF j < i THEN s[j] ELSE s[j + 1]
      BY <1>1
    <2>3. j \in Nat /\ i \in Nat /\ (j < i \/ j >= i) /\ (j >= i => ~ (j < i))
      BY <1>1
    <2> HIDE DEF r
    <2>1. CASE j < i
      BY <1>2, <1>5, <2>0, <2>1, <2>3
    <2>2. CASE j >= i
      <3>1. j - i + 1 \in 1 .. Len(s) - i /\ i + (j - i + 1) = j + 1
        BY <1>1, <2>2
      <3>2. back[j - i + 1] = s[j + 1]
        BY <1>3, <3>1
      <3> QED
        BY <1>5, <2>0, <2>2, <2>3, <3>2
    <2> QED
      BY <2>1, <2>2, <2>3
  <1>7. r \in Seq(S) /\ Len(r) = Len(s) - 1
    <2>1. \A j \in 1 .. Len(s) - 1 : (front \o back)[j] \in S
      BY <1>4
    <2>2. r \in [1 .. Len(s) - 1 -> S]
      BY <1>6, <2>1
    <2> HIDE DEF r
    <2> QED
      BY <1>1, <2>2
  <1>8. front \o back = r
    <2> HIDE DEF r
    <2> QED
      BY <1>4, <1>6, <1>7, SeqEqual
  <1> QED
    BY <1>8 DEF RemoveAt, front, back

LEMMA ResizeRefines ==
  ASSUME IInv, NEW n \in Nat, Vector_resize(n), faults' = {}
  PROVE  List!Resize(n) /\ List!Next
  <1>1. size' = n /\ Alive /\ ~destroyed /\ ~destroyed' /\ shrunk' = (shrunk \/ n < size) /\ self_set' = self_set
    BY DEF Vector_resize, Alive
  <1>2. IInv'
    BY ResizeKeepsIInv
  <1>3. PICK from : /\ AtMostDouble' /\ Rearranged(Dropped(array, n), NULL, 0, from)
                    /\ n >= size /\ ~shrunk /\ ~self_set => Whole(Dropped(array, n), 0, from)
                    /\ \A j \in 1 .. n : from[j] = IF j <= size THEN j ELSE 0
    BY ResizeRearranges
  <1>4. n < size \/ n >= size
    BY CapacityIs DEF IInv
  <1>5. ~shrunk' /\ ~self_set' => ~shrunk /\ ~self_set /\ Whole(Dropped(array, n), 0, from)
    BY <1>1, <1>3, <1>4
  <1>6. Does(NULL, 0, from)
    BY <1>1, <1>3, <1>5, WholeKeeps
  <1>7. \A j \in 1 .. n : Contents'[j] = IF j <= size THEN Contents[j] ELSE NULL
    BY <1>1, <1>3, <1>6 DEF Does
  <1>8. Contents' = [j \in 1 .. n |-> Contents'[j]] /\ Len(Contents') = n
    BY <1>1, <1>2, ContentsBecome
  <1>9. Len(Contents) = size
    BY <1>1, ContentsAre
  <1>10. Contents' = [j \in 1 .. n |-> IF j <= Len(Contents) THEN Contents[j] ELSE NULL]
    <2> HIDE DEF Contents
    <2> QED
      BY <1>7, <1>8, <1>9
  <1>11. List!Resize(n)
    BY <1>10 DEF List!Resize, List!Resized, List!size
  <1>12. n \in 0 .. Len(Contents') + 1
    BY <1>8
  <1> QED
    BY <1>11, <1>12 DEF List!Next

LEMMA SetRefines ==
  ASSUME IInv, NEW i \in 1 .. size, NEW v \in Values \cup {NULL}, Vector_set(i, v), faults' = {}
  PROVE  List!Set(i, v) /\ List!Next
  <1>1. Alive /\ ~destroyed /\ ~destroyed' /\ shrunk' = shrunk /\ self_set' = self_set /\ size' = size
    BY DEF Vector_set, Alive
  <1>2. IInv'
    BY SetKeepsIInv
  <1>3. PICK from : /\ AtMostDouble' /\ Rearranged(<<array[i]>>, v, i, from)
                    /\ ~shrunk /\ ~self_set => Whole(<<array[i]>>, i, from)
                    /\ \A j \in 1 .. size : from[j] = j
    BY SetRearranges
  <1>4. Does(v, i, from)
    BY <1>1, <1>3, WholeKeeps
  <1>5. \A j \in 1 .. size : Contents'[j] = IF j = i THEN v ELSE Contents[j]
    <2>1. \A j \in 1 .. size : from[j] = j /\ j # 0
      BY <1>3
    <2> QED
      BY <1>1, <1>4, <2>1 DEF Does
  <1>6. Contents' = [j \in 1 .. size |-> Contents'[j]] /\ Len(Contents') = size /\ size \in Nat
    BY <1>1, <1>2, ContentsBecome
  <1>7. DOMAIN Contents = 1 .. size /\ Contents = [j \in 1 .. size |-> Contents[j]]
    BY <1>1, ContentsAre
  <1>8. Contents' = [Contents EXCEPT ![i] = v]
    <2> HIDE DEF Contents
    <2> QED
      BY <1>5, <1>6, <1>7
  <1>9. List!Set(i, v)
    BY <1>7, <1>8 DEF List!Set
  <1>10. i \in 0 .. Len(Contents') + 1
    BY <1>6
  <1> QED
    BY <1>9, <1>10 DEF List!Next

LEMMA InsertRefines ==
  ASSUME IInv, NEW i \in Nat \ {0}, NEW v \in Values \cup {NULL}, Vector_insert(i, v), faults' = {}
  PROVE  List!Insert(i, v) /\ List!Next
  <1>1. Alive /\ ~destroyed /\ ~destroyed' /\ shrunk' = shrunk /\ self_set' = self_set
    BY DEF Vector_insert, Alive
  <1>2. IInv'
    BY InsertKeepsIInv
  <1>3. PICK p, from : /\ AtMostDouble' /\ size' = IF i <= size THEN size + 1 ELSE i
                       /\ Rearranged(p, v, i, from)
                       /\ ~shrunk /\ ~self_set => Whole(p, i, from)
                       /\ \A j \in 1 .. size' : from[j] =
                             IF j = i THEN 0 ELSE IF i < j /\ i <= size THEN j - 1
                             ELSE IF j <= size THEN j ELSE 0
    BY InsertRearranges
  <1>4. Does(v, i, from)
    BY <1>1, <1>3, WholeKeeps
  <1>5. /\ size \in Nat /\ Len(Contents) = size /\ DOMAIN Contents = 1 .. size
        /\ Contents = [j \in 1 .. size |-> Contents[j]]
        /\ Contents \in Seq({Contents[j] : j \in 1 .. size})
    BY <1>1, ContentsAre
  <1>6. Contents' = [j \in 1 .. size' |-> Contents'[j]] /\ Len(Contents') = size' /\ size' \in Nat
    BY <1>1, <1>2, ContentsBecome
  <1>7. \A j \in 1 .. size' :
          Contents'[j] = IF j = i THEN v ELSE IF from[j] = 0 THEN NULL ELSE Contents[from[j]]
    BY <1>4 DEF Does
  <1> HIDE DEF Contents
  <1>8. List!Insert(i, v)
    <2>1. CASE i <= size
      <3>1. size' = size + 1 /\ i \in 1 .. Len(Contents)
        BY <1>3, <1>5, <2>1
      <3>2. \A j \in 1 .. size' :
              Contents'[j] = IF j < i THEN Contents[j] ELSE IF j = i THEN v ELSE Contents[j - 1]
        <4>1. \A j \in 1 .. size' : j # i =>
                from[j] = (IF j < i THEN j ELSE j - 1) /\ from[j] # 0
          BY <1>3, <1>5, <2>1, <3>1
        <4> QED
          BY <1>7, <4>1, <3>1, <1>5
      <3>3. Contents' = [j \in 1 .. Len(Contents) + 1 |->
                           IF j < i THEN Contents[j] ELSE IF j = i THEN v ELSE Contents[j - 1]]
        BY <1>5, <1>6, <3>1, <3>2
      <3>4. InsertAt(Contents, i, v) = [j \in 1 .. Len(Contents) + 1 |->
                           IF j < i THEN Contents[j] ELSE IF j = i THEN v ELSE Contents[j - 1]]
        <4>1. PICK S : Contents \in Seq(S)
          BY <1>5
        <4>2. i \in 1 .. Len(Contents)
          BY <3>1
        <4> QED
          BY ONLY <4>1, <4>2, InsertAtPointwise
      <3>5. Contents' = InsertAt(Contents, i, v)
        BY <3>3, <3>4
      <3> QED
        BY <1>5, <3>1, <3>5 DEF List!Insert, List!InsertAt, InsertAt
    <2>2. CASE ~ (i <= size)
      <3>1. size' = i /\ i > Len(Contents)
        BY <1>3, <1>5, <2>2
      <3>2. \A j \in 1 .. i :
              Contents'[j] = IF j = i THEN v ELSE IF j <= Len(Contents) THEN Contents[j] ELSE NULL
        <4>1. \A j \in 1 .. i : j # i => from[j] = (IF j <= size THEN j ELSE 0) /\ j # 0
          BY <1>3, <1>5, <2>2, <3>1
        <4> QED
          BY <1>5, <1>7, <3>1, <4>1
      <3>3. Contents' = [[j \in 1 .. i |-> IF j <= Len(Contents) THEN Contents[j] ELSE NULL]
                           EXCEPT ![i] = v]
        BY <1>6, <3>1, <3>2
      <3> QED
        BY <3>1, <3>3 DEF List!Insert, List!Resized, List!size
    <2> QED
      BY <2>1, <2>2
  <1>9. i \in 0 .. Len(Contents') + 1 /\ i > 0
    BY <1>3, <1>5, <1>6
  <1> QED
    BY <1>8, <1>9 DEF List!Next

LEMMA DeleteRefines ==
  ASSUME IInv, NEW i \in 1 .. size, Vector_delete(i), faults' = {}
  PROVE  List!Delete(i) /\ List!Next
  <1>1. Alive /\ ~destroyed /\ ~destroyed' /\ shrunk' = shrunk /\ self_set' = self_set
    BY DEF Vector_delete, Alive
  <1>2. IInv'
    BY DeleteKeepsIInv
  <1>3. PICK p, from : /\ AtMostDouble' /\ size' = size - 1
                       /\ Rearranged(p, NULL, 0, from)
                       /\ ~shrunk /\ ~self_set => Whole(p, 0, from)
                       /\ \A j \in 1 .. size - 1 : from[j] = IF j < i THEN j ELSE j + 1
    BY DeleteRearranges
  <1>4. Does(NULL, 0, from)
    BY <1>1, <1>3, WholeKeeps
  <1>5. /\ size \in Nat /\ Len(Contents) = size /\ DOMAIN Contents = 1 .. size
        /\ Contents \in Seq({Contents[j] : j \in 1 .. size})
    BY <1>1, ContentsAre
  <1>6. Contents' = [j \in 1 .. size' |-> Contents'[j]] /\ Len(Contents') = size' /\ size' \in Nat
    BY <1>1, <1>2, ContentsBecome
  <1>7. \A j \in 1 .. size' : Contents'[j] = IF j < i THEN Contents[j] ELSE Contents[j + 1]
    <2>1. \A j \in 1 .. size' : j # 0 /\ from[j] = (IF j < i THEN j ELSE j + 1) /\ from[j] # 0
      BY <1>3, <1>5
    <2> QED
      BY <1>4, <2>1 DEF Does
  <1> HIDE DEF Contents
  <1>8. Contents' = [j \in 1 .. Len(Contents) - 1 |-> IF j < i THEN Contents[j] ELSE Contents[j + 1]]
    BY <1>3, <1>5, <1>6, <1>7
  <1>9. Contents' = RemoveAt(Contents, i)
    BY <1>5, <1>8, RemoveAtPointwise
  <1>10. List!Delete(i)
    BY <1>5, <1>9 DEF List!Delete, List!RemoveAt, RemoveAt
  <1>11. i \in 0 .. Len(Contents') + 1
    BY <1>3, <1>5, <1>6
  <1> QED
    BY <1>10, <1>11 DEF List!Next

LEMMA DestroyRefines ==
  ASSUME IInv, Vector_destroy
  PROVE  List!Resize(0) /\ List!Next
  <1>1. ~destroyed /\ destroyed'
    BY DEF Vector_destroy, Alive
  <1>2. Len(Contents) \in Nat
    BY <1>1, ContentsAre
  <1>3. Contents' = << >>
    BY <1>1 DEF Contents
  <1> HIDE DEF Contents
  <1>4. [j \in 1 .. 0 |-> IF j <= Len(Contents) THEN Contents[j] ELSE NULL] = << >>
    OBVIOUS
  <1>5. List!Resize(0)
    BY <1>3, <1>4 DEF List!Resize, List!Resized, List!size
  <1>6. 0 \in 0 .. Len(Contents') + 1
    BY <1>3
  <1> QED
    BY <1>5, <1>6 DEF List!Next

LEMMA SetItselfFaults ==
  ASSUME NEW i, Vector_set_itself(i)
  PROVE  faults' # {}
  BY DEF Vector_set_itself

LEMMA AppendRefines ==
  ASSUME IInv, NEW v \in Values \cup {NULL}, Vector_append(v), faults' = {}
  PROVE  List!Insert(size + 1, v) /\ List!Next
  <1>1. size + 1 \in Nat \ {0}
    BY CapacityIs DEF IInv
  <1>2. Vector_insert(size + 1, v)
    BY AppendInserts
  <1> QED
    BY <1>1, <1>2, InsertRefines

LEMMA CallsRefine ==
  ASSUME IInv, faults' = {}
  PROVE  AsCalled
  <1>1. \A n \in 0 .. size' : Vector_resize(n) => List!Resize(n)
    BY ResizeRefines
  <1>2. \A i \in 1 .. size : Vector_delete(i) => List!Delete(i)
    BY DeleteRefines
  <1>3. ASSUME NEW v \in Values \cup {NULL}
        PROVE  /\ \A i \in 1 .. size : Vector_set(i, v) => List!Set(i, v)
               /\ \A i \in 1 .. size' : Vector_insert(i, v) => List!Insert(i, v)
               /\ Vector_append(v) => List!Insert(size + 1, v)
    <2>1. \A i \in 1 .. size : Vector_set(i, v) => List!Set(i, v)
      BY SetRefines
    <2>2. \A i \in 1 .. size' : Vector_insert(i, v) => List!Insert(i, v)
      BY InsertRefines
    <2>3. Vector_append(v) => List!Insert(size + 1, v)
      BY AppendRefines
    <2> QED
      BY <2>1, <2>2, <2>3
  <1>4. Vector_destroy => List!Resize(0)
    BY DestroyRefines
  <1> QED
    BY <1>1, <1>2, <1>3, <1>4 DEF AsCalled

LEMMA NextRefines ==
  ASSUME IInv, Next, faults' = {}
  PROVE  List!Next
  <1>1. ASSUME NEW n \in 0 .. MaxSize, Vector_resize(n)
        PROVE  List!Next
    BY <1>1, MaxSizeAssumption, ResizeRefines
  <1>2. ASSUME NEW i \in 1 .. MaxSize, Vector_delete(i)
        PROVE  List!Next
    BY <1>2, DeleteRefines DEF Vector_delete
  <1>3. ASSUME NEW i \in 1 .. MaxSize, NEW v \in Values \cup {NULL}, Vector_set(i, v)
        PROVE  List!Next
    BY <1>3, SetRefines DEF Vector_set
  <1>4. ASSUME NEW i \in 1 .. MaxSize, NEW v \in Values \cup {NULL}, Vector_insert(i, v)
        PROVE  List!Next
    BY <1>4, MaxSizeAssumption, InsertRefines
  <1>5. ASSUME NEW v \in Values \cup {NULL}, Vector_append(v)
        PROVE  List!Next
    BY <1>5, AppendRefines
  <1> QED
    BY <1>1, <1>2, <1>3, <1>4, <1>5, SetItselfFaults, DestroyRefines DEF Next

(* As long as nothing was freed twice or used after it was freed, the entries of *)
(* the vector are the list of values that vector.h speaks of: each call does to  *)
(* it what the operation of its name does, with the arguments of the call.       *)
THEOREM Refinement == Spec => ImplementsList
  <1>1. Init => List!Init
    BY DEF Init, Vector_create, Contents, List!Init
  <1>2. ASSUME IInv, [Next]_vars
        PROVE  [faults' = {} => AsCalled /\ (List!Next \/ UNCHANGED Contents)]_vars
    BY <1>2, NextRefines, CallsRefine
  <1>3. Spec => []IInv
    BY Invariance
  <1> QED
    BY <1>1, <1>2, <1>3, PTL DEF Spec, ImplementsList
=============================================================================
