------------------------------- MODULE MmuProofs -------------------------------
(***************************************************************************)
(* Mmu, for any number of processes and pids, any addresses, any size of   *)
(* the page tables and of the TLB: translations are consistent, the page   *)
(* faults are exact, and MMU_delete frees everything once. A TLB of more   *)
(* than two nodes is an LRU cache as long as the sentinel stays last.      *)
(***************************************************************************)
EXTENDS Mmu, FiniteSetTheorems, SequenceTheorems, WellFoundedInduction, TLAPS

-----------------------------------------------------------------------------
(* The parts of an address *)

LEMMA ProductGrows ==
  ASSUME NEW b \in Nat, NEW q \in Int, NEW p \in Int, q < p
  PROVE  b * q + b <= b * p
  <1>1. PICK k \in Nat : p = q + 1 + k
    <2>1. p - q - 1 \in Nat /\ p = q + 1 + (p - q - 1)
      OBVIOUS
    <2> QED
      BY <2>1
  <1>2. b * p = b * q + b + b * k /\ b * k \in Nat
    BY <1>1
  <1> QED
    BY <1>2

LEMMA DigitsAreUnique ==
  ASSUME NEW b \in Nat \ {0}, NEW q \in Int, NEW p \in Int,
         NEW r \in 0 .. b - 1, NEW s \in 0 .. b - 1, b * q + r = b * p + s
  PROVE  q = p /\ r = s
  <1>1. ~ q < p
    <2> SUFFICES ASSUME q < p PROVE FALSE
      OBVIOUS
    <2>1. b * q + b <= b * p /\ b * q \in Int /\ b * p \in Int
      BY ProductGrows
    <2> QED
      BY <2>1
  <1>2. ~ p < q
    <2> SUFFICES ASSUME p < q PROVE FALSE
      OBVIOUS
    <2>1. b * p + b <= b * q /\ b * q \in Int /\ b * p \in Int
      BY ProductGrows
    <2> QED
      BY <2>1
  <1>3. q = p
    BY <1>1, <1>2
  <1> QED
    BY <1>3

LEMMA Division ==
  ASSUME NEW a \in Nat, NEW b \in Nat \ {0}
  PROVE  /\ a \div b \in Nat /\ a % b \in 0 .. b - 1
         /\ a = b * (a \div b) + (a % b)
  <1>1. a \div b \in Nat
    OBVIOUS
  <1>2. a % b \in 0 .. b - 1
    OBVIOUS
  <1>3. a = b * (a \div b) + (a % b)
    BY SMTT(30)
  <1> QED
    BY <1>1, <1>2, <1>3

LEMMA DivisionIs ==
  ASSUME NEW a \in Nat, NEW b \in Nat \ {0}, NEW q \in Int, NEW r \in 0 .. b - 1,
         a = b * q + r
  PROVE  a \div b = q /\ a % b = r
  <1>1. /\ a \div b \in Int /\ a % b \in 0 .. b - 1
        /\ b * (a \div b) + (a % b) = b * q + r
    <2>1. a \div b \in Nat /\ a % b \in 0 .. b - 1
      BY Division
    <2>2. a = b * (a \div b) + (a % b)
      BY Division
    <2>3. b * (a \div b) + (a % b) = b * q + r
      BY ONLY <2>2, a = b * q + r, Zenon
    <2> QED
      BY <2>1, <2>3
  <1> QED
    <2> DEFINE p == a \div b
               s == a % b
    <2>1. p \in Int /\ s \in 0 .. b - 1 /\ b * p + s = b * q + r
      BY <1>1
    <2> HIDE DEF p, s
    <2>2. p = q /\ s = r
      BY ONLY <2>1, DigitsAreUnique, b \in Nat \ {0}, q \in Int, r \in 0 .. b - 1
    <2> QED
      BY <2>2 DEF p, s

\* The part of v below a * b, in units of b, is a digit of v in units of b.
LEMMA MiddleDigit ==
  ASSUME NEW v \in Nat, NEW a \in Nat \ {0}, NEW b \in Nat \ {0}
  PROVE  /\ v \div (a * b) = (v \div b) \div a
         /\ (v % (a * b)) \div b = (v \div b) % a
  <1> DEFINE w == v \div b
             c == v % b
             q == w \div a
             d == w % a
  <1>1. w \in Nat /\ c \in 0 .. b - 1 /\ v = b * w + c
    BY Division
  <1>2. q \in Nat /\ d \in 0 .. a - 1 /\ w = a * q + d
    BY <1>1, Division
  <1> HIDE DEF w, c, q, d
  <1>3. v = (a * b) * q + (b * d + c)
    <2>1. v = b * (a * q + d) + c
      BY ONLY <1>1, <1>2
    <2>2. b * (a * q + d) = (a * b) * q + b * d
      BY ONLY <1>2, a \in Nat, b \in Nat
    <2>3. b * d \in Int /\ (a * b) * q \in Int /\ c \in Int
      BY <1>1, <1>2
    <2> QED
      BY ONLY <2>1, <2>2, <2>3
  <1>4. a * b \in Nat \ {0} /\ b * d + c \in 0 .. (a * b) - 1
    <2>1. a * b \in Nat /\ b * d \in Nat /\ c \in Nat /\ a * b = b * a
      BY <1>1, <1>2
    <2>2. b * d + b <= b * a
      BY <1>2, ProductGrows
    <2> QED
      BY <1>1, <2>1, <2>2
  <1>5. v \div (a * b) = q /\ v % (a * b) = b * d + c
    <2> DEFINE m == a * b
               e == b * d + c
    <2>1. v = m * q + e /\ m \in Nat \ {0} /\ e \in 0 .. m - 1 /\ q \in Int
      BY <1>2, <1>3, <1>4
    <2> HIDE DEF m, e
    <2>2. v \div m = q /\ v % m = e
      BY ONLY <2>1, DivisionIs, v \in Nat
    <2> QED
      BY <2>2 DEF m, e
  <1>6. (b * d + c) \div b = d
    <2>1. b * d + c \in Nat /\ d \in Int
      BY <1>2, <1>4
    <2> QED
      BY ONLY <1>1, <2>1, DivisionIs, b \in Nat \ {0}
  <1> QED
    BY <1>5, <1>6 DEF q, d, w

\* The number of the page, and of the entry of a table of the second and the
\* first level, that an address lies in.
Number(va, l) == va \div Span[l]

LEMMA SpanIs ==
  /\ Span[1] = FrameSize /\ Span[2] = Fan * FrameSize /\ Span[3] = Fan * (Fan * FrameSize)
  /\ \A l \in 1 .. 3 : Span[l] \in Nat \ {0}
  <1>1. Span[1] = FrameSize /\ Span[2] = Fan * FrameSize /\ Span[3] = Fan * Fan * FrameSize
    BY DEF Span
  <1>2. FrameSize \in Nat \ {0} /\ Fan \in Nat \ {0}
    BY SpanAssumption
  <1>3. Fan * FrameSize \in Nat \ {0} /\ Fan * Fan * FrameSize = Fan * (Fan * FrameSize)
    BY ONLY <1>2
  <1>4. Fan * (Fan * FrameSize) \in Nat \ {0}
    BY ONLY <1>2, <1>3
  <1> QED
    BY <1>1, <1>2, <1>3, <1>4

(* The parts of an address are the digits of its numbers. *)
LEMMA Digits ==
  ASSUME NEW va \in VirtualAddresses
  PROVE  /\ va \in Nat
         /\ vpn1(va) \in 0 .. Fan - 1 /\ vpn2(va) \in 0 .. Fan - 1 /\ vpn3(va) \in 0 .. Fan - 1
         /\ Number(va, 3) = vpn1(va)
         /\ Number(va, 2) = Fan * Number(va, 3) + vpn2(va)
         /\ Number(va, 1) = Fan * Number(va, 2) + vpn3(va)
         /\ Number(va, 3) = Number(va, 2) \div Fan /\ Number(va, 2) = Number(va, 1) \div Fan
         /\ key(va) = Number(va, 1) /\ \A l \in 1 .. 3 : Number(va, l) \in Nat
         /\ offset(va) \in 0 .. FrameSize - 1
         /\ va = FrameSize * Number(va, 1) + offset(va)
  <1> DEFINE F == FrameSize
             G == Fan * FrameSize
             H == Fan * (Fan * FrameSize)
             n1 == va \div F
             n2 == va \div G
             n3 == va \div H
  <1>1. /\ Fan \in Nat \ {0} /\ F \in Nat \ {0} /\ G \in Nat \ {0} /\ H \in Nat \ {0}
        /\ va \in Nat /\ va < Fan * H
    BY SpanAssumption, SpanIs
  <1>2. va % (Fan * H) = va
    <2> HIDE DEF H
    <2>1. Fan * H \in Nat \ {0} /\ va \in 0 .. (Fan * H) - 1
      BY <1>1
    <2> DEFINE M == Fan * H
    <2> HIDE DEF M
    <2>2. va = M * 0 + va
      BY <1>1, <2>1 DEF M
    <2>3. va % M = va
      BY ONLY <1>1, <2>1, <2>2, DivisionIs, 0 \in Int DEF M
    <2> QED
      BY <2>3 DEF M
  <1>3. Number(va, 1) = n1 /\ Number(va, 2) = n2 /\ Number(va, 3) = n3
    BY SpanIs DEF Number
  <1>4. key(va) = n1 /\ vpn1(va) = n3 /\ vpn2(va) = (va % H) \div G /\ vpn3(va) = (va % G) \div F
    BY <1>2, SpanIs DEF key, vpn1, vpn2, vpn3
  <1>5. n2 = n1 \div Fan /\ vpn3(va) = n1 % Fan
    BY <1>1, <1>4, MiddleDigit
  <1>6. n3 = n2 \div Fan /\ vpn2(va) = n2 % Fan
    <2> HIDE DEF G
    <2>1. H = Fan * G
      BY DEF G
    <2>2. va \div (Fan * G) = (va \div G) \div Fan /\ (va % (Fan * G)) \div G = (va \div G) % Fan
      BY ONLY <1>1, MiddleDigit
    <2> HIDE DEF H
    <2> QED
      BY <1>4, <2>1, <2>2
  <1>7. n1 \in Nat /\ n2 \in Nat /\ n3 \in Nat /\ va = F * n1 + (va % F) /\ va % F \in 0 .. F - 1
    BY <1>1, Division
  <1> HIDE DEF F, G, H, n1, n2, n3
  <1>8. n1 = Fan * n2 + vpn3(va) /\ vpn3(va) \in 0 .. Fan - 1
    BY <1>1, <1>5, <1>7, Division
  <1>9. n2 = Fan * n3 + vpn2(va) /\ vpn2(va) \in 0 .. Fan - 1
    BY <1>1, <1>6, <1>7, Division
  <1>10. n3 \in 0 .. Fan - 1
    <2>1. va < H * Fan
      BY <1>1 DEF H
    <2>2. H * n3 <= va
      BY <1>1, Division DEF n3
    <2>3. ~ Fan <= n3
      <3> SUFFICES ASSUME Fan <= n3 PROVE FALSE
        OBVIOUS
      <3>1. CASE Fan = n3
        BY <1>1, <2>1, <2>2, <3>1
      <3>2. CASE Fan < n3
        <4>1. H * Fan + H <= H * n3 /\ H * Fan \in Nat /\ H * n3 \in Nat
          BY <1>1, <1>7, <3>2, ProductGrows
        <4> QED
          BY <1>1, <2>1, <2>2, <4>1
      <3> QED
        BY <1>1, <1>7, <3>1, <3>2
    <2> QED
      BY <1>1, <1>7, <2>3
  <1>11. offset(va) = va % F
    BY DEF offset, F
  <1>12. \A l \in 1 .. 3 : Number(va, l) \in Nat
    BY <1>3, <1>7
  <1>13. va = FrameSize * Number(va, 1) + offset(va) /\ offset(va) \in 0 .. FrameSize - 1
    <2>1. F = FrameSize
      BY DEF F
    <2> QED
      BY ONLY <1>3, <1>7, <1>11, <2>1
  <1>14. /\ Number(va, 3) = vpn1(va)
         /\ Number(va, 2) = Fan * Number(va, 3) + vpn2(va)
         /\ Number(va, 1) = Fan * Number(va, 2) + vpn3(va)
    BY <1>3, <1>4, <1>8, <1>9
  <1>15. Number(va, 3) = Number(va, 2) \div Fan /\ Number(va, 2) = Number(va, 1) \div Fan
    BY <1>3, <1>5, <1>6
  <1>16. vpn1(va) \in 0 .. Fan - 1 /\ key(va) = Number(va, 1)
    BY <1>3, <1>4, <1>10
  <1> QED
    BY <1>1, <1>8, <1>9, <1>12, <1>13, <1>14, <1>15, <1>16, Zenon

-----------------------------------------------------------------------------
(* The tree of tables and frames                                            *)

\* What an allocation is for: a frame has level 1, a table whose entries have
\* level l has level l + 1. The table of level 4 of a process is its first.
Name(pid, l, k) == [pid |-> pid, level |-> l, number |-> k]
Names == [pid : Pids, level : 1 .. 4, number : Nat]
Below(nm, i) == Name(nm.pid, nm.level - 1, Fan * nm.number + i)
Root(pid) == Name(pid, 4, 0)

\* Every allocation has a name of its own. An entry points to what lies below
\* its table at that index, and everything but the roots is pointed to.
Named(mem, name) ==
    /\ mem.faults \in Nat
    /\ name \in [1 .. MAX_PROCESS_ID + mem.faults -> Names]
    /\ \A x, y \in DOMAIN name : name[x] = name[y] => x = y
    /\ DOMAIN mem.tables = {x \in DOMAIN name : name[x].level # 1}
    /\ mem.frames = {x \in DOMAIN name : name[x].level = 1}
    /\ \A pid \in Pids : name[pid + 1] = Root(pid)
    /\ \A x \in DOMAIN name : name[x].level = 4 => name[x].number = 0

Linked(mem, name) ==
    /\ \A t \in DOMAIN mem.tables : DOMAIN mem.tables[t] = 0 .. Fan - 1
    /\ \A t \in DOMAIN mem.tables : \A i \in 0 .. Fan - 1 :
          mem.tables[t][i] # NULL =>
              /\ mem.tables[t][i] \in DOMAIN name
              /\ name[mem.tables[t][i]] = Below(name[t], i)
    /\ \A x \in DOMAIN name : name[x].level # 4 =>
          \E t \in DOMAIN mem.tables : \E i \in 0 .. Fan - 1 : mem.tables[t][i] = x

Tree(mem, name) == Named(mem, name) /\ Linked(mem, name)

LEMMA TablesAre ==
  ASSUME NEW mem, NEW name, Tree(mem, name), NEW x \in DOMAIN name, name[x].level # 1
  PROVE  x \in DOMAIN mem.tables
  BY DEF Tree, Named

LEMMA PointsBelow ==
  ASSUME NEW mem, NEW name, Tree(mem, name), NEW t \in DOMAIN mem.tables, NEW i \in 0 .. Fan - 1,
         mem.tables[t][i] # NULL
  PROVE  mem.tables[t][i] \in DOMAIN name /\ name[mem.tables[t][i]] = Below(name[t], i)
  BY DEF Tree, Linked

\* Names are only added, and only this one.
Adds(name, next, nm) ==
    /\ DOMAIN name \subseteq DOMAIN next
    /\ \A x \in DOMAIN name : next[x] = name[x]
    /\ \A x \in DOMAIN next : x \in DOMAIN name \/ next[x] = nm

LEMMA BelowIsName ==
  ASSUME NEW nm \in Names, nm.level # 1, NEW i \in 0 .. Fan - 1
  PROVE  /\ Below(nm, i) \in Names /\ Below(nm, i).level = nm.level - 1
         /\ Below(nm, i).pid = nm.pid /\ Below(nm, i).number = Fan * nm.number + i
         /\ Below(nm, i).level # 4
  <1>1. nm.pid \in Pids /\ nm.level \in 1 .. 4 /\ nm.number \in Nat
    BY DEF Names
  <1>2. nm.level - 1 \in 1 .. 4 /\ nm.level - 1 # 4
    BY <1>1
  <1>3. Fan * nm.number + i \in Nat
    <2>1. Fan * nm.number \in Nat
      BY <1>1, SpanAssumption
    <2> QED
      BY <2>1
  <1> QED
    BY <1>1, <1>2, <1>3 DEF Below, Name, Names

LEMMA BelowIsOnce ==
  ASSUME NEW a \in Names, NEW b \in Names, a.level # 1, b.level # 1,
         NEW i \in 0 .. Fan - 1, NEW j \in 0 .. Fan - 1, Below(a, i) = Below(b, j)
  PROVE  a = b /\ i = j
  <1>1. /\ a.pid \in Pids /\ a.level \in 1 .. 4 /\ a.number \in Nat
        /\ b.pid \in Pids /\ b.level \in 1 .. 4 /\ b.number \in Nat
    BY DEF Names
  <1>2. /\ a.pid = b.pid /\ a.level - 1 = b.level - 1
        /\ Fan * a.number + i = Fan * b.number + j
    BY BelowIsName
  <1>3. a.level = b.level
    BY <1>1, <1>2
  <1>4. a.number = b.number /\ i = j
    <2> DEFINE p == a.number
               q == b.number
    <2>1. Fan \in Nat \ {0} /\ p \in Int /\ q \in Int /\ Fan * p + i = Fan * q + j
      BY <1>1, <1>2, SpanAssumption
    <2> HIDE DEF p, q
    <2>2. p = q /\ i = j
      BY ONLY <2>1, DigitsAreUnique, i \in 0 .. Fan - 1, j \in 0 .. Fan - 1
    <2> QED
      BY <2>2 DEF p, q
  <1>5. a = [pid |-> a.pid, level |-> a.level, number |-> a.number]
        /\ b = [pid |-> b.pid, level |-> b.level, number |-> b.number]
    BY DEF Names
  <1> QED
    BY <1>2, <1>3, <1>4, <1>5

\* The next number that malloc returns.
LEMMA FreshIs ==
  ASSUME NEW mem, NEW name, Named(mem, name)
  PROVE  /\ fresh(mem) = MAX_PROCESS_ID + mem.faults + 1
         /\ fresh(mem) \in Nat /\ fresh(mem) # NULL /\ fresh(mem) \notin DOMAIN name
         /\ \A x \in DOMAIN name : x # NULL
  <1> DEFINE n == MAX_PROCESS_ID + mem.faults
  <1>1. n \in Nat /\ DOMAIN name = 1 .. n
    BY SpanAssumption DEF Named
  <1> HIDE DEF n
  <1>2. DOMAIN mem.tables \cup mem.frames = 1 .. n
    BY <1>1 DEF Named
  <1>3. Cardinality(1 .. n) = n
    BY <1>1, FS_Interval
  <1>4. fresh(mem) = n + 1
    <2>1. fresh(mem) = 1 + Cardinality(1 .. n)
      BY <1>2 DEF fresh
    <2> QED
      BY <1>1, <1>3, <2>1
  <1>5. n + 1 \in Nat /\ n + 1 \notin 1 .. n /\ 1 .. n \subseteq Nat
    BY <1>1
  <1> QED
    BY <1>1, <1>4, <1>5, SpanAssumption DEF n

\* What Resolve makes of the tree.
Resolved(mem, name, new, next, pt, i) ==
    /\ Tree(new, next) /\ Adds(name, next, Below(name[pt], i))
    /\ pt \in DOMAIN new.tables
    /\ new.tables[pt][i] \in DOMAIN next
    /\ next[new.tables[pt][i]] = Below(name[pt], i)

(* A page fault adds what is missing below the table, with a new name. *)
LEMMA FaultAdds ==
  ASSUME NEW mem, NEW name, Tree(mem, name), NEW pt \in DOMAIN mem.tables,
         NEW i \in 0 .. Fan - 1, mem.tables[pt][i] = NULL,
         NEW is_frame \in BOOLEAN, is_frame <=> name[pt].level = 2,
         NEW new, new = Resolve(mem, pt, i, is_frame),
         NEW next, next = [x \in 1 .. MAX_PROCESS_ID + mem.faults + 1 |->
                             IF x = fresh(mem) THEN Below(name[pt], i) ELSE name[x]]
  PROVE  Resolved(mem, name, new, next, pt, i)
  <1> DEFINE f  == fresh(mem)
             nm == Below(name[pt], i)
             set == [mem.tables EXCEPT ![pt][i] = f]
  <1>1. /\ f = MAX_PROCESS_ID + mem.faults + 1 /\ f \in Nat /\ f # NULL /\ f \notin DOMAIN name
        /\ \A x \in DOMAIN name : x # NULL
    BY FreshIs DEF Tree
  <1>2. /\ mem.faults \in Nat /\ MAX_PROCESS_ID \in Nat
        /\ DOMAIN name = 1 .. MAX_PROCESS_ID + mem.faults
        /\ name \in [DOMAIN name -> Names]
        /\ \A x, y \in DOMAIN name : name[x] = name[y] => x = y
        /\ DOMAIN mem.tables = {x \in DOMAIN name : name[x].level # 1}
        /\ mem.frames = {x \in DOMAIN name : name[x].level = 1}
    BY SpanAssumption DEF Tree, Named
  <1>3. pt \in DOMAIN name /\ name[pt] \in Names /\ name[pt].level # 1
    BY <1>2
  <1>4. /\ nm \in Names /\ nm.level = name[pt].level - 1 /\ nm.level # 4
        /\ is_frame <=> nm.level = 1
    <2>1. nm \in Names /\ nm.level = name[pt].level - 1 /\ nm.level # 4
      BY <1>3, BelowIsName
    <2>2. name[pt].level \in 1 .. 4
      BY <1>3 DEF Names
    <2> QED
      BY <2>1, <2>2
  <1>5. \A x \in DOMAIN name : name[x] # nm
    <2> SUFFICES ASSUME NEW x \in DOMAIN name, name[x] = nm PROVE FALSE
      OBVIOUS
    <2>1. PICK t \in DOMAIN mem.tables : \E j \in 0 .. Fan - 1 : mem.tables[t][j] = x
      BY <1>4 DEF Tree, Linked
    <2>2. PICK j \in 0 .. Fan - 1 : mem.tables[t][j] = x
      BY <2>1
    <2>3. x # NULL /\ t \in DOMAIN name /\ name[t] \in Names /\ name[t].level # 1
      BY <1>1, <1>2
    <2>4. name[x] = Below(name[t], j)
      BY <2>2, <2>3 DEF Tree, Linked
    <2>5. name[t] = name[pt] /\ i = j
      <3>1. Below(name[t], j) = Below(name[pt], i)
        BY <2>4 DEF nm
      <3> QED
        BY ONLY <1>3, <2>3, <3>1, BelowIsOnce, i \in 0 .. Fan - 1, j \in 0 .. Fan - 1
    <2>6. t = pt
      BY <1>2, <1>3, <2>3, <2>5
    <2> QED
      BY <2>2, <2>3, <2>5, <2>6
  <1> HIDE DEF nm, f
  <1>6. /\ DOMAIN next = DOMAIN name \cup {f} /\ next[f] = nm
        /\ \A x \in DOMAIN name : next[x] = name[x]
        /\ DOMAIN next = 1 .. MAX_PROCESS_ID + mem.faults + 1
    <2>1. 1 .. MAX_PROCESS_ID + mem.faults + 1 = DOMAIN name \cup {f}
      BY <1>1, <1>2
    <2> QED
      BY <1>1, <2>1 DEF nm, f
  <1>7. /\ new.faults = mem.faults + 1
        /\ new.frames = IF is_frame THEN mem.frames \cup {f} ELSE mem.frames
        /\ new.tables = IF is_frame THEN set
                        ELSE [x \in DOMAIN set \cup {f} |->
                                IF x = f THEN PageTable_create ELSE set[x]]
    BY DEF Resolve, f
  <1>8. /\ DOMAIN set = DOMAIN mem.tables /\ f \notin DOMAIN set
        /\ \A t \in DOMAIN mem.tables : t # pt => set[t] = mem.tables[t]
        /\ set[pt] = [mem.tables[pt] EXCEPT ![i] = f]
    BY <1>1, <1>2
  <1>9. /\ DOMAIN new.tables = DOMAIN mem.tables \cup (IF is_frame THEN {} ELSE {f})
        /\ \A t \in DOMAIN mem.tables : t # pt => new.tables[t] = mem.tables[t]
        /\ new.tables[pt] = [mem.tables[pt] EXCEPT ![i] = f]
        /\ ~is_frame => new.tables[f] = PageTable_create
    <2> HIDE DEF set
    <2>1. CASE is_frame
      BY <1>7, <1>8, <2>1
    <2>2. CASE ~is_frame
      BY <1>7, <1>8, <2>2
    <2> QED
      BY <2>1, <2>2
  <1> HIDE DEF set
  <1>10. DOMAIN mem.tables[pt] = 0 .. Fan - 1
    BY DEF Tree, Linked
  <1>11. new.tables[pt][i] = f /\ \A j \in 0 .. Fan - 1 : j # i => new.tables[pt][j] = mem.tables[pt][j]
    BY <1>9, <1>10
  <1>others. \A t \in DOMAIN mem.tables : \A j \in 0 .. Fan - 1 :
            ~(t = pt /\ j = i) => new.tables[t][j] = mem.tables[t][j]
    <2> SUFFICES ASSUME NEW t \in DOMAIN mem.tables, NEW j \in 0 .. Fan - 1, ~(t = pt /\ j = i)
                 PROVE  new.tables[t][j] = mem.tables[t][j]
      OBVIOUS
    <2>1. CASE t = pt
      BY ONLY <1>11, <2>1, ~(t = pt /\ j = i), j \in 0 .. Fan - 1
    <2>2. CASE t # pt
      BY ONLY <1>9, <2>2, t \in DOMAIN mem.tables
    <2> QED
      BY <2>1, <2>2
  <1>12. Named(new, next)
    <2>1. new.faults \in Nat /\ next \in [1 .. MAX_PROCESS_ID + new.faults -> Names]
      <3>1. \A x \in DOMAIN next : next[x] \in Names
        BY ONLY <1>2, <1>4, <1>6
      <3>2. new.faults \in Nat /\ MAX_PROCESS_ID + new.faults = MAX_PROCESS_ID + mem.faults + 1
        <4>1. new.faults = mem.faults + 1
          BY <1>7
        <4>2. mem.faults \in Nat /\ MAX_PROCESS_ID \in Nat
          BY <1>2
        <4> QED
          BY ONLY <4>1, <4>2
      <3>3. next = [x \in DOMAIN next |-> next[x]]
        OBVIOUS
      <3> QED
        BY ONLY <1>6, <3>1, <3>2, <3>3
    <2>2. \A x, y \in DOMAIN next : next[x] = next[y] => x = y
      BY ONLY <1>2, <1>5, <1>6
    <2>3. /\ DOMAIN new.tables = {x \in DOMAIN next : next[x].level # 1}
          /\ new.frames = {x \in DOMAIN next : next[x].level = 1}
      <3>1. CASE is_frame
        <4>1. nm.level = 1 /\ DOMAIN new.tables = DOMAIN mem.tables /\ new.frames = mem.frames \cup {f}
          BY <1>4, <1>7, <1>9, <3>1
        <4> QED
          BY ONLY <1>1, <1>2, <1>6, <4>1
      <3>2. CASE ~is_frame
        <4>1. nm.level # 1 /\ DOMAIN new.tables = DOMAIN mem.tables \cup {f} /\ new.frames = mem.frames
          BY <1>4, <1>7, <1>9, <3>2
        <4> QED
          BY ONLY <1>1, <1>2, <1>6, <4>1
      <3> QED
        BY <3>1, <3>2
    <2>4. \A pid \in Pids : next[pid + 1] = Root(pid)
      <3> SUFFICES ASSUME NEW pid \in Pids PROVE next[pid + 1] = Root(pid)
        OBVIOUS
      <3>1. pid + 1 \in DOMAIN name
        BY <1>2 DEF Pids
      <3> QED
        BY <1>6, <3>1 DEF Tree, Named
    <2>5. \A x \in DOMAIN next : next[x].level = 4 => next[x].number = 0
      <3>1. \A x \in DOMAIN name : name[x].level = 4 => name[x].number = 0
        BY DEF Tree, Named
      <3> QED
        BY ONLY <1>4, <1>6, <3>1
    <2> QED
      BY <2>1, <2>2, <2>3, <2>4, <2>5 DEF Named
  <1>13. Linked(new, next)
    <2>1. ASSUME NEW t \in DOMAIN new.tables PROVE DOMAIN new.tables[t] = 0 .. Fan - 1
      <3>1. t \in DOMAIN mem.tables => DOMAIN mem.tables[t] = 0 .. Fan - 1
        BY DEF Tree, Linked
      <3>2. DOMAIN PageTable_create = 0 .. Fan - 1
        BY DEF PageTable_create
      <3> QED
        BY <1>9, <3>1, <3>2
    <2>2. ASSUME NEW t \in DOMAIN new.tables, NEW j \in 0 .. Fan - 1, new.tables[t][j] # NULL
          PROVE  new.tables[t][j] \in DOMAIN next /\ next[new.tables[t][j]] = Below(next[t], j)
      <3>1. CASE t = pt /\ j = i
        <4>1. next[pt] = name[pt]
          BY <1>3, <1>6
        <4> QED
          BY <1>6, <1>11, <3>1, <4>1 DEF nm
      <3>2. CASE t \in DOMAIN mem.tables /\ ~(t = pt /\ j = i)
        <4>1. new.tables[t][j] = mem.tables[t][j]
          BY <1>others, <3>2
        <4>2. /\ mem.tables[t][j] \in DOMAIN name
              /\ name[mem.tables[t][j]] = Below(name[t], j)
          BY <2>2, <3>2, <4>1 DEF Tree, Linked
        <4>3. next[t] = name[t]
          BY <1>2, <1>6, <3>2
        <4> QED
          BY <1>6, <4>1, <4>2, <4>3
      <3>3. CASE t = f /\ ~is_frame
        <4>1. new.tables[t] = PageTable_create
          BY <1>9, <3>3
        <4>2. new.tables[t][j] = NULL
          BY <4>1 DEF PageTable_create
        <4> QED
          BY <2>2, <4>2
      <3> QED
        BY <1>9, <3>1, <3>2, <3>3
    <2>3. ASSUME NEW x \in DOMAIN next, next[x].level # 4
          PROVE  \E t \in DOMAIN new.tables : \E j \in 0 .. Fan - 1 : new.tables[t][j] = x
      <3>1. CASE x = f
        BY <1>9, <1>11, <3>1
      <3>2. CASE x # f
        <4>1. x \in DOMAIN name /\ name[x].level # 4
          BY <1>6, <2>3, <3>2
        <4>2. PICK t \in DOMAIN mem.tables : \E j \in 0 .. Fan - 1 : mem.tables[t][j] = x
          BY <4>1 DEF Tree, Linked
        <4>3. PICK j \in 0 .. Fan - 1 : mem.tables[t][j] = x
          BY <4>2
        <4>4. ~(t = pt /\ j = i)
          BY <1>1, <4>1, <4>3
        <4>5. new.tables[t][j] = x
          BY <1>others, <4>3, <4>4
        <4> QED
          BY <1>9, <4>5
      <3> QED
        BY <3>1, <3>2
    <2> QED
      BY <2>1, <2>2, <2>3 DEF Linked
  <1>14. Adds(name, next, Below(name[pt], i))
    BY <1>6 DEF Adds, nm
  <1> QED
    BY <1>6, <1>9, <1>11, <1>12, <1>13, <1>14 DEF Resolved, Tree, nm

LEMMA ResolveAdds ==
  ASSUME NEW mem, NEW name, Tree(mem, name), NEW pt \in DOMAIN mem.tables,
         NEW i \in 0 .. Fan - 1, NEW is_frame \in BOOLEAN, is_frame <=> name[pt].level = 2
  PROVE  \E next : Resolved(mem, name, Resolve(mem, pt, i, is_frame), next, pt, i)
  <1>1. CASE mem.tables[pt][i] # NULL
    <2>1. Resolve(mem, pt, i, is_frame) = mem
      BY <1>1 DEF Resolve
    <2>2. mem.tables[pt][i] \in DOMAIN name /\ name[mem.tables[pt][i]] = Below(name[pt], i)
      BY <1>1 DEF Tree, Linked
    <2>3. Adds(name, name, Below(name[pt], i))
      BY DEF Adds
    <2>4. Resolved(mem, name, mem, name, pt, i)
      BY <2>2, <2>3 DEF Resolved
    <2> QED
      BY <2>1, <2>4
  <1>2. CASE mem.tables[pt][i] = NULL
    BY <1>2, FaultAdds
  <1> QED
    BY <1>1, <1>2

NameOf(pid, va, l) == Name(pid, l, Number(va, l))

LEMMA NamesOfDigits ==
  ASSUME NEW va \in VirtualAddresses, NEW pid \in Pids
  PROVE  /\ Below(Root(pid), vpn1(va)) = NameOf(pid, va, 3)
         /\ Below(NameOf(pid, va, 3), vpn2(va)) = NameOf(pid, va, 2)
         /\ Below(NameOf(pid, va, 2), vpn3(va)) = NameOf(pid, va, 1)
         /\ \A l \in 1 .. 3 : NameOf(pid, va, l) \in Names /\ NameOf(pid, va, l).level = l
  <1>1. Fan \in Nat /\ Fan * 0 = 0 /\ \A l \in 1 .. 3 : Number(va, l) \in Nat
    BY SpanAssumption, Digits
  <1>2. Below(Root(pid), vpn1(va)) = NameOf(pid, va, 3)
    <2>1. Below(Root(pid), vpn1(va)) = Name(pid, 4 - 1, Fan * 0 + vpn1(va))
      BY DEF Below, Root, Name
    <2>2. Fan * 0 + vpn1(va) = Number(va, 3) /\ 4 - 1 = 3
      BY <1>1, Digits
    <2> QED
      BY <2>1, <2>2 DEF NameOf
  <1>3. Below(NameOf(pid, va, 3), vpn2(va)) = NameOf(pid, va, 2)
    <2>1. Below(NameOf(pid, va, 3), vpn2(va)) = Name(pid, 3 - 1, Fan * Number(va, 3) + vpn2(va))
      BY DEF Below, NameOf, Name
    <2>2. Fan * Number(va, 3) + vpn2(va) = Number(va, 2) /\ 3 - 1 = 2
      BY Digits
    <2> QED
      BY <2>1, <2>2 DEF NameOf
  <1>4. Below(NameOf(pid, va, 2), vpn3(va)) = NameOf(pid, va, 1)
    <2>1. Below(NameOf(pid, va, 2), vpn3(va)) = Name(pid, 2 - 1, Fan * Number(va, 2) + vpn3(va))
      BY DEF Below, NameOf, Name
    <2>2. Fan * Number(va, 2) + vpn3(va) = Number(va, 1) /\ 2 - 1 = 1
      BY Digits
    <2> QED
      BY <2>1, <2>2 DEF NameOf
  <1> QED
    BY <1>1, <1>2, <1>3, <1>4 DEF NameOf, Name, Names

\* What a translation makes of the tree, and f the frame it comes to.
Walked(name, next, pid, va, f) ==
    /\ Tree(Memory, next)'
    /\ DOMAIN name \subseteq DOMAIN next /\ \A x \in DOMAIN name : next[x] = name[x]
    /\ \A x \in DOMAIN next : x \in DOMAIN name \/ \E l \in 1 .. 3 : next[x] = NameOf(pid, va, l)
    /\ \A l \in 1 .. 3 : \E x \in DOMAIN next : next[x] = NameOf(pid, va, l)
    /\ f \in DOMAIN next /\ next[f] = NameOf(pid, va, 1)

LEMMA MissWalks ==
  ASSUME NEW name, Tree(Memory, name), NEW va \in VirtualAddresses, NEW pid \in Pids,
         base_pts[pid] = pid + 1, Miss(va, pid)
  PROVE  \E next, f :
            /\ Walked(name, next, pid, va, f)
            /\ tlb' = TLB_add_physical_address(Promoted(tlb, key(va), pid), key(va), pid, f)
  <1> DEFINE pt1  == base_pts[pid]
             mem1 == Resolve(Memory, pt1, vpn1(va), FALSE)
             pt2  == mem1.tables[pt1][vpn1(va)]
             mem2 == Resolve(mem1, pt2, vpn2(va), FALSE)
             pt3  == mem2.tables[pt2][vpn2(va)]
             mem3 == Resolve(mem2, pt3, vpn3(va), TRUE)
             f    == mem3.tables[pt3][vpn3(va)]
  <1>1. /\ tables' = mem3.tables /\ frames' = mem3.frames /\ num_page_faults' = mem3.faults
        /\ tlb' = TLB_add_physical_address(Promoted(tlb, key(va), pid), key(va), pid, f)
    BY DEF Miss
  <1>2. vpn1(va) \in 0 .. Fan - 1 /\ vpn2(va) \in 0 .. Fan - 1 /\ vpn3(va) \in 0 .. Fan - 1
    BY Digits
  <1> HIDE DEF mem1, mem2, mem3
  <1>3. pt1 \in DOMAIN Memory.tables /\ name[pt1] = Root(pid) /\ name[pt1].level = 4
    <2>1. pt1 \in DOMAIN name /\ name[pt1] = Root(pid)
      BY SpanAssumption DEF Tree, Named, Pids
    <2>2. name[pt1].level = 4
      BY <2>1 DEF Root, Name
    <2> QED
      BY <2>1, <2>2 DEF Tree, Named
  <1>4. PICK name1 : Resolved(Memory, name, mem1, name1, pt1, vpn1(va))
    <2>1. (FALSE <=> name[pt1].level = 2) /\ FALSE \in BOOLEAN
      BY <1>3
    <2> QED
      BY <1>2, <1>3, <2>1, ResolveAdds DEF mem1
  <1>5. /\ Tree(mem1, name1) /\ pt2 \in DOMAIN name1 /\ name1[pt2] = NameOf(pid, va, 3)
        /\ pt2 \in DOMAIN mem1.tables /\ name1[pt2].level = 3
    <2>1. Tree(mem1, name1) /\ pt2 \in DOMAIN name1 /\ name1[pt2] = NameOf(pid, va, 3)
      BY <1>3, <1>4, NamesOfDigits DEF Resolved
    <2>2. name1[pt2].level = 3
      BY <2>1, NamesOfDigits
    <2> QED
      BY <2>1, <2>2, TablesAre
  <1>6. PICK name2 : Resolved(mem1, name1, mem2, name2, pt2, vpn2(va))
    <2>1. (FALSE <=> name1[pt2].level = 2) /\ FALSE \in BOOLEAN
      BY <1>5
    <2> QED
      BY <1>2, <1>5, <2>1, ResolveAdds DEF mem2
  <1>7. /\ Tree(mem2, name2) /\ pt3 \in DOMAIN name2 /\ name2[pt3] = NameOf(pid, va, 2)
        /\ pt3 \in DOMAIN mem2.tables /\ name2[pt3].level = 2
    <2>1. Tree(mem2, name2) /\ pt3 \in DOMAIN name2 /\ name2[pt3] = NameOf(pid, va, 2)
      BY <1>5, <1>6, NamesOfDigits DEF Resolved
    <2>2. name2[pt3].level = 2
      BY <2>1, NamesOfDigits
    <2> QED
      BY <2>1, <2>2, TablesAre
  <1>8. PICK name3 : Resolved(mem2, name2, mem3, name3, pt3, vpn3(va))
    <2>1. (TRUE <=> name2[pt3].level = 2) /\ TRUE \in BOOLEAN
      BY <1>7
    <2> QED
      BY <1>2, <1>7, <2>1, ResolveAdds DEF mem3
  <1>9. Tree(mem3, name3) /\ f \in DOMAIN name3 /\ name3[f] = NameOf(pid, va, 1)
    BY <1>7, <1>8, NamesOfDigits DEF Resolved
  <1>10. /\ Adds(name, name1, NameOf(pid, va, 3)) /\ Adds(name1, name2, NameOf(pid, va, 2))
         /\ Adds(name2, name3, NameOf(pid, va, 1))
    BY <1>3, <1>4, <1>5, <1>6, <1>7, <1>8, NamesOfDigits DEF Resolved
  <1> HIDE DEF pt1, pt2, pt3, f
  <1>11. Tree(Memory, name3)'
    BY <1>1, <1>9 DEF Tree, Named, Linked, Memory
  <1>12. /\ DOMAIN name \subseteq DOMAIN name3 /\ \A x \in DOMAIN name : name3[x] = name[x]
         /\ \A x \in DOMAIN name3 :
               x \in DOMAIN name \/ \E l \in 1 .. 3 : name3[x] = NameOf(pid, va, l)
    <2>1. DOMAIN name \subseteq DOMAIN name3 /\ \A x \in DOMAIN name : name3[x] = name[x]
      BY ONLY <1>10 DEF Adds
    <2>2. ASSUME NEW x \in DOMAIN name3
          PROVE  \/ x \in DOMAIN name \/ name3[x] = NameOf(pid, va, 1)
                 \/ name3[x] = NameOf(pid, va, 2) \/ name3[x] = NameOf(pid, va, 3)
      BY ONLY <1>10, <2>2 DEF Adds
    <2> QED
      BY ONLY <2>1, <2>2, 1 \in 1 .. 3, 2 \in 1 .. 3, 3 \in 1 .. 3
  <1>13. \A l \in 1 .. 3 : \E x \in DOMAIN name3 : name3[x] = NameOf(pid, va, l)
    <2>1. pt2 \in DOMAIN name3 /\ name3[pt2] = NameOf(pid, va, 3)
      BY ONLY <1>5, <1>10 DEF Adds
    <2>2. pt3 \in DOMAIN name3 /\ name3[pt3] = NameOf(pid, va, 2)
      BY ONLY <1>7, <1>10 DEF Adds
    <2>3. \A l \in 1 .. 3 : l = 1 \/ l = 2 \/ l = 3
      OBVIOUS
    <2> QED
      BY ONLY <1>9, <2>1, <2>2, <2>3
  <1>14. Walked(name, name3, pid, va, f)
    BY <1>9, <1>11, <1>12, <1>13 DEF Walked
  <1> QED
    BY <1>1, <1>14

-----------------------------------------------------------------------------
(* The list of the TLB *)

\* The least number of a set is one of it.
LEMMA LeastIndex ==
  ASSUME NEW S, S # {}, S \subseteq Nat
  PROVE  Min(S) \in S /\ \A y \in S : Min(S) <= y
  <1>1. PICK x \in S : \A y \in S : <<y, x>> \notin OpToRel(<, Nat)
    BY NatLessThanWellFounded, WFMin
  <1>2. ASSUME NEW y \in S PROVE x <= y
    <2>1. x \in Nat /\ y \in Nat
      OBVIOUS
    <2>2. ~ y < x
      BY <1>1, <2>1 DEF OpToRel
    <2> QED
      BY <2>1, <2>2
  <1> QED
    BY <1>2 DEF Min

LEMMA InFront ==
  ASSUME NEW S, NEW e \in S, NEW q \in Seq(S)
  PROVE  /\ <<e>> \o q \in Seq(S) /\ Len(<<e>> \o q) = Len(q) + 1
         /\ (<<e>> \o q)[1] = e
         /\ \A j \in 2 .. Len(q) + 1 : (<<e>> \o q)[j] = q[j - 1]
  <1> DEFINE h == <<e>>
  <1>1. h \in Seq(S) /\ Len(h) = 1 /\ h[1] = e /\ Len(q) \in Nat
    OBVIOUS
  <1> HIDE DEF h
  <1>2. /\ h \o q \in Seq(S) /\ Len(h \o q) = Len(h) + Len(q)
        /\ \A j \in 1 .. Len(h) + Len(q) : (h \o q)[j] = IF j <= Len(h) THEN h[j] ELSE q[j - Len(h)]
    BY <1>1, ConcatProperties
  <1>3. 1 \in 1 .. 1 + Len(q) /\ \A j \in 2 .. Len(q) + 1 : j \in 1 .. 1 + Len(q) /\ ~ j <= 1
    BY <1>1
  <1>4. /\ h \o q \in Seq(S) /\ Len(h \o q) = Len(q) + 1
        /\ (h \o q)[1] = e
        /\ \A j \in 2 .. Len(q) + 1 : (h \o q)[j] = q[j - 1]
    BY <1>1, <1>2, <1>3
  <1> QED
    BY <1>4 DEF h

LEMMA SubSeqIs ==
  ASSUME NEW S, NEW q \in Seq(S), NEW a \in 1 .. Len(q) + 1, NEW b \in 0 .. Len(q), a <= b + 1
  PROVE  /\ SubSeq(q, a, b) \in Seq(S) /\ Len(SubSeq(q, a, b)) = b - a + 1
         /\ \A j \in 1 .. b - a + 1 : SubSeq(q, a, b)[j] = q[a + j - 1]
  <1>1. Len(q) \in Nat /\ a \in Int /\ b \in Int /\ \A j \in a .. b : q[j] \in S
    OBVIOUS
  <1>2. /\ SubSeq(q, a, b) \in Seq(S)
        /\ Len(SubSeq(q, a, b)) = IF a <= b THEN b - a + 1 ELSE 0
        /\ \A j \in 1 .. b - a + 1 : SubSeq(q, a, b)[j] = q[a + j - 1]
    BY <1>1, SubSeqProperties
  <1> QED
    BY <1>1, <1>2

\* An element is moved to the front, past those before it.
LEMMA ToFront ==
  ASSUME NEW S, NEW q \in Seq(S), NEW i \in 1 .. Len(q)
  PROVE  LET r == <<q[i]>> \o RemoveAt(q, i)
         IN  /\ r \in Seq(S) /\ Len(r) = Len(q) /\ r[1] = q[i]
             /\ \A j \in 2 .. Len(q) : r[j] = IF j <= i THEN q[j - 1] ELSE q[j]
  <1> DEFINE a == SubSeq(q, 1, i - 1)
             b == SubSeq(q, i + 1, Len(q))
             c == a \o b
  <1>1. Len(q) \in Nat /\ i \in Nat /\ q[i] \in S
    OBVIOUS
  <1>2. a \in Seq(S) /\ Len(a) = i - 1 /\ \A j \in 1 .. i - 1 : a[j] = q[j]
    <2>1. /\ a \in Seq(S) /\ Len(a) = (i - 1) - 1 + 1
          /\ \A j \in 1 .. (i - 1) - 1 + 1 : a[j] = q[1 + j - 1]
      <3>1. 1 \in 1 .. Len(q) + 1 /\ i - 1 \in 0 .. Len(q) /\ 1 <= (i - 1) + 1
        BY <1>1
      <3> QED
        BY <3>1, SubSeqIs
    <2> QED
      BY <1>1, <2>1
  <1>3. b \in Seq(S) /\ Len(b) = Len(q) - i /\ \A j \in 1 .. Len(q) - i : b[j] = q[i + j]
    <2>1. /\ b \in Seq(S) /\ Len(b) = Len(q) - (i + 1) + 1
          /\ \A j \in 1 .. Len(q) - (i + 1) + 1 : b[j] = q[(i + 1) + j - 1]
      <3>1. i + 1 \in 1 .. Len(q) + 1 /\ Len(q) \in 0 .. Len(q) /\ i + 1 <= Len(q) + 1
        BY <1>1
      <3> QED
        BY <3>1, SubSeqIs
    <2> QED
      BY <1>1, <2>1
  <1> HIDE DEF a, b
  <1>4. /\ c \in Seq(S) /\ Len(c) = Len(q) - 1
        /\ \A j \in 1 .. Len(q) - 1 : c[j] = IF j < i THEN q[j] ELSE q[j + 1]
    <2>1. /\ c \in Seq(S) /\ Len(c) = Len(a) + Len(b)
          /\ \A j \in 1 .. Len(a) + Len(b) : c[j] = IF j <= Len(a) THEN a[j] ELSE b[j - Len(a)]
      BY <1>2, <1>3, ConcatProperties
    <2>2. ASSUME NEW j \in 1 .. Len(q) - 1 PROVE c[j] = IF j < i THEN q[j] ELSE q[j + 1]
      <3>1. j \in 1 .. Len(a) + Len(b)
        BY <1>1, <1>2, <1>3
      <3>2. CASE j < i
        BY <1>1, <1>2, <2>1, <3>1, <3>2
      <3>3. CASE ~ j < i
        <4>1. j - (i - 1) \in 1 .. Len(q) - i /\ i + (j - (i - 1)) = j + 1
          BY <1>1, <3>3
        <4>2. c[j] = b[j - (i - 1)]
          BY <1>1, <1>2, <2>1, <3>1, <3>3
        <4> QED
          BY <1>3, <3>3, <4>1, <4>2
      <3> QED
        BY <3>2, <3>3
    <2> QED
      BY <1>1, <1>2, <1>3, <2>1, <2>2
  <1> HIDE DEF c
  <1> DEFINE r == <<q[i]>> \o c
  <1>5. /\ r \in Seq(S) /\ Len(r) = Len(c) + 1 /\ r[1] = q[i]
        /\ \A j \in 2 .. Len(c) + 1 : r[j] = c[j - 1]
    BY <1>1, <1>4, InFront
  <1> HIDE DEF r
  <1>6. ASSUME NEW j \in 2 .. Len(q) PROVE r[j] = IF j <= i THEN q[j - 1] ELSE q[j]
    <2>1. j \in 2 .. Len(c) + 1 /\ j - 1 \in 1 .. Len(q) - 1 /\ (j - 1) + 1 = j /\ (j - 1 < i <=> j <= i)
      BY <1>1, <1>4
    <2> QED
      BY <1>4, <1>5, <2>1
  <1>7. r = <<q[i]>> \o RemoveAt(q, i)
    BY DEF RemoveAt, r, c, a, b
  <1> QED
    BY <1>1, <1>4, <1>5, <1>6, <1>7

LEMMA PlaceIs ==
  ASSUME NEW S, NEW q \in Seq(S), NEW k, NEW pid
  PROVE  \/ /\ PlaceOf(q, k, pid) = 0
            /\ \A j \in 1 .. Len(q) : q[j].key # k \/ q[j].pid # pid
         \/ /\ PlaceOf(q, k, pid) \in 1 .. Len(q)
            /\ q[PlaceOf(q, k, pid)].key = k /\ q[PlaceOf(q, k, pid)].pid = pid
            /\ \A j \in 1 .. Len(q) : j < PlaceOf(q, k, pid) => q[j].key # k \/ q[j].pid # pid
  <1> DEFINE I == {i \in 1 .. Len(q) : q[i].key = k /\ q[i].pid = pid}
  <1>1. PlaceOf(q, k, pid) = IF I # {} THEN Min(I) ELSE 0
    BY DEF PlaceOf, SelectInSeq
  <1>2. I \subseteq Nat
    OBVIOUS
  <1>3. I # {} => Min(I) \in I /\ \A y \in I : Min(I) <= y
    <2> HIDE DEF I
    <2> QED
      BY <1>2, LeastIndex
  <1>4. ASSUME I # {}, NEW j \in 1 .. Len(q), j < Min(I) PROVE j \notin I
    <2>1. Len(q) \in Nat /\ j \in Nat
      OBVIOUS
    <2> HIDE DEF I
    <2>2. Min(I) \in Nat /\ \A y \in I : Min(I) <= y
      BY <1>2, <1>3, <1>4
    <2> QED
      BY <1>4, <2>1, <2>2
  <1> QED
    BY <1>1, <1>3, <1>4

\* The node found, if there is one, is moved to the front.
LEMMA PromotedIs ==
  ASSUME NEW S, NEW q \in Seq(S), NEW k, NEW pid
  PROVE  LET i == PlaceOf(q, k, pid)
             r == Promoted(q, k, pid)
         IN  /\ r \in Seq(S) /\ Len(r) = Len(q)
             /\ i = 0 => r = q
             /\ i # 0 => /\ r[1] = q[i]
                         /\ \A j \in 2 .. Len(q) : r[j] = IF j <= i THEN q[j - 1] ELSE q[j]
  <1> DEFINE i == PlaceOf(q, k, pid)
  <1> HIDE DEF i
  <1>1. i = 0 \/ i \in 1 .. Len(q)
    BY PlaceIs DEF i
  <1>2. Promoted(q, k, pid) = IF i = 0 THEN q ELSE <<q[i]>> \o RemoveAt(q, i)
    BY DEF Promoted, i
  <1>3. CASE i = 0
    BY <1>2, <1>3 DEF i
  <1>4. CASE i \in 1 .. Len(q)
    <2>1. i # 0 /\ Promoted(q, k, pid) = <<q[i]>> \o RemoveAt(q, i)
      BY <1>2, <1>4
    <2>2. LET r == <<q[i]>> \o RemoveAt(q, i)
          IN  /\ r \in Seq(S) /\ Len(r) = Len(q) /\ r[1] = q[i]
              /\ \A j \in 2 .. Len(q) : r[j] = IF j <= i THEN q[j - 1] ELSE q[j]
      BY <1>4, ToFront
    <2> QED
      BY <2>1, <2>2 DEF i
  <1> QED
    BY <1>1, <1>3, <1>4

\* The new node comes in front, and the last one makes room for it.
LEMMA AddIs ==
  ASSUME NEW S, NEW q \in Seq(S), Len(q) \in 1 .. MAX_NODES, NEW k, NEW pid, NEW f,
         Node(k, pid, f) \in S, MAX_NODES \in Nat \ {0, 1}
  PROVE  LET r == TLB_add_physical_address(q, k, pid, f)
         IN  /\ r \in Seq(S) /\ Len(r) \in 1 .. MAX_NODES /\ r[1] = Node(k, pid, f)
             /\ Len(r) = IF Len(q) >= MAX_NODES THEN Len(q) ELSE Len(q) + 1
             /\ \A j \in 2 .. Len(r) : r[j] = q[j - 1]
  <1> DEFINE t == IF Len(q) > 1 /\ Len(q) >= MAX_NODES THEN Front(q) ELSE q
             n == IF Len(q) >= MAX_NODES THEN Len(q) - 1 ELSE Len(q)
             e == Node(k, pid, f)
             r == <<e>> \o t
  <1>1. t \in Seq(S) /\ Len(t) = n /\ \A j \in 1 .. n : t[j] = q[j]
    <2>1. CASE Len(q) >= MAX_NODES
      <3>1. 1 \in 1 .. Len(q) + 1 /\ Len(q) - 1 \in 0 .. Len(q) /\ 1 <= (Len(q) - 1) + 1
        OBVIOUS
      <3>2. /\ Front(q) \in Seq(S) /\ Len(Front(q)) = (Len(q) - 1) - 1 + 1
            /\ \A j \in 1 .. (Len(q) - 1) - 1 + 1 : Front(q)[j] = q[1 + j - 1]
        BY <3>1, SubSeqIs DEF Front
      <3>3. t = Front(q)
        BY <2>1
      <3> QED
        BY <2>1, <3>2, <3>3
    <2>2. CASE ~ Len(q) >= MAX_NODES
      BY <2>2
    <2> QED
      BY <2>1, <2>2
  <1>2. n \in 0 .. MAX_NODES - 1 /\ n + 1 = IF Len(q) >= MAX_NODES THEN Len(q) ELSE Len(q) + 1
    OBVIOUS
  <1>3. TLB_add_physical_address(q, k, pid, f) = r
    BY DEF TLB_add_physical_address
  <1> HIDE DEF t, e, n
  <1>4. e \in S
    BY DEF e
  <1>5. /\ r \in Seq(S) /\ Len(r) = Len(t) + 1 /\ r[1] = e
        /\ \A j \in 2 .. Len(t) + 1 : r[j] = t[j - 1]
    BY <1>1, <1>4, InFront
  <1> HIDE DEF r
  <1>6. ASSUME NEW j \in 2 .. Len(r) PROVE r[j] = q[j - 1]
    <2>1. j \in 2 .. Len(t) + 1 /\ j - 1 \in 1 .. n
      BY <1>1, <1>2, <1>5
    <2> QED
      BY <1>1, <1>5, <2>1
  <1>7. Len(r) \in 1 .. MAX_NODES
    BY <1>1, <1>2, <1>5
  <1>8. Len(r) = IF Len(q) >= MAX_NODES THEN Len(q) ELSE Len(q) + 1
    BY <1>1, <1>2, <1>5
  <1> QED
    BY <1>3, <1>5, <1>6, <1>7, <1>8 DEF e

-----------------------------------------------------------------------------
(* The invariant                                                            *)

\* What the processes are, and what they have been told.
Basic ==
    /\ base_pts = [pid \in Pids |-> pid + 1]
    /\ process \in [Processes -> [pid : Pids,
                                  virtual_addresses : [1 .. num_addresses -> VirtualAddresses]]]
    /\ done \in [Processes -> 0 .. num_iterations * num_addresses]
    /\ answers \subseteq [pid : Pids, va : VirtualAddresses, pa : Nat]
    /\ deleted \in BOOLEAN

\* The tree holds what the answers needed, and nothing else.
Wanted(name) ==
    /\ \A x \in DOMAIN name : name[x].level # 4 =>
          \E a \in answers : name[x] = NameOf(a.pid, a.va, name[x].level)
    /\ \A a \in answers : \A l \in 1 .. 3 :
          \E x \in DOMAIN name : name[x] = NameOf(a.pid, a.va, l)

\* The nodes that hold the frame of their page.
Translations(name) ==
    {n \in [key : 0 .. Fan * Fan * Fan - 1, pid : Pids, value : DOMAIN name] :
        name[n.value] = Name(n.pid, 1, n.key)}

TlbRight(name) ==
    tlb \in Seq({Sentinel} \cup Translations(name)) /\ Len(tlb) \in 1 .. MAX_NODES

AnswersRight(name) ==
    \A a \in answers : \E f \in DOMAIN name :
        name[f] = NameOf(a.pid, a.va, 1) /\ a.pa = f * FrameSize + offset(a.va)

Whole(name) ==
    Tree(Memory, name) /\ Wanted(name) /\ TlbRight(name) /\ AnswersRight(name)

AllWhole == \E name : Whole(name)

MmuInv ==
    /\ Basic
    /\ deleted => \A p \in Processes : done[p] = num_iterations * num_addresses
    /\ ~deleted => AllWhole
    /\ TranslationsConsistent /\ FaultsExact /\ EverythingFreed

LEMMA SameNumbers ==
  ASSUME NEW va \in VirtualAddresses, NEW vb \in VirtualAddresses,
         Number(va, 1) = Number(vb, 1)
  PROVE  \A l \in 1 .. 3 : Number(va, l) = Number(vb, l)
  <1>1. Number(va, 2) = Number(vb, 2)
    BY Digits
  <1>2. Number(va, 3) = Number(vb, 3)
    <2>1. Number(va, 3) = Number(va, 2) \div Fan /\ Number(vb, 3) = Number(vb, 2) \div Fan
      BY Digits
    <2> QED
      BY <1>1, <2>1
  <1> QED
    <2>1. \A l \in 1 .. 3 : l = 1 \/ l = 2 \/ l = 3
      OBVIOUS
    <2> QED
      BY <1>1, <1>2, <2>1

LEMMA SameFrame ==
  ASSUME NEW p, NEW q, NEW va, NEW vb, NEW l, NEW m, NameOf(p, va, l) = NameOf(q, vb, m)
  PROVE  p = q /\ l = m /\ Number(va, l) = Number(vb, m)
  <1>1. /\ NameOf(p, va, l).pid = p /\ NameOf(p, va, l).level = l
        /\ NameOf(p, va, l).number = Number(va, l)
    BY DEF NameOf, Name
  <1>2. /\ NameOf(q, vb, m).pid = q /\ NameOf(q, vb, m).level = m
        /\ NameOf(q, vb, m).number = Number(vb, m)
    BY DEF NameOf, Name
  <1> QED
    BY <1>1, <1>2, Zenon

LEMMA KeyIsSmall ==
  ASSUME NEW va \in VirtualAddresses
  PROVE  key(va) \in 0 .. Fan * Fan * Fan - 1
  <1>1. /\ key(va) = Number(va, 1) /\ Number(va, 1) = Fan * Number(va, 2) + vpn3(va)
        /\ Number(va, 2) = Fan * Number(va, 3) + vpn2(va) /\ Number(va, 3) = vpn1(va)
        /\ vpn1(va) \in 0 .. Fan - 1 /\ vpn2(va) \in 0 .. Fan - 1 /\ vpn3(va) \in 0 .. Fan - 1
    BY Digits
  <1> DEFINE a == vpn1(va)
             b == vpn2(va)
             c == vpn3(va)
             d == Fan * a + b
             e == Fan * Fan
  <1>2. Fan \in Nat \ {0} /\ e \in Nat /\ a \in 0 .. Fan - 1 /\ b \in 0 .. Fan - 1 /\ c \in 0 .. Fan - 1
    BY <1>1, SpanAssumption
  <1>3. d \in 0 .. e - 1
    <2> HIDE DEF a, b
    <2>1. Fan * a + Fan <= e /\ Fan * a \in Nat
      BY ONLY <1>2, ProductGrows
    <2> QED
      BY ONLY <1>2, <2>1
  <1>4. Fan * d + c \in 0 .. (e * Fan) - 1
    <2> HIDE DEF a, b, c, d, e
    <2>1. Fan * d + Fan <= Fan * e /\ Fan * d \in Nat
      BY ONLY <1>2, <1>3, ProductGrows
    <2>2. Fan * e = e * Fan /\ Fan * e \in Nat
      BY ONLY <1>2
    <2> QED
      BY ONLY <1>2, <2>1, <2>2
  <1>5. key(va) = Fan * d + c
    BY <1>1
  <1> QED
    BY <1>4, <1>5

LEMMA TypesHold ==
  ASSUME NEW name, Basic, Whole(name)
  PROVE  TypeOK
  <1>1. done \in [Processes -> 0 .. num_iterations * num_addresses]
    BY DEF Basic
  <1>2. ASSUME NEW t \in DOMAIN tables PROVE Children(t) \subseteq DOMAIN tables \cup frames
    <2> SUFFICES ASSUME NEW j \in DOMAIN tables[t], tables[t][j] # NULL
                 PROVE  tables[t][j] \in DOMAIN tables \cup frames
      BY DEF Children
    <2>1. j \in 0 .. Fan - 1 /\ tables[t][j] \in DOMAIN name
      BY <1>2 DEF Whole, Tree, Linked, Memory
    <2> QED
      BY <2>1 DEF Whole, Tree, Named, Memory
  <1>3. Len(tlb) <= MAX_NODES
    BY SpanAssumption DEF Whole, TlbRight
  <1>4. ASSUME NEW i \in DOMAIN tlb
        PROVE  tlb[i] \in {Sentinel} \cup [key : 0 .. Fan * Fan * Fan - 1, pid : Pids, value : frames]
    <2>1. tlb[i] = Sentinel \/ tlb[i] \in Translations(name)
      BY <1>4 DEF Whole, TlbRight
    <2>2. CASE tlb[i] \in Translations(name)
      <3>1. /\ tlb[i] \in [key : 0 .. Fan * Fan * Fan - 1, pid : Pids, value : DOMAIN name]
            /\ name[tlb[i].value] = Name(tlb[i].pid, 1, tlb[i].key)
        BY <2>2 DEF Translations
      <3>2. tlb[i].value \in DOMAIN name /\ name[tlb[i].value].level = 1
        BY <3>1 DEF Name
      <3>3. tlb[i].value \in frames
        BY <3>2 DEF Whole, Tree, Named, Memory
      <3> QED
        BY <3>1, <3>3
    <2> QED
      BY <2>1, <2>2
  <1> QED
    BY <1>1, <1>2, <1>3, <1>4 DEF TypeOK, ToSet

LEMMA AnswersAgree ==
  ASSUME NEW name, Basic, Whole(name), NEW a \in answers, NEW b \in answers
  PROVE  /\ SamePage(a, b) => a.pa - b.pa = a.va - b.va
         /\ a.pa = b.pa => a.pid = b.pid /\ a.va = b.va
  <1>1. a.va \in VirtualAddresses /\ b.va \in VirtualAddresses /\ a.pid \in Pids /\ b.pid \in Pids
    BY DEF Basic
  <1>2. PICK f \in DOMAIN name : name[f] = NameOf(a.pid, a.va, 1) /\ a.pa = f * FrameSize + offset(a.va)
    BY DEF Whole, AnswersRight
  <1>3. PICK g \in DOMAIN name : name[g] = NameOf(b.pid, b.va, 1) /\ b.pa = g * FrameSize + offset(b.va)
    BY DEF Whole, AnswersRight
  <1>4. /\ name[f] = name[g] => f = g
        /\ f \in Int /\ g \in Int /\ FrameSize \in Nat \ {0}
    BY SpanAssumption DEF Whole, Tree, Named
  <1> DEFINE m == Number(a.va, 1)
             n == Number(b.va, 1)
             r == offset(a.va)
             s == offset(b.va)
  <1>5. /\ a.va = FrameSize * m + r /\ r \in 0 .. FrameSize - 1 /\ m \in Nat
        /\ b.va = FrameSize * n + s /\ s \in 0 .. FrameSize - 1 /\ n \in Nat
    BY <1>1, Digits, 1 \in 1 .. 3
  <1>6. a.va \div FrameSize = m /\ b.va \div FrameSize = n
    BY SpanIs DEF Number
  <1>7. ASSUME SamePage(a, b) PROVE a.pa - b.pa = a.va - b.va
    <2>1. a.pid = b.pid /\ m = n
      BY <1>6, <1>7 DEF SamePage
    <2>2. f = g
      BY <1>2, <1>3, <1>4, <2>1 DEF NameOf
    <2>3. f * FrameSize \in Int /\ FrameSize * m \in Int
      BY <1>4, <1>5
    <2> HIDE DEF m, n, r, s
    <2> QED
      BY <1>2, <1>3, <1>5, <2>1, <2>2, <2>3 DEF r, s
  <1>8. ASSUME a.pa = b.pa PROVE a.pid = b.pid /\ a.va = b.va
    <2>1. FrameSize * f + r = FrameSize * g + s
      <3>1. f * FrameSize = FrameSize * f /\ g * FrameSize = FrameSize * g
        BY ONLY <1>4
      <3>2. f * FrameSize + r = g * FrameSize + s
        BY <1>2, <1>3, <1>8
      <3> QED
        BY ONLY <3>1, <3>2
    <2> HIDE DEF m, n, r, s
    <2>2. f = g /\ r = s
      <3> DEFINE z == FrameSize
      <3>1. r \in 0 .. z - 1 /\ s \in 0 .. z - 1 /\ f \in Int /\ g \in Int
            /\ z \in Nat \ {0} /\ z * f + r = z * g + s
        BY <1>4, <1>5, <2>1
      <3> HIDE DEF z
      <3> QED
        BY ONLY <3>1, DigitsAreUnique
    <2>3. NameOf(a.pid, a.va, 1) = NameOf(b.pid, b.va, 1)
      BY <1>2, <1>3, <2>2
    <2>4. a.pid = b.pid /\ m = n
      BY <2>3, SameFrame DEF m, n
    <2> QED
      BY <1>5, <2>2, <2>4
  <1> QED
    BY <1>7, <1>8

LEMMA FaultsAreExact ==
  ASSUME NEW name, Basic, Whole(name)
  PROVE  FaultsExact
  <1> DEFINE D == MAX_PROCESS_ID + 1 .. MAX_PROCESS_ID + num_page_faults
             T == {<<a.pid, n, a.va \div Span[n]>> : a \in answers, n \in 1 .. 3}
             h == [x \in D |-> <<name[x].pid, name[x].level, name[x].number>>]
  <1>1. /\ num_page_faults \in Nat /\ MAX_PROCESS_ID \in Nat
        /\ DOMAIN name = 1 .. MAX_PROCESS_ID + num_page_faults
        /\ \A x \in DOMAIN name : name[x] \in Names
        /\ \A x, y \in DOMAIN name : name[x] = name[y] => x = y
        /\ \A pid \in Pids : name[pid + 1] = Root(pid)
        /\ \A x \in DOMAIN name : name[x].level = 4 => name[x].number = 0
    BY SpanAssumption DEF Whole, Tree, Named, Memory
  <1>2. D \subseteq DOMAIN name
    BY <1>1
  <1>3. \A x \in DOMAIN name : name[x] = [pid |-> name[x].pid, level |-> name[x].level,
                                          number |-> name[x].number]
    BY <1>1 DEF Names
  <1>4. ASSUME NEW x \in DOMAIN name PROVE name[x].level # 4 <=> x \in D
    <2>1. CASE x \in D
      <3> SUFFICES ASSUME name[x].level = 4 PROVE FALSE
        BY <2>1
      <3> DEFINE pid == name[x].pid
      <3>1. pid \in Pids /\ name[x] = Root(pid)
        BY <1>1, <1>3 DEF Names, Root, Name
      <3>2. pid + 1 \in DOMAIN name /\ pid + 1 <= MAX_PROCESS_ID
        BY <1>1, <3>1 DEF Pids
      <3>3. name[pid + 1] = name[x]
        BY <1>1, <3>1
      <3>4. x = pid + 1
        BY <1>1, <3>2, <3>3
      <3> QED
        BY <1>1, <2>1, <3>2, <3>4
    <2>2. CASE x \notin D
      <3>1. x - 1 \in Pids /\ (x - 1) + 1 = x
        BY <1>1, <2>2 DEF Pids
      <3>2. name[x] = Root(x - 1)
        BY <1>1, <3>1
      <3> QED
        BY <2>2, <3>2 DEF Root, Name
    <2> QED
      BY <2>1, <2>2
  <1>5. \A a \in answers : \A n \in 1 .. 3 : a.va \div Span[n] = Number(a.va, n)
    BY DEF Number
  <1>6. ASSUME NEW x \in D PROVE h[x] \in T
    <2>1. x \in DOMAIN name /\ name[x].level # 4 /\ name[x].level \in 1 .. 4
      BY <1>1, <1>2, <1>4 DEF Names
    <2>2. PICK a \in answers : name[x] = NameOf(a.pid, a.va, name[x].level)
      BY <2>1 DEF Whole, Wanted
    <2> DEFINE l == name[x].level
    <2>3. l \in 1 .. 3 /\ name[x].pid = a.pid /\ name[x].number = Number(a.va, l)
      <3>1. l \in 1 .. 3
        BY <2>1
      <3>2. NameOf(a.pid, a.va, l) = [pid |-> a.pid, level |-> l, number |-> Number(a.va, l)]
        BY DEF NameOf, Name
      <3> QED
        BY <2>2, <3>1, <3>2
    <2>4. h[x] = <<a.pid, l, a.va \div Span[l]>>
      BY <1>5, <2>3
    <2> QED
      BY <2>3, <2>4
  <1>7. ASSUME NEW x \in D, NEW y \in D, h[x] = h[y] PROVE x = y
    <2>1. name[x] = name[y]
      BY <1>2, <1>3, <1>7
    <2> QED
      BY <1>1, <1>2, <2>1
  <1>8. ASSUME NEW t \in T PROVE \E x \in D : h[x] = t
    <2>1. PICK a \in answers, n \in 1 .. 3 : t = <<a.pid, n, a.va \div Span[n]>>
      OBVIOUS
    <2>2. PICK x \in DOMAIN name : name[x] = NameOf(a.pid, a.va, n)
      BY DEF Whole, Wanted
    <2>3. name[x].pid = a.pid /\ name[x].level = n /\ name[x].number = Number(a.va, n)
      BY <2>2 DEF NameOf, Name
    <2>4. x \in D
      <3>1. n # 4
        OBVIOUS
      <3> QED
        BY <1>4, <2>3, <3>1
    <2> QED
      BY <1>5, <2>1, <2>3, <2>4
  <1>9. IsFiniteSet(D) /\ Cardinality(D) = num_page_faults
    <2> DEFINE lo == MAX_PROCESS_ID + 1
               hi == MAX_PROCESS_ID + num_page_faults
    <2>1. lo \in Int /\ hi \in Int /\ (IF lo > hi THEN 0 ELSE hi - lo + 1) = num_page_faults
      BY <1>1
    <2> HIDE DEF lo, hi
    <2>2. IsFiniteSet(lo .. hi) /\ Cardinality(lo .. hi) = IF lo > hi THEN 0 ELSE hi - lo + 1
      BY <2>1, FS_Interval
    <2> QED
      BY <2>1, <2>2 DEF lo, hi
  <1>10. ExistsBijection(D, T)
    <2>1. h \in [D -> T]
      <3> HIDE DEF D, T
      <3> QED
        BY <1>6
    <2>2. h \in Injection(D, T) /\ h \in Surjection(D, T)
      <3> HIDE DEF D, T, h
      <3> QED
        BY <1>7, <1>8, <2>1 DEF Injection, Surjection, IsInjective
    <2> QED
      BY <2>2 DEF ExistsBijection, Bijection
  <1>11. Cardinality(T) = Cardinality(D)
    <2> HIDE DEF D, T
    <2> QED
      BY <1>9, <1>10, FS_Bijection
  <1> QED
    BY <1>9, <1>11 DEF FaultsExact
-----------------------------------------------------------------------------
(* The steps *)

\* A translation that walks to the frame f and answers with it.
LEMMA AnswerKeepsWhole ==
  ASSUME Basic, NEW name, Whole(name), NEW va \in VirtualAddresses, NEW pid \in Pids,
         NEW next, NEW f, Walked(name, next, pid, va, f),
         answers' = answers \cup {[pid |-> pid, va |-> va, pa |-> f * FrameSize + offset(va)]},
         TlbRight(next)'
  PROVE  Whole(next)'
  <1> DEFINE new == [pid |-> pid, va |-> va, pa |-> f * FrameSize + offset(va)]
  <1>1. /\ DOMAIN name \subseteq DOMAIN next /\ \A x \in DOMAIN name : next[x] = name[x]
        /\ \A x \in DOMAIN next : x \in DOMAIN name \/ \E l \in 1 .. 3 : next[x] = NameOf(pid, va, l)
        /\ \A l \in 1 .. 3 : \E x \in DOMAIN next : next[x] = NameOf(pid, va, l)
        /\ f \in DOMAIN next /\ next[f] = NameOf(pid, va, 1) /\ Tree(Memory, next)'
    BY DEF Walked
  <1>2. answers' = answers \cup {new} /\ new.pid = pid /\ new.va = va
        /\ new.pa = f * FrameSize + offset(va)
    OBVIOUS
  <1> HIDE DEF new
  <1>3. Wanted(next)'
    <2>1. ASSUME NEW x \in DOMAIN next, next[x].level # 4
          PROVE  \E a \in answers' : next[x] = NameOf(a.pid, a.va, next[x].level)
      <3>1. CASE x \in DOMAIN name
        <4>1. next[x] = name[x] /\ name[x].level # 4
          BY <1>1, <2>1, <3>1
        <4>2. \E a \in answers : name[x] = NameOf(a.pid, a.va, name[x].level)
          BY <3>1, <4>1 DEF Whole, Wanted
        <4> QED
          BY <1>2, <4>1, <4>2
      <3>2. CASE x \notin DOMAIN name
        <4>1. PICK l \in 1 .. 3 : next[x] = NameOf(pid, va, l)
          BY <1>1, <3>2
        <4>2. next[x].level = l
          BY <4>1, NamesOfDigits
        <4> QED
          BY <1>2, <4>1, <4>2
      <3> QED
        BY <3>1, <3>2
    <2>2. ASSUME NEW a \in answers', NEW l \in 1 .. 3
          PROVE  \E x \in DOMAIN next : next[x] = NameOf(a.pid, a.va, l)
      <3>1. CASE a \in answers
        <4>1. PICK x \in DOMAIN name : name[x] = NameOf(a.pid, a.va, l)
          BY <3>1 DEF Whole, Wanted
        <4> QED
          BY <1>1, <4>1
      <3>2. CASE a = new
        BY <1>1, <1>2, <3>2
      <3> QED
        BY <1>2, <3>1, <3>2
    <2> QED
      BY <2>1, <2>2 DEF Wanted
  <1>4. AnswersRight(next)'
    <2>1. ASSUME NEW a \in answers'
          PROVE  \E g \in DOMAIN next :
                    next[g] = NameOf(a.pid, a.va, 1) /\ a.pa = g * FrameSize + offset(a.va)
      <3>1. CASE a \in answers
        <4>1. PICK g \in DOMAIN name :
                 name[g] = NameOf(a.pid, a.va, 1) /\ a.pa = g * FrameSize + offset(a.va)
          BY <3>1 DEF Whole, AnswersRight
        <4> QED
          BY <1>1, <4>1
      <3>2. CASE a = new
        BY <1>1, <1>2, <3>2
      <3> QED
        BY <1>2, <3>1, <3>2
    <2> QED
      BY <2>1 DEF AnswersRight
  <1> QED
    BY <1>1, <1>3, <1>4 DEF Whole

(* A node that is found holds the frame of the page, and the tables are there. *)
LEMMA HitWalks ==
  ASSUME Basic, NEW name, Whole(name), NEW va \in VirtualAddresses, NEW pid \in Pids,
         Hit(va, pid)
  PROVE  \E f : Walked(name, name, pid, va, f) /\ TlbRight(name)' /\ tlb'[1].value = f
  <1> DEFINE i == PlaceOf(tlb, key(va), pid)
             S == {Sentinel} \cup Translations(name)
             f == tlb[i].value
  <1>1. tlb \in Seq(S) /\ Len(tlb) \in 1 .. MAX_NODES
    BY DEF Whole, TlbRight
  <1>2. /\ tlb' = Promoted(tlb, key(va), pid)
        /\ tables' = tables /\ frames' = frames /\ num_page_faults' = num_page_faults
        /\ i # 0 /\ tlb[i].value # NULL
    BY DEF Hit, counters, TLB_get_physical_address
  <1>3. i \in 1 .. Len(tlb) /\ tlb[i].key = key(va) /\ tlb[i].pid = pid
    <2> HIDE DEF S
    <2> QED
      BY <1>1, <1>2, PlaceIs
  <1>4. tlb' \in Seq(S) /\ Len(tlb') = Len(tlb) /\ tlb'[1] = tlb[i]
    <2> HIDE DEF S
    <2> QED
      BY <1>1, <1>2, PromotedIs
  <1>5. tlb[i] \in Translations(name)
    <2>1. tlb[i] \in S
      <3> HIDE DEF S, i
      <3> QED
        BY <1>1, <1>3
    <2>2. tlb[i] # Sentinel
      BY <1>2 DEF Sentinel, Node
    <2> QED
      BY <2>1, <2>2
  <1> HIDE DEF i
  <1>6. f \in DOMAIN name /\ name[f] = NameOf(pid, va, 1)
    <2>1. f \in DOMAIN name /\ name[f] = Name(tlb[i].pid, 1, tlb[i].key)
      BY <1>5 DEF Translations
    <2>2. key(va) = Number(va, 1)
      BY Digits
    <2> QED
      BY <1>3, <2>1, <2>2 DEF NameOf
  <1>7. \A l \in 1 .. 3 : \E x \in DOMAIN name : name[x] = NameOf(pid, va, l)
    <2>1. name[f].level # 4 /\ name[f].level = 1
      BY <1>6 DEF NameOf, Name
    <2>2. PICK a \in answers : name[f] = NameOf(a.pid, a.va, 1)
      BY <1>6, <2>1 DEF Whole, Wanted
    <2>3. a.pid = pid /\ Number(a.va, 1) = Number(va, 1) /\ a.va \in VirtualAddresses
      <3>1. NameOf(a.pid, a.va, 1) = NameOf(pid, va, 1)
        BY <1>6, <2>2
      <3>2. a.va \in VirtualAddresses
        BY DEF Basic
      <3> QED
        BY <3>1, <3>2, SameFrame
    <2>4. \A l \in 1 .. 3 : Number(a.va, l) = Number(va, l)
      BY <2>3, SameNumbers
    <2>5. \A l \in 1 .. 3 : \E x \in DOMAIN name : name[x] = NameOf(a.pid, a.va, l)
      BY DEF Whole, Wanted
    <2> QED
      BY <2>3, <2>4, <2>5 DEF NameOf
  <1>8. Tree(Memory, name)'
    <2>1. Memory' = Memory
      BY <1>2 DEF Memory
    <2>2. Tree(Memory, name)
      BY DEF Whole
    <2> QED
      BY <2>1, <2>2 DEF Tree, Named, Linked
  <1>9. Walked(name, name, pid, va, f)
    BY <1>6, <1>7, <1>8 DEF Walked
  <1>10. TlbRight(name)'
    BY <1>1, <1>4 DEF TlbRight, Translations
  <1> QED
    BY <1>4, <1>9, <1>10

\* A node of a page stays right when allocations are added.
LEMMA NodesStayRight ==
  ASSUME NEW name, NEW next, DOMAIN name \subseteq DOMAIN next,
         \A x \in DOMAIN name : next[x] = name[x]
  PROVE  Seq({Sentinel} \cup Translations(name)) \subseteq Seq({Sentinel} \cup Translations(next))
  <1> DEFINE S == {Sentinel} \cup Translations(name)
             T == {Sentinel} \cup Translations(next)
  <1>1. S \subseteq T
    BY DEF Translations
  <1> HIDE DEF S, T
  <1>2. Seq(S) \subseteq Seq(T)
    BY <1>1
  <1> QED
    BY <1>2 DEF S, T

LEMMA MissIsRight ==
  ASSUME Basic, NEW name, Whole(name), NEW va \in VirtualAddresses, NEW pid \in Pids,
         Miss(va, pid)
  PROVE  \E next, f : Walked(name, next, pid, va, f) /\ TlbRight(next)' /\ tlb'[1].value = f
  <1>1. Tree(Memory, name) /\ base_pts[pid] = pid + 1
    BY DEF Whole, Basic
  <1>2. PICK next : \E f :
           /\ Walked(name, next, pid, va, f)
           /\ tlb' = TLB_add_physical_address(Promoted(tlb, key(va), pid), key(va), pid, f)
    BY <1>1, MissWalks
  <1>3. PICK f :
           /\ Walked(name, next, pid, va, f)
           /\ tlb' = TLB_add_physical_address(Promoted(tlb, key(va), pid), key(va), pid, f)
    BY <1>2
  <1>4. /\ DOMAIN name \subseteq DOMAIN next /\ \A x \in DOMAIN name : next[x] = name[x]
        /\ f \in DOMAIN next /\ next[f] = NameOf(pid, va, 1)
    BY <1>3 DEF Walked
  <1> DEFINE S == {Sentinel} \cup Translations(next)
             k == key(va)
             q == Promoted(tlb, k, pid)
  <1>5. tlb \in Seq(S) /\ Len(tlb) \in 1 .. MAX_NODES
    BY <1>4, NodesStayRight DEF Whole, TlbRight
  <1>6. q \in Seq(S) /\ Len(q) \in 1 .. MAX_NODES
    <2> HIDE DEF S, k
    <2> QED
      BY <1>5, PromotedIs
  <1>7. Node(k, pid, f) \in S
    <2>1. k \in 0 .. Fan * Fan * Fan - 1 /\ k = Number(va, 1)
      BY KeyIsSmall, Digits
    <2> HIDE DEF k
    <2> QED
      BY <1>4, <2>1 DEF Node, Translations, NameOf
  <1>8. /\ tlb' \in Seq(S) /\ Len(tlb') \in 1 .. MAX_NODES /\ tlb'[1] = Node(k, pid, f)
    <2>1. tlb' = TLB_add_physical_address(q, k, pid, f) /\ MAX_NODES \in Nat \ {0, 1}
      BY <1>3, SpanAssumption
    <2> HIDE DEF S, q, k
    <2> QED
      BY <1>6, <1>7, <2>1, AddIs
  <1>9. tlb'[1].value = f
    BY <1>8 DEF Node
  <1>10. TlbRight(next)'
    BY <1>8 DEF TlbRight, Translations
  <1> QED
    BY <1>3, <1>9, <1>10

LEMMA TranslationKeepsWhole ==
  ASSUME Basic, NEW name, Whole(name), NEW va \in VirtualAddresses, NEW pid \in Pids,
         MMU_get_physical_address(va, pid)
  PROVE  /\ \E next : Whole(next)'
         /\ answers' \subseteq [pid : Pids, va : VirtualAddresses, pa : Nat]
  <1>1. \E next, f : Walked(name, next, pid, va, f) /\ TlbRight(next)' /\ tlb'[1].value = f
    BY HitWalks, MissIsRight DEF MMU_get_physical_address
  <1>2. PICK next : \E f : Walked(name, next, pid, va, f) /\ TlbRight(next)' /\ tlb'[1].value = f
    BY <1>1
  <1>3. PICK f : Walked(name, next, pid, va, f) /\ TlbRight(next)' /\ tlb'[1].value = f
    BY <1>2
  <1>4. answers' = answers \cup {[pid |-> pid, va |-> va, pa |-> f * FrameSize + offset(va)]}
    BY <1>3 DEF MMU_get_physical_address
  <1>5. Whole(next)'
    BY <1>3, <1>4, AnswerKeepsWhole
  <1>6. f * FrameSize + offset(va) \in Nat
    <2>1. f \in Nat
      BY <1>3 DEF Walked, Tree, Named
    <2>2. FrameSize \in Nat /\ offset(va) \in Nat
      BY SpanAssumption, Digits
    <2>3. f * FrameSize \in Nat
      BY ONLY <2>1, <2>2
    <2> QED
      BY ONLY <2>2, <2>3
  <1>7. answers' \subseteq [pid : Pids, va : VirtualAddresses, pa : Nat]
    BY <1>4, <1>6 DEF Basic
  <1> QED
    BY <1>5, <1>7

\* A place points to one allocation, and no two point to the same one.
LEMMA OnePointer ==
  ASSUME NEW name, Whole(name), NEW x, x # NULL
  PROVE  ~ Cardinality(Pointers(x)) > 1
  <1>1. \A p \in Pointers(x) : p \in (DOMAIN tables) \X (0 .. Fan - 1) /\ tables[p[1]][p[2]] = x
    BY DEF Pointers
  <1>2. ASSUME NEW p \in Pointers(x), NEW q \in Pointers(x) PROVE p = q
    <2>1. /\ p[1] \in DOMAIN tables /\ p[2] \in 0 .. Fan - 1 /\ tables[p[1]][p[2]] = x /\ p = <<p[1], p[2]>>
          /\ q[1] \in DOMAIN tables /\ q[2] \in 0 .. Fan - 1 /\ tables[q[1]][q[2]] = x /\ q = <<q[1], q[2]>>
      BY <1>1
    <2>2. name[x] = Below(name[p[1]], p[2]) /\ name[x] = Below(name[q[1]], q[2])
      BY <2>1 DEF Whole, Tree, Linked, Memory
    <2>3. /\ \A t \in DOMAIN tables : t \in DOMAIN name /\ name[t] \in Names /\ name[t].level # 1
          /\ \A y, z \in DOMAIN name : name[y] = name[z] => y = z
      BY DEF Whole, Tree, Named, Memory
    <2>4. name[p[1]] = name[q[1]] /\ p[2] = q[2]
      <3> DEFINE a == name[p[1]]
                 b == name[q[1]]
                 i == p[2]
                 j == q[2]
      <3>1. /\ a \in Names /\ b \in Names /\ a.level # 1 /\ b.level # 1
            /\ i \in 0 .. Fan - 1 /\ j \in 0 .. Fan - 1 /\ Below(a, i) = Below(b, j)
        BY <2>1, <2>2, <2>3
      <3> HIDE DEF a, b, i, j
      <3>2. a = b /\ i = j
        BY ONLY <3>1, BelowIsOnce
      <3> QED
        BY <3>2 DEF a, b, i, j
    <2> QED
      BY <2>1, <2>3, <2>4
  <1>3. CASE Pointers(x) = {}
    BY <1>3, FS_EmptySet
  <1>4. CASE Pointers(x) # {}
    <2>1. PICK p : p \in Pointers(x)
      BY <1>4
    <2>2. Pointers(x) = {p}
      BY <1>2, <2>1
    <2>3. Cardinality({p}) = 1
      BY FS_Singleton
    <2> QED
      BY <2>2, <2>3
  <1> QED
    BY <1>3, <1>4

\* What is freed was allocated, and everything that is allocated is reached.
LEMMA EverythingIsReached ==
  ASSUME Basic, NEW name, Whole(name)
  PROVE  /\ DOMAIN name \subseteq UNION {Freed(pid) : pid \in Pids}
         /\ \A x \in UNION {Freed(pid) : pid \in Pids} : x # NULL
  <1>1. /\ \A x \in DOMAIN name : name[x] \in Names
        /\ \A x, y \in DOMAIN name : name[x] = name[y] => x = y
        /\ \A pid \in Pids : name[pid + 1] = Root(pid) /\ pid + 1 \in DOMAIN name
        /\ \A x \in DOMAIN name : name[x].level = 4 => name[x].number = 0
        /\ DOMAIN tables \subseteq DOMAIN name
    BY SpanAssumption DEF Whole, Tree, Named, Memory, Pids
  <1>2. \A pid \in Pids : base_pts[pid] = pid + 1
    BY DEF Basic
  <1> DEFINE below(pid) == UNION {Children(pt) : pt \in Children(base_pts[pid])}
  <1>3. \A pid \in Pids : /\ base_pts[pid] \in Freed(pid) /\ Children(base_pts[pid]) \subseteq Freed(pid)
                          /\ below(pid) \subseteq Freed(pid)
                          /\ \A pt \in below(pid) : Children(pt) \subseteq Freed(pid)
    BY DEF Freed
  \* The parent of an allocation, which is of the same process.
  <1>4. ASSUME NEW x \in DOMAIN name, name[x].level # 4
        PROVE  \E t \in DOMAIN name :
                  x \in Children(t) /\ name[t].pid = name[x].pid /\ name[t].level = name[x].level + 1
    <2>1. PICK t \in DOMAIN tables : \E i \in 0 .. Fan - 1 : tables[t][i] = x
      BY <1>4 DEF Whole, Tree, Linked, Memory
    <2>2. PICK i \in 0 .. Fan - 1 : tables[t][i] = x
      BY <2>1
    <2>3. x # NULL /\ DOMAIN tables[t] = 0 .. Fan - 1 /\ t \in DOMAIN name /\ name[t].level # 1
      <3>1. x # NULL
        <4>1. Named(Memory, name)
          BY DEF Whole, Tree
        <4> QED
          BY <4>1, FreshIs
      <3> QED
        BY <3>1 DEF Whole, Tree, Named, Linked, Memory
    <2>4. name[x] = Below(name[t], i)
      <3>1. Tree(Memory, name) /\ Memory.tables = tables
        BY DEF Whole, Memory
      <3>2. t \in DOMAIN Memory.tables /\ Memory.tables[t][i] = x /\ Memory.tables[t][i] # NULL
        BY <2>2, <2>3, <3>1
      <3>3. name[Memory.tables[t][i]] = Below(name[t], i)
        BY ONLY <3>1, <3>2, PointsBelow, i \in 0 .. Fan - 1
      <3> QED
        BY <3>2, <3>3
    <2>5. name[x].pid = name[t].pid /\ name[x].level = name[t].level - 1 /\ name[t].level \in 1 .. 4
      <3>1. name[t] \in Names
        BY <1>1, <2>3
      <3>2. name[t].level \in 1 .. 4
        BY <3>1 DEF Names
      <3> QED
        BY <2>3, <2>4, <3>1, <3>2, BelowIsName
    <2>6. x \in Children(t)
      BY <2>2, <2>3 DEF Children
    <2> QED
      BY <2>3, <2>5, <2>6
  <1>5. ASSUME NEW x \in DOMAIN name, name[x].level = 4
        PROVE  name[x].pid \in Pids /\ x = base_pts[name[x].pid]
    <2> DEFINE pid == name[x].pid
    <2>1. pid \in Pids /\ name[x] = Root(pid)
      BY <1>1, <1>5 DEF Names, Root, Name
    <2>2. name[pid + 1] = name[x] /\ pid + 1 \in DOMAIN name
      BY <1>1, <2>1
    <2> QED
      BY <1>1, <1>2, <2>1, <2>2
  <1>6. ASSUME NEW x \in DOMAIN name, name[x].level = 3
        PROVE  name[x].pid \in Pids /\ x \in Children(base_pts[name[x].pid])
    BY <1>4, <1>5, <1>6
  <1>7. ASSUME NEW x \in DOMAIN name, name[x].level = 2
        PROVE  name[x].pid \in Pids /\ x \in below(name[x].pid)
    BY <1>4, <1>6, <1>7
  <1>8. ASSUME NEW x \in DOMAIN name, name[x].level = 1
        PROVE  name[x].pid \in Pids /\ \E pt \in below(name[x].pid) : x \in Children(pt)
    BY <1>4, <1>7, <1>8
  <1>9. ASSUME NEW x \in DOMAIN name PROVE \E pid \in Pids : x \in Freed(pid)
    <2>1. name[x].level \in 1 .. 4
      BY <1>1 DEF Names
    <2>2. CASE name[x].level = 4
      BY <1>3, <1>5, <2>2
    <2>3. CASE name[x].level = 3
      BY <1>3, <1>6, <2>3
    <2>4. CASE name[x].level = 2
      BY <1>3, <1>7, <2>4
    <2>5. CASE name[x].level = 1
      BY <1>3, <1>8, <2>5
    <2> QED
      BY <2>1, <2>2, <2>3, <2>4, <2>5
  <1>10. ASSUME NEW pid \in Pids, NEW x \in Freed(pid) PROVE x # NULL
    <2>1. \A t : NULL \notin Children(t)
      BY DEF Children
    <2>2. base_pts[pid] # NULL
      BY <1>2, SpanAssumption DEF Pids
    <2> QED
      BY <2>1, <2>2 DEF Freed
  <1> QED
    BY <1>9, <1>10

LEMMA DeleteFrees ==
  ASSUME MmuInv, MMU_delete
  PROVE  MmuInv'
  <1> DEFINE all == UNION {Freed(pid) : pid \in Pids}
  <1>1. /\ \A p \in Processes : done[p] = num_iterations * num_addresses
        /\ ~deleted /\ deleted' = TRUE
        /\ double_free' = \E x \in all : Cardinality(Pointers(x)) > 1
        /\ tables' = [t \in DOMAIN tables \ all |-> tables[t]]
        /\ frames' = frames \ all /\ tlb' = << >>
        /\ process' = process /\ done' = done /\ base_pts' = base_pts
        /\ num_page_faults' = num_page_faults /\ answers' = answers
    BY DEF MMU_delete, counters
  <1>2. PICK name : Whole(name)
    BY <1>1 DEF MmuInv, AllWhole
  <1>3. DOMAIN name \subseteq all /\ \A x \in all : x # NULL
    BY <1>2, EverythingIsReached DEF MmuInv
  <1>4. DOMAIN tables \subseteq DOMAIN name /\ frames \subseteq DOMAIN name
    BY <1>2 DEF Whole, Tree, Named, Memory
  <1> HIDE DEF all
  <1>5. tables' = << >> /\ DOMAIN tables' = {} /\ frames' = {}
    <2>1. DOMAIN tables \ all = {} /\ frames \ all = {}
      BY <1>3, <1>4
    <2> QED
      BY <1>1, <2>1
  <1>6. ~double_free'
    BY <1>1, <1>2, <1>3, OnePointer
  <1>7. Basic'
    BY <1>1 DEF MmuInv, Basic
  <1>8. TypeOK'
    <2>1. Len(tlb') = 0 /\ 0 <= MAX_NODES /\ DOMAIN tlb' = {}
      BY <1>1, SpanAssumption
    <2>2. done' \in [Processes -> 0 .. num_iterations * num_addresses]
      BY <1>7 DEF Basic
    <2> QED
      BY <1>5, <2>1, <2>2 DEF TypeOK, ToSet
  <1>9. TranslationsConsistent'
    BY <1>1, <1>8 DEF MmuInv, TranslationsConsistent, SamePage
  <1>10. FaultsExact'
    BY <1>1 DEF MmuInv, FaultsExact
  <1>11. EverythingFreed'
    BY <1>5, <1>6 DEF EverythingFreed
  <1> QED
    BY <1>1, <1>7, <1>9, <1>10, <1>11 DEF MmuInv

\* The invariants follow from the tree while it is there.
LEMMA WholeImplies == Basic /\ ~deleted /\ AllWhole => MmuInv
  <1> SUFFICES ASSUME Basic, ~deleted, NEW name, Whole(name)
               PROVE  MmuInv
    BY DEF AllWhole
  <1>1. TypeOK
    BY TypesHold
  <1>2. TranslationsConsistent
    BY <1>1, AnswersAgree DEF TranslationsConsistent
  <1>3. FaultsExact
    BY FaultsAreExact
  <1>4. EverythingFreed
    BY DEF EverythingFreed
  <1> QED
    BY <1>2, <1>3, <1>4 DEF MmuInv, AllWhole

LEMMA InitIsWhole ==
  ASSUME Init
  PROVE  MmuInv
  <1>1. /\ base_pts = [pid \in Pids |-> pid + 1]
        /\ tables = [t \in 1 .. MAX_PROCESS_ID |-> PageTable_create]
        /\ frames = {} /\ tlb = <<Sentinel>> /\ num_page_faults = 0
        /\ process \in [Processes -> [pid : Pids,
                                      virtual_addresses : [1 .. num_addresses -> VirtualAddresses]]]
        /\ done = [p \in Processes |-> 0] /\ ~deleted /\ deleted = FALSE /\ answers = {}
    BY DEF Init, MMU_create, TLB_create
  <1>2. 0 \in 0 .. num_iterations * num_addresses
    BY SpanAssumption
  <1>3. Basic
    BY <1>1, <1>2 DEF Basic
  <1> DEFINE name == [x \in 1 .. MAX_PROCESS_ID |-> Root(x - 1)]
  <1>4. Named(Memory, name)
    <2>1. MAX_PROCESS_ID \in Nat /\ MAX_PROCESS_ID + 0 = MAX_PROCESS_ID
      BY SpanAssumption
    <2>2. \A x \in 1 .. MAX_PROCESS_ID : x - 1 \in Pids
      BY <2>1 DEF Pids
    <2>3. \A x \in 1 .. MAX_PROCESS_ID :
            Root(x - 1) \in Names /\ Root(x - 1).level = 4 /\ Root(x - 1).number = 0 /\ Root(x - 1).pid = x - 1
      BY <2>2 DEF Root, Name, Names
    <2>4. \A x, y \in DOMAIN name : name[x] = name[y] => x = y
      <3>1. \A x, y \in 1 .. MAX_PROCESS_ID : x - 1 = y - 1 => x = y
        BY <2>1
      <3>2. \A x \in DOMAIN name : name[x].pid = x - 1
        BY <2>3
      <3> QED
        BY <3>1, <3>2
    <2>5. \A pid \in Pids : name[pid + 1] = Root(pid)
      <3>1. \A pid \in Pids : pid + 1 \in 1 .. MAX_PROCESS_ID /\ (pid + 1) - 1 = pid
        BY <2>1 DEF Pids
      <3> QED
        BY <3>1
    <2>6. \A x \in DOMAIN name : name[x].level = 4 /\ name[x].number = 0 /\ name[x] \in Names
      BY <2>3
    <2>7. Memory.faults = 0 /\ DOMAIN Memory.tables = 1 .. MAX_PROCESS_ID /\ Memory.frames = {}
      BY <1>1 DEF Memory
    <2>8. DOMAIN name = 1 .. MAX_PROCESS_ID /\ name = [x \in DOMAIN name |-> name[x]]
      OBVIOUS
    <2> HIDE DEF name
    <2> QED
      BY <2>1, <2>4, <2>5, <2>6, <2>7, <2>8 DEF Named
  <1>5. Linked(Memory, name)
    <2>1. \A x \in DOMAIN name : name[x].level = 4
      BY DEF Root, Name
    <2>2. Memory.tables = [t \in 1 .. MAX_PROCESS_ID |-> [i \in 0 .. Fan - 1 |-> NULL]]
      BY <1>1 DEF Memory, PageTable_create
    <2> HIDE DEF name
    <2> QED
      BY <2>1, <2>2 DEF Linked
  <1>6. Wanted(name)
    BY <1>1 DEF Wanted, Root, Name
  <1>7. TlbRight(name)
    <2>1. 1 \in 1 .. MAX_NODES
      BY SpanAssumption
    <2>2. tlb \in Seq({Sentinel} \cup Translations(name)) /\ Len(tlb) = 1
      <3> HIDE DEF name
      <3> QED
        BY <1>1
    <2> QED
      BY <2>1, <2>2 DEF TlbRight
  <1>8. AnswersRight(name)
    BY <1>1 DEF AnswersRight
  <1>9. AllWhole
    BY <1>4, <1>5, <1>6, <1>7, <1>8 DEF Whole, Tree, AllWhole
  <1> QED
    BY <1>1, <1>3, <1>9, WholeImplies

\* A turn of a thread is a translation for a process that there is.
LEMMA StepIs ==
  ASSUME MmuInv, NEW p \in Processes, get_physical_addresses(p)
  PROVE  /\ ~deleted /\ deleted' = deleted /\ process' = process /\ base_pts' = base_pts
         /\ done' \in [Processes -> 0 .. num_iterations * num_addresses]
         /\ \E va \in VirtualAddresses, pid \in Pids : MMU_get_physical_address(va, pid)
  <1> DEFINE va == process[p].virtual_addresses[1 + (done[p] % num_addresses)]
             pid == process[p].pid
             n == num_iterations * num_addresses
  <1>1. /\ done[p] < n /\ done' = [done EXCEPT ![p] = @ + 1]
        /\ MMU_get_physical_address(va, pid)
        /\ process' = process /\ base_pts' = base_pts /\ deleted' = deleted
    BY DEF get_physical_addresses, MMU_get_physical_address
  <1>2. /\ num_iterations \in Nat /\ num_addresses \in Nat /\ n \in Nat /\ done[p] \in 0 .. n
        /\ Basic /\ done \in [Processes -> 0 .. n]
    BY SpanAssumption DEF MmuInv, Basic
  <1>3. ~deleted
    BY <1>1, <1>2 DEF MmuInv
  <1>4. va \in VirtualAddresses /\ pid \in Pids
    <2>1. num_addresses # 0
      <3> SUFFICES ASSUME num_addresses = 0 PROVE FALSE
        OBVIOUS
      <3>1. num_iterations * 0 = 0
        BY ONLY <1>2
      <3> QED
        BY <1>1, <1>2, <3>1
    <2>2. 1 + (done[p] % num_addresses) \in 1 .. num_addresses
      <3>1. done[p] % num_addresses \in 0 .. num_addresses - 1
        BY <1>2, <2>1, Division
      <3> QED
        BY <1>2, <3>1
    <2> QED
      BY <1>2, <2>2 DEF Basic
  <1> HIDE DEF va, pid
  <1>5. done' \in [Processes -> 0 .. n]
    BY <1>1, <1>2
  <1> QED
    BY <1>1, <1>3, <1>4, <1>5

LEMMA StepKeepsWhole ==
  ASSUME MmuInv, NEW p \in Processes, get_physical_addresses(p)
  PROVE  MmuInv'
  <1>1. /\ ~deleted /\ deleted' = deleted /\ process' = process /\ base_pts' = base_pts
        /\ done' \in [Processes -> 0 .. num_iterations * num_addresses]
    BY StepIs
  <1>2. PICK va \in VirtualAddresses, pid \in Pids : MMU_get_physical_address(va, pid)
    BY StepIs
  <1>3. PICK name : Whole(name)
    BY <1>1 DEF MmuInv, AllWhole
  <1>4. /\ \E next : Whole(next)'
        /\ answers' \subseteq [pid : Pids, va : VirtualAddresses, pa : Nat]
    BY <1>2, <1>3, TranslationKeepsWhole DEF MmuInv
  <1>5. Basic'
    BY <1>1, <1>4 DEF MmuInv, Basic
  <1>6. AllWhole'
    BY <1>4 DEF AllWhole
  <1>7. ~deleted'
    BY <1>1
  <1> QED
    BY <1>5, <1>6, <1>7, WholeImplies, PTL

-----------------------------------------------------------------------------
(* The theorems                                                             *)

LEMMA UnchangedKeeps ==
  ASSUME MmuInv, UNCHANGED vars
  PROVE  MmuInv'
  <1>1. /\ process' = process /\ done' = done /\ tlb' = tlb /\ base_pts' = base_pts
        /\ tables' = tables /\ frames' = frames /\ num_page_faults' = num_page_faults
        /\ deleted' = deleted /\ double_free' = double_free /\ answers' = answers
    BY DEF vars, counters
  <1>2. Basic'
    BY <1>1 DEF MmuInv, Basic
  <1>3. ASSUME NEW name, Whole(name) PROVE Whole(name)'
    <2>1. Memory' = Memory
      BY <1>1 DEF Memory
    <2>2. Tree(Memory, name)'
      BY <1>3, <2>1 DEF Whole, Tree, Named, Linked
    <2>3. Wanted(name)' /\ TlbRight(name)' /\ AnswersRight(name)'
      BY <1>1, <1>3 DEF Whole, Wanted, TlbRight, Translations, AnswersRight
    <2> QED
      BY <2>2, <2>3 DEF Whole
  <1>4. TypeOK'
    BY <1>1 DEF MmuInv, TranslationsConsistent, TypeOK, Children
  <1>5. TranslationsConsistent'
    BY <1>1, <1>4 DEF MmuInv, TranslationsConsistent, SamePage
  <1>6. FaultsExact' /\ EverythingFreed'
    BY <1>1 DEF MmuInv, FaultsExact, EverythingFreed
  <1> QED
    BY <1>1, <1>2, <1>3, <1>5, <1>6 DEF MmuInv, AllWhole

LEMMA Invariance == Spec => []MmuInv
  <1>1. Init => MmuInv
    BY InitIsWhole
  <1>2. MmuInv /\ [Next]_vars => MmuInv'
    <2> SUFFICES ASSUME MmuInv, [Next]_vars PROVE MmuInv'
      OBVIOUS
    <2>1. CASE MMU_delete
      BY <2>1, DeleteFrees
    <2>2. CASE \E p \in Processes : get_physical_addresses(p)
      BY <2>2, StepKeepsWhole
    <2>3. CASE UNCHANGED vars
      BY <2>3, UnchangedKeeps
    <2> QED
      BY <2>1, <2>2, <2>3 DEF Next
  <1> QED
    BY <1>1, <1>2, PTL DEF Spec

(* The addresses of a page are translated into one frame, each at its       *)
(* offset, and no two addresses into the same physical one, whatever the    *)
(* TLB evicted in between and whichever processes drew the same pid         *)
(* (MMU_get_physical_address, mmu.c:24).                                    *)
THEOREM TranslationsAreConsistent == Spec => []TranslationsConsistent
  BY Invariance, PTL DEF MmuInv

(* A page fault is raised once for each table and frame that some process   *)
(* has needed, and never for one that is there (the faults of               *)
(* MMU_get_physical_address, mmu.c:37).                                     *)
THEOREM FaultsAreCounted == Spec => []FaultsExact
  BY Invariance, PTL DEF MmuInv

(* MMU_delete reaches every page table and every frame through the trees of *)
(* the processes, and none of them twice (Pagetable_delete_tree).           *)
THEOREM EverythingIsFreed == Spec => []EverythingFreed
  BY Invariance, PTL DEF MmuInv

-----------------------------------------------------------------------------
(* The TLB is a cache                                                       *)

Nodes == [key : Nat, pid : Nat, value : Nat]

\* No page is in the list twice, other than that of the sentinel, which is then
\* behind the node of the page.
Once(q) ==
    \A i, j \in 1 .. Len(q) :
        i < j /\ q[i].key = q[j].key /\ q[i].pid = q[j].pid => q[i] # Sentinel /\ q[j] = Sentinel

LEMMA SentinelIsNoNode == Sentinel \notin Nodes
  BY SpanAssumption DEF Sentinel, Node, Nodes

LEMMA PromotedOnce ==
  ASSUME NEW S, NEW q \in Seq(S), Once(q), NEW k, NEW pid
  PROVE  Once(Promoted(q, k, pid))
  <1> DEFINE i == PlaceOf(q, k, pid)
             r == Promoted(q, k, pid)
             n == Len(q)
  <1>1. /\ Len(r) = n /\ n \in Nat /\ (i = 0 => r = q)
        /\ i # 0 => r[1] = q[i] /\ \A j \in 2 .. n : r[j] = IF j <= i THEN q[j - 1] ELSE q[j]
    BY PromotedIs
  <1>2. \/ i = 0
        \/ /\ i \in 1 .. n /\ q[i].key = k /\ q[i].pid = pid
           /\ \A j \in 1 .. n : j < i => q[j].key # k \/ q[j].pid # pid
    BY PlaceIs
  <1>3. \A a, b \in 1 .. n :
          a < b /\ q[a].key = q[b].key /\ q[a].pid = q[b].pid => q[a] # Sentinel /\ q[b] = Sentinel
    BY DEF Once
  <1> HIDE DEF i, r, n
  <1>4. i = 0 => Once(r)
    BY <1>1, <1>3 DEF Once
  <1>5. ASSUME i # 0 PROVE Once(r)
    <2>1. ASSUME NEW a \in 1 .. n, NEW b \in 1 .. n, a < b, r[a].key = r[b].key, r[a].pid = r[b].pid
          PROVE  r[a] # Sentinel /\ r[b] = Sentinel
      <3> DEFINE c == IF b <= i THEN b - 1 ELSE b
      <3>1. b \in 2 .. n /\ c \in 1 .. n /\ r[b] = q[c]
        BY <1>1, <1>5, <2>1
      <3>2. CASE a = 1
        <4>1. r[a] = q[i] /\ c # i /\ i \in 1 .. n
          BY <1>1, <1>2, <1>5, <2>1, <3>1, <3>2
        <4>2. ~ c < i
          BY <1>2, <1>5, <2>1, <3>1, <4>1
        <4>3. i < c
          BY <1>1, <3>1, <4>1, <4>2
        <4> QED
          BY <1>3, <2>1, <3>1, <4>1, <4>3
      <3>3. CASE a # 1
        <4> DEFINE d == IF a <= i THEN a - 1 ELSE a
        <4>1. d \in 1 .. n /\ r[a] = q[d] /\ d < c
          BY <1>1, <1>2, <1>5, <2>1, <3>1, <3>3
        <4> HIDE DEF c, d
        <4> QED
          BY <1>3, <2>1, <3>1, <4>1
      <3> QED
        BY <3>2, <3>3
    <2> QED
      BY <1>1, <2>1 DEF Once
  <1> QED
    BY <1>4, <1>5 DEF r

\* A node is only added for a page that has none.
LEMMA AddedOnce ==
  ASSUME NEW S, NEW q \in Seq(S), Len(q) \in 1 .. MAX_NODES, Once(q), NEW k, NEW pid, NEW f,
         Node(k, pid, f) \in S, f \in Nat,
         PlaceOf(q, k, pid) = 0 \/ q[PlaceOf(q, k, pid)] = Sentinel
  PROVE  Once(TLB_add_physical_address(Promoted(q, k, pid), k, pid, f))
  <1> DEFINE i == PlaceOf(q, k, pid)
             p == Promoted(q, k, pid)
             r == TLB_add_physical_address(p, k, pid, f)
             n == Len(q)
             e == Node(k, pid, f)
  <1>1. /\ p \in Seq(S) /\ Len(p) = n /\ n \in Nat /\ (i = 0 => p = q)
        /\ i # 0 => p[1] = q[i]
    BY PromotedIs
  <1>2. MAX_NODES \in Nat \ {0, 1}
    BY SpanAssumption
  <1>3. /\ Len(r) \in 1 .. MAX_NODES /\ r[1] = e /\ Len(r) = IF n >= MAX_NODES THEN n ELSE n + 1
        /\ \A j \in 2 .. Len(r) : r[j] = p[j - 1]
    <2> HIDE DEF p
    <2> QED
      BY <1>1, <1>2, AddIs
  <1>4. \A a, b \in 1 .. n :
          a < b /\ p[a].key = p[b].key /\ p[a].pid = p[b].pid => p[a] # Sentinel /\ p[b] = Sentinel
    BY <1>1, PromotedOnce DEF Once
  <1>5. i = 0 => \A j \in 1 .. n : q[j].key # k \/ q[j].pid # pid
    BY PlaceIs
  <1>6. i # 0 => q[i] = Sentinel /\ q[i].key = k /\ q[i].pid = pid
    BY PlaceIs
  <1>7. e.key = k /\ e.pid = pid /\ e # Sentinel
    BY SpanAssumption DEF Node, Sentinel
  <1> HIDE DEF i, p, r, n, e
  <1>8. ASSUME NEW j \in 1 .. n, p[j].key = k, p[j].pid = pid PROVE p[j] = Sentinel
    <2>1. i # 0
      BY <1>1, <1>5, <1>8
    <2>2. p[1] = Sentinel /\ p[1].key = p[j].key /\ p[1].pid = p[j].pid
      BY <1>1, <1>6, <1>8, <2>1
    <2>3. ~ 1 < j
      BY <1>1, <1>4, <2>2
    <2>4. j = 1
      BY <1>1, <2>3
    <2> QED
      BY <2>2, <2>4
  <1>9. ASSUME NEW a \in 1 .. Len(r), NEW b \in 1 .. Len(r), a < b,
               r[a].key = r[b].key, r[a].pid = r[b].pid
        PROVE  r[a] # Sentinel /\ r[b] = Sentinel
    <2>1. b \in 2 .. Len(r) /\ b - 1 \in 1 .. n /\ r[b] = p[b - 1]
      BY <1>1, <1>2, <1>3, <1>9
    <2>2. CASE a = 1
      BY <1>3, <1>7, <1>8, <1>9, <2>1, <2>2
    <2>3. CASE a # 1
      <3>1. a \in 2 .. Len(r) /\ a - 1 \in 1 .. n /\ r[a] = p[a - 1] /\ a - 1 < b - 1
        BY <1>1, <1>2, <1>3, <1>9, <2>3
      <3> QED
        BY <1>4, <1>9, <2>1, <3>1
    <2> QED
      BY <2>2, <2>3
  <1>10. Once(r)
    BY <1>9 DEF Once
  <1> QED
    BY <1>10 DEF r, p

\* The pages held after `page` is used, if at most C are.
Used(recent, page, C) ==
    LET others == RemoveFirst(recent, page)
    IN  SubSeq(<<page>> \o others, 1, IF Len(others) < C THEN Len(others) + 1 ELSE C)

LEMMA UseNew ==
  ASSUME NEW P, NEW recent \in Seq(P), NEW page \in P, ~Contains(recent, page),
         NEW C \in Nat \ {0}, Len(recent) <= C, NEW r \in Seq(P),
         Len(r) = IF Len(recent) < C THEN Len(recent) + 1 ELSE C,
         r[1] = page, \A j \in 2 .. Len(r) : r[j] = recent[j - 1]
  PROVE  r = Used(recent, page, C)
  <1> DEFINE m == Len(recent)
             n == IF m < C THEN m + 1 ELSE C
             t == <<page>> \o recent
             u == SubSeq(t, 1, n)
  <1>1. Used(recent, page, C) = u
    BY DEF Used, RemoveFirst, Contains
  <1>2. m \in Nat /\ n \in 1 .. m + 1 /\ n = Len(r)
    OBVIOUS
  <1>3. /\ t \in Seq(P) /\ Len(t) = m + 1 /\ t[1] = page
        /\ \A j \in 2 .. m + 1 : t[j] = recent[j - 1]
    BY InFront
  <1> HIDE DEF t, n, m
  <1>4. u \in Seq(P) /\ Len(u) = n - 1 + 1 /\ \A j \in 1 .. n - 1 + 1 : u[j] = t[1 + j - 1]
    <2>1. 1 \in 1 .. Len(t) + 1 /\ n \in 0 .. Len(t) /\ 1 <= n + 1
      BY <1>2, <1>3
    <2> QED
      BY <1>3, <2>1, SubSeqIs
  <1> HIDE DEF u
  <1>5. ASSUME NEW j \in 1 .. Len(r) PROVE r[j] = u[j]
    <2>1. j \in 1 .. n - 1 + 1 /\ 1 + j - 1 = j
      BY <1>2
    <2>2. u[j] = t[j]
      BY <1>4, <2>1
    <2>3. j = 1 \/ j \in 2 .. m + 1
      BY <1>2
    <2>4. r[j] = t[j]
      BY <1>3, <2>3
    <2> QED
      BY <2>2, <2>4
  <1>6. Len(r) = Len(u)
    BY <1>2, <1>4
  <1>7. r = u
    BY <1>4, <1>5, <1>6, SeqEqual
  <1> QED
    BY <1>1, <1>7

\* r has what is at i in the list moved to the front.
Fronted(list, i, r) ==
    /\ Len(r) = Len(list) /\ r[1] = list[i]
    /\ \A j \in 2 .. Len(r) : r[j] = IF j <= i THEN list[j - 1] ELSE list[j]

NoneTwice(list) == \A j, k \in 1 .. Len(list) : list[j] = list[k] => j = k

LEMMA UseAgain ==
  ASSUME NEW P, NEW recent \in Seq(P), NEW i \in 1 .. Len(recent), NoneTwice(recent),
         NEW C \in Nat \ {0}, Len(recent) <= C, NEW r \in Seq(P), Fronted(recent, i, r)
  PROVE  Contains(recent, recent[i]) /\ r = Used(recent, recent[i], C)
  <1> DEFINE m == Len(recent)
             page == recent[i]
             I == {j \in 1 .. m : recent[j] = page}
             o == RemoveAt(recent, i)
             t == <<page>> \o o
             u == SubSeq(t, 1, m)
  <1>1. m \in Nat /\ page \in P /\ i \in I /\ I \subseteq Nat
    OBVIOUS
  <1>2. I = {i}
    BY DEF NoneTwice
  <1>3. SelectInSeq(recent, LAMBDA v : v = page) = i
    <2>1. SelectInSeq(recent, LAMBDA v : v = page) = IF I # {} THEN Min(I) ELSE 0
      BY DEF SelectInSeq
    <2>2. Min(I) \in I
      <3> HIDE DEF I
      <3> QED
        BY <1>1, LeastIndex
    <2> HIDE DEF I
    <2> QED
      BY <1>1, <1>2, <2>1, <2>2
  <1>4. RemoveFirst(recent, page) = o
    BY <1>3 DEF RemoveFirst
  <1>5. /\ t \in Seq(P) /\ Len(t) = m /\ t[1] = page
        /\ \A j \in 2 .. m : t[j] = IF j <= i THEN recent[j - 1] ELSE recent[j]
    BY ToFront
  <1>6. o \in Seq(P) /\ Len(t) = Len(o) + 1
    <2>1. o \in Seq(P)
      <3>1. SubSeq(recent, 1, i - 1) \in Seq(P)
        <4>1. 1 \in 1 .. m + 1 /\ i - 1 \in 0 .. m /\ 1 <= (i - 1) + 1
          OBVIOUS
        <4> QED
          BY <4>1, SubSeqIs
      <3>2. SubSeq(recent, i + 1, m) \in Seq(P)
        <4>1. i + 1 \in 1 .. m + 1 /\ m \in 0 .. m /\ i + 1 <= m + 1
          OBVIOUS
        <4> QED
          BY <4>1, SubSeqIs
      <3> QED
        BY <3>1, <3>2, ConcatProperties DEF RemoveAt
    <2> HIDE DEF o
    <2> QED
      BY <1>1, <2>1, InFront
  <1> HIDE DEF o
  <1>7. Len(o) \in Nat /\ Len(o) < C /\ Len(o) + 1 = m
    BY <1>1, <1>5, <1>6
  <1>8. Used(recent, page, C) = u
    <2>1. Used(recent, page, C) = SubSeq(t, 1, IF Len(o) < C THEN Len(o) + 1 ELSE C)
      BY <1>4 DEF Used
    <2> QED
      BY <1>7, <2>1
  <1> HIDE DEF t
  <1>9. u \in Seq(P) /\ Len(u) = m - 1 + 1 /\ \A j \in 1 .. m - 1 + 1 : u[j] = t[1 + j - 1]
    <2>1. 1 \in 1 .. Len(t) + 1 /\ m \in 0 .. Len(t) /\ 1 <= m + 1
      BY <1>1, <1>5
    <2> QED
      BY <1>5, <2>1, SubSeqIs
  <1> HIDE DEF u
  <1>10. ASSUME NEW j \in 1 .. Len(r) PROVE r[j] = u[j]
    <2>1. u[j] = t[j]
      BY <1>1, <1>9 DEF Fronted
    <2>2. j = 1 \/ j \in 2 .. m
      BY <1>1 DEF Fronted
    <2> QED
      BY <1>5, <2>1, <2>2 DEF Fronted
  <1>11. Len(r) = Len(u)
    BY <1>1, <1>9 DEF Fronted
  <1>12. r = u
    BY <1>9, <1>10, <1>11, SeqEqual
  <1>13. Contains(recent, page)
    BY DEF Contains
  <1> QED
    BY <1>8, <1>12, <1>13
\* What is held of a list q, and its pages.
HeldOf(q) == IF Contains(q, Sentinel) THEN Front(q) ELSE q
PagesOf(q) == [i \in DOMAIN q |-> <<q[i].pid, q[i].key>>]

Behind(q) == Contains(q, Sentinel) => Last(q) = Sentinel

\* A list in which only the sentinel may not be a translation, and is last.
Cached(q) ==
    /\ q \in Seq({Sentinel} \cup Nodes) /\ Len(q) \in 1 .. MAX_NODES
    /\ Once(q) /\ Behind(q)

\* The nodes held are the first ones of the list, without the last if that is
\* the sentinel, which is nowhere else.
LEMMA HeldIs ==
  ASSUME NEW q, Cached(q)
  PROVE  LET n == Len(q)
             h == HeldOf(q)
         IN  /\ h \in Seq(Nodes) /\ \A j \in 1 .. Len(h) : h[j] = q[j]
             /\ \/ Len(h) = n /\ \A j \in 1 .. n : q[j] # Sentinel
                \/ Len(h) = n - 1 /\ q[n] = Sentinel
             /\ \A j \in 1 .. n : q[j] = Sentinel => j = n
             /\ \A j, k \in 1 .. Len(h) : h[j].key = h[k].key /\ h[j].pid = h[k].pid => j = k
  <1> DEFINE S == {Sentinel} \cup Nodes
             n == Len(q)
             h == HeldOf(q)
  <1>1. q \in Seq(S) /\ n \in Nat \ {0} /\ \A j \in 1 .. n : q[j] \in S
    BY DEF Cached
  <1>2. \A i, j \in 1 .. n : i < j /\ q[i].key = q[j].key /\ q[i].pid = q[j].pid
                               => q[i] # Sentinel /\ q[j] = Sentinel
    BY DEF Cached, Once
  <1>3. (\E j \in 1 .. n : q[j] = Sentinel) => q[n] = Sentinel
    BY DEF Cached, Behind, Contains, Last
  <1>4. ASSUME NEW j \in 1 .. n, q[j] = Sentinel PROVE j = n
    <2>1. q[n] = Sentinel /\ n \in 1 .. n /\ (j < n \/ j = n)
      BY <1>1, <1>3, <1>4
    <2> QED
      BY <1>2, <1>4, <2>1
  <1>5. CASE Contains(q, Sentinel)
    <2>1. q[n] = Sentinel /\ h = SubSeq(q, 1, n - 1)
      BY <1>3, <1>5 DEF Contains, HeldOf, Front
    <2>2. ASSUME NEW j \in 1 .. n - 1 PROVE q[j] \in Nodes
      BY <1>1, <1>4, <2>2
    <2>3. 1 \in Int /\ n - 1 \in Int /\ n \in Nat \ {0}
      BY <1>1
    <2>4. /\ h \in Seq(Nodes) /\ Len(h) = (IF 1 <= n - 1 THEN (n - 1) - 1 + 1 ELSE 0)
          /\ \A j \in 1 .. (n - 1) - 1 + 1 : h[j] = q[1 + j - 1]
      <3> HIDE DEF n, h
      <3> QED
        BY <2>1, <2>2, <2>3, SubSeqProperties
    <2> HIDE DEF h
    <2>5. h \in Seq(Nodes) /\ Len(h) = n - 1 /\ \A j \in 1 .. n - 1 : h[j] = q[j]
      <3> HIDE DEF n
      <3>1. (n - 1) - 1 + 1 = n - 1 /\ \A j \in 1 .. n - 1 : 1 + j - 1 = j
        BY <2>3
      <3> QED
        BY <2>3, <2>4, <3>1
    <2>6. ASSUME NEW j \in 1 .. n - 1, NEW k \in 1 .. n - 1,
                 h[j].key = h[k].key, h[j].pid = h[k].pid
          PROVE  j = k
      <3>1. q[j] # Sentinel /\ q[k] # Sentinel /\ j \in 1 .. n /\ k \in 1 .. n
        BY <1>1, <1>4
      <3>2. q[j].key = q[k].key /\ q[j].pid = q[k].pid
        BY <2>5, <2>6
      <3>3. ~ j < k /\ ~ k < j
        BY <1>2, <3>1, <3>2
      <3> QED
        BY <1>1, <3>3
    <2> QED
      BY <1>4, <2>1, <2>5, <2>6 DEF h
  <1>6. CASE ~Contains(q, Sentinel)
    <2>1. h = q /\ \A j \in 1 .. n : q[j] # Sentinel
      BY <1>6 DEF HeldOf, Contains
    <2>2. q \in Seq(Nodes)
      BY <1>1, <2>1
    <2>3. ASSUME NEW j \in 1 .. n, NEW k \in 1 .. n, q[j].key = q[k].key, q[j].pid = q[k].pid
          PROVE  j = k
      <3>1. ~ j < k /\ ~ k < j
        BY <1>2, <2>1, <2>3
      <3> QED
        BY <1>1, <3>1
    <2> QED
      BY <1>4, <2>1, <2>2, <2>3
  <1> QED
    BY <1>5, <1>6

LEMMA PagesAre ==
  ASSUME NEW h \in Seq(Nodes)
  PROVE  /\ PagesOf(h) \in Seq(Nat \X Nat) /\ Len(PagesOf(h)) = Len(h)
         /\ \A j \in 1 .. Len(h) : PagesOf(h)[j] = <<h[j].pid, h[j].key>>
  <1>1. DOMAIN h = 1 .. Len(h) /\ Len(h) \in Nat
    OBVIOUS
  <1>2. \A j \in 1 .. Len(h) : <<h[j].pid, h[j].key>> \in Nat \X Nat
    <2>1. \A j \in 1 .. Len(h) : h[j] \in Nodes
      OBVIOUS
    <2> QED
      BY <2>1 DEF Nodes
  <1>3. PagesOf(h) = [i \in 1 .. Len(h) |-> <<h[i].pid, h[i].key>>]
    BY <1>1 DEF PagesOf
  <1>4. PagesOf(h) \in Seq(Nat \X Nat)
    BY <1>1, <1>2, <1>3
  <1>5. Len(PagesOf(h)) = Len(h)
    BY <1>1, <1>3
  <1> QED
    BY <1>3, <1>4, <1>5
\* A hit uses a page that is held.
LEMMA HitUses ==
  ASSUME NEW q, Cached(q), NEW k, NEW pid, NEW q2, q2 = Promoted(q, k, pid), Cached(q2),
         PlaceOf(q, k, pid) # 0, q[PlaceOf(q, k, pid)].value # NULL
  PROVE  LET recent == PagesOf(HeldOf(q))
         IN  Contains(recent, <<pid, k>>) /\ PagesOf(HeldOf(q2)) = Used(recent, <<pid, k>>, MAX_NODES)
  <1> DEFINE S == {Sentinel} \cup Nodes
             n == Len(q)
             i == PlaceOf(q, k, pid)
             h == HeldOf(q)
             h2 == HeldOf(q2)
             r == PagesOf(h)
             r2 == PagesOf(h2)
  <1>1. q \in Seq(S) /\ n \in 1 .. MAX_NODES /\ MAX_NODES \in Nat \ {0, 1}
    BY SpanAssumption DEF Cached
  <1>2. i \in 1 .. n /\ q[i].key = k /\ q[i].pid = pid /\ q[i] # Sentinel
    <2>1. i \in 1 .. n /\ q[i].key = k /\ q[i].pid = pid
      BY <1>1, PlaceIs
    <2> QED
      BY <2>1 DEF Sentinel, Node
  <1>3. /\ Len(q2) = n /\ q2[1] = q[i]
        /\ \A j \in 2 .. n : q2[j] = IF j <= i THEN q[j - 1] ELSE q[j]
    <2> HIDE DEF S
    <2> QED
      BY <1>1, PromotedIs
  <1>4. /\ h \in Seq(Nodes) /\ \A j \in 1 .. Len(h) : h[j] = q[j]
        /\ \/ Len(h) = n /\ \A j \in 1 .. n : q[j] # Sentinel
           \/ Len(h) = n - 1 /\ q[n] = Sentinel
        /\ \A j \in 1 .. n : q[j] = Sentinel => j = n
        /\ \A j, m \in 1 .. Len(h) : h[j].key = h[m].key /\ h[j].pid = h[m].pid => j = m
    BY HeldIs
  <1>5. /\ h2 \in Seq(Nodes) /\ \A j \in 1 .. Len(h2) : h2[j] = q2[j]
        /\ \/ Len(h2) = n /\ \A j \in 1 .. n : q2[j] # Sentinel
           \/ Len(h2) = n - 1 /\ q2[n] = Sentinel
    BY <1>3, HeldIs
  <1>6. /\ r \in Seq(Nat \X Nat) /\ Len(r) = Len(h)
        /\ \A j \in 1 .. Len(h) : r[j] = <<h[j].pid, h[j].key>>
    BY <1>4, PagesAre
  <1>7. /\ r2 \in Seq(Nat \X Nat) /\ Len(r2) = Len(h2)
        /\ \A j \in 1 .. Len(h2) : r2[j] = <<h2[j].pid, h2[j].key>>
    BY <1>5, PagesAre
  <1> HIDE DEF S, n, i, h, h2, r, r2
  <1>8. i \in 1 .. Len(h) /\ Len(h) \in Nat
    BY <1>1, <1>2, <1>4
  <1>9. Len(h2) = Len(h)
    <2>1. CASE q[n] = Sentinel
      <3>1. Len(h) = n - 1 /\ n \in 2 .. n /\ ~ n <= i
        BY <1>1, <1>2, <1>4, <2>1
      <3>2. q2[n] = Sentinel /\ n \in 1 .. n
        BY <1>1, <1>3, <2>1, <3>1
      <3> QED
        BY <1>5, <3>1, <3>2
    <2>2. CASE q[n] # Sentinel
      <3>1. Len(h) = n /\ \A j \in 1 .. n : q[j] # Sentinel
        BY <1>4, <2>2
      <3>2. n = 1 \/ n \in 2 .. n
        BY <1>1
      <3>3. q2[n] # Sentinel
        BY <1>1, <1>2, <1>3, <3>1, <3>2
      <3> QED
        BY <1>5, <3>1, <3>3
    <2> QED
      BY <2>1, <2>2
  <1>10. r[i] = <<pid, k>>
    BY <1>2, <1>4, <1>6, <1>8
  <1>11. \A j, m \in 1 .. Len(r) : r[j] = r[m] => j = m
    <2> SUFFICES ASSUME NEW j \in 1 .. Len(r), NEW m \in 1 .. Len(r), r[j] = r[m] PROVE j = m
      OBVIOUS
    <2>1. <<h[j].pid, h[j].key>> = <<h[m].pid, h[m].key>>
      BY <1>6
    <2> QED
      BY <1>4, <1>6, <2>1
  <1>12. r2[1] = r[i]
    <2>1. h2[1] = q[i] /\ 1 \in 1 .. Len(h2)
      BY <1>3, <1>5, <1>8, <1>9
    <2> QED
      BY <1>2, <1>7, <1>10, <2>1
  <1>13. ASSUME NEW j \in 2 .. Len(r2)
         PROVE  r2[j] = IF j <= i THEN r[j - 1] ELSE r[j]
    <2> DEFINE m == IF j <= i THEN j - 1 ELSE j
    <2>1. j \in 1 .. Len(h2) /\ j \in 2 .. n /\ m \in 1 .. Len(h)
      <3>1. n \in Nat /\ Len(h) <= n
        BY <1>1, <1>4
      <3>2. Len(r2) = Len(h) /\ Len(h2) = Len(h)
        BY <1>7, <1>9
      <3>3. Len(h) \in Nat /\ 1 <= i /\ i <= Len(h) /\ i \in Nat
        BY <1>8
      <3>4. j \in Nat /\ 2 <= j /\ j <= Len(h)
        BY <3>2, <3>3
      <3> QED
        BY <3>1, <3>2, <3>3, <3>4
    <2>2. h2[j] = q[m] /\ h[m] = q[m]
      BY <1>3, <1>4, <1>5, <2>1
    <2>3. r2[j] = r[m]
      BY <1>6, <1>7, <2>1, <2>2
    <2> QED
      BY <2>3
  <1>14. Len(r) <= MAX_NODES /\ MAX_NODES \in Nat \ {0} /\ Len(r2) = Len(r) /\ i \in 1 .. Len(r)
    <2>1. Len(h) <= n /\ n <= MAX_NODES /\ n \in Nat
      BY <1>1, <1>4
    <2>2. Len(h) <= MAX_NODES
      BY <1>1, <1>8, <2>1
    <2> QED
      BY <1>1, <1>6, <1>7, <1>8, <1>9, <2>2
  <1>15. Contains(r, r[i]) /\ r2 = Used(r, r[i], MAX_NODES)
    <2> DEFINE P == Nat \X Nat
    <2>1. r \in Seq(P) /\ r2 \in Seq(P)
      BY <1>6, <1>7
    <2> HIDE DEF P
    <2>2. NoneTwice(r) /\ Fronted(r, i, r2)
      BY <1>11, <1>12, <1>13, <1>14 DEF NoneTwice, Fronted
    <2> QED
      BY <1>14, <2>1, <2>2, UseAgain
  <1> QED
    BY <1>10, <1>15 DEF r, r2, h, h2

\* An addition puts its node in front of the others, and pushes out the last when
\* the list is full.
InFrontOf(q, e, r) ==
    /\ Len(r) = IF Len(q) >= MAX_NODES THEN Len(q) ELSE Len(q) + 1
    /\ r[1] = e /\ \A j \in 2 .. Len(r) : r[j] = q[j - 1]

LEMMA AddsInFront ==
  ASSUME NEW S, NEW q \in Seq(S), Len(q) \in 1 .. MAX_NODES, NEW k, NEW pid, NEW f,
         Node(k, pid, f) \in S, MAX_NODES \in Nat \ {0, 1}
  PROVE  InFrontOf(q, Node(k, pid, f), TLB_add_physical_address(q, k, pid, f))
  <1> DEFINE r == TLB_add_physical_address(q, k, pid, f)
  <1>1. /\ r[1] = Node(k, pid, f)
        /\ Len(r) = IF Len(q) >= MAX_NODES THEN Len(q) ELSE Len(q) + 1
        /\ \A j \in 2 .. Len(r) : r[j] = q[j - 1]
    BY AddIs
  <1> QED
    BY <1>1 DEF InFrontOf

\* A miss uses a page that is not, unless the sentinel is brought to the front
\* and stays in the list with another node behind it.
LEMMA MissUses ==
  ASSUME NEW q, Cached(q), NEW k \in Nat, NEW pid \in Nat, NEW f \in Nat, NEW q2,
         q2 = TLB_add_physical_address(Promoted(q, k, pid), k, pid, f), Cached(q2),
         PlaceOf(q, k, pid) = 0 \/ q[PlaceOf(q, k, pid)] = Sentinel, MAX_NODES > 2
  PROVE  LET recent == PagesOf(HeldOf(q))
         IN  ~Contains(recent, <<pid, k>>) /\ PagesOf(HeldOf(q2)) = Used(recent, <<pid, k>>, MAX_NODES)
  <1> DEFINE S == {Sentinel} \cup Nodes
             n == Len(q)
             n2 == Len(q2)
             p == Promoted(q, k, pid)
             i == PlaceOf(q, k, pid)
             e == Node(k, pid, f)
             h == HeldOf(q)
             h2 == HeldOf(q2)
             r == PagesOf(h)
             r2 == PagesOf(h2)
  <1>1. q \in Seq(S) /\ n \in 1 .. MAX_NODES /\ MAX_NODES \in Nat \ {0, 1}
    BY SpanAssumption DEF Cached
  <1>2. \/ i = 0 /\ \A j \in 1 .. n : q[j].key # k \/ q[j].pid # pid
        \/ i \in 1 .. n /\ q[i] = Sentinel
    BY <1>1, PlaceIs
  <1>3. p \in Seq(S) /\ Len(p) = n /\ (i = 0 => p = q) /\ (i # 0 => p[1] = q[i])
    <2> HIDE DEF S
    <2> QED
      BY <1>1, PromotedIs
  <1>4. e \in S /\ e \in Nodes /\ e.key = k /\ e.pid = pid /\ e # Sentinel
    BY SentinelIsNoNode DEF Node, Nodes
  <1>5. /\ n2 = IF n >= MAX_NODES THEN n ELSE n + 1
        /\ q2[1] = e /\ \A j \in 2 .. n2 : q2[j] = p[j - 1]
    <2>1. q2 = TLB_add_physical_address(p, k, pid, f) /\ Node(k, pid, f) = e
      OBVIOUS
    <2> HIDE DEF S, n, n2, p, i, e
    <2>2. p \in Seq(S) /\ Len(p) = n /\ e \in S
      BY <1>3, <1>4
    <2>3. Len(p) \in 1 .. MAX_NODES /\ MAX_NODES \in Nat \ {0, 1} /\ Node(k, pid, f) \in S
      BY <1>1, <2>1, <2>2
    <2>4. InFrontOf(p, Node(k, pid, f), TLB_add_physical_address(p, k, pid, f))
      BY <2>2, <2>3, AddsInFront
    <2>5. InFrontOf(p, e, q2)
      BY <2>1, <2>4
    <2> QED
      BY <2>2, <2>5 DEF InFrontOf, n2
  <1>6. /\ h \in Seq(Nodes) /\ \A j \in 1 .. Len(h) : h[j] = q[j]
        /\ \/ Len(h) = n /\ \A j \in 1 .. n : q[j] # Sentinel
           \/ Len(h) = n - 1 /\ q[n] = Sentinel
        /\ \A j \in 1 .. n : q[j] = Sentinel => j = n
    BY HeldIs
  <1>7. /\ h2 \in Seq(Nodes) /\ \A j \in 1 .. Len(h2) : h2[j] = q2[j]
        /\ \/ Len(h2) = n2 /\ \A j \in 1 .. n2 : q2[j] # Sentinel
           \/ Len(h2) = n2 - 1 /\ q2[n2] = Sentinel
        /\ \A j \in 1 .. n2 : q2[j] = Sentinel => j = n2
    BY HeldIs
  <1>8. /\ r \in Seq(Nat \X Nat) /\ Len(r) = Len(h)
        /\ \A j \in 1 .. Len(h) : r[j] = <<h[j].pid, h[j].key>>
    BY <1>6, PagesAre
  <1>9. /\ r2 \in Seq(Nat \X Nat) /\ Len(r2) = Len(h2)
        /\ \A j \in 1 .. Len(h2) : r2[j] = <<h2[j].pid, h2[j].key>>
    BY <1>7, PagesAre
  <1> HIDE DEF S, n, n2, p, i, e, h, h2, r, r2
  \* The sentinel that is found is the only node.
  <1>10. ASSUME i # 0 PROVE n = 1 /\ q[n] = Sentinel
    <2>1. i = n /\ q[n] = Sentinel /\ p[1] = Sentinel
      BY <1>1, <1>2, <1>3, <1>6, <1>10
    <2>2. 2 \in 2 .. n2 /\ 2 \in 1 .. n2
      BY <1>1, <1>5
    <2>3. q2[2] = Sentinel
      BY <1>5, <2>1, <2>2
    <2>4. n2 = 2
      BY <1>7, <2>2, <2>3
    <2>5. n = 1
      BY <1>1, <1>5, <2>4
    <2> QED
      BY <2>1, <2>5
  <1>11. ASSUME NEW j \in 2 .. n2 PROVE q2[j] = q[j - 1]
    <2>1. CASE i = 0
      BY <1>3, <1>5, <1>11, <2>1
    <2>2. CASE i # 0
      <3>1. n2 = 2 /\ j = 2 /\ p[1] = q[1]
        BY <1>1, <1>2, <1>3, <1>5, <1>10, <1>11, <2>2
      <3> QED
        BY <1>5, <3>1
    <2> QED
      BY <2>1, <2>2
  <1>12. /\ Len(h) \in Nat /\ Len(h) <= MAX_NODES
         /\ Len(h2) = IF Len(h) < MAX_NODES THEN Len(h) + 1 ELSE MAX_NODES
    <2>1. CASE q[n] = Sentinel
      <3>1. Len(h) = n - 1
        BY <1>1, <1>6, <2>1
      <3>2. CASE n >= MAX_NODES
        <4>1. n2 = n /\ n2 \in 2 .. n2 /\ n2 - 1 \in 1 .. n /\ n2 - 1 # n
          BY <1>1, <1>5, <3>2
        <4>2. q2[n2] # Sentinel
          BY <1>6, <1>11, <4>1
        <4> QED
          BY <1>1, <1>7, <3>1, <3>2, <4>1, <4>2
      <3>3. CASE n < MAX_NODES
        <4>1. n2 = n + 1 /\ n2 \in 2 .. n2 /\ n2 - 1 = n /\ n2 \in 1 .. n2
          BY <1>1, <1>5, <3>3
        <4>2. q2[n2] = Sentinel
          BY <1>11, <2>1, <4>1
        <4> QED
          BY <1>1, <1>7, <3>1, <3>3, <4>1, <4>2
      <3> QED
        BY <1>1, <3>2, <3>3
    <2>2. CASE q[n] # Sentinel
      <3>1. Len(h) = n /\ \A j \in 1 .. n : q[j] # Sentinel
        BY <1>6, <2>2
      <3>2. n2 \in 2 .. n2 /\ n2 - 1 \in 1 .. n
        BY <1>1, <1>5
      <3>3. q2[n2] # Sentinel
        BY <1>11, <3>1, <3>2
      <3>4. Len(h2) = n2
        BY <1>7, <3>3
      <3> QED
        BY <1>1, <1>5, <3>1, <3>4
    <2> QED
      BY <2>1, <2>2
  <1>13. ASSUME NEW j \in 1 .. Len(h) PROVE r[j] # <<pid, k>>
    <2>1. CASE i = 0
      <3>1. j \in 1 .. n
        BY <1>1, <1>6, <1>12
      <3>2. h[j].key # k \/ h[j].pid # pid
        BY <1>2, <1>6, <2>1, <3>1
      <3> QED
        BY <1>8, <3>2
    <2>2. CASE i # 0
      <3>1. n = 1 /\ q[1] = Sentinel /\ 1 \in 1 .. n
        BY <1>10, <2>2
      <3>2. Len(h) = 0
        BY <1>6, <3>1
      <3> QED
        BY <3>2
    <2> QED
      BY <2>1, <2>2
  <1>14. r2[1] = <<pid, k>>
    <2>1. 1 \in 1 .. Len(h2)
      BY <1>1, <1>12
    <2> QED
      BY <1>4, <1>5, <1>7, <1>9, <2>1
  <1>15. ASSUME NEW j \in 2 .. Len(r2) PROVE r2[j] = r[j - 1]
    <2>1. j \in 1 .. Len(h2) /\ j \in 2 .. n2 /\ j - 1 \in 1 .. Len(h)
      <3>1. n2 \in Nat
        BY <1>1, <1>5
      <3>2. Len(h2) <= n2
        BY <1>7, <3>1
      <3>3. Len(h) \in Nat /\ Len(h2) \in Nat /\ Len(h2) <= Len(h) + 1
        BY <1>1, <1>12
      <3>4. Len(r2) = Len(h2)
        BY <1>9
      <3>5. j \in Nat /\ 2 <= j /\ j <= Len(h2)
        BY <3>3, <3>4
      <3> QED
        BY <3>1, <3>2, <3>3, <3>5
    <2>2. h2[j] = h[j - 1]
      BY <1>6, <1>7, <1>11, <2>1
    <2> QED
      BY <1>8, <1>9, <2>1, <2>2
  <1>16. ~Contains(r, <<pid, k>>) /\ <<pid, k>> \in Nat \X Nat
    BY <1>8, <1>13 DEF Contains
  <1>17. /\ Len(r) <= MAX_NODES /\ MAX_NODES \in Nat \ {0}
         /\ Len(r2) = IF Len(r) < MAX_NODES THEN Len(r) + 1 ELSE MAX_NODES
    BY <1>1, <1>8, <1>9, <1>12
  <1>18. r2 = Used(r, <<pid, k>>, MAX_NODES)
    <2> DEFINE P == Nat \X Nat
               page == <<pid, k>>
    <2>1. r \in Seq(P) /\ r2 \in Seq(P) /\ page \in P /\ ~Contains(r, page) /\ r2[1] = page
      BY <1>8, <1>9, <1>14, <1>16
    <2> HIDE DEF P, page
    <2>2. r2 = Used(r, page, MAX_NODES)
      BY <1>15, <1>17, <2>1, UseNew
    <2> QED
      BY <2>2 DEF page
  <1> QED
    BY <1>16, <1>18 DEF r, r2, h, h2
LEMMA ListIs ==
  MmuInv /\ ~deleted => tlb \in Seq({Sentinel} \cup Nodes) /\ Len(tlb) \in 1 .. MAX_NODES
  <1> SUFFICES ASSUME MmuInv, ~deleted
               PROVE  tlb \in Seq({Sentinel} \cup Nodes) /\ Len(tlb) \in 1 .. MAX_NODES
    OBVIOUS
  <1>1. PICK name : Whole(name)
    BY DEF MmuInv, AllWhole
  <1>2. \A f \in DOMAIN name : f \in Nat
    BY <1>1 DEF Whole, Tree, Named
  <1>3. MAX_PROCESS_ID \in Nat /\ Pids \subseteq Nat
    BY SpanAssumption DEF Pids
  <1> DEFINE S == {Sentinel} \cup Translations(name)
             T == {Sentinel} \cup Nodes
  <1>4. S \subseteq T
    <2> SUFFICES ASSUME NEW n \in Translations(name) PROVE n \in Nodes
      OBVIOUS
    <2>1. n \in [key : 0 .. Fan * Fan * Fan - 1, pid : Pids, value : DOMAIN name]
      BY DEF Translations
    <2>2. n.key \in Nat
      <3>1. n.key \in 0 .. Fan * Fan * Fan - 1
        BY <2>1
      <3> DEFINE m == Fan * Fan * Fan - 1
      <3> HIDE DEF m
      <3>2. \A i \in 0 .. m : i \in Nat
        OBVIOUS
      <3> QED
        BY <3>1, <3>2 DEF m
    <2>3. n.pid \in Nat /\ n.value \in Nat
      BY <1>2, <1>3, <2>1
    <2> QED
      BY <2>1, <2>2, <2>3 DEF Nodes
  <1>5. tlb \in Seq(S) /\ Len(tlb) \in 1 .. MAX_NODES
    BY <1>1 DEF Whole, TlbRight
  <1> HIDE DEF S, T
  <1>6. tlb \in Seq(T)
    BY <1>4, <1>5
  <1> QED
    BY <1>5, <1>6 DEF T

\* What a translation does to the list.
Found(k, pid) ==
    /\ PlaceOf(tlb, k, pid) # 0 /\ tlb[PlaceOf(tlb, k, pid)].value # NULL
    /\ tlb' = Promoted(tlb, k, pid) /\ num_tlb_misses' = num_tlb_misses

Added(k, pid) ==
    /\ PlaceOf(tlb, k, pid) = 0 \/ tlb[PlaceOf(tlb, k, pid)] = Sentinel
    /\ \E f \in Nat : tlb' = TLB_add_physical_address(Promoted(tlb, k, pid), k, pid, f)
    /\ num_tlb_misses' = num_tlb_misses + 1

LEMMA AccessIs ==
  ASSUME MmuInv, ~deleted, NEW va \in VirtualAddresses, NEW pid \in Pids,
         MMU_get_physical_address(va, pid)
  PROVE  /\ key(va) \in Nat /\ pid \in Nat /\ last' = <<pid, key(va)>>
         /\ (Found(key(va), pid) \/ Added(key(va), pid))
  <1> DEFINE k == key(va)
             i == PlaceOf(tlb, k, pid)
  <1>1. k \in Nat /\ pid \in Nat /\ last' = <<pid, k>>
    <2>1. key(va) = Number(va, 1) /\ Span[1] = FrameSize
      BY Digits, SpanIs
    <2>2. Fan * Fan * Fan \in Nat
      <3>1. Fan \in Nat
        BY SpanAssumption
      <3> QED
        BY ONLY <3>1
    <2>3. k \in Nat
      BY <2>2, KeyIsSmall
    <2>4. last' = <<pid, va \div FrameSize>>
      BY DEF MMU_get_physical_address
    <2>5. pid \in Nat
      BY SpanAssumption DEF Pids
    <2> QED
      BY <2>1, <2>3, <2>4, <2>5 DEF Number
  <1>2. ASSUME Hit(va, pid) PROVE Found(k, pid)
    BY <1>2 DEF Hit, counters, TLB_get_physical_address, Found
  <1>3. ASSUME Miss(va, pid) PROVE Added(k, pid)
    <2>1. PICK name : Whole(name)
      BY DEF MmuInv, AllWhole
    <2>2. Tree(Memory, name) /\ base_pts[pid] = pid + 1
      BY <2>1 DEF Whole, MmuInv, Basic
    <2>3. PICK next : \E f :
             /\ Walked(name, next, pid, va, f)
             /\ tlb' = TLB_add_physical_address(Promoted(tlb, k, pid), k, pid, f)
      BY <1>3, <2>2, MissWalks
    <2>4. PICK f :
             /\ Walked(name, next, pid, va, f)
             /\ tlb' = TLB_add_physical_address(Promoted(tlb, k, pid), k, pid, f)
      BY <2>3
    <2>5. f \in Nat
      BY <2>4 DEF Walked, Tree, Named
    <2>6. i = 0 \/ tlb[i] = Sentinel
      <3> SUFFICES ASSUME i # 0 PROVE tlb[i] = Sentinel
        OBVIOUS
      <3>1. tlb[i].value = NULL
        BY <1>3 DEF Miss, TLB_get_physical_address
      <3> DEFINE S == {Sentinel} \cup Nodes
      <3>2. i \in 1 .. Len(tlb) /\ tlb \in Seq(S)
        <4>1. tlb \in Seq(S)
          BY ListIs
        <4> HIDE DEF S
        <4> QED
          BY <4>1, PlaceIs
      <3>3. tlb[i] \in S
        <4> HIDE DEF S, i
        <4> QED
          BY <3>2
      <3>4. tlb[i] \notin Nodes
        BY <3>1, SpanAssumption DEF Nodes
      <3> QED
        BY <3>3, <3>4
    <2>7. num_tlb_misses' = num_tlb_misses + 1
      BY <1>3 DEF Miss
    <2> HIDE DEF k
    <2> QED
      BY <1>1, <2>4, <2>5, <2>6, <2>7 DEF Added, k
  <1> QED
    BY <1>1, <1>2, <1>3 DEF MMU_get_physical_address

\* Nothing is cached twice, as long as there is a cache.
TlbInv == ~deleted => Once(tlb)

LEMMA AccessKeepsOnce ==
  ASSUME MmuInv, ~deleted, Once(tlb), NEW va \in VirtualAddresses, NEW pid \in Pids,
         MMU_get_physical_address(va, pid)
  PROVE  Once(tlb')
  <1> DEFINE k == key(va)
             S == {Sentinel} \cup Nodes
  <1>1. k \in Nat /\ pid \in Nat /\ (Found(k, pid) \/ Added(k, pid))
    BY AccessIs
  <1>2. tlb \in Seq(S) /\ Len(tlb) \in 1 .. MAX_NODES
    BY ListIs
  <1> HIDE DEF S
  <1>3. CASE Found(k, pid)
    BY <1>2, <1>3, PromotedOnce DEF Found
  <1>4. CASE Added(k, pid)
    <2>1. PICK f \in Nat : tlb' = TLB_add_physical_address(Promoted(tlb, k, pid), k, pid, f)
      BY <1>4 DEF Added
    <2>2. Node(k, pid, f) \in S /\ (PlaceOf(tlb, k, pid) = 0 \/ tlb[PlaceOf(tlb, k, pid)] = Sentinel)
      BY <1>1, <1>4, AccessIs DEF S, Node, Nodes, Added
    <2> HIDE DEF k
    <2> QED
      BY <1>2, <2>1, <2>2, AddedOnce
  <1> QED
    BY <1>1, <1>3, <1>4

\* AbstractLru has the operators of the library under names of its own.
LEMMA SameOperators ==
  ASSUME NEW s, NEW e
  PROVE  Lru!RemoveFirst(s, e) = RemoveFirst(s, e) /\ Lru!Contains(s, e) = Contains(s, e)
  <1>1. \A S : Lru!Min(S) = Min(S)
    BY DEF Lru!Min, Min
  <1>2. Lru!SelectInSeq(s, LAMBDA v : v = e) = SelectInSeq(s, LAMBDA v : v = e)
    BY <1>1 DEF Lru!SelectInSeq, SelectInSeq
  <1>3. \A i : Lru!RemoveAt(s, i) = RemoveAt(s, i)
    BY DEF Lru!RemoveAt, RemoveAt
  <1>4. Lru!RemoveFirst(s, e) = RemoveFirst(s, e)
    BY <1>2, <1>3 DEF Lru!RemoveFirst, RemoveFirst
  <1> QED
    BY <1>4 DEF Lru!Contains, Contains

\* Each translation uses its page of the cache.
LEMMA AccessIsUse ==
  ASSUME MmuInv, ~deleted, Once(tlb), MmuInv', ~deleted', Once(tlb'), MAX_NODES > 2,
         SentinelLast, SentinelLast', NEW va \in VirtualAddresses, NEW pid \in Pids,
         MMU_get_physical_address(va, pid)
  PROVE  Lru!Next
  <1> DEFINE k == key(va)
             recent == PagesOf(HeldOf(tlb))
  <1>1. k \in Nat /\ pid \in Nat /\ last' = <<pid, k>> /\ (Found(k, pid) \/ Added(k, pid))
    BY AccessIs
  <1>2. Cached(tlb)
    BY ListIs DEF Cached, Behind, SentinelLast
  <1>3. Cached(tlb')
    <2>1. (MmuInv /\ ~deleted => tlb \in Seq({Sentinel} \cup Nodes) /\ Len(tlb) \in 1 .. MAX_NODES)'
      BY ListIs, PTL
    <2> QED
      BY <2>1 DEF Cached, Behind, SentinelLast, Nodes
  <1> HIDE DEF k
  <1>4. /\ PagesOf(HeldOf(tlb')) = Used(recent, <<pid, k>>, MAX_NODES)
        /\ num_tlb_misses' = IF Contains(recent, <<pid, k>>) THEN num_tlb_misses ELSE num_tlb_misses + 1
    <2>1. CASE Found(k, pid)
      BY <1>2, <1>3, <2>1, HitUses DEF Found
    <2>2. CASE Added(k, pid)
      <3>1. PICK f \in Nat : tlb' = TLB_add_physical_address(Promoted(tlb, k, pid), k, pid, f)
        BY <2>2 DEF Added
      <3>2. PlaceOf(tlb, k, pid) = 0 \/ tlb[PlaceOf(tlb, k, pid)] = Sentinel
        BY <2>2 DEF Added
      <3>3. ~Contains(recent, <<pid, k>>) /\ PagesOf(HeldOf(tlb')) = Used(recent, <<pid, k>>, MAX_NODES)
        BY <1>1, <1>2, <1>3, <3>1, <3>2, MissUses
      <3> QED
        BY <2>2, <3>3 DEF Added
    <2> QED
      BY <1>1, <2>1, <2>2
  <1>5. PagesOf(HeldOf(tlb')) = recent'
    BY DEF PagesOf, HeldOf
  <1>6. Lru!Next <=>
          /\ recent' = SubSeq(<<last'>> \o Lru!RemoveFirst(recent, last'), 1,
                              IF Len(Lru!RemoveFirst(recent, last')) < MAX_NODES
                              THEN Len(Lru!RemoveFirst(recent, last')) + 1 ELSE MAX_NODES)
          /\ num_tlb_misses' = IF Lru!Contains(recent, last') THEN num_tlb_misses ELSE num_tlb_misses + 1
    BY DEF Lru!Next, Lru!Use, PagesOf, HeldOf, held
  <1> DEFINE page == <<pid, k>>
  <1> HIDE DEF recent, page
  <1>7. Lru!RemoveFirst(recent, page) = RemoveFirst(recent, page) /\ Lru!Contains(recent, page) = Contains(recent, page)
    BY SameOperators
  <1>8. last' = page
    BY <1>1 DEF page
  <1>9. /\ recent' = Used(recent, page, MAX_NODES)
        /\ num_tlb_misses' = IF Contains(recent, page) THEN num_tlb_misses ELSE num_tlb_misses + 1
    BY <1>4, <1>5 DEF page
  <1> QED
    BY <1>6, <1>7, <1>8, <1>9 DEF Used
LEMMA InitIsLru ==
  ASSUME Init
  PROVE  Lru!Init /\ TlbInv
  <1>1. tlb = <<Sentinel>> /\ num_tlb_misses = 0
    BY DEF Init, MMU_create, TLB_create
  <1>2. Len(tlb) = 1 /\ tlb[1] = Sentinel
    BY <1>1
  <1>3. Contains(tlb, Sentinel)
    BY <1>2 DEF Contains
  <1>4. held = << >>
    <2>1. held = SubSeq(tlb, 1, 0)
      BY <1>2, <1>3 DEF held, Front
    <2>2. SubSeq(tlb, 1, 0) = << >>
      BY SubSeqEmpty
    <2> QED
      BY <2>1, <2>2
  <1>5. [i \in DOMAIN held |-> <<held[i].pid, held[i].key>>] = << >>
    BY <1>4
  <1>6. Lru!Init
    BY <1>1, <1>5 DEF Lru!Init
  <1>7. Once(tlb)
    <2>1. ASSUME NEW i \in 1 .. 1, NEW j \in 1 .. 1 PROVE ~ i < j
      OBVIOUS
    <2> QED
      BY <1>2, <2>1 DEF Once
  <1> QED
    BY <1>6, <1>7 DEF TlbInv

LEMMA StepKeepsOnce == MmuInv /\ TlbInv /\ [Next]_vars => TlbInv'
  <1> SUFFICES ASSUME MmuInv, TlbInv, [Next]_vars, ~deleted' PROVE Once(tlb')
    BY DEF TlbInv
  <1>1. ASSUME NEW p \in Processes, get_physical_addresses(p) PROVE Once(tlb')
    <2>1. /\ ~deleted
          /\ \E va \in VirtualAddresses, pid \in Pids : MMU_get_physical_address(va, pid)
      BY <1>1, StepIs
    <2> QED
      BY <2>1, AccessKeepsOnce DEF TlbInv
  <1>2. CASE UNCHANGED vars
    BY <1>2 DEF vars, TlbInv, Once
  <1> QED
    BY <1>1, <1>2 DEF Next, MMU_delete

LEMMA StepIsUse ==
  MAX_NODES > 2 /\ MmuInv /\ TlbInv /\ MmuInv' /\ TlbInv' /\ [Next]_vars
    => [SentinelLast /\ SentinelLast' /\ ~deleted' => Lru!Next]_vars
  <1> SUFFICES ASSUME MAX_NODES > 2, MmuInv, TlbInv, MmuInv', TlbInv', Next,
                      SentinelLast, SentinelLast', ~deleted'
               PROVE  Lru!Next
    OBVIOUS
  <1>1. PICK p \in Processes : get_physical_addresses(p)
    BY DEF Next, MMU_delete
  <1>2. ~deleted
    BY <1>1, StepIs
  <1>3. PICK va \in VirtualAddresses, pid \in Pids : MMU_get_physical_address(va, pid)
    BY <1>1, StepIs
  <1>4. Once(tlb) /\ Once(tlb')
    BY <1>2 DEF TlbInv
  <1> QED
    BY <1>2, <1>3, <1>4, AccessIsUse

(* The nodes other than the sentinel are those of an LRU cache of MAX_NODES *)
(* pages, whose misses num_tlb_misses counts, while the sentinel is behind  *)
(* them (TLB_get_physical_address and TLB_add_physical_address, tlb.c:22    *)
(* and :52). In a list of two nodes the sentinel can push out the only      *)
(* translation and be last again; the code has 16.                          *)
THEOREM TlbIsLru == MAX_NODES > 2 /\ Spec => ImplementsLru
  <1> SUFFICES ASSUME MAX_NODES > 2 PROVE Spec => ImplementsLru
    OBVIOUS
  <1>1. Init => Lru!Init /\ TlbInv
    BY InitIsLru
  <1>2. MmuInv /\ TlbInv /\ MmuInv' /\ TlbInv' /\ [Next]_vars
          => [SentinelLast /\ SentinelLast' /\ ~deleted' => Lru!Next]_vars
    BY StepIsUse
  <1> QED
    BY <1>1, <1>2, Invariance, StepKeepsOnce, PTL DEF Spec, ImplementsLru
===============================================================================
