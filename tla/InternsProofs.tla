---------------------------- MODULE InternsProofs ----------------------------
(***************************************************************************)
(* Interns, for any number of companies and interns: the mutexes are held  *)
(* as the program text says, the checks before the hiring never fail, and  *)
(* locking by address never closes a circle of waiting companies.          *)
(***************************************************************************)
EXTENDS Interns, WellFoundedInduction, TLAPS

LEMMA Seats ==
  ASSUME TypeOK, NEW c \in Companies
  PROVE  /\ left_intern(c) \in Interns
         /\ right_intern(c) \in Interns
         /\ Interns \subseteq Nat
         /\ c # Nobody
         /\ Order(c)[1] \in Interns
         /\ Order(c)[2] \in Interns
         /\ {Order(c)[1], Order(c)[2]} = {left_intern(c), right_intern(c)}
  <1>1. c \in Nat /\ num_interns \in Nat \ {0} /\ num_companies \in 1 .. MaxCompanies
    BY DEF TypeOK, Companies
  <1>2. left_intern(c) \in Interns /\ right_intern(c) \in Interns
    BY <1>1 DEF left_intern, right_intern, Interns
  <1>3. c # Nobody
    BY <1>1, NobodyAssumption, CompaniesAssumption DEF Companies
  <1>4. Interns \subseteq Nat
    BY <1>1 DEF Interns
  <1> QED
    BY <1>2, <1>3, <1>4 DEF Order

-----------------------------------------------------------------------------
LEMMA InitIInv == Init => IInv
  <1> SUFFICES ASSUME Init PROVE IInv
    OBVIOUS
  <1>1. TypeOK
    <2>1. num_companies \in Nat /\ 0 \in Companies
      BY CompaniesAssumption DEF Init, Companies
    <2>2. owner \in [Interns -> Companies \cup {Nobody}]
      BY DEF Init
    <2>3. pc \in [Companies -> PCs]
      BY DEF Init, PCs
    <2> QED
      BY <2>1, <2>2, <2>3 DEF Init, TypeOK
  <1>2. OwnersHold
    BY <1>1, Seats DEF Init, OwnersHold, Holds
  <1>3. TwoInterns /\ ~exited
    BY DEF Init, TwoInterns
  <1> QED
    BY <1>1, <1>2, <1>3 DEF IInv
(* Moving between two places where nothing is held. *)
LEMMA MoveKeepsIInv ==
  ASSUME IInv, NEW c \in Companies, NEW from, NEW to \in PCs,
         pc[c] = from, Goto(c, to),
         {from, to} \cap {"second", "hire", "unlock", "unlock_left"} = {},
         to = "first" /\ program = "good" => left_intern(c) # right_intern(c),
         UNCHANGED <<setting, owner, exited>>,
         running' \in BOOLEAN, main' \in {"create", "sleep", "join", "end"},
         next' \in Companies
  PROVE  IInv'
  <1> USE DEF Goto, setting, IInv
  <1>1. /\ Companies' = Companies /\ Interns' = Interns
        /\ \A d \in Companies : /\ left_intern(d)' = left_intern(d)
                               /\ right_intern(d)' = right_intern(d)
                               /\ Order(d)' = Order(d)
    BY DEF Companies, Interns, left_intern, right_intern, Order
  <1>2. TypeOK'
    BY <1>1 DEF TypeOK
  <1>3. \A d \in Companies : Holds(d)' = Holds(d)
    BY <1>1 DEF Holds, TypeOK
  <1>4. OwnersHold'
    BY <1>1, <1>3 DEF OwnersHold
  <1>5. TwoInterns'
    BY <1>1 DEF TwoInterns, TypeOK
  <1> QED
    BY <1>2, <1>4, <1>5

(* Taking a free mutex, or giving up one's own. *)
LEMMA LockKeepsIInv ==
  ASSUME IInv, NEW c \in Companies, NEW i \in Interns, NEW from, NEW to \in PCs,
         Lock(c, i, from, to),
         Holds(c)' = Holds(c) \cup {i},
         to = "hire" => left_intern(c) # right_intern(c),
         from \in {"first", "second"}, to \in {"second", "hire"}
  PROVE  IInv'
  <1> USE DEF Lock, OnlyLocks, Goto, setting, IInv
  <1>1. /\ Companies' = Companies /\ Interns' = Interns
        /\ \A d \in Companies : /\ left_intern(d)' = left_intern(d)
                               /\ right_intern(d)' = right_intern(d)
                               /\ Order(d)' = Order(d)
    BY DEF Companies, Interns, left_intern, right_intern, Order
  <1>2. TypeOK'
    BY <1>1 DEF TypeOK
  <1>3. \A d \in Companies \ {c} : Holds(d)' = Holds(d)
    BY <1>1 DEF Holds, TypeOK
  <1>4. OwnersHold'
    <2> SUFFICES ASSUME NEW d \in Companies
                 PROVE  {j \in Interns : owner'[j] = d} = Holds(d)'
      BY <1>1 DEF OwnersHold
    <2>1. {j \in Interns : owner[j] = d} = Holds(d) /\ d # Nobody
      BY Seats DEF OwnersHold
    <2>2. \A j \in Interns : owner'[j] = IF j = i THEN c ELSE owner[j]
      BY DEF TypeOK
    <2>3. CASE d = c
      BY <2>1, <2>2, <2>3
    <2>4. CASE d # c
      BY <1>3, <2>1, <2>2, <2>4
    <2> QED
      BY <2>3, <2>4
  <1>5. TwoInterns'
    BY <1>1 DEF TwoInterns, TypeOK
  <1> QED
    BY <1>2, <1>4, <1>5

LEMMA UnlockKeepsIInv ==
  ASSUME IInv, NEW c \in Companies, NEW i \in Interns, NEW from, NEW to \in PCs,
         Unlock(c, i, from, to),
         Holds(c)' = Holds(c) \ {i}, i \in Holds(c),
         from \in {"unlock", "unlock_left"}, to \in {"unlock_left", "meet", "top"}
  PROVE  IInv'
  <1> USE DEF Unlock, OnlyLocks, Goto, setting, IInv
  <1>1. /\ Companies' = Companies /\ Interns' = Interns
        /\ \A d \in Companies : /\ left_intern(d)' = left_intern(d)
                               /\ right_intern(d)' = right_intern(d)
                               /\ Order(d)' = Order(d)
    BY DEF Companies, Interns, left_intern, right_intern, Order
  <1>2. TypeOK'
    BY <1>1 DEF TypeOK
  <1>3. \A d \in Companies \ {c} : Holds(d)' = Holds(d)
    BY <1>1 DEF Holds, TypeOK
  <1>4. OwnersHold'
    <2> SUFFICES ASSUME NEW d \in Companies
                 PROVE  {j \in Interns : owner'[j] = d} = Holds(d)'
      BY <1>1 DEF OwnersHold
    <2>1. {j \in Interns : owner[j] = d} = Holds(d) /\ d # Nobody
      BY Seats DEF OwnersHold
    <2>2. \A j \in Interns : owner'[j] = IF j = i THEN Nobody ELSE owner[j]
      BY DEF TypeOK
    <2>3. owner[i] = c
      BY DEF OwnersHold
    <2>4. CASE d = c
      BY <2>1, <2>2, <2>4
    <2>5. CASE d # c
      BY <1>3, <2>1, <2>2, <2>3, <2>5
    <2> QED
      BY <2>4, <2>5
  <1>5. TwoInterns'
    BY <1>1 DEF TwoInterns, TypeOK
  <1> QED
    BY <1>2, <1>4, <1>5

(* The checks of Company_hire_interns succeed. *)
LEMMA HirersOwn ==
  ASSUME IInv, NEW c \in Companies, pc[c] = "hire"
  PROVE  MayHire(c)
  <1>1. left_intern(c) \in Holds(c) /\ right_intern(c) \in Holds(c)
    BY DEF Holds
  <1> QED
    BY <1>1 DEF IInv, OwnersHold, MayHire

-----------------------------------------------------------------------------
LEMMA WorkKeepsIInv ==
  ASSUME IInv, NEW c \in Companies, work_interns(c)
  PROVE  IInv'
  <1>0. TypeOK /\ TwoInterns /\ pc \in [Companies -> PCs]
    BY DEF IInv, TypeOK
  <1>1. CASE Leave(c)
    BY <1>0, <1>1, MoveKeepsIInv DEF Leave, AtTop, OnlyMoves, PCs, TypeOK
  <1>2. CASE Decide(c)
    <2>1. CASE program = "good" /\ left_intern(c) = right_intern(c)
      BY <1>0, <1>2, <2>1, MoveKeepsIInv DEF Decide, AtTop, OnlyMoves, PCs, TypeOK
    <2>2. CASE ~(program = "good" /\ left_intern(c) = right_intern(c))
      BY <1>0, <1>2, <2>2, MoveKeepsIInv DEF Decide, AtTop, OnlyMoves, PCs, TypeOK
    <2> QED
      BY <2>1, <2>2
  <1>3. CASE LockFirst(c)
    <2>1. Holds(c) = {} /\ Holds(c)' = {Order(c)[1]}
      BY <1>0, <1>3 DEF LockFirst, Lock, Goto, OnlyLocks, setting, Holds, Order,
                        left_intern, right_intern
    <2> QED
      BY <1>0, <1>3, <2>1, Seats, LockKeepsIInv DEF LockFirst, PCs
  <1>4. CASE LockSecond(c)
    <2>1. Holds(c) = {Order(c)[1]} /\ Holds(c)' = {left_intern(c), right_intern(c)}
      BY <1>0, <1>4 DEF LockSecond, Lock, Goto, OnlyLocks, setting, Holds, Order,
                        left_intern, right_intern
    <2>2. owner[Order(c)[1]] = c /\ owner[Order(c)[2]] = Nobody
      BY <1>4, <2>1 DEF LockSecond, Lock, IInv, OwnersHold
    <2>3. Order(c)[1] # Order(c)[2]
      BY <1>0, <2>2, Seats
    <2>4. left_intern(c) # right_intern(c)
      BY <2>3 DEF Order
    <2> QED
      BY <1>0, <1>4, <2>1, <2>4, Seats, LockKeepsIInv DEF LockSecond, PCs
  <1>5. CASE Company_hire_interns(c)
    <2>1. pc[c] = "hire" /\ Goto(c, "unlock")
          /\ UNCHANGED <<exited, setting, owner, running, main, next>>
      BY <1>5, HirersOwn DEF Company_hire_interns
    <2>2. /\ Companies' = Companies /\ Interns' = Interns
          /\ \A d \in Companies : /\ left_intern(d)' = left_intern(d)
                                 /\ right_intern(d)' = right_intern(d)
                                 /\ Order(d)' = Order(d)
      BY <2>1 DEF setting, Companies, Interns, left_intern, right_intern, Order
    <2>3. TypeOK'
      BY <1>0, <2>1, <2>2 DEF setting, TypeOK, Goto, PCs
    <2>4. \A d \in Companies : Holds(d)' = Holds(d)
      BY <1>0, <2>1, <2>2 DEF Holds, Goto
    <2>5. OwnersHold'
      BY <2>1, <2>2, <2>4 DEF IInv, OwnersHold
    <2>6. TwoInterns'
      BY <1>0, <2>1, <2>2 DEF setting, TwoInterns, Goto
    <2> QED
      BY <2>1, <2>3, <2>5, <2>6 DEF IInv
  <1>6. CASE UnlockRight(c)
    <2>1. /\ Holds(c) = {left_intern(c), right_intern(c)}
          /\ Holds(c)' = {left_intern(c)}
          /\ left_intern(c) # right_intern(c)
      BY <1>0, <1>6 DEF UnlockRight, Unlock, Goto, OnlyLocks, setting, Holds,
                        left_intern, right_intern, TwoInterns
    <2> QED
      BY <1>0, <1>6, <2>1, Seats, UnlockKeepsIInv DEF UnlockRight, PCs
  <1>7. CASE UnlockLeft(c)
    <2>1. Holds(c) = {left_intern(c)} /\ Holds(c)' = {}
      BY <1>0, <1>7 DEF UnlockLeft, Unlock, Goto, OnlyLocks, setting, Holds,
                        left_intern, right_intern
    <2> QED
      BY <1>0, <1>7, <2>1, Seats, UnlockKeepsIInv DEF UnlockLeft, PCs
  <1>8. CASE Company_have_board_meeting(c)
    BY <1>0, <1>8, MoveKeepsIInv
       DEF Company_have_board_meeting, OnlyMoves, PCs, TypeOK
  <1> QED
    BY <1>1, <1>2, <1>3, <1>4, <1>5, <1>6, <1>7, <1>8 DEF work_interns

LEMMA MainKeepsIInv ==
  ASSUME IInv, Uncreated, MainStep
  PROVE  IInv'
  <1>0. TypeOK /\ pc \in [Companies -> PCs] /\ next \in Companies
        /\ num_companies \in Nat
    BY DEF IInv, TypeOK
  <1>1. CASE CreateThread
    <2>1. PICK result \in {"top", "failed"} : Goto(next, result)
      BY <1>1 DEF CreateThread
    <2>2. pc[next] = "none"
      BY <1>0, <1>1 DEF CreateThread, Uncreated, Companies
    <2>3. next' \in Companies /\ main' \in {"create", "sleep", "join", "end"}
      BY <1>0, <1>1 DEF CreateThread, Companies
    <2> QED
      BY <1>0, <1>1, <2>1, <2>2, <2>3, MoveKeepsIInv DEF CreateThread, TypeOK, PCs
  <1>2. CASE StopTheSimulator \/ JoinThread
    <2>1. next' \in Companies /\ main' \in {"create", "sleep", "join", "end"}
          /\ running' \in BOOLEAN
      <3>1. CASE StopTheSimulator
        BY <1>0, <3>1 DEF StopTheSimulator
      <3>2. CASE JoinThread
        <4>1. next' \in Companies
          BY <1>0, <3>2 DEF JoinThread, Companies
        <4>2. main' \in {"create", "sleep", "join", "end"}
          BY <3>2 DEF JoinThread
        <4>3. running' \in BOOLEAN
          BY <1>0, <3>2 DEF JoinThread, TypeOK
        <4> QED
          BY <4>1, <4>2, <4>3
      <3> QED
        BY <1>2, <3>1, <3>2
    <2>2. UNCHANGED <<setting, owner, pc, exited>>
      BY <1>2 DEF StopTheSimulator, JoinThread
    <2> QED
      BY <2>1, <2>2 DEF IInv, TypeOK, OwnersHold, TwoInterns, setting, Companies,
         Interns, Holds, Order, left_intern, right_intern
  <1> QED
    BY <1>1, <1>2 DEF MainStep

LEMMA StepKeepsUncreated ==
  ASSUME IInv, Uncreated, Next
  PROVE  Uncreated'
  <1>0. next \in Nat /\ num_companies \in Nat /\ pc \in [Companies -> PCs]
        /\ Companies \subseteq Nat
    BY DEF IInv, TypeOK, Companies
  <1>1. ASSUME NEW c \in Companies, work_interns(c)
        PROVE  Uncreated'
    <2>1. pc[c] # "none"
      BY <1>1 DEF work_interns, Leave, Decide, AtTop, LockFirst, LockSecond, Lock,
         Company_hire_interns, UnlockRight, UnlockLeft, Unlock,
         Company_have_board_meeting
    <2>2. UNCHANGED <<setting, main, next>>
          /\ (UNCHANGED pc \/ \E where : Goto(c, where))
      <3>1. CASE Company_hire_interns(c)
        BY <3>1 DEF Company_hire_interns
      <3>2. CASE Decide(c)
        BY <3>2 DEF Decide, OnlyMoves
      <3> QED
        BY <1>1, <3>1, <3>2 DEF work_interns, Leave, LockFirst, LockSecond, Lock,
           UnlockRight, UnlockLeft, Unlock, Company_have_board_meeting,
           OnlyMoves, OnlyLocks
    <2>3. \A d \in Companies : pc[d] = "none" => pc'[d] = "none"
      BY <1>0, <2>1, <2>2 DEF Goto
    <2> QED
      BY <2>2, <2>3 DEF Uncreated, setting, Companies
  <1>2. CASE CreateThread
    BY <1>0, <1>2 DEF CreateThread, Goto, Uncreated, setting, Companies
  <1>3. CASE StopTheSimulator \/ JoinThread
    BY <1>3 DEF StopTheSimulator, JoinThread, Uncreated
  <1> QED
    BY <1>1, <1>2, <1>3 DEF Next, MainStep

LEMMA StutterKeepsAll ==
  ASSUME IInv, Uncreated, UNCHANGED vars
  PROVE  IInv' /\ Uncreated'
  BY DEF IInv, Uncreated, vars, setting, TypeOK, OwnersHold, TwoInterns, Companies,
     Interns, Holds, Order, left_intern, right_intern

(* IInv and Uncreated are invariants of the simulation. *)
THEOREM Invariance == Spec => [](IInv /\ Uncreated)
  <1>1. Init => Uncreated
    BY DEF Init, Uncreated
  <1>2. IInv /\ Uncreated /\ [Next]_vars => (IInv /\ Uncreated)'
    <2> SUFFICES ASSUME IInv, Uncreated, [Next]_vars
                 PROVE  IInv' /\ Uncreated'
      OBVIOUS
    <2>1. CASE Next
      BY <2>1, MainKeepsIInv, WorkKeepsIInv, StepKeepsUncreated DEF Next
    <2> QED
      BY <2>1, StutterKeepsAll
  <1> QED
    BY <1>1, <1>2, InitIInv, PTL DEF Spec

(* The variables keep their types. *)
THEOREM TypeCorrect == Spec => []TypeOK
  BY Invariance, PTL DEF IInv

(* An intern is held by exactly the company whose code is between its lock  *)
(* and its unlock.                                                          *)
THEOREM MutexesHeldAsWritten == Spec => []OwnersHold
  BY Invariance, PTL DEF IInv

(* Company_hire_interns never ends the process (company.c:22-33). *)
THEOREM ChecksNeverFail == Spec => []NeverExits
  BY Invariance, PTL DEF IInv, NeverExits

-----------------------------------------------------------------------------
(* The argument against deadlock: in a circle of waiting companies everybody *)
(* waits for a mutex that somebody of the circle holds as its first, and     *)
(* waits for a higher one; so the mutexes waited for have no greatest.       *)

Ordered == program = "good" \/ num_companies < num_interns

LEMMA FirstIsLower ==
  ASSUME IInv, Ordered, NEW c \in Companies, pc[c] = "second"
  PROVE  Order(c)[1] < Order(c)[2]
  <1>0. c \in Nat /\ num_interns \in Nat \ {0} /\ num_companies \in Nat
        /\ c < num_companies /\ program \in {"good", "bad"}
    BY DEF IInv, TypeOK, Companies
  <1>1. CASE program = "good"
    <2>1. left_intern(c) # right_intern(c)
      BY <1>1 DEF IInv, TwoInterns
    <2>2. left_intern(c) \in Nat /\ right_intern(c) \in Nat
      BY Seats DEF IInv
    <2> QED
      BY <1>1, <2>1, <2>2 DEF Order
  <1>2. CASE program = "bad"
    <2>1. num_companies < num_interns
      BY <1>2 DEF Ordered
    <2>2. left_intern(c) = c /\ right_intern(c) = c + 1
      BY <1>0, <2>1 DEF left_intern, right_intern
    <2> QED
      BY <1>0, <1>2, <2>2 DEF Order
  <1> QED
    BY <1>0, <1>1, <1>2

LEMMA NoGreatest ==
  ASSUME NEW N \in Nat, NEW T \in SUBSET (0 .. N), T # {}
  PROVE  \E x \in T : \A y \in T : ~(x < y)
  <1> DEFINE D == {N - x : x \in T}
  <1>0. \A z \in T : z \in Int
    OBVIOUS
  <1>1. D \in SUBSET Nat /\ D # {}
    OBVIOUS
  <1>2. PICK d \in D : \A e \in D : <<e, d>> \notin OpToRel(<, Nat)
    BY <1>1, NatLessThanWellFounded, WFMin
  <1>3. \A e \in D : ~(e < d)
    BY <1>1, <1>2 DEF OpToRel
  <1>4. PICK x \in T : d = N - x
    OBVIOUS
  <1>5. ASSUME NEW y \in T, x < y PROVE FALSE
    <2>1. N - y \in D
      OBVIOUS
    <2>2. ~(N - y < N - x)
      BY <1>3, <1>4, <2>1
    <2> HIDE DEF D
    <2>3. x \in Int /\ y \in Int
      BY <1>0
    <2> QED
      BY <1>5, <2>2, <2>3
  <1> QED
    BY <1>5

(* Locking by address never closes a circle, and locking left first only    *)
(* where the seats do.                                                      *)
THEOREM CircleNeverCloses == Spec => []NoCircularWait
  <1>1. ASSUME IInv, Ordered, NEW S \in SUBSET Companies, Deadlocked(S)
        PROVE  FALSE
    <2> DEFINE T == {i \in Interns : \E c \in S : i \in WaitsFor(c) /\ owner[i] \in S}
    <2>1. \A c \in S : WaitsFor(c) \subseteq Interns
      BY <1>1, Seats DEF WaitsFor, IInv
    <2>2. T # {}
      BY <1>1, <2>1 DEF Deadlocked
    <2>3. \A i \in T : \E j \in T : i < j
      <3> SUFFICES ASSUME NEW i \in T PROVE \E j \in T : i < j
        OBVIOUS
      <3> DEFINE d == owner[i]
      <3>1. i \in Interns /\ d \in S /\ i \in Holds(d)
        BY <1>1 DEF IInv, OwnersHold
      <3>2. pc[d] = "second" /\ i = Order(d)[1]
        BY <1>1, <3>1 DEF Deadlocked, WaitsFor, Holds
      <3>3. Order(d)[2] \in T
        BY <1>1, <2>1, <3>1, <3>2 DEF Deadlocked, WaitsFor
      <3> QED
        BY <1>1, <3>1, <3>2, <3>3, FirstIsLower
    <2>4. num_interns - 1 \in Nat /\ T \in SUBSET (0 .. num_interns - 1)
      BY <1>1 DEF IInv, TypeOK, Interns
    <2> QED
      BY <2>2, <2>3, <2>4, NoGreatest
  <1>2. IInv => NoCircularWait
    BY <1>1 DEF NoCircularWait, Ordered, IInv, TypeOK
  <1> QED
    BY <1>2, Invariance, PTL
=============================================================================
