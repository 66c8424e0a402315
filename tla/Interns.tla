------------------------------- MODULE Interns -------------------------------
(***************************************************************************)
(* Lab/Overworked_Interns: companies that need their left and their right  *)
(* intern at once. Every intern is a mutex of the array `interns`; main    *)
(* (simulator.c) seats the companies around it, starts a thread each, lets *)
(* them run and joins them. work_interns comes in two programs, which only *)
(* differ in how they take the mutexes: good_company.c, by address, and    *)
(* bad_company.c, left first.                                              *)
(***************************************************************************)
EXTENDS Integers, FiniteSets

CONSTANTS MaxCompanies, MaxInterns,   \* bounds of the command line
          Nobody

ASSUME CompaniesAssumption == MaxCompanies \in Nat \ {0}
ASSUME InternsAssumption   == MaxInterns \in Nat \ {0}
ASSUME NobodyAssumption    == Nobody \notin 0 .. MaxCompanies - 1

VARIABLES
    program,        \* "good" or "bad": which work_interns is linked
    num_companies, num_interns,
    owner,          \* owner[i]: the company that has locked interns[i], or Nobody
    pc,             \* where each company's thread is, see PCs
    running,        \* the flag that keeps the threads in their loop
    main,           \* what main does: "create", "sleep", "join", "end"
    next,           \* main's loop index in "create" and "join"
    exited          \* Company_hire_interns has called exit(1)

setting == <<program, num_companies, num_interns>>
vars == <<setting, owner, pc, running, main, next, exited>>

Companies == 0 .. num_companies - 1
Interns == 0 .. num_interns - 1

left_intern(c)  == c % num_interns
right_intern(c) == (c + 1) % num_interns

PCs == {"none", "failed", "top", "first", "second", "hire", "unlock", "unlock_left",
        "meet", "done"}

\* Variant: good_company.c without its comparison of the addresses.
Order_LeftFirst(c) == <<left_intern(c), right_intern(c)>>

\* The mutexes of c in the order in which its program locks them.
Order(c) ==
    LET l == left_intern(c)
        r == right_intern(c)
    IN  IF program = "bad" \/ l < r THEN <<l, r>> ELSE <<r, l>>

Init ==
    /\ program \in {"good", "bad"}
    /\ num_companies \in 1 .. MaxCompanies
    /\ num_interns \in 1 .. MaxInterns
    /\ owner = [i \in Interns |-> Nobody]
    /\ pc = [c \in Companies |-> "none"]
    /\ running = TRUE
    /\ main = "create" /\ next = 0
    /\ exited = FALSE

Goto(c, where) == pc' = [pc EXCEPT ![c] = where]
AtTop(c) == pc[c] = "top" /\ ~exited
OnlyMoves == UNCHANGED <<setting, owner, running, main, next, exited>>
OnlyLocks == UNCHANGED <<setting, running, main, next, exited>>

-----------------------------------------------------------------------------
(* work_interns *)

Leave(c) ==
    /\ AtTop(c) /\ ~running
    /\ Goto(c, "done")
    /\ OnlyMoves

\* good_company.c:19 meets instead of hiring when the two interns are one.
Decide(c) ==
    /\ AtTop(c) /\ running
    /\ IF program = "good" /\ left_intern(c) = right_intern(c)
       THEN Goto(c, "meet")
       ELSE Goto(c, "first")
    /\ OnlyMoves

Lock(c, i, from, to) ==
    /\ pc[c] = from /\ ~exited
    /\ owner[i] = Nobody
    /\ owner' = [owner EXCEPT ![i] = c]
    /\ Goto(c, to)
    /\ OnlyLocks

Unlock(c, i, from, to) ==
    /\ pc[c] = from /\ ~exited
    /\ owner' = [owner EXCEPT ![i] = Nobody]
    /\ Goto(c, to)
    /\ OnlyLocks

LockFirst(c)  == Lock(c, Order(c)[1], "first", "second")
LockSecond(c) == Lock(c, Order(c)[2], "second", "hire")

MayHire(c) == owner[left_intern(c)] = c /\ owner[right_intern(c)] = c

\* Works while both mutexes say they are its own; otherwise the process exits.
Company_hire_interns(c) ==
    /\ pc[c] = "hire" /\ ~exited
    /\ IF MayHire(c) THEN Goto(c, "unlock") /\ UNCHANGED exited
                     ELSE exited' = TRUE /\ UNCHANGED pc
    /\ UNCHANGED <<setting, owner, running, main, next>>

UnlockRight(c) == Unlock(c, right_intern(c), "unlock", "unlock_left")

\* Variant: the right intern is unlocked twice and the left one never.
UnlockLeft_Forgotten(c) ==
    Unlock(c, right_intern(c), "unlock_left", IF program = "good" THEN "meet" ELSE "top")

UnlockLeft(c) ==
    Unlock(c, left_intern(c), "unlock_left", IF program = "good" THEN "meet" ELSE "top")

Company_have_board_meeting(c) ==
    /\ pc[c] = "meet" /\ ~exited
    /\ Goto(c, "top")
    /\ OnlyMoves

work_interns(c) ==
    \/ Leave(c) \/ Decide(c)
    \/ LockFirst(c) \/ LockSecond(c)
    \/ Company_hire_interns(c)
    \/ UnlockRight(c) \/ UnlockLeft(c)
    \/ Company_have_board_meeting(c)

-----------------------------------------------------------------------------
(* main *)

CreateThread ==
    /\ main = "create" /\ ~exited
    /\ \E result \in {"top", "failed"} : Goto(next, result)
    /\ IF next + 1 = num_companies THEN main' = "sleep" /\ next' = 0
                                   ELSE next' = next + 1 /\ UNCHANGED main
    /\ UNCHANGED <<setting, owner, running, exited>>

StopTheSimulator ==
    /\ main = "sleep" /\ ~exited
    /\ running' = FALSE
    /\ main' = "join"
    /\ UNCHANGED <<setting, owner, pc, next, exited>>

\* Variant: the failed flag is not looked at.
JoinThread_IgnoresFlag ==
    /\ main = "join" /\ ~exited
    /\ pc[next] = "done"
    /\ IF next + 1 = num_companies THEN main' = "end" /\ UNCHANGED next
                                   ELSE next' = next + 1 /\ UNCHANGED main
    /\ UNCHANGED <<setting, owner, pc, running, exited>>

JoinThread ==
    /\ main = "join" /\ ~exited
    /\ pc[next] \in {"done", "failed"}
    /\ IF next + 1 = num_companies THEN main' = "end" /\ UNCHANGED next
                                   ELSE next' = next + 1 /\ UNCHANGED main
    /\ UNCHANGED <<setting, owner, pc, running, exited>>

MainStep == CreateThread \/ StopTheSimulator \/ JoinThread

Next == MainStep \/ \E c \in Companies : work_interns(c)

\* The bodies of the loops are finite; nothing is assumed about who gets a
\* contended mutex. The end of sleep(20) comes.
Fairness ==
    /\ WF_vars(MainStep)
    /\ \A c \in 0 .. MaxCompanies - 1 : WF_vars(c \in Companies /\ work_interns(c))

Spec == Init /\ [][Next]_vars
FairSpec == Spec /\ Fairness

-----------------------------------------------------------------------------
TypeOK ==
    /\ program \in {"good", "bad"}
    /\ num_companies \in 1 .. MaxCompanies
    /\ num_interns \in 1 .. MaxInterns
    /\ owner \in [Interns -> Companies \cup {Nobody}]
    /\ pc \in [Companies -> PCs]
    /\ running \in BOOLEAN
    /\ main \in {"create", "sleep", "join", "end"}
    /\ next \in Companies
    /\ exited \in BOOLEAN

Holds(c) ==
    IF pc[c] = "second" THEN {Order(c)[1]}
    ELSE IF pc[c] \in {"hire", "unlock"} THEN {left_intern(c), right_intern(c)}
    ELSE IF pc[c] = "unlock_left" THEN {left_intern(c)}
    ELSE {}

\* The mutexes are owned by those who are between their lock and their unlock
\* of them, so an intern never works for two companies at once.
OwnersHold ==
    \A c \in Companies : {i \in Interns : owner[i] = c} = Holds(c)

\* A company that is about to take a second intern has two: good_company.c:19
\* has seen to it, and bad_company.c never gets past its second lock otherwise.
TwoInterns ==
    \A c \in Companies :
        \/ pc[c] \in {"first", "second"} /\ program = "good"
        \/ pc[c] \in {"hire", "unlock", "unlock_left"}
        => left_intern(c) # right_intern(c)

\* main's loop has not reached these companies yet: they have no thread.
Uncreated == main = "create" => \A c \in Companies : c >= next => pc[c] = "none"

\* The inductive invariant of the proofs, with Uncreated.
IInv == TypeOK /\ OwnersHold /\ TwoInterns /\ ~exited

\* The checks of Company_hire_interns (company.c:22-33) never fail.
NeverExits == ~exited

WaitsFor(c) ==
    IF pc[c] = "first" THEN {Order(c)[1]}
    ELSE IF pc[c] = "second" THEN {Order(c)[2]}
    ELSE {}

Deadlocked(S) ==
    /\ S # {}
    /\ \A c \in S : \E i \in WaitsFor(c) : owner[i] \in S

\* No set of companies waits for each other in a circle if they lock by
\* address. Those that lock left first can only get there if the seats close
\* the ring, that is, with at least as many companies as interns.
NoCircularWait ==
    \A S \in SUBSET Companies :
        Deadlocked(S) => program = "bad" /\ num_companies >= num_interns

\* Once the flag is cleared main joins every thread and ends, unless the ring
\* of the left-first program has closed.
MainEnds == program = "good" \/ num_companies < num_interns => <>(main = "end")
=============================================================================
