------------------------------- MODULE Programs -------------------------------
(* Programs of one file each, which share nothing: program says which of them  *)
(* runs, and the others stay at their start.                                   *)
EXTENDS Brutus, CountPrimes, MiniValgrind, Lookup

VARIABLE program

all == <<program, journal, counting, accounts, lookups>>

Init ==
    /\ program \in {"brutus", "count_primes", "mini_valgrind", "lookup"}
    /\ IF program = "brutus" THEN JournalInit ELSE Journal(<<1>>)
    /\ IF program = "count_primes" THEN CountInit ELSE Count(1, 1, 1)
    /\ IF program = "lookup" THEN LookupInit ELSE LookUp(<<1>>, <<1>>)
    /\ AccountsInit

ParentRuns   == program = "brutus" /\ Parent /\ UNCHANGED <<program, counting, accounts, lookups>>
ChildRuns(j) == program = "brutus" /\ Decrypt(j) /\ UNCHANGED <<program, counting, accounts, lookups>>
CounterRuns  == program = "count_primes" /\ CountStep /\ UNCHANGED <<program, journal, accounts, lookups>>
BlocksChange == program = "mini_valgrind" /\ AccountsStep /\ UNCHANGED <<program, journal, counting, lookups>>
NodeVisited  == program = "lookup" /\ Visit /\ UNCHANGED <<program, journal, counting, accounts>>

Next ==
    \/ ParentRuns
    \/ \E j \in 1 .. lineNum : ChildRuns(j)
    \/ CounterRuns
    \/ BlocksChange
    \/ NodeVisited

\* The processes of brutus run whenever they can.
Fairness ==
    /\ WF_all(ParentRuns)
    /\ \A j \in 1 .. MaxLines : WF_all(j <= lineNum /\ ChildRuns(j))

FairSpec == Init /\ [][Next]_all /\ Fairness

-----------------------------------------------------------------------------
\* The parent waits for a child before it reads from it, and yet comes to its
\* end: no child blocks, unless the longest line fills its pipe to the last byte
\* and leaves none for the NUL that is written with it (brutus.c:119 and :142).
JournalEnds ==
    program = "brutus" /\ (\A k \in 0 .. maxSize : maxSize # PAGE * 2 ^ k) =>
        <>(parent = "end")
=============================================================================
