----------------------------- MODULE CountPrimes -----------------------------
(***************************************************************************)
(* Lab/Mangled_Mutexes/count_primes.c: main splits start .. end among the  *)
(* threads, and each of them adds the primes of its part to cnt, which it  *)
(* reads and writes without a lock.                                        *)
(***************************************************************************)
EXTENDS Integers, Sequences, FiniteSetsExt

CONSTANTS Starts, Ends, ThreadNums   \* the arguments to try

\* main divides by the number of threads.
ASSUME CountAssumption ==
    Starts \subseteq Int /\ Ends \subseteq Int /\ ThreadNums \subseteq Nat \ {0}

VARIABLES
    start, end, threadNum,
    counter,      \* of each thread: "test", "add", "store" or "done"
    num,          \* of each thread: the number it is at
    read,         \* of each thread: what ++cnt has read
    cnt,
    lost          \* history: a thread stored what it had read before another
                  \* stored

counting == <<start, end, threadNum, counter, num, read, cnt, lost>>

Counters == 0 .. threadNum - 1

\* Variant: the loop stops before the root itself.
limit_Root(n) == Max({r \in 0 .. n : r * r < n})

limit(n) == Max({r \in 0 .. n : r * r <= n}) + 1

isPrime(n) ==
    \/ n = 2
    \/ n > 2 /\ n % 2 = 1 /\ \A d \in 3 .. limit(n) : d % 2 = 1 => n % d # 0

len == (end - start) \div threadNum

first(t) == start + t * (len + 1)
last(t)  == IF t = threadNum - 1 THEN end ELSE first(t) + len

Count(a, b, n) ==
    /\ start = a /\ end = b /\ threadNum = n
    /\ counter = [t \in Counters |-> "test"]
    /\ num = [t \in Counters |-> first(t)]
    /\ read = [t \in Counters |-> 0]
    /\ cnt = 0 /\ lost = FALSE

CountInit == \E a \in Starts, b \in Ends, n \in ThreadNums : a <= b /\ Count(a, b, n)

-----------------------------------------------------------------------------
\* The loop over the numbers up to the next prime; what is no prime is passed
\* over in silence.
Test(t) ==
    LET primes == {p \in num[t] .. last(t) : isPrime(p)}
    IN  /\ counter[t] = "test"
        /\ counter' = [counter EXCEPT ![t] = IF primes = {} THEN "done" ELSE "add"]
        /\ num' = [num EXCEPT ![t] = IF primes = {} THEN @ ELSE Min(primes)]
        /\ UNCHANGED <<start, end, threadNum, read, cnt, lost>>

\* ++cnt
Add(t) ==
    /\ counter[t] = "add"
    /\ read' = [read EXCEPT ![t] = cnt]
    /\ counter' = [counter EXCEPT ![t] = "store"]
    /\ UNCHANGED <<start, end, threadNum, num, cnt, lost>>

Store(t) ==
    /\ counter[t] = "store"
    /\ cnt' = read[t] + 1
    /\ lost' = (lost \/ cnt # read[t])
    /\ num' = [num EXCEPT ![t] = @ + 1]
    /\ counter' = [counter EXCEPT ![t] = "test"]
    /\ UNCHANGED <<start, end, threadNum, read>>

CountStep == \E t \in Counters : Test(t) \/ Add(t) \/ Store(t)

-----------------------------------------------------------------------------
\* len + 1 numbers for each thread before the last one are not too many.
SplitFits == (threadNum - 1) * (len + 1) <= end - start + 1

Joined == \A t \in Counters : counter[t] = "done"

PrimesBetween ==
    Cardinality({n \in start .. end : n >= 2 /\ \A d \in 2 .. n - 1 : n % d # 0})

\* What main prints is the number of primes between start and end if no store
\* undid another; if one did, it may be too small, but never too large. (That
\* increments are lost at all is accepted here; Mangled_Mutexes/README.md:62 takes
\* the shared counter for harmless.) The split must fit: with many threads for few
\* numbers the parts reach beyond end.
CountRight ==
    SplitFits /\ Joined =>
        /\ cnt <= PrimesBetween
        /\ ~lost => cnt = PrimesBetween
=============================================================================
