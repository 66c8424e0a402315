------------------------------- MODULE Poisson -------------------------------
(***************************************************************************)
(* solve_poisson of Lab/Broken_Barriers/poisson.c, run by the callers of   *)
(* the barrier: num_threads of them share two grids, error_count and b.    *)
(* serial_poisson is the case of one thread.                               *)
(*                                                                         *)
(* A column of a grid is the number of the iteration whose values it holds.*)
(* error_count is the set of the contributions added to it.                *)
(***************************************************************************)
EXTENDS Barrier

CONSTANTS Sizes,         \* the grid sizes n to try
          GRANULARITY

ASSUME GranularityAssumption == GRANULARITY \in Nat \ {0}

\* A grid of n * n points that are not on its edge.
ASSUME SizesAssumption == Sizes \subseteq Nat \ {0}

VARIABLES
    n, lastIter,           \* the size; the first iteration with error <= EPSILON
    grid,                  \* the arrays, "a" and "b"
    index_count,           \* the static count
    error_count,
    image,                 \* history: what the last file written shows
    at, index, x,          \* of each thread: place, index, next column
    current, iter, error   \* of each thread: which array, its iterations, the
                           \* sum it compares

common == <<n, lastIter, grid, index_count, error_count, image>>
locals == <<at, index, x, current, iter, error>>
solver == <<common, locals>>

NUM_THREADS == Cardinality(Threads)

\* Bound: the error is small enough after at most as many iterations as the
\* threads may use the barrier for.
MaxIter == Rounds \div 3

\* What a column holds that is no iterate: the boundary, and garbage.
Edge  == -1
Wrong == -2

\* poisson_setup: two arrays with n + 2 columns of zeros; behind the last one
\* comes the next row. b is made for all the threads.
SolveInit ==
    /\ n \in Sizes /\ lastIter \in 1 .. MaxIter
    /\ grid = [g \in {"a", "b"} |-> [c \in 0 .. n + 2 |->
                 IF c \in 1 .. n THEN 0 ELSE IF c = n + 2 THEN Wrong ELSE Edge]]
    /\ index_count = 0 /\ error_count = {} /\ image = [iter |-> 0, columns |-> {0}]
    /\ at = [t \in Threads |-> "index"] /\ index = [t \in Threads |-> -1]
    /\ x = [t \in Threads |-> 0]
    /\ current = [t \in Threads |-> "a"] /\ iter = [t \in Threads |-> 0]
    /\ error = [t \in Threads |-> {}]
    /\ Init

-----------------------------------------------------------------------------
Goto(t, place) == at' = [at EXCEPT ![t] = place]
Other(g) == IF g = "a" THEN "b" ELSE "a"

width == (n + NUM_THREADS - 1) \div NUM_THREADS

startx(i) == width * i + 1

\* Variant: the last thread gets as many columns as the others.
ends_Even(i) == startx(i) + width - 1

\* The last column of thread i.
ends(i) == IF i = NUM_THREADS - 1 THEN n ELSE startx(i) + width - 1

\* The top of the loop: only index 0 clears error_count.
Loop(i) == IF i = 0 THEN "clear" ELSE "wait 1"

TakeIndex(t) ==
    /\ at[t] = "index"
    /\ index_count' = index_count + 1
    /\ index' = [index EXCEPT ![t] = index_count]
    /\ Goto(t, Loop(index_count))
    /\ UNCHANGED <<n, lastIter, grid, error_count, image, x, current, iter, error, vars>>

\* Variant: the errors of the iterations add up.
Clear_Not(t) ==
    /\ at[t] = "clear"
    /\ Goto(t, "wait 1")
    /\ UNCHANGED <<common, index, x, current, iter, error, vars>>

Clear(t) ==
    /\ at[t] = "clear"
    /\ error_count' = {}
    /\ Goto(t, "wait 1")
    /\ UNCHANGED <<n, lastIter, grid, index_count, image, index, x, current, iter, error, vars>>

\* One column of solve_poisson_helper, from itself and its two neighbours.
Column(t) ==
    LET old == grid[Other(current[t])]
        k   == iter[t] + 1
    IN  /\ at[t] = "helper" /\ x[t] <= ends(index[t])
        /\ grid' = [grid EXCEPT ![current[t]][x[t]] =
                      IF /\ old[x[t]] = k - 1
                         /\ {old[x[t] - 1], old[x[t] + 1]} \subseteq {k - 1, Edge}
                      THEN k ELSE Wrong]
        /\ x' = [x EXCEPT ![t] = @ + 1]
        /\ UNCHANGED <<n, lastIter, index_count, error_count, image,
                       at, index, current, iter, error, vars>>

AddError(t) ==
    /\ at[t] = "helper" /\ x[t] > ends(index[t])
    /\ iter' = [iter EXCEPT ![t] = @ + 1]
    /\ error_count' = error_count \cup {<<index[t], iter[t] + 1>>}
    /\ Goto(t, "wait 2")
    /\ UNCHANGED <<n, lastIter, grid, index_count, image, index, x, current, error, vars>>

Show(g, k) == image' = [iter |-> k, columns |-> {grid[g][c] : c \in 1 .. n}]

WriteIterate(t) ==
    /\ at[t] = "file"
    /\ Show(current[t], iter[t])
    /\ Goto(t, "swap")
    /\ UNCHANGED <<n, lastIter, grid, index_count, error_count, index, x, current, iter, error, vars>>

\* sum > EPSILON after iteration k: known of the sum of all the threads'
\* contributions to it, and anything of a sum that is not complete.
GoesOn(sum, k) ==
    IF sum = (0 .. NUM_THREADS - 1) \X {k} THEN {k < lastIter} ELSE BOOLEAN

\* Variant: the third barrier is left out.
Swap_GoOn(t) ==
    /\ at[t] = "swap"
    /\ current' = [current EXCEPT ![t] = Other(@)]
    /\ error' = [error EXCEPT ![t] = error_count]
    /\ \E goesOn \in GoesOn(error_count, iter[t]) :
          Goto(t, IF goesOn THEN Loop(index[t]) ELSE "final")
    /\ UNCHANGED <<common, index, x, iter, vars>>

Swap(t) ==
    /\ at[t] = "swap"
    /\ current' = [current EXCEPT ![t] = Other(@)]
    /\ error' = [error EXCEPT ![t] = error_count]
    /\ Goto(t, "wait 3")
    /\ UNCHANGED <<common, index, x, iter, vars>>

\* Swapped back, so that current is what the last iteration wrote.
Final(t) ==
    /\ at[t] = "final"
    /\ current' = [current EXCEPT ![t] = Other(@)]
    /\ IF index[t] = 0 THEN Show(Other(current[t]), iter[t]) ELSE UNCHANGED image
    /\ Goto(t, "done")
    /\ UNCHANGED <<n, lastIter, grid, index_count, error_count, index, x, iter, error, vars>>

-----------------------------------------------------------------------------
(* The three calls of barrier_wait *)

Call(t) ==
    /\ at[t] \in {"wait 1", "wait 2", "wait 3"}
    /\ ArriveAndSleep(t) \/ ArriveLast(t)
    /\ UNCHANGED solver

InCall(t) ==
    /\ SleepAgain(t) \/ LeaveLoop(t)
    /\ UNCHANGED solver

WakeUp(t) == SpuriousWakeup(t) /\ UNCHANGED solver

ReturnToHelper(t) ==
    /\ at[t] = "wait 1" /\ Return(t)
    /\ x' = [x EXCEPT ![t] = startx(index[t])]
    /\ Goto(t, "helper")
    /\ UNCHANGED <<common, index, current, iter, error>>

ReturnToSwap(t) ==
    /\ at[t] = "wait 2" /\ Return(t)
    /\ Goto(t, IF index[t] = 0 /\ iter[t] % GRANULARITY = 0 THEN "file" ELSE "swap")
    /\ UNCHANGED <<common, index, x, current, iter, error>>

ReturnToTest(t) ==
    /\ at[t] = "wait 3" /\ Return(t)
    /\ \E goesOn \in GoesOn(error[t], iter[t]) :
          Goto(t, IF goesOn THEN Loop(index[t]) ELSE "final")
    /\ UNCHANGED <<common, index, x, current, iter, error>>

SolveStep(t) ==
    \/ TakeIndex(t) \/ Clear(t) \/ Column(t) \/ AddError(t)
    \/ WriteIterate(t) \/ Swap(t) \/ Final(t)
    \/ Call(t) \/ InCall(t)
    \/ ReturnToHelper(t) \/ ReturnToSwap(t) \/ ReturnToTest(t)

Solved == (\A t \in Threads : at[t] = "done") /\ UNCHANGED <<solver, vars>>

SolveNext == (\E t \in Threads : SolveStep(t) \/ WakeUp(t)) \/ Solved

\* A thread that can run does run: m and mtx are free between the actions, and
\* each of them is a bounded stretch of code. Nothing makes a spurious wakeup
\* happen.
SolveFairness == \A t \in Threads : WF_<<solver, vars>>(SolveStep(t))

SolveSpec == SolveInit /\ [][SolveNext]_<<solver, vars>>
SolveFairSpec == SolveSpec /\ SolveFairness

-----------------------------------------------------------------------------
\* The split gives no thread before the last a column outside the grid.
Fits == (NUM_THREADS - 1) * width <= n

\* poisson.c:191: the output is that of the serial solver. Every column is
\* computed from the iteration before, although nothing but the barriers keeps a
\* thread from reading what another writes, and every file shows one iteration.
SameAsSerial ==
    Fits => /\ \A g \in {"a", "b"}, c \in 1 .. n : grid[g][c] # Wrong
            /\ image.columns = {image.iter}

\* Every thread takes the same decision at the end of an iteration, although the
\* first of them may by then be clearing the sum that the others compare: none
\* goes on, to wait at the barrier for ever, when another stops.
StopTogether ==
    \A t \in Threads : at[t] \in {"final", "done"} => iter[t] = lastIter

\* Every call of barrier_wait returns, although any of its sleeps may be cut
\* short and the others may already be calling it again, and every thread leaves
\* the loop.
AllStop == <>(\A t \in Threads : at[t] = "done")
=============================================================================
