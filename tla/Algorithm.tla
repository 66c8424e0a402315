------------------------------ MODULE Algorithm ------------------------------
(***************************************************************************)
(* next_permutation of algorithm.c (the same file in Lab/Terrible_Threads  *)
(* and Lab/Broken_Barriers) on sequences of integers.                      *)
(***************************************************************************)
EXTENDS Integers, SequencesExt, FiniteSetsExt, Functions

swap(s, i, j) == [s EXCEPT ![i] = s[j], ![j] = s[i]]

\* The elements from position `begin` on, in reverse order.
reverse(s, begin) == SubSeq(s, 1, begin - 1) \o Reverse(SubSeq(s, begin, Len(s)))

Ascents(s) == {i \in 1 .. Len(s) - 1 : s[i] < s[i + 1]}

has_next(s) == Ascents(s) # {}

\* The scan from the right finds the last ascent i, then the last element
\* greater than s[i]; the two change places and what follows i is reversed.
\* Without an ascent the whole is reversed, and the C function returns false.
next_permutation(s) ==
    LET i == Max(Ascents(s))
        j == Max({k \in i + 1 .. Len(s) : s[i] < s[k]})
    IN  IF has_next(s) THEN reverse(swap(s, i, j), i + 1) ELSE reverse(s, 1)

-----------------------------------------------------------------------------
(* The reference definition: the least rearrangement that is greater, or   *)
(* the least of all if there is none.                                      *)

Precedes(r, s) ==
    \E i \in 1 .. Len(s) : r[i] < s[i] /\ \A k \in 1 .. i - 1 : r[k] = s[k]

Rearrangements(s) ==
    LET D == DOMAIN s
    IN  {[k \in D |-> s[p[k]]] : p \in Bijection(D, D)}

IsSuccessor(s, r) ==
    LET all   == Rearrangements(s)
        above == {q \in all : Precedes(s, q)}
        from  == IF above = {} THEN all ELSE above
    IN  r \in from /\ \A q \in from : ~Precedes(q, r)

\* It holds of every array of up to four integers, equal ones among them.
ASSUME NextPermutationAssumption ==
    \A n \in 2 .. 4 : \A s \in [1 .. n -> 1 .. 3] : IsSuccessor(s, next_permutation(s))
=============================================================================
