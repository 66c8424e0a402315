---------------------------- MODULE AbstractList -----------------------------
(***************************************************************************)
(* What vector.h promises: a list of values, NULL where nothing was        *)
(* stored, that grows when an index beyond its end is used.                *)
(***************************************************************************)
EXTENDS Integers, SequencesExt

CONSTANTS Values, NULL

VARIABLE contents

size == Len(contents)

Resized(n) == [i \in 1 .. n |-> IF i <= size THEN contents[i] ELSE NULL]

Init == contents = << >>

Resize(n) == contents' = Resized(n)
Set(i, v) == i \in DOMAIN contents /\ contents' = [contents EXCEPT ![i] = v]
Insert(i, v) ==
    \/ i \in DOMAIN contents /\ contents' = InsertAt(contents, i, v)
    \/ i > size /\ contents' = [Resized(i) EXCEPT ![i] = v]
Delete(i) == i \in DOMAIN contents /\ contents' = RemoveAt(contents, i)

\* An index or a length is no larger than the list becomes or was.
Next ==
    \E i \in 0 .. Len(contents') + 1 :
        \/ Resize(i)
        \/ Delete(i)
        \/ \E v \in Values \cup {NULL} : Set(i, v) \/ (i > 0 /\ Insert(i, v))

Spec == Init /\ [][Next]_contents
=============================================================================
