------------------------------- MODULE Priqueue -------------------------------
(***************************************************************************)
(* The priority queue of Lab/Scheduler/libpriqueue.c: a linked list as the *)
(* sequence of its values, head first, kept in order by a comparer: a      *)
(* function of a pair to a negative number, zero or a positive one.        *)
(***************************************************************************)
EXTENDS Integers, SequencesExt, FiniteSetsExt

priqueue_init == << >>

\* Variant: behind the tail unless before the head.
priqueue_offer_HeadOrTail(q, x, comparer) ==
    IF q = << >> \/ comparer[<<x, Head(q)>>] < 0 THEN <<x>> \o q ELSE Append(q, x)

\* Before the head, or behind the first entry that leaves x between itself and
\* its successor, or behind the tail.
priqueue_offer(q, x, comparer) ==
    IF q = << >> \/ comparer[<<x, Head(q)>>] < 0 THEN <<x>> \o q
    ELSE LET between == {k \in 1 .. Len(q) - 1 :
                            comparer[<<q[k], x>>] <= 0 /\ comparer[<<x, q[k + 1]>>] < 0}
             left == IF between = {} THEN Len(q) ELSE Min(between)
         IN  InsertAt(q, left + 1, x)

\* NULL stands for "no element".
priqueue_peek(q, NULL) == IF q = << >> THEN NULL ELSE Head(q)

\* What is left after a poll, which returns priqueue_peek(q, NULL).
priqueue_rest(q) == IF q = << >> THEN q ELSE Tail(q)
=============================================================================
