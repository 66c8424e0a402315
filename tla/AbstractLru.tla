----------------------------- MODULE AbstractLru ------------------------------
(***************************************************************************)
(* What tlb.h promises of the cache of translations: it holds the Capacity *)
(* pages that were used last (tlb.h:43, "evict the least recently used     *)
(* (LRU) item"), and a miss is the use of a page that it does not hold.    *)
(***************************************************************************)
EXTENDS Naturals, SequencesExt

CONSTANT Capacity

VARIABLES recent,      \* the pages held, the one used last in front
          used,        \* the page used last
          misses

Init == recent = << >> /\ misses = 0

Use(page) ==
    LET others == RemoveFirst(recent, page)
    IN  /\ recent' = SubSeq(<<page>> \o others, 1,
                            IF Len(others) < Capacity THEN Len(others) + 1 ELSE Capacity)
        /\ misses' = IF Contains(recent, page) THEN misses ELSE misses + 1

\* Any page may be used next.
Next == Use(used')

Spec == Init /\ [][Next]_<<recent, used, misses>>
=============================================================================
