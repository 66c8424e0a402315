----------------------------- MODULE MiniValgrind -----------------------------
(***************************************************************************)
(* Lab/miniValgrind/mini_valgrind.c under a program that calls malloc,     *)
(* realloc and free: the list of the blocks it has, and the totals that    *)
(* print_report prints at the end.                                         *)
(***************************************************************************)
EXTENDS Integers, Sequences, SequencesExt

CONSTANTS Addresses, BlockSizes,   \* where malloc may put a block; its sizes
          MaxUsage                 \* bound: no call takes total_usage above it

ASSUME BlockSizesAssumption == BlockSizes \subseteq Nat

VARIABLES
    head,                               \* the list: of each block ptr and size
    total_usage, total_free, bad_frees,
    held,        \* history: the size of each block the program knows of
    wrong,       \* history: how often it freed what it did not hold
    dropped,     \* history: it called realloc on NULL and got nothing
    memory       \* "used", "crashed" or "released"

accounts == <<head, total_usage, total_free, bad_frees, held, wrong, dropped, memory>>

AccountsInit ==
    /\ head = << >>
    /\ total_usage = 0 /\ total_free = 0 /\ bad_frees = 0
    /\ held = << >> /\ wrong = 0 /\ dropped = FALSE /\ memory = "used"

Listed == {head[k].ptr : k \in DOMAIN head}
Place(ptr) == CHOOSE k \in DOMAIN head : head[k].ptr = ptr

\* What malloc and realloc may return, while `kept` stays where it is.
Fresh(kept) == Addresses \ (Listed \ kept)

Holding(ptrs, ptr, size) ==
    [p \in ptrs \cup {ptr} |-> IF p = ptr THEN size ELSE held[p]]

-----------------------------------------------------------------------------
insert_meta_data(list, ptr, size) == <<[ptr |-> ptr, size |-> size]>> \o list

\* A malloc that fails changes nothing.
mini_malloc(size) ==
    \E ptr \in Fresh({}) :
        /\ head' = insert_meta_data(head, ptr, size)
        /\ total_usage' = total_usage + size
        /\ held' = Holding(DOMAIN held, ptr, size)
        /\ UNCHANGED <<total_free, bad_frees, wrong, dropped, memory>>

\* It does not return what mini_malloc returns, but goes on to look for a block
\* at NULL.
ReallocNull(size) ==
    \E ptr \in Fresh({}) :
        /\ head' = insert_meta_data(head, ptr, size)
        /\ total_usage' = total_usage + size
        /\ dropped' = TRUE
        /\ UNCHANGED <<total_free, bad_frees, held, wrong, memory>>

\* Variant: total_free is left alone when a block shrinks.
Realloc_NoFree(ptr, size) ==
    LET k   == Place(ptr)
        old == head[k].size
    IN  /\ ptr \in Listed /\ size # old
        /\ total_usage' = IF size > old THEN total_usage + size - old ELSE total_usage
        /\ \E new \in Fresh({ptr}) :
              /\ head' = insert_meta_data(RemoveAt(head, k), new, size)
              /\ held' = Holding(DOMAIN held \ {ptr}, new, size)
        /\ UNCHANGED <<total_free, bad_frees, wrong, dropped, memory>>

\* The block leaves the list, may move, and is inserted in front.
Realloc(ptr, size) ==
    LET k   == Place(ptr)
        old == head[k].size
    IN  /\ ptr \in Listed /\ size # old
        /\ total_usage' = IF size > old THEN total_usage + size - old ELSE total_usage
        /\ total_free'  = IF size < old THEN total_free + old - size ELSE total_free
        /\ \E new \in Fresh({ptr}) :
              /\ head' = insert_meta_data(RemoveAt(head, k), new, size)
              /\ held' = Holding(DOMAIN held \ {ptr}, new, size)
        /\ UNCHANGED <<bad_frees, wrong, dropped, memory>>

\* When realloc fails the block is off the list and NULL is written to.
ReallocFails(ptr, size) ==
    /\ ptr \in Listed /\ size # head[Place(ptr)].size
    /\ memory' = "crashed"
    /\ UNCHANGED <<head, total_usage, total_free, bad_frees, held, wrong, dropped>>

mini_realloc(ptr, size) == Realloc(ptr, size) \/ ReallocFails(ptr, size)

remove_meta_data(ptr) ==
    IF ptr \in Listed
    THEN /\ total_free' = total_free + head[Place(ptr)].size
         /\ head' = RemoveAt(head, Place(ptr))
         /\ UNCHANGED bad_frees
    ELSE /\ bad_frees' = bad_frees + 1
         /\ UNCHANGED <<head, total_free>>

\* free(NULL) does nothing.
mini_free(ptr) ==
    /\ remove_meta_data(ptr)
    /\ IF ptr \in DOMAIN held
       THEN held' = [p \in DOMAIN held \ {ptr} |-> held[p]] /\ UNCHANGED wrong
       ELSE wrong' = wrong + 1 /\ UNCHANGED held
    /\ UNCHANGED <<total_usage, dropped, memory>>

\* print_report, with its call of destroy.
Report ==
    /\ memory' = "released"
    /\ UNCHANGED <<head, total_usage, total_free, bad_frees, held, wrong, dropped>>

AccountsStep ==
    /\ memory = "used"
    /\ \/ \E size \in BlockSizes :
             /\ total_usage + size <= MaxUsage
             /\ \/ mini_malloc(size) \/ ReallocNull(size)
                \/ \E ptr \in DOMAIN held : mini_realloc(ptr, size)
       \/ \E ptr \in Addresses : (ptr \in Listed \/ wrong < 2) /\ mini_free(ptr)
       \/ Report

-----------------------------------------------------------------------------
\* What a list of blocks adds up to, by how many of them are added.
Sums(list) ==
    LET sum[k \in 0 .. Len(list)] == IF k = 0 THEN 0 ELSE sum[k - 1] + list[k].size
    IN  sum

\* mini_valgrind.h:22-31: what is listed as leaked is what was used and not
\* freed, whatever the order of the calls, and bad_frees the frees of what the
\* program did not hold. Unless it calls realloc with NULL, the list is exactly
\* what it holds.
AccountsTrue ==
    memory # "crashed" =>
        /\ total_usage - total_free = Sums(head)[Len(head)]
        /\ ~dropped => /\ bad_frees = wrong
                       /\ Listed = DOMAIN held /\ Len(head) = Cardinality(Listed)
                       /\ \A p \in Listed : held[p] = head[Place(p)].size
=============================================================================
