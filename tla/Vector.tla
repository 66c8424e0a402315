-------------------------------- MODULE Vector --------------------------------
(***************************************************************************)
(* The growable array of MP/Vector/vector.c. An entry is a pointer to a    *)
(* copy that the vector made and has to free; here a copy is a number that *)
(* was never used before. Slot i of the array is array[i - 1] of the code. *)
(***************************************************************************)
EXTENDS Integers, SequencesExt, FiniteSetsExt

CONSTANTS INITIAL_CAPACITY,
          Values,           \* what callers store
          NULL,
          MaxSize,          \* bound: no caller asks for a larger size
          MaxCopies         \* bound on the calls of copy_constructor

ASSUME InitialCapacityAssumption == INITIAL_CAPACITY \in Nat \ {0}
ASSUME NullAssumption            == NULL \notin Nat
ASSUME MaxSizeAssumption         == MaxSize \in Nat

VARIABLES
    array, size,       \* vector->array, as long as the capacity, and size
    heap,              \* the copies that are allocated, each with its value
    copies,            \* how many copies were ever made
    faults,            \* freed twice, or used after it was freed
    shrunk,            \* history: a caller resized the vector below its size
    self_set,          \* history: a caller set an entry to that same entry
    destroyed          \* Vector_destroy has run

vars == <<array, size, heap, copies, faults, shrunk, self_set, destroyed>>

capacity == Len(array)

Vector_create ==
    /\ array = [i \in 1 .. INITIAL_CAPACITY |-> NULL]
    /\ size = 0

Init ==
    /\ Vector_create
    /\ heap = << >> /\ copies = 0 /\ faults = {}
    /\ shrunk = FALSE /\ self_set = FALSE /\ destroyed = FALSE

\* The destructor called on these pointers, then copy_constructor on v unless
\* it is NULL.
FreeThenCopy(pointers, v) ==
    LET freed == ToSet(pointers) \ {NULL}
        twice == \E i, j \in DOMAIN pointers :
                    i # j /\ pointers[i] = pointers[j] /\ pointers[i] # NULL
        left  == DOMAIN heap \ freed
        new   == IF v = NULL THEN {} ELSE {copies + 1}
    IN  /\ copies' = IF v = NULL THEN copies ELSE copies + 1
        /\ heap' = [c \in left \cup new |-> IF c \in new THEN v ELSE heap[c]]
        /\ faults' = faults \cup
             (IF freed \subseteq DOMAIN heap /\ ~twice THEN {} ELSE {"double_free"})

CopyOf(v) == IF v = NULL THEN NULL ELSE copies + 1

-----------------------------------------------------------------------------
pow2[k \in Nat] == IF k = 0 THEN 1 ELSE 2 * pow2[k - 1]

Doubled(n) == Min({capacity * pow2[k] : k \in 0 .. n} \ (0 .. n - 1))

\* Variant: halved once.
Halved_Once(n) == Max({capacity \div 2, INITIAL_CAPACITY})

Halved(n) ==
    Max(({capacity \div pow2[k] : k \in 0 .. capacity} \cap (0 .. 2 * n)) \cup {INITIAL_CAPACITY})

Halves(n) ==
    n # size /\ n <= capacity /\ capacity > INITIAL_CAPACITY /\ capacity > 2 * n

\* Variant: slots that come into use again keep what was there.
Resized_Stale(a, n) ==
    IF n > capacity THEN [i \in 1 .. Doubled(n) |-> IF i <= size THEN a[i] ELSE NULL]
    ELSE IF Halves(n) THEN SubSeq(a, 1, Halved(n)) ELSE a

\* The array a after Vector_resize to n.
Resized(a, n) ==
    IF n > capacity THEN [i \in 1 .. Doubled(n) |-> IF i <= size THEN a[i] ELSE NULL]
    ELSE IF Halves(n) THEN SubSeq(a, 1, Halved(n))
    ELSE [i \in DOMAIN a |-> IF i \in size + 1 .. n THEN NULL ELSE a[i]]

\* The slots of a that Vector_resize to n deallocates: up to the new capacity
\* if it halves, up to the old size if the capacity stays.
Dropped(a, n) == SubSeq(a, n + 1, IF Halves(n) THEN Halved(n) ELSE size)

Alive == faults = {} /\ ~destroyed

Vector_resize(n) ==
    /\ Alive
    /\ size' = n
    /\ FreeThenCopy(Dropped(array, n), NULL)
    /\ array' = Resized(array, n)
    /\ shrunk' = (shrunk \/ n < size)
    /\ UNCHANGED <<self_set, destroyed>>

Vector_set(i, v) ==
    /\ Alive /\ i \in 1 .. size
    /\ UNCHANGED <<size, shrunk, self_set, destroyed>>
    /\ FreeThenCopy(<<array[i]>>, v)
    /\ array' = [array EXCEPT ![i] = CopyOf(v)]

\* Vector_set(v, i, Vector_get(v, i)): the entry is freed, then copied.
Vector_set_itself(i) ==
    /\ Alive /\ i \in 1 .. size /\ array[i] \in DOMAIN heap
    /\ array' = [array EXCEPT ![i] = CopyOf(heap[array[i]])]
    /\ heap' = [c \in (DOMAIN heap \ {array[i]}) \cup {copies + 1} |->
                  IF c \in DOMAIN heap THEN heap[c] ELSE heap[array[i]]]
    /\ copies' = copies + 1
    /\ faults' = faults \cup {"use_after_free"}
    /\ self_set' = TRUE
    /\ UNCHANGED <<size, shrunk, destroyed>>

Vector_insert(i, v) ==
    LET n     == IF i <= size THEN size + 1 ELSE i
        grown == Resized(array, n)
        shift == IF i <= size THEN i + 1 .. n ELSE {}
    IN  /\ Alive
        /\ size' = n
        /\ FreeThenCopy(Dropped(array, n), v)
        /\ array' = [j \in DOMAIN grown |-> IF j = i THEN CopyOf(v)
                                            ELSE IF j \in shift THEN grown[j - 1] ELSE grown[j]]
        /\ UNCHANGED <<shrunk, self_set, destroyed>>

\* Variant: the last slot keeps the entry that moved down.
Vector_delete_KeepLast(i) ==
    LET moved == [j \in DOMAIN array |-> IF j \in i .. size - 1 THEN array[j + 1] ELSE array[j]]
    IN  /\ Alive /\ i \in 1 .. size
        /\ size' = size - 1
        /\ FreeThenCopy(<<array[i]>> \o Dropped(moved, size - 1), NULL)
        /\ array' = Resized(moved, size - 1)
        /\ UNCHANGED <<shrunk, self_set, destroyed>>

Vector_delete(i) ==
    LET moved == [j \in DOMAIN array |->
                    IF j \in i .. size - 1 THEN array[j + 1]
                    ELSE IF j = size THEN NULL ELSE array[j]]
    IN  /\ Alive /\ i \in 1 .. size
        /\ size' = size - 1
        /\ FreeThenCopy(<<array[i]>> \o Dropped(moved, size - 1), NULL)
        /\ array' = Resized(moved, size - 1)
        /\ UNCHANGED <<shrunk, self_set, destroyed>>

Vector_append(v) ==
    LET n == size + 1
    IN  /\ Alive
        /\ size' = n
        /\ FreeThenCopy(Dropped(array, n), v)
        /\ array' = [Resized(array, n) EXCEPT ![n] = CopyOf(v)]
        /\ UNCHANGED <<shrunk, self_set, destroyed>>

\* Every slot up to the capacity, not up to the size.
Vector_destroy ==
    /\ Alive
    /\ destroyed' = TRUE
    /\ FreeThenCopy(array, NULL)
    /\ UNCHANGED <<array, size, shrunk, self_set>>

Next ==
    \/ \E n \in 0 .. MaxSize : Vector_resize(n)
    \/ \E i \in 1 .. MaxSize : Vector_delete(i)
    \/ copies < MaxCopies /\ \E i \in 1 .. MaxSize : Vector_set_itself(i)
    \/ \E v \in Values \cup {NULL} :
          /\ copies < MaxCopies
          /\ \/ \E i \in 1 .. MaxSize : Vector_set(i, v)
             \/ size < MaxSize /\ \E i \in 1 .. MaxSize : Vector_insert(i, v)
             \/ size < MaxSize /\ Vector_append(v)
    \/ Vector_destroy

Spec == Init /\ [][Next]_vars

-----------------------------------------------------------------------------
\* The size fits the array, and copies are numbered in the order they were made.
TypeOK ==
    /\ size \in 0 .. capacity
    /\ array \in Seq(1 .. copies \cup {NULL})
    /\ DOMAIN heap \subseteq 1 .. copies
    /\ faults \subseteq {"double_free", "use_after_free"}

\* Whatever was inserted and deleted, the capacity is the initial one doubled
\* some times and, above it, less than four times the size. vector.h:49 asks to
\* halve the array when the new size is a quarter of the capacity or less,
\* vector.c:99 does from a half on: this is the bound that both keep, if the
\* halving is repeated until it ends (vector.h:50, vector.c:100).
CapacityTight ==
    /\ \E k \in 0 .. capacity : capacity = INITIAL_CAPACITY * pow2[k]
    /\ capacity > INITIAL_CAPACITY => capacity < 4 * size

\* A vector that was never resized below its size, nor told to set an entry to
\* itself, frees each copy it made exactly once.
FreedOnce ==
    /\ TypeOK
    /\ ~shrunk /\ ~self_set =>
          /\ faults = {}
          /\ destroyed => heap = << >>

\* The entries, as a list of values.
Contents == [i \in 1 .. IF destroyed THEN 0 ELSE size |->
               IF array[i] = NULL THEN NULL
               ELSE IF array[i] \in DOMAIN heap THEN heap[array[i]] ELSE "dangling"]
List == INSTANCE AbstractList WITH contents <- Contents

\* A call does to the list what the operation of its name does, with the
\* arguments of that call.
AsCalled ==
    /\ \A n \in 0 .. size' : Vector_resize(n) => List!Resize(n)
    /\ \A i \in 1 .. size : Vector_delete(i) => List!Delete(i)
    /\ \A v \in Values \cup {NULL} :
          /\ \A i \in 1 .. size : Vector_set(i, v) => List!Set(i, v)
          /\ \A i \in 1 .. size' : Vector_insert(i, v) => List!Insert(i, v)
          /\ Vector_append(v) => List!Insert(size + 1, v)
    /\ Vector_destroy => List!Resize(0)

\* Until something is freed twice or used after it was freed, every call does to
\* the entries what vector.h says of it, and nothing else changes them: no entry
\* is lost, none changes its value and none dangles, whatever the resizes before
\* it left in the slots.
ImplementsList ==
    List!Init /\ [][faults' = {} => AsCalled /\ (List!Next \/ UNCHANGED Contents)]_vars

\* What vector.h:25-27 and 41-42 say: resizing deallocates the entries past the
\* new end, destroying those before it. Nothing is freed twice then.
NoDoubleFree == "double_free" \notin faults
=============================================================================
