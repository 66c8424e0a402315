-------------------------------- MODULE Lookup --------------------------------
(***************************************************************************)
(* lookup1.c and lookup2.c of Lab/Mad_Mad_Access_Pattern: words looked up  *)
(* in a binary search tree that is stored in a file. One reads the nodes   *)
(* with fseek and fread and the other maps the file; they visit the same   *)
(* ones. Words are numbers, in their order.                                *)
(*                                                                         *)
(* The file is the sequence of its nodes, the root first; an offset is a   *)
(* place in it, and 0 is no child. A file has at least a root: on one with *)
(* nothing but "BTRE" in it lookup1 waits for a NUL beyond the end.        *)
(***************************************************************************)
EXTENDS Integers, Sequences, SequencesExt, FiniteSetsExt

CONSTANTS Words, MaxLookups    \* bound: how many words are asked for

ASSUME WordsAssumption == IsFiniteSet(Words) /\ Words \subseteq Int /\ MaxLookups \in Nat

VARIABLES
    file,
    wanted,       \* the words on the command line, argv + 2
    offset,       \* where in the file the search for the first of them is
    answers       \* what was printed: the word, and whether it was found

lookups == <<file, wanted, offset, answers>>

\* The nodes of a tree that these words were inserted into one after the other:
\* the first of those on a side of node k that no node above k keeps away from it.
Tree(ws) ==
    LET Below(k) == {j \in k + 1 .. Len(ws) : \A m \in 1 .. k - 1 : (ws[j] < ws[m]) = (ws[k] < ws[m])}
        First(js) == IF js = {} THEN 0 ELSE Min(js)
    IN  [k \in DOMAIN ws |->
           [word |-> ws[k],
            left_child  |-> First({j \in Below(k) : ws[j] < ws[k]}),
            right_child |-> First({j \in Below(k) : ws[j] > ws[k]})]]

LookUp(ws, asked) == file = Tree(ws) /\ wanted = asked /\ offset = 1 /\ answers = {}

LookupInit ==
    \E S \in (SUBSET Words) \ {{}} : \E ws \in SetToSeqs(S), n \in 1 .. MaxLookups :
        \E asked \in [1 .. n -> Words] : LookUp(ws, asked)

-----------------------------------------------------------------------------
\* The next word, from the root.
Answer(found) ==
    /\ answers' = answers \cup {<<Head(wanted), found>>}
    /\ wanted' = Tail(wanted)
    /\ offset' = 1
    /\ UNCHANGED file

\* Variant: the sides are swapped.
Child_Swapped(node, word) == IF word < node.word THEN node.right_child ELSE node.left_child

Child(node, word) == IF word < node.word THEN node.left_child ELSE node.right_child

\* One turn of the loop: compareRes is 0, or there is a child to go to, or not.
Visit ==
    LET node  == file[offset]
        child == Child(node, Head(wanted))
    IN  /\ wanted # << >>
        /\ \/ node.word = Head(wanted) /\ Answer(TRUE)
           \/ node.word # Head(wanted) /\ child = 0 /\ Answer(FALSE)
           \/ /\ node.word # Head(wanted) /\ child # 0
              /\ offset' = child
              /\ UNCHANGED <<file, wanted, answers>>

-----------------------------------------------------------------------------
\* A word is found if and only if it is in the file, whatever the shape of the
\* tree and whatever was looked up before it.
LookupsRight ==
    \A a \in answers : a[2] = (\E k \in DOMAIN file : file[k].word = a[1])
=============================================================================
