--------------------------------- MODULE Tlb ----------------------------------
(***************************************************************************)
(* The cache of Lab/Ideal_Indirection/tlb.c: a linked list of nodes, the   *)
(* one used last in front. It never becomes empty: TLB_create makes a      *)
(* sentinel that looks like page 0 of process 0 with no frame.             *)
(***************************************************************************)
EXTENDS Naturals, SequencesExt

CONSTANTS MAX_NODES, NULL

Node(key, pid, value) == [key |-> key, pid |-> pid, value |-> value]

Sentinel == Node(0, 0, NULL)
TLB_create == <<Sentinel>>

\* Variant: the process is not looked at.
PlaceOf_AnyProcess(tlb, key, pid) == SelectInSeq(tlb, LAMBDA n : n.key = key)

\* The first node of this page, 0 if there is none.
PlaceOf(tlb, key, pid) == SelectInSeq(tlb, LAMBDA n : n.key = key /\ n.pid = pid)

TLB_get_physical_address(tlb, key, pid) ==
    LET i == PlaceOf(tlb, key, pid)
    IN  IF i = 0 THEN NULL ELSE tlb[i].value

\* Variant: the node found stays where it is.
Promoted_Never(tlb, key, pid) == tlb

\* The list that TLB_get_physical_address leaves behind.
Promoted(tlb, key, pid) ==
    LET i == PlaceOf(tlb, key, pid)
    IN  IF i = 0 THEN tlb ELSE <<tlb[i]>> \o RemoveAt(tlb, i)

\* num_nodes starts at 2, but a list of one node has no tail to evict.
TLB_add_physical_address(tlb, key, pid, value) ==
    <<Node(key, pid, value)>>
        \o (IF Len(tlb) > 1 /\ Len(tlb) >= MAX_NODES THEN Front(tlb) ELSE tlb)
=============================================================================
