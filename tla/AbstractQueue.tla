---------------------------- MODULE AbstractQueue ----------------------------
(***************************************************************************)
(* What a concurrent FIFO queue promises: every item put into it comes out *)
(* at most once and in the order in which the items went in.               *)
(***************************************************************************)
EXTENDS Sequences

CONSTANT Items

VARIABLES contents,   \* what is in the queue, the oldest item first
          delivered   \* history: what came out, in order

vars == <<contents, delivered>>

Init == contents = <<>> /\ delivered = <<>>

Put(i) ==
    /\ contents' = Append(contents, i)
    /\ UNCHANGED delivered

Get ==
    /\ contents # <<>>
    /\ contents'  = Tail(contents)
    /\ delivered' = Append(delivered, Head(contents))

\* The owner drops the queue with whatever is still in it.
Discard ==
    /\ contents' = <<>>
    /\ UNCHANGED delivered

Next == Get \/ Discard \/ \E i \in Items : Put(i)

Spec == Init /\ [][Next]_vars
=============================================================================
