-------------------------------- MODULE MCMmu ---------------------------------
(* Two processes with two addresses each, asked for twice, a TLB of three      *)
(* nodes and page numbers of one bit: 0 and 1 lie in one page, 2 next to it,   *)
(* 12 in another part of the tree.                                             *)
EXTENDS Mmu

Addresses == {0, 1, 2, 12}
=============================================================================
