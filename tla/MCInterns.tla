------------------------------ MODULE MCInterns ------------------------------
(* One to three companies at one to four interns: rings that close (as many   *)
(* companies as interns), that wrap (more) and that stay open (fewer), and    *)
(* the single intern who is on both sides.                                    *)
EXTENDS Interns
=============================================================================
