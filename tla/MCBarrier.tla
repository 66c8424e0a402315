------------------------------ MODULE MCBarrier ------------------------------
(* Three threads that solve with one barrier, which they use six times, with a *)
(* counter of one bit: times_used wraps on every second use.                   *)
EXTENDS Poisson
=============================================================================
