------------------------------ MODULE MCLogger ------------------------------
(***************************************************************************)
(* Logger for TLC: symmetry of the threads.                                *)
(***************************************************************************)
EXTENDS Logger, TLC

Symmetry == Permutations(Thread)
=============================================================================
