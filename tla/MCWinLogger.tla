---------------------------- MODULE MCWinLogger -----------------------------
(***************************************************************************)
(* WinLogger for TLC: symmetry of the threads and of the handles.          *)
(***************************************************************************)
EXTENDS WinLogger, TLC

Symmetry == Permutations(Thread) \cup Permutations(Handle)
=============================================================================
