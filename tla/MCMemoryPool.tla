---------------------------- MODULE MCMemoryPool ----------------------------
(***************************************************************************)
(* MemoryPool for TLC.                                                     *)
(***************************************************************************)
EXTENDS MemoryPool
=============================================================================
