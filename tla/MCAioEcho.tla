----------------------------- MODULE MCAioEcho ------------------------------
(***************************************************************************)
(* AioEcho for TLC: symmetry of the connections and of the heap slots.     *)
(***************************************************************************)
EXTENDS AioEcho, TLC

Symmetry == Permutations(Conn) \cup Permutations(Obj)
=============================================================================
