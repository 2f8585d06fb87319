---------------------------- MODULE MCAioReadAll ----------------------------
(***************************************************************************)
(* AioReadAll for TLC: symmetry of the connections and of the heap slots.  *)
(***************************************************************************)
EXTENDS AioReadAll, TLC

Symmetry == Permutations(Conn) \cup Permutations(Obj)
=============================================================================
