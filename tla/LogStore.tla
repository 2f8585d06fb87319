------------------------------ MODULE LogStore ------------------------------
(***************************************************************************)
(* What a log promises its readers, whatever files it is kept in: a line   *)
(* that has been written stays readable, and lines come one at a time.     *)
(***************************************************************************)
VARIABLE kept   \* the lines a reader of the directory finds

Init == kept = {}

Write == kept \subseteq kept' /\ \E line \in kept' : kept' \ kept = {line}

Spec == Init /\ [][Write]_kept
=============================================================================
