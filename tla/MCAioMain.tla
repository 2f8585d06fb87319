----------------------------- MODULE MCAioMain ------------------------------
(***************************************************************************)
(* AioMain for TLC.                                                        *)
(***************************************************************************)
EXTENDS AioMain
=============================================================================
