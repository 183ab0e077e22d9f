------------------------------ MODULE MCEglMain ------------------------------
(***************************************************************************)
(* The device loop with every list of up to four arguments.                *)
(***************************************************************************)
EXTENDS EglMain

MCArgumentLists == UNION {[1 .. n -> Argument] : n \in 0 .. 4}
==============================================================================
