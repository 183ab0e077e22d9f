--------------------------- MODULE MCBoundTextures ---------------------------
(***************************************************************************)
(* Three textures and two units: two may be bound while a third is         *)
(* created or configured.                                                  *)
(***************************************************************************)
EXTENDS BoundTextures

MCIdentifier == {"t1", "t2", "t3"}

MCCommands ==
    {[op |-> "CREATE_EMPTY_TEXTURE_2D", result |-> t] : t \in MCIdentifier}
    \cup {[op |-> "BIND_TEXTURE", texture |-> t, unit |-> u] :
            t \in {"t1", "t2"}, u \in {0, 1}}
    \cup {[op |-> "SET_TEXTURE_PARAMETER", texture |-> t] : t \in MCIdentifier}

OnlyGL45 == {GL(4, 5)}
=============================================================================
