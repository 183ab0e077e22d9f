---------------------------- MODULE BoundTextures ----------------------------
(***************************************************************************)
(* The run of a script, together with what the script has bound: a history *)
(* of the BIND_TEXTURE commands that succeeded.                            *)
(***************************************************************************)
EXTENDS ShaderTrap

VARIABLE lastBound      \* the texture of the last BIND_TEXTURE to a unit, or 0

BindsTexture == phase = "execute" /\ pending.op = "BIND_TEXTURE" /\ phase' = "check"

RecordBinding ==
    lastBound' = IF BindsTexture
                   THEN [lastBound EXCEPT ![pending.unit] = execTextures[pending.texture]]
                   ELSE lastBound

BoundInit == Init /\ lastBound = [u \in TextureUnit |-> 0]

BoundNext == Next /\ RecordBinding

BoundSpec == BoundInit /\ [][BoundNext]_<<vars, lastBound>>

\* A texture that BIND_TEXTURE bound to a unit is the one sampled through that unit
\* until another BIND_TEXTURE to it (docs, BIND_TEXTURE).  Not so: creating a
\* texture and setting a texture's parameters bind it to the active unit.
TexturesStayBound ==
    Running => \A u \in TextureUnit :
        lastBound[u] # 0 => gl.unitTexture[u] = lastBound[u]
=============================================================================
