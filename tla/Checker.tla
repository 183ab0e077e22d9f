------------------------------ MODULE Checker -------------------------------
(***************************************************************************)
(* shadertrap::Checker (checker.cc): the static check of one command at a  *)
(* time, against what the earlier commands of the script produced.         *)
(*                                                                         *)
(* Each handler is an action Check<Command>(c, ok): ok is what the C++     *)
(* method returns.  A handler that returns false has reported at least one *)
(* error; nothing in it is undone.                                         *)
(***************************************************************************)
EXTENDS Script

VARIABLES
    usedIdentifiers,        \* keys of used_identifiers_
    declaredShaders,        \* identifier -> shader kind
    compiledShaders,        \* identifier -> the declared shader it was compiled from
    createdPrograms,        \* identifier -> the compiled shaders listed
    createdBuffers,         \* identifier -> size in bytes
    createdRenderbuffers,   \* identifier -> dimensions
    createdSamplers,        \* keys of created_samplers_
    createdTextures,        \* keys of created_textures_
    glslangShaders,         \* keys of glslang_shaders_
    glslangPrograms         \* keys of glslang_programs_

objectMaps == <<createdBuffers, createdRenderbuffers, createdSamplers, createdTextures>>
shaderMaps == <<declaredShaders, compiledShaders, glslangShaders>>
programMaps == <<createdPrograms, glslangPrograms>>
checkerVars == <<usedIdentifiers, objectMaps, shaderMaps, programMaps>>

Dimensions == [width : Nat, height : Nat]

CheckerTypeOK ==
    /\ usedIdentifiers \subseteq Identifier
    /\ DOMAIN declaredShaders \subseteq Identifier
    /\ \A s \in DOMAIN declaredShaders : declaredShaders[s] \in ShaderKind
    /\ DOMAIN compiledShaders \subseteq Identifier
    /\ \A s \in DOMAIN compiledShaders : compiledShaders[s] \in Identifier
    /\ DOMAIN createdPrograms \subseteq Identifier
    /\ \A p \in DOMAIN createdPrograms : createdPrograms[p] \in Seq(Identifier)
    /\ DOMAIN createdBuffers \subseteq Identifier
    /\ \A b \in DOMAIN createdBuffers : createdBuffers[b] \in Nat
    /\ DOMAIN createdRenderbuffers \subseteq Identifier
    /\ \A r \in DOMAIN createdRenderbuffers : createdRenderbuffers[r] \in Dimensions
    /\ createdSamplers \subseteq Identifier
    /\ createdTextures \subseteq Identifier
    /\ glslangShaders \subseteq Identifier
    /\ glslangPrograms \subseteq Identifier

CheckerInit ==
    /\ usedIdentifiers = {}
    /\ declaredShaders = EmptyMap
    /\ compiledShaders = EmptyMap
    /\ createdPrograms = EmptyMap
    /\ createdBuffers = EmptyMap
    /\ createdRenderbuffers = EmptyMap
    /\ createdSamplers = {}
    /\ createdTextures = {}
    /\ glslangShaders = {}
    /\ glslangPrograms = {}

-----------------------------------------------------------------------------
(***************************************************************************)
(* Identifiers.  CheckIdentifierIsFresh records the identifier as used     *)
(* when it was fresh, whatever the rest of the handler decides.            *)
(***************************************************************************)
Fresh(id) == id \notin usedIdentifiers

UseIdentifier(id) == usedIdentifiers' = usedIdentifiers \cup {id}

\* Mutant: OpenGL ES is forgotten.
ComputeUnsupportedOnGL == version.api = "GL" /\ Below(version, GL(4, 3))

\* What a single compute shader, or a vertex and a fragment shader, must be
\* compiled for: Checker::VisitDeclareShader's version test.
ComputeUnsupported ==
    \/ version.api = "GL" /\ Below(version, GL(4, 3))
    \/ version.api = "GLES" /\ Below(version, GLES(3, 1))

-----------------------------------------------------------------------------
(***************************************************************************)
(* Commands that produce a result.                                         *)
(***************************************************************************)
\* Mutant: the parsed shader is dropped at the end of the handler.
CheckDeclareShaderOnly(c, ok) ==
    /\ Fresh(c.result)
    /\ ok
    /\ UseIdentifier(c.result)
    /\ declaredShaders' = Inserted(declaredShaders, c.result, c.kind)
    /\ UNCHANGED <<compiledShaders, glslangShaders, objectMaps, programMaps>>

CheckDeclareShader(c, ok) ==
    \/ /\ ~Fresh(c.result)
       /\ ~ok
       /\ UNCHANGED checkerVars
    \/ /\ Fresh(c.result)
       /\ UseIdentifier(c.result)
       /\ \/ \* the kind is not supported, or glslang refuses the text
             /\ ~ok
             /\ UNCHANGED shaderMaps
          \/ /\ ok
             /\ ~(c.kind = "COMPUTE" /\ ComputeUnsupported)
             /\ declaredShaders' = Inserted(declaredShaders, c.result, c.kind)
             /\ glslangShaders' = glslangShaders \cup {c.result}
             /\ UNCHANGED compiledShaders
       /\ UNCHANGED <<objectMaps, programMaps>>

\* Mutant: the shader to compile is not looked up.
CheckCompileAnyShader(c, ok) ==
    /\ ok = Fresh(c.result)
    /\ usedIdentifiers' = usedIdentifiers \cup {c.result}
    /\ compiledShaders' = IF ok THEN Inserted(compiledShaders, c.result, c.shader)
                               ELSE compiledShaders
    /\ UNCHANGED <<declaredShaders, glslangShaders, objectMaps, programMaps>>

CheckCompileShader(c, ok) ==
    \/ /\ ~Fresh(c.result)
       /\ ~ok
       /\ UNCHANGED checkerVars
    \/ /\ Fresh(c.result)
       /\ UseIdentifier(c.result)
       /\ ok = (c.shader \in DOMAIN declaredShaders)
       /\ compiledShaders' = IF ok THEN Inserted(compiledShaders, c.result, c.shader)
                                   ELSE compiledShaders
       /\ UNCHANGED <<declaredShaders, glslangShaders, objectMaps, programMaps>>

\* The stage a compiled shader was declared for.
StageOf(s) == declaredShaders[compiledShaders[s]]

\* The occurrences in the list that are of the given stage.
OfStage(shaders, stage) ==
    {i \in DOMAIN shaders :
        shaders[i] \in DOMAIN compiledShaders /\ StageOf(shaders[i]) = stage}

\* Mutant: a missing fragment shader goes unnoticed.
ProperStagesWithoutFragment(shaders) ==
    /\ \A i \in DOMAIN shaders : shaders[i] \in DOMAIN compiledShaders
    /\ OfStage(shaders, "COMPUTE") # {} \/ OfStage(shaders, "VERTEX") # {}

\* One of each of vertex and fragment, or one compute shader and nothing else.
ProperStages(shaders) ==
    /\ \A i \in DOMAIN shaders : shaders[i] \in DOMAIN compiledShaders
    /\ \A stage \in ShaderKind :
         \A i, j \in OfStage(shaders, stage) : i = j
    /\ IF OfStage(shaders, "COMPUTE") # {}
         THEN OfStage(shaders, "VERTEX") = {} /\ OfStage(shaders, "FRAGMENT") = {}
         ELSE OfStage(shaders, "VERTEX") # {} /\ OfStage(shaders, "FRAGMENT") # {}

\* Mutant: the result identifier is not checked.
CheckCreateAnyProgram(c, ok) ==
    /\ UseIdentifier(c.result)
    /\ createdPrograms' = Inserted(createdPrograms, c.result, c.shaders)
    /\ ok = ProperStages(c.shaders)
    /\ glslangPrograms' = IF ok THEN glslangPrograms \cup {c.result} ELSE glslangPrograms
    /\ UNCHANGED <<shaderMaps, objectMaps>>

\* The program is recorded as created as soon as its identifier is fresh, and
\* stays so when the shaders are then refused or glslang fails to link them.
CheckCreateProgram(c, ok) ==
    /\ IF Fresh(c.result)
         THEN /\ UseIdentifier(c.result)
              /\ createdPrograms' = Inserted(createdPrograms, c.result, c.shaders)
         ELSE UNCHANGED <<usedIdentifiers, createdPrograms>>
    /\ \/ \* refused, or glslang's link or buildReflection fails
          /\ ~ok
          /\ UNCHANGED glslangPrograms
       \/ /\ ok
          /\ Fresh(c.result)
          /\ ProperStages(c.shaders)
          /\ glslangPrograms' = glslangPrograms \cup {c.result}
    /\ UNCHANGED <<shaderMaps, objectMaps>>

\* Mutant: the identifier is checked and not recorded as used.
CheckCreationWithoutUse(c, ok, insert) ==
    /\ Fresh(c.result)
    /\ ok
    /\ insert
    /\ UNCHANGED <<usedIdentifiers, shaderMaps, programMaps>>

\* Mutant: any identifier will do.
CheckCreationOfAny(c, ok, insert) ==
    /\ ok
    /\ UseIdentifier(c.result)
    /\ insert
    /\ UNCHANGED <<shaderMaps, programMaps>>

\* The shape of the handlers that only require a fresh result.
CheckCreation(c, ok, insert) ==
    \/ /\ ~Fresh(c.result)
       /\ ~ok
       /\ UNCHANGED checkerVars
    \/ /\ Fresh(c.result)
       /\ ok
       /\ UseIdentifier(c.result)
       /\ insert
       /\ UNCHANGED <<shaderMaps, programMaps>>

CheckCreateBuffer(c, ok) ==
    CheckCreation(c, ok,
        /\ createdBuffers' = Inserted(createdBuffers, c.result, c.size)
        /\ UNCHANGED <<createdRenderbuffers, createdSamplers, createdTextures>>)

CheckCreateSampler(c, ok) ==
    CheckCreation(c, ok,
        /\ createdSamplers' = createdSamplers \cup {c.result}
        /\ UNCHANGED <<createdBuffers, createdRenderbuffers, createdTextures>>)

\* Mutant: the identifier is not checked.
CheckCreateAnyTexture(c, ok) ==
    /\ ok
    /\ UseIdentifier(c.result)
    /\ createdTextures' = createdTextures \cup {c.result}
    /\ UNCHANGED <<createdBuffers, createdRenderbuffers, createdSamplers,
                   shaderMaps, programMaps>>

CheckCreateEmptyTexture2D(c, ok) ==
    CheckCreation(c, ok,
        /\ createdTextures' = createdTextures \cup {c.result}
        /\ UNCHANGED <<createdBuffers, createdRenderbuffers, createdSamplers>>)

CheckCreateRenderbuffer(c, ok) ==
    CheckCreation(c, ok,
        /\ createdRenderbuffers' =
             Inserted(createdRenderbuffers, c.result,
                      [width |-> c.width, height |-> c.height])
        /\ UNCHANGED <<createdBuffers, createdSamplers, createdTextures>>)

-----------------------------------------------------------------------------
(***************************************************************************)
(* Commands that refer to earlier results.  They change nothing; the       *)
(* verdict is the conjunction of the conditions each handler reports on.   *)
(***************************************************************************)
Verdict(ok, accepted) ==
    /\ ok = accepted
    /\ UNCHANGED checkerVars

IsProgram(id, numShaders) ==
    /\ id \in DOMAIN createdPrograms
    /\ Len(createdPrograms[id]) = numShaders

AreRenderbuffers(pair) ==
    {pair[1], pair[2]} \subseteq DOMAIN createdRenderbuffers

AreBuffers(pair) == {pair[1], pair[2]} \subseteq DOMAIN createdBuffers

\* CheckRenderbufferDimensionsMatch
DimensionsMatch(pair) ==
    createdRenderbuffers[pair[1]] = createdRenderbuffers[pair[2]]

CheckAssertEqualBuffers(c, ok) ==
    Verdict(ok,
        /\ AreBuffers(c.arguments)
        /\ createdBuffers[c.arguments[1]] = createdBuffers[c.arguments[2]]
        /\ c.format # <<>> =>
             /\ EntriesWellFormed(c.format)
             /\ FormatBytes(c.format) = createdBuffers[c.arguments[1]])

CheckAssertEqualRenderbuffers(c, ok) ==
    Verdict(ok, AreRenderbuffers(c.arguments) /\ DimensionsMatch(c.arguments))

\* The rectangle is not empty and lies within the renderbuffer's own size.
CheckAssertPixels(c, ok) ==
    Verdict(ok,
        /\ c.renderbuffer \in DOMAIN createdRenderbuffers
        /\ c.width > 0 /\ c.height > 0
        /\ c.x + c.width <= createdRenderbuffers[c.renderbuffer].width
        /\ c.y + c.height <= createdRenderbuffers[c.renderbuffer].height)

CheckAssertSimilarEmdHistogram(c, ok) ==
    Verdict(ok, AreRenderbuffers(c.arguments) /\ DimensionsMatch(c.arguments))

CheckBindSampler(c, ok) == Verdict(ok, c.sampler \in createdSamplers)

CheckBindShaderStorageBuffer(c, ok) == Verdict(ok, c.buffer \in DOMAIN createdBuffers)

CheckBindTexture(c, ok) == Verdict(ok, c.texture \in createdTextures)

CheckBindUniformBuffer(c, ok) == Verdict(ok, c.buffer \in DOMAIN createdBuffers)

CheckDumpRenderbuffer(c, ok) ==
    Verdict(ok, c.renderbuffer \in DOMAIN createdRenderbuffers)

CheckDumpBufferBinary(c, ok) == Verdict(ok, c.buffer \in DOMAIN createdBuffers)

CheckDumpBufferText(c, ok) ==
    Verdict(ok,
        /\ c.buffer \in DOMAIN createdBuffers
        /\ EntriesWellFormed(c.format)
        /\ FormatBytes(c.format) = createdBuffers[c.buffer])

\* A program of one shader is taken to be a compute program, one of two
\* shaders a graphics program.
CheckRunCompute(c, ok) == Verdict(ok, IsProgram(c.program, 1))

\* Mutant: the attachment keys are not looked at.
CheckRunGraphicsAnyKey(c, ok) ==
    Verdict(ok,
        /\ IsProgram(c.program, 2)
        /\ c.vertexBuffers \cup {c.indexBuffer} \subseteq DOMAIN createdBuffers
        /\ \A attachment \in c.attachments :
             attachment[2] \in DOMAIN createdRenderbuffers \cup createdTextures)

CheckRunGraphics(c, ok) ==
    Verdict(ok,
        /\ IsProgram(c.program, 2)
        /\ c.vertexBuffers \cup {c.indexBuffer} \subseteq DOMAIN createdBuffers
        /\ \A attachment \in c.attachments :
             /\ version = GLES(2, 0) => attachment[1] = 0
             /\ attachment[2] \in DOMAIN createdRenderbuffers \cup createdTextures)

CheckSetSamplerParameter(c, ok) == Verdict(ok, c.sampler \in createdSamplers)

CheckSetTextureParameter(c, ok) == Verdict(ok, c.texture \in createdTextures)

\* Neither the location or name nor the number of values is looked at.
CheckSetUniform(c, ok) == Verdict(ok, c.program \in DOMAIN createdPrograms)

-----------------------------------------------------------------------------
\* Command::Accept: double dispatch to the handler of the command's class.
CheckHandler(c, ok) ==
    \/ c.op = "DECLARE_SHADER" /\ CheckDeclareShader(c, ok)
    \/ c.op = "COMPILE_SHADER" /\ CheckCompileShader(c, ok)
    \/ c.op = "CREATE_PROGRAM" /\ CheckCreateProgram(c, ok)
    \/ c.op = "CREATE_BUFFER" /\ CheckCreateBuffer(c, ok)
    \/ c.op = "CREATE_SAMPLER" /\ CheckCreateSampler(c, ok)
    \/ c.op = "CREATE_EMPTY_TEXTURE_2D" /\ CheckCreateEmptyTexture2D(c, ok)
    \/ c.op = "CREATE_RENDERBUFFER" /\ CheckCreateRenderbuffer(c, ok)
    \/ c.op = "BIND_SAMPLER" /\ CheckBindSampler(c, ok)
    \/ c.op = "BIND_TEXTURE" /\ CheckBindTexture(c, ok)
    \/ c.op = "BIND_SHADER_STORAGE_BUFFER" /\ CheckBindShaderStorageBuffer(c, ok)
    \/ c.op = "BIND_UNIFORM_BUFFER" /\ CheckBindUniformBuffer(c, ok)
    \/ c.op = "ASSERT_EQUAL_BUFFERS" /\ CheckAssertEqualBuffers(c, ok)
    \/ c.op = "ASSERT_EQUAL_RENDERBUFFERS" /\ CheckAssertEqualRenderbuffers(c, ok)
    \/ c.op = "ASSERT_PIXELS" /\ CheckAssertPixels(c, ok)
    \/ c.op = "ASSERT_SIMILAR_EMD_HISTOGRAM" /\ CheckAssertSimilarEmdHistogram(c, ok)
    \/ c.op = "DUMP_RENDERBUFFER" /\ CheckDumpRenderbuffer(c, ok)
    \/ c.op = "DUMP_BUFFER_BINARY" /\ CheckDumpBufferBinary(c, ok)
    \/ c.op = "DUMP_BUFFER_TEXT" /\ CheckDumpBufferText(c, ok)
    \/ c.op = "RUN_COMPUTE" /\ CheckRunCompute(c, ok)
    \/ c.op = "RUN_GRAPHICS" /\ CheckRunGraphics(c, ok)
    \/ c.op = "SET_SAMPLER_PARAMETER" /\ CheckSetSamplerParameter(c, ok)
    \/ c.op = "SET_TEXTURE_PARAMETER" /\ CheckSetTextureParameter(c, ok)
    \/ c.op = "SET_UNIFORM" /\ CheckSetUniform(c, ok)

\* Every handler that returns false has reported an error, and only those have.
Check(c, ok) == CheckHandler(c, ok) /\ Reports(~ok)

\* VisitDumpBufferText reports a wrong byte count at GetFormatEntries()[0],
\* which does not exist when FORMAT was followed by no entry.
CheckUndefined(c) ==
    /\ c.op = "DUMP_BUFFER_TEXT"
    /\ c.buffer \in DOMAIN createdBuffers
    /\ c.format = <<>>
    /\ createdBuffers[c.buffer] # 0
=============================================================================
