---------------------------- MODULE ContextProofs ----------------------------
(***************************************************************************)
(* Proofs about what one command leaves in the OpenGL context for the      *)
(* next, and about the objects that identifiers denote, for every set of   *)
(* commands, every API version and every length of script.                 *)
(***************************************************************************)
EXTENDS ShaderTrapProofs, FiniteSetTheorems

-----------------------------------------------------------------------------
(***************************************************************************)
(* What a handler does to the context.                                     *)
(***************************************************************************)
\* A counter of objects, after a command that succeeded.
After(c, op, made) == IF c.op = op THEN made + 1 ELSE made

\* What a command that succeeds has done to the context.
ContextAfter(c) ==
    /\ gl'.shaders = After(c, "COMPILE_SHADER", gl.shaders)
    /\ gl'.programs = After(c, "CREATE_PROGRAM", gl.programs)
    /\ gl'.samplers = After(c, "CREATE_SAMPLER", gl.samplers)
    /\ gl'.textures = After(c, "CREATE_EMPTY_TEXTURE_2D", gl.textures)
    /\ gl'.buffers =
         IF c.op = "CREATE_BUFFER" THEN Append(gl.buffers, c.size) ELSE gl.buffers
    /\ gl'.renderbuffers =
         IF c.op = "CREATE_RENDERBUFFER"
           THEN Append(gl.renderbuffers, [width |-> c.width, height |-> c.height])
           ELSE gl.renderbuffers
    /\ gl'.mapped = gl.mapped
    /\ c.op \notin {"ASSERT_PIXELS", "ASSERT_SIMILAR_EMD_HISTOGRAM"} =>
         gl'.framebuffers = gl.framebuffers

\* Each handler that succeeds makes the object its command is for, and undoes whatever else
\* it did.
LEMMA SuccessInContext ==
    ASSUME NEW c \in Commands, gl \in GlState, ExecuteHandler(c, TRUE)
    PROVE  ContextAfter(c)
<1> USE DEF GlCalls, GlCallsThenCompare, ContextAfter, After, GlState
<1>2. CASE c.op = "DECLARE_SHADER" /\ ExecuteDeclareShader(c, TRUE)
  BY <1>2 DEF ExecuteDeclareShader
<1>3. CASE c.op = "COMPILE_SHADER" /\ ExecuteCompileShader(c, TRUE)
  BY <1>3 DEF ExecuteCompileShader
<1>4. CASE c.op = "CREATE_PROGRAM" /\ ExecuteCreateProgram(c, TRUE)
  BY <1>4 DEF ExecuteCreateProgram
<1>5. CASE c.op = "CREATE_BUFFER" /\ ExecuteCreateBuffer(c, TRUE)
  BY <1>5 DEF ExecuteCreateBuffer
<1>6. CASE c.op = "CREATE_SAMPLER" /\ ExecuteCreateSampler(c, TRUE)
  BY <1>6 DEF ExecuteCreateSampler
<1>7. CASE c.op = "CREATE_EMPTY_TEXTURE_2D" /\ ExecuteCreateEmptyTexture2D(c, TRUE)
  BY <1>7 DEF ExecuteCreateEmptyTexture2D
<1>8. CASE c.op = "CREATE_RENDERBUFFER" /\ ExecuteCreateRenderbuffer(c, TRUE)
  BY <1>8 DEF ExecuteCreateRenderbuffer
<1>9. CASE \/ c.op = "BIND_SAMPLER" /\ ExecuteBindSampler(c, TRUE)
           \/ c.op = "BIND_SHADER_STORAGE_BUFFER" /\ ExecuteBindShaderStorageBuffer(c, TRUE)
           \/ c.op = "BIND_UNIFORM_BUFFER" /\ ExecuteBindUniformBuffer(c, TRUE)
           \/ c.op = "BIND_TEXTURE" /\ ExecuteBindTexture(c, TRUE)
           \/ c.op = "SET_TEXTURE_PARAMETER" /\ ExecuteSetTextureParameter(c, TRUE)
  BY <1>9 DEF ExecuteBindSampler, ExecuteBindShaderStorageBuffer, ExecuteBindUniformBuffer,
              ExecuteBindTexture, ExecuteSetTextureParameter
<1>10. CASE \/ c.op = "SET_SAMPLER_PARAMETER" /\ ExecuteSetSamplerParameter(c, TRUE)
            \/ c.op = "SET_UNIFORM" /\ ExecuteSetUniform(c, TRUE)
            \/ c.op = "RUN_COMPUTE" /\ ExecuteRunCompute(c, TRUE)
            \/ c.op = "RUN_GRAPHICS" /\ ExecuteRunGraphics(c, TRUE)
            \/ c.op = "DUMP_RENDERBUFFER" /\ ExecuteDumpRenderbuffer(c, TRUE)
            \/ c.op = "ASSERT_EQUAL_BUFFERS" /\ ExecuteAssertEqualBuffers(c, TRUE)
            \/ c.op \in {"DUMP_BUFFER_BINARY", "DUMP_BUFFER_TEXT"} /\ DumpBuffer(c, TRUE)
  BY <1>10 DEF ExecuteSetSamplerParameter, ExecuteSetUniform, ExecuteRunCompute,
               ExecuteRunGraphics, ExecuteDumpRenderbuffer, ExecuteAssertEqualBuffers,
               DumpBuffer
<1>11. CASE \/ c.op = "ASSERT_PIXELS" /\ ExecuteAssertPixels(c, TRUE)
            \/ c.op = "ASSERT_EQUAL_RENDERBUFFERS" /\ ExecuteAssertEqualRenderbuffers(c, TRUE)
            \/ /\ c.op = "ASSERT_SIMILAR_EMD_HISTOGRAM"
               /\ ExecuteAssertSimilarEmdHistogram(c, TRUE)
  BY <1>11 DEF ExecuteAssertPixels, ExecuteAssertEqualRenderbuffers, Generated,
               ExecuteAssertSimilarEmdHistogram, BindingRenderbuffer
<1> QED
  BY <1>2, <1>3, <1>4, <1>5, <1>6, <1>7, <1>8, <1>9, <1>10, <1>11
     DEF ExecuteHandler, ExecuteDumpBufferBinary, ExecuteDumpBufferText

\* The name stored for the result of a command of the kind, if it succeeds.
StoredAfter(c, ok, op, map, name) ==
    IF ok /\ c.op = op THEN Inserted(map, c.result, name) ELSE map

\* What a command has done to the executor's maps.
MapsAfter(c, ok) ==
    /\ execDeclaredShaders' =
         IF c.op = "DECLARE_SHADER" THEN Inserted(execDeclaredShaders, c.result, c.kind)
                                    ELSE execDeclaredShaders
    /\ execCompiledShaders' =
         StoredAfter(c, ok, "COMPILE_SHADER", execCompiledShaders, gl.shaders + 1)
    /\ execPrograms' = StoredAfter(c, ok, "CREATE_PROGRAM", execPrograms, gl.programs + 1)
    /\ execBuffers' =
         StoredAfter(c, ok, "CREATE_BUFFER", execBuffers, Len(gl.buffers) + 1)
    /\ execRenderbuffers' =
         StoredAfter(c, ok, "CREATE_RENDERBUFFER", execRenderbuffers,
                     Len(gl.renderbuffers) + 1)
    /\ execSamplers' = StoredAfter(c, ok, "CREATE_SAMPLER", execSamplers, gl.samplers + 1)
    /\ execTextures' =
         StoredAfter(c, ok, "CREATE_EMPTY_TEXTURE_2D", execTextures, gl.textures + 1)

\* A handler stores the name of the object it made, in the map of its kind, and only if it
\* succeeds.
LEMMA StoresWhatItMakes ==
    ASSUME NEW c \in Commands, NEW ok, gl \in GlState, ExecuteHandler(c, ok)
    PROVE  MapsAfter(c, ok)
<1> USE DEF MapsAfter, StoredAfter, execMaps, execShaderMaps, execObjectMaps, GlState
<1>1. CASE c.op \notin CreationOps
  BY <1>1, UseKeepsMaps DEF CreationOps
<1>2. CASE c.op = "DECLARE_SHADER" /\ ExecuteDeclareShader(c, ok)
  BY <1>2 DEF ExecuteDeclareShader
<1>3. CASE c.op = "COMPILE_SHADER" /\ ExecuteCompileShader(c, ok)
  BY <1>3 DEF ExecuteCompileShader
<1>4. CASE c.op = "CREATE_PROGRAM" /\ ExecuteCreateProgram(c, ok)
  BY <1>4 DEF ExecuteCreateProgram
<1>5. CASE c.op = "CREATE_BUFFER" /\ ExecuteCreateBuffer(c, ok)
  <2>1. Len(Append(gl.buffers, c.size)) = Len(gl.buffers) + 1
    BY <1>5, CommandFields
  <2> QED
    BY <1>5, <2>1 DEF ExecuteCreateBuffer
<1>6. CASE c.op = "CREATE_SAMPLER" /\ ExecuteCreateSampler(c, ok)
  BY <1>6 DEF ExecuteCreateSampler
<1>7. CASE c.op = "CREATE_EMPTY_TEXTURE_2D" /\ ExecuteCreateEmptyTexture2D(c, ok)
  BY <1>7 DEF ExecuteCreateEmptyTexture2D
<1>8. CASE c.op = "CREATE_RENDERBUFFER" /\ ExecuteCreateRenderbuffer(c, ok)
  <2> DEFINE extent == [width |-> c.width, height |-> c.height]
  <2>1. extent \in Extent
    BY <1>8, CommandFields DEF Extent
  <2>2. Len(Append(gl.renderbuffers, extent)) = Len(gl.renderbuffers) + 1
    BY <2>1
  <2> QED
    BY <1>8, <2>2 DEF ExecuteCreateRenderbuffer
<1> QED
  BY <1>1, <1>2, <1>3, <1>4, <1>5, <1>6, <1>7, <1>8, CreationExecutions

-----------------------------------------------------------------------------
\* Only an execution changes the context or the executor's maps.
LEMMA OnlyExecutionsChangeTheContext ==
    ASSUME [Next]_vars
    PROVE  UNCHANGED executorVars \/ ExecuteCommand
BY DEF Next, CheckCommand, EndOfScript, CrashInChecker, CrashInExecutor, vars

\* No command leaves a buffer mapped: an execution that fails on the way ends the run.
THEOREM NothingStaysMappedHolds == Spec => []NothingStaysMapped
<1>1. Init => NothingStaysMapped
  BY DEF Init, ExecutorInit, NewContext, NothingStaysMapped
<1>2. TypeOK /\ NothingStaysMapped /\ [Next]_vars => NothingStaysMapped'
  <2> SUFFICES ASSUME TypeOK, NothingStaysMapped, [Next]_vars
               PROVE  NothingStaysMapped'
    OBVIOUS
  <2>1. CASE UNCHANGED executorVars
    <3>1. phase' \in {"check", "execute", "passed"} =>
            phase \in {"check", "execute", "passed"}
      BY <2>1 DEF Next, CheckCommand, ExecuteCommand, EndOfScript, CrashInChecker,
                  CrashInExecutor, vars, runVars
    <3> QED
      BY <2>1, <3>1 DEF NothingStaysMapped, executorVars
  <2>2. CASE ExecuteCommand
    <3> PICK c \in Commands, ok \in BOOLEAN :
            ExecuteHandler(c, ok) /\ phase' = IF ok THEN "check" ELSE "failed"
      BY <2>2 DEF ExecuteCommand, TypeOK
    <3> QED
      BY <2>2, SuccessInContext
         DEF ExecuteCommand, TypeOK, ExecutorTypeOK, ContextAfter, NothingStaysMapped
  <2> QED
    BY <2>1, <2>2, OnlyExecutionsChangeTheContext
<1> QED
  BY <1>1, <1>2, TypeCorrect, PTL DEF Spec

\* Of the commands that succeed only ASSERT_PIXELS and ASSERT_SIMILAR_EMD_HISTOGRAM leave a
\* framebuffer behind.
THEOREM OnlyPixelReadsLeakFramebuffersHolds == Spec => OnlyPixelReadsLeakFramebuffers
<1>1. ASSUME TypeOK, [Next]_vars, Executed, gl'.framebuffers # gl.framebuffers
      PROVE  pending.op \in {"ASSERT_PIXELS", "ASSERT_SIMILAR_EMD_HISTOGRAM"}
  <2>1. ExecuteCommand
    BY <1>1, OnlyExecutionsChangeTheContext DEF executorVars
  <2> PICK c \in Commands : c = pending
    BY <1>1 DEF TypeOK, Executed
  <2>2. ExecuteHandler(c, TRUE)
    BY <1>1, <2>1 DEF ExecuteCommand, Executed
  <2> QED
    BY <1>1, <2>2, SuccessInContext DEF ContextAfter, TypeOK, ExecutorTypeOK
<1>2. TypeOK /\ [Next]_vars =>
        [Executed /\ gl'.framebuffers # gl.framebuffers =>
           pending.op \in {"ASSERT_PIXELS", "ASSERT_SIMILAR_EMD_HISTOGRAM"}]_vars
  BY <1>1
<1> QED
  BY <1>2, TypeCorrect, PTL DEF Spec, OnlyPixelReadsLeakFramebuffers

-----------------------------------------------------------------------------
(***************************************************************************)
(* The texture of a unit.                                                  *)
(***************************************************************************)
\* A command leaves alone the textures of all units but the active one and the one that it
\* names.
UnitsAfter(c) ==
    \A u \in TextureUnit :
        u # gl.activeUnit /\ gl'.unitTexture[u] # gl.unitTexture[u] =>
            c.op = "BIND_TEXTURE" /\ c.unit = u

\* Nor does any handler that a step may run, whatever its outcome.
LEMMA HandlersKeepOtherUnits ==
    ASSUME NEW c \in Commands, NEW ok \in BOOLEAN, gl \in GlState, ExecuteHandler(c, ok)
    PROVE  UnitsAfter(c)
<1> USE DEF GlCalls, GlCallsThenCompare, UnitsAfter, GlState
<1>1. CASE \/ c.op = "DECLARE_SHADER" /\ ExecuteDeclareShader(c, ok)
           \/ c.op = "COMPILE_SHADER" /\ ExecuteCompileShader(c, ok)
           \/ c.op = "CREATE_PROGRAM" /\ ExecuteCreateProgram(c, ok)
           \/ c.op = "CREATE_SAMPLER" /\ ExecuteCreateSampler(c, ok)
  BY <1>1 DEF ExecuteDeclareShader, ExecuteCompileShader, ExecuteCreateProgram,
              ExecuteCreateSampler
<1>2. CASE c.op = "CREATE_BUFFER" /\ ExecuteCreateBuffer(c, ok)
  BY <1>2 DEF ExecuteCreateBuffer
<1>3. CASE c.op = "CREATE_EMPTY_TEXTURE_2D" /\ ExecuteCreateEmptyTexture2D(c, ok)
  BY <1>3 DEF ExecuteCreateEmptyTexture2D
<1>4. CASE c.op = "CREATE_RENDERBUFFER" /\ ExecuteCreateRenderbuffer(c, ok)
  BY <1>4 DEF ExecuteCreateRenderbuffer
<1>5. CASE \/ c.op = "BIND_SAMPLER" /\ ExecuteBindSampler(c, ok)
           \/ c.op = "BIND_SHADER_STORAGE_BUFFER" /\ ExecuteBindShaderStorageBuffer(c, ok)
           \/ c.op = "BIND_UNIFORM_BUFFER" /\ ExecuteBindUniformBuffer(c, ok)
  BY <1>5 DEF ExecuteBindSampler, ExecuteBindShaderStorageBuffer, ExecuteBindUniformBuffer
<1>6. CASE c.op = "BIND_TEXTURE" /\ ExecuteBindTexture(c, ok)
  <2> DEFINE activated == [gl EXCEPT !.activeUnit = c.unit]
             bound == [activated EXCEPT !.unitTexture[c.unit] = execTextures[c.texture]]
  <2>1. gl' \in {gl, activated, bound}
    BY <1>6 DEF ExecuteBindTexture
  <2>2. activated.unitTexture = gl.unitTexture
    OBVIOUS
  <2>3. bound.unitTexture = [gl.unitTexture EXCEPT ![c.unit] = execTextures[c.texture]]
    BY <2>2
  <2>4. \A u \in TextureUnit : u # c.unit => gl'.unitTexture[u] = gl.unitTexture[u]
    BY <2>1, <2>2, <2>3
  <2> QED
    BY <1>6, <2>4
<1>7. CASE c.op = "SET_TEXTURE_PARAMETER" /\ ExecuteSetTextureParameter(c, ok)
  BY <1>7 DEF ExecuteSetTextureParameter
<1>8. CASE \/ c.op = "SET_SAMPLER_PARAMETER" /\ ExecuteSetSamplerParameter(c, ok)
           \/ c.op = "SET_UNIFORM" /\ ExecuteSetUniform(c, ok)
           \/ c.op = "RUN_COMPUTE" /\ ExecuteRunCompute(c, ok)
           \/ c.op = "RUN_GRAPHICS" /\ ExecuteRunGraphics(c, ok)
           \/ c.op = "DUMP_RENDERBUFFER" /\ ExecuteDumpRenderbuffer(c, ok)
           \/ c.op = "ASSERT_PIXELS" /\ ExecuteAssertPixels(c, ok)
  BY <1>8 DEF ExecuteSetSamplerParameter, ExecuteSetUniform, ExecuteRunCompute,
              ExecuteRunGraphics, ExecuteDumpRenderbuffer, ExecuteAssertPixels, Generated
<1>9. CASE \/ c.op = "ASSERT_EQUAL_BUFFERS" /\ ExecuteAssertEqualBuffers(c, ok)
           \/ c.op \in {"DUMP_BUFFER_BINARY", "DUMP_BUFFER_TEXT"} /\ DumpBuffer(c, ok)
  BY <1>9 DEF ExecuteAssertEqualBuffers, DumpBuffer
<1>10. CASE \/ c.op = "ASSERT_EQUAL_RENDERBUFFERS" /\ ExecuteAssertEqualRenderbuffers(c, ok)
            \/ /\ c.op = "ASSERT_SIMILAR_EMD_HISTOGRAM"
               /\ ExecuteAssertSimilarEmdHistogram(c, ok)
  BY <1>10 DEF ExecuteAssertEqualRenderbuffers, ExecuteAssertSimilarEmdHistogram,
               BindingRenderbuffer
<1> QED
  BY <1>1, <1>2, <1>3, <1>4, <1>5, <1>6, <1>7, <1>8, <1>9, <1>10
     DEF ExecuteHandler, ExecuteDumpBufferBinary, ExecuteDumpBufferText

\* Creating or configuring a texture replaces that of the active unit; that of any other
\* unit only BIND_TEXTURE to the unit replaces.
THEOREM OtherUnitsKeepTheirTextureHolds == Spec => OtherUnitsKeepTheirTexture
<1>1. ASSUME TypeOK, [Next]_vars, NEW u \in TextureUnit,
             u # gl.activeUnit, gl'.unitTexture[u] # gl.unitTexture[u]
      PROVE  pending.op = "BIND_TEXTURE" /\ pending.unit = u
  <2>1. ExecuteCommand
    BY <1>1, OnlyExecutionsChangeTheContext DEF executorVars
  <2> PICK c \in Commands, ok \in BOOLEAN : c = pending /\ ExecuteHandler(c, ok)
    BY <1>1, <2>1 DEF TypeOK, ExecuteCommand
  <2>2. UnitsAfter(c)
    BY <1>1, HandlersKeepOtherUnits DEF TypeOK, ExecutorTypeOK
  <2> QED
    BY <1>1, <2>2 DEF UnitsAfter
<1>2. TypeOK /\ [Next]_vars =>
        [\A u \in TextureUnit :
           u # gl.activeUnit /\ gl'.unitTexture[u] # gl.unitTexture[u] =>
              pending.op = "BIND_TEXTURE" /\ pending.unit = u]_vars
  BY <1>1
<1> QED
  BY <1>2, TypeCorrect, PTL DEF Spec, OtherUnitsKeepTheirTexture

-----------------------------------------------------------------------------
(***************************************************************************)
(* Every object made has one identifier.                                   *)
(***************************************************************************)
\* The names of a kind, as OneNameEach says, with what it takes to count them.
Numbered(map, made) == IsFiniteSet(DOMAIN map) /\ OneNameEach(map, made)

ObjectsInv ==
    phase \in {"check", "execute", "passed"} =>
        /\ Numbered(execCompiledShaders, gl.shaders)
        /\ Numbered(execPrograms, gl.programs)
        /\ Numbered(execBuffers, Len(gl.buffers))
        /\ Numbered(execRenderbuffers, Len(gl.renderbuffers))
        /\ Numbered(execSamplers, gl.samplers)
        /\ Numbered(execTextures, gl.textures)

\* Storing the next name under a new identifier keeps the names numbered.
LEMMA NextNumber ==
    ASSUME NEW map, NEW made \in Nat, Numbered(map, made), NEW key, key \notin DOMAIN map
    PROVE  Numbered(Inserted(map, key, made + 1), made + 1)
<1> DEFINE inserted == Inserted(map, key, made + 1)
<1>1. DOMAIN inserted = DOMAIN map \cup {key}
  BY DEF Inserted
<1>2. IsFiniteSet(DOMAIN inserted) /\ Cardinality(DOMAIN inserted) = made + 1
  BY <1>1, FS_AddElement DEF Numbered, OneNameEach
<1>3. NamesOf(inserted) = NamesOf(map) \cup {made + 1}
  BY DEF NamesOf, Inserted
<1>4. NamesOf(inserted) = 1 .. made + 1
  <2>1. NamesOf(map) = 1 .. made
    BY DEF Numbered, OneNameEach
  <2>2. (1 .. made) \cup {made + 1} = 1 .. (made + 1)
    OBVIOUS
  <2> QED
    BY <1>3, <2>1, <2>2
<1> QED
  BY <1>2, <1>4 DEF Numbered, OneNameEach

\* A map after a command that succeeded, its kind's objects numbered.
LEMMA KindStaysNumbered ==
    ASSUME NEW c, NEW op, NEW map, NEW made \in Nat, Numbered(map, made),
           c.op = op => c.result \notin DOMAIN map
    PROVE  Numbered(StoredAfter(c, TRUE, op, map, made + 1), After(c, op, made))
BY NextNumber DEF StoredAfter, After

\* What the executor is about to store it does not hold yet, in whatever map.
ResultIsNew(c) ==
    c.op \in CreationOps =>
        c.result \notin UNION {DOMAIN execDeclaredShaders, DOMAIN execCompiledShaders,
                               DOMAIN execPrograms, DOMAIN execBuffers,
                               DOMAIN execRenderbuffers, DOMAIN execSamplers,
                               DOMAIN execTextures}

\* The result of the pending command is held by the checker, as one kind only.
LEMMA PendingResultIsNew ==
    ASSUME LockStep, OneScope, phase = "execute"
    PROVE  ResultIsNew(pending)
<1>1. \A i, j \in 1 .. 7 :
        i # j => IdentifiersByKind[i] \cap IdentifiersByKind[j] = {}
  BY SevenKinds DEF OneScope
<1> QED
  BY <1>1 DEF LockStep, Running, Tracks, Awaited, ResultIsNew, CreationOps, IdentifiersByKind

\* No step but a failed one disturbs the numbering.
LEMMA StepKeepsNumbers ==
    ASSUME TypeOK, LockStep, OneScope, ObjectsInv, [Next]_vars
    PROVE  ObjectsInv'
<1>1. CASE UNCHANGED executorVars
  <2>1. phase' \in {"check", "execute", "passed"} => phase \in {"check", "execute", "passed"}
    BY <1>1 DEF Next, CheckCommand, ExecuteCommand, EndOfScript, CrashInChecker,
                CrashInExecutor, vars, runVars
  <2> QED
    BY <1>1, <2>1 DEF ObjectsInv, Numbered, OneNameEach, NamesOf, executorVars, execMaps,
                      execShaderMaps, execObjectMaps
<1>2. CASE ExecuteCommand
  <2> PICK c \in Commands, ok \in BOOLEAN :
          /\ c = pending
          /\ ExecuteHandler(c, ok)
          /\ phase' = IF ok THEN "check" ELSE "failed"
    BY <1>2 DEF ExecuteCommand, TypeOK
  <2>1. CASE ok
    <3>1. ContextAfter(c) /\ MapsAfter(c, TRUE) /\ ResultIsNew(c)
      BY <1>2, <2>1, SuccessInContext, StoresWhatItMakes, PendingResultIsNew
         DEF ExecuteCommand, TypeOK, ExecutorTypeOK
    <3>2. /\ gl.shaders \in Nat /\ gl.programs \in Nat /\ gl.samplers \in Nat
          /\ gl.textures \in Nat /\ Len(gl.buffers) \in Nat /\ Len(gl.renderbuffers) \in Nat
      BY DEF TypeOK, ExecutorTypeOK, GlState
    <3>3. /\ Len(gl'.buffers) = After(c, "CREATE_BUFFER", Len(gl.buffers))
          /\ Len(gl'.renderbuffers) =
               After(c, "CREATE_RENDERBUFFER", Len(gl.renderbuffers))
      BY <3>1, CommandFields
         DEF ContextAfter, After, TypeOK, ExecutorTypeOK, GlState, Extent
    <3>4. ObjectsInv /\ phase = "execute"
      BY <1>2 DEF ExecuteCommand
    <3>5. /\ Numbered(execCompiledShaders, gl.shaders)
          /\ Numbered(execPrograms, gl.programs)
          /\ Numbered(execBuffers, Len(gl.buffers))
          /\ Numbered(execRenderbuffers, Len(gl.renderbuffers))
          /\ Numbered(execSamplers, gl.samplers)
          /\ Numbered(execTextures, gl.textures)
      BY <3>4 DEF ObjectsInv
    <3>6. /\ Numbered(execCompiledShaders', gl'.shaders)
          /\ Numbered(execPrograms', gl'.programs)
          /\ Numbered(execBuffers', Len(gl'.buffers))
          /\ Numbered(execRenderbuffers', Len(gl'.renderbuffers))
          /\ Numbered(execSamplers', gl'.samplers)
          /\ Numbered(execTextures', gl'.textures)
      BY <3>1, <3>2, <3>3, <3>5, KindStaysNumbered
         DEF ContextAfter, MapsAfter, ResultIsNew, CreationOps
    <3> QED
      BY <3>6 DEF ObjectsInv, Numbered, OneNameEach, NamesOf
  <2>2. CASE ~ok
    BY <2>2 DEF ObjectsInv
  <2> QED
    BY <2>1, <2>2
<1> QED
  BY <1>1, <1>2, OnlyExecutionsChangeTheContext

\* As long as nothing fails, the objects of each kind are numbered by their identifiers.
THEOREM ObjectsInvariant == Spec => []ObjectsInv
<1>1. Init => ObjectsInv
  <2>1. Numbered(EmptyMap, 0)
    BY FS_EmptySet DEF Numbered, OneNameEach, NamesOf, EmptyMap
  <2> QED
    BY <2>1 DEF Init, ExecutorInit, NewContext, ObjectsInv
<1> QED
  BY <1>1, StepKeepsNumbers, TypeCorrect, LockStepHolds, OneScopeHolds, PTL DEF Spec

\* No object is without an identifier and none has two: insert() never meets its key.
THEOREM NoOrphansHolds == Spec => []NoOrphans
<1>1. ObjectsInv => NoOrphans
  BY DEF ObjectsInv, NoOrphans, Numbered
<1> QED
  BY <1>1, ObjectsInvariant, PTL

-----------------------------------------------------------------------------
(***************************************************************************)
(* Sizes.                                                                  *)
(***************************************************************************)
\* Whether it succeeds or not, a command changes the size of no object that was there.
SizesAfter ==
    /\ gl'.buffers = gl.buffers \/ \E n \in Nat : gl'.buffers = Append(gl.buffers, n)
    /\ \/ gl'.renderbuffers = gl.renderbuffers
       \/ \E e \in Extent : gl'.renderbuffers = Append(gl.renderbuffers, e)

\* Nor does any handler, whatever its outcome.
LEMMA HandlersKeepSizes ==
    ASSUME NEW c \in Commands, NEW ok \in BOOLEAN, gl \in GlState, ExecuteHandler(c, ok)
    PROVE  SizesAfter
<1> USE DEF GlCalls, GlCallsThenCompare, SizesAfter, GlState
<1>1. CASE \/ c.op = "DECLARE_SHADER" /\ ExecuteDeclareShader(c, ok)
           \/ c.op = "COMPILE_SHADER" /\ ExecuteCompileShader(c, ok)
           \/ c.op = "CREATE_PROGRAM" /\ ExecuteCreateProgram(c, ok)
           \/ c.op = "CREATE_SAMPLER" /\ ExecuteCreateSampler(c, ok)
  BY <1>1 DEF ExecuteDeclareShader, ExecuteCompileShader, ExecuteCreateProgram,
              ExecuteCreateSampler
<1>2. CASE c.op = "CREATE_BUFFER" /\ ExecuteCreateBuffer(c, ok)
  BY <1>2, CommandFields DEF ExecuteCreateBuffer
<1>3. CASE c.op = "CREATE_EMPTY_TEXTURE_2D" /\ ExecuteCreateEmptyTexture2D(c, ok)
  BY <1>3 DEF ExecuteCreateEmptyTexture2D
<1>4. CASE c.op = "CREATE_RENDERBUFFER" /\ ExecuteCreateRenderbuffer(c, ok)
  <2>1. [width |-> c.width, height |-> c.height] \in Extent
    BY <1>4, CommandFields DEF Extent
  <2>2. [width |-> 0, height |-> 0] \in Extent
    BY DEF Extent
  <2> QED
    BY <1>4, <2>1, <2>2 DEF ExecuteCreateRenderbuffer
<1>5. CASE \/ c.op = "BIND_SAMPLER" /\ ExecuteBindSampler(c, ok)
           \/ c.op = "BIND_SHADER_STORAGE_BUFFER" /\ ExecuteBindShaderStorageBuffer(c, ok)
           \/ c.op = "BIND_UNIFORM_BUFFER" /\ ExecuteBindUniformBuffer(c, ok)
  BY <1>5 DEF ExecuteBindSampler, ExecuteBindShaderStorageBuffer, ExecuteBindUniformBuffer
<1>6. CASE \/ c.op = "BIND_TEXTURE" /\ ExecuteBindTexture(c, ok)
           \/ c.op = "SET_TEXTURE_PARAMETER" /\ ExecuteSetTextureParameter(c, ok)
  BY <1>6 DEF ExecuteBindTexture, ExecuteSetTextureParameter
<1>7. CASE \/ c.op = "SET_SAMPLER_PARAMETER" /\ ExecuteSetSamplerParameter(c, ok)
           \/ c.op = "SET_UNIFORM" /\ ExecuteSetUniform(c, ok)
           \/ c.op = "RUN_COMPUTE" /\ ExecuteRunCompute(c, ok)
           \/ c.op = "RUN_GRAPHICS" /\ ExecuteRunGraphics(c, ok)
           \/ c.op = "DUMP_RENDERBUFFER" /\ ExecuteDumpRenderbuffer(c, ok)
           \/ c.op = "ASSERT_PIXELS" /\ ExecuteAssertPixels(c, ok)
  BY <1>7 DEF ExecuteSetSamplerParameter, ExecuteSetUniform, ExecuteRunCompute,
              ExecuteRunGraphics, ExecuteDumpRenderbuffer, ExecuteAssertPixels, Generated
<1>8. CASE \/ c.op = "ASSERT_EQUAL_BUFFERS" /\ ExecuteAssertEqualBuffers(c, ok)
           \/ c.op \in {"DUMP_BUFFER_BINARY", "DUMP_BUFFER_TEXT"} /\ DumpBuffer(c, ok)
  BY <1>8 DEF ExecuteAssertEqualBuffers, DumpBuffer
<1>9. CASE \/ c.op = "ASSERT_EQUAL_RENDERBUFFERS" /\ ExecuteAssertEqualRenderbuffers(c, ok)
           \/ /\ c.op = "ASSERT_SIMILAR_EMD_HISTOGRAM"
              /\ ExecuteAssertSimilarEmdHistogram(c, ok)
  BY <1>9 DEF ExecuteAssertEqualRenderbuffers, ExecuteAssertSimilarEmdHistogram,
              BindingRenderbuffer
<1> QED
  BY <1>1, <1>2, <1>3, <1>4, <1>5, <1>6, <1>7, <1>8, <1>9
     DEF ExecuteHandler, ExecuteDumpBufferBinary, ExecuteDumpBufferText

\* What is named was made, at the size that was declared.
Sized(map, made, declared) ==
    \A id \in DOMAIN map :
        /\ id \in DOMAIN declared
        /\ map[id] \in DOMAIN made
        /\ made[map[id]] = declared[id]

\* What the pending command is about to make, the checker has declared as such.
Declared(c) ==
    /\ c.op = "CREATE_BUFFER" =>
         c.result \in DOMAIN createdBuffers /\ createdBuffers[c.result] = c.size
    /\ c.op = "CREATE_RENDERBUFFER" =>
         /\ c.result \in DOMAIN createdRenderbuffers
         /\ createdRenderbuffers[c.result] = [width |-> c.width, height |-> c.height]

SizesInv ==
    /\ Sized(execBuffers, gl.buffers, createdBuffers)
    /\ Sized(execRenderbuffers, gl.renderbuffers, createdRenderbuffers)
    /\ phase = "execute" => Declared(pending)

\* More objects, and more declarations, keep what is there as it was.
LEMMA SizedStays ==
    ASSUME NEW map, NEW T, NEW made \in Seq(T), NEW declared, Sized(map, made, declared),
           NEW more \in Seq(T), more = made \/ (\E x \in T : more = Append(made, x)),
           NEW declaredMore,
           \A id \in DOMAIN declared :
             id \in DOMAIN declaredMore /\ declaredMore[id] = declared[id]
    PROVE  Sized(map, more, declaredMore)
<1>1. \A n \in DOMAIN made : n \in DOMAIN more /\ more[n] = made[n]
  OBVIOUS
<1> QED
  BY <1>1 DEF Sized

\* So does storing the name of an object made at its declared size.
LEMMA SizedGrows ==
    ASSUME NEW map, NEW T, NEW made \in Seq(T), NEW declared, Sized(map, made, declared),
           NEW id \in DOMAIN declared, declared[id] \in T
    PROVE  Sized(Inserted(map, id, Len(made) + 1), Append(made, declared[id]), declared)
<1> DEFINE more == Append(made, declared[id])
<1>1. \A n \in DOMAIN made : n \in DOMAIN more /\ more[n] = made[n]
  OBVIOUS
<1>2. Len(made) + 1 \in DOMAIN more /\ more[Len(made) + 1] = declared[id]
  OBVIOUS
<1> QED
  BY <1>1, <1>2 DEF Sized, Inserted

\* A check keeps the declarations there were, and an accepted one is of the pending command.
LEMMA CheckKeepsSizes ==
    ASSUME NEW c \in Commands, SizesInv, HeldAreUsed, TypeOK, CheckCommand(c)
    PROVE  SizesInv'
<1> PICK ok \in BOOLEAN :
        /\ CheckHandler(c, ok)
        /\ phase' = IF ok THEN "execute" ELSE "failed"
        /\ pending' = IF ok THEN c ELSE NoCommand
  BY DEF CheckCommand, Check
<1>1. /\ \A id \in DOMAIN createdBuffers :
           id \in DOMAIN createdBuffers' /\ createdBuffers'[id] = createdBuffers[id]
      /\ \A id \in DOMAIN createdRenderbuffers :
           /\ id \in DOMAIN createdRenderbuffers'
           /\ createdRenderbuffers'[id] = createdRenderbuffers[id]
      /\ ok => Declared(c)'
  <2> USE DEF Declared, HeldAreUsed, Fresh, Inserted, checkerVars, objectMaps, shaderMaps,
              programMaps
  <2>1. CASE c.op \notin CreationOps
    BY <2>1, UseChangesNothing DEF CreationOps
  <2>2. CASE \/ c.op = "DECLARE_SHADER" /\ CheckDeclareShader(c, ok)
             \/ c.op = "COMPILE_SHADER" /\ CheckCompileShader(c, ok)
             \/ c.op = "CREATE_PROGRAM" /\ CheckCreateProgram(c, ok)
    BY <2>2 DEF CheckDeclareShader, CheckCompileShader, CheckCreateProgram
  <2>3. CASE c.op = "CREATE_BUFFER" /\ CheckCreateBuffer(c, ok)
    BY <2>3 DEF CheckCreateBuffer, CheckCreation
  <2>4. CASE \/ c.op = "CREATE_SAMPLER" /\ CheckCreateSampler(c, ok)
             \/ c.op = "CREATE_EMPTY_TEXTURE_2D" /\ CheckCreateEmptyTexture2D(c, ok)
    BY <2>4 DEF CheckCreateSampler, CheckCreateEmptyTexture2D, CheckCreation
  <2>5. CASE c.op = "CREATE_RENDERBUFFER" /\ CheckCreateRenderbuffer(c, ok)
    BY <2>5 DEF CheckCreateRenderbuffer, CheckCreation
  <2> QED
    BY <2>1, <2>2, <2>3, <2>4, <2>5, CreationHandlers
<1>2. UNCHANGED <<execBuffers, execRenderbuffers, gl>>
  BY DEF CheckCommand, executorVars, execMaps, execObjectMaps
<1>3. gl.buffers \in Seq(Nat) /\ gl.renderbuffers \in Seq(Extent)
  BY DEF TypeOK, ExecutorTypeOK, GlState
<1>4. /\ Sized(execBuffers, gl.buffers, createdBuffers')
      /\ Sized(execRenderbuffers, gl.renderbuffers, createdRenderbuffers')
  BY <1>1, <1>3, SizedStays DEF SizesInv
<1>5. phase' = "execute" => Declared(pending)'
  BY <1>1 DEF Declared
<1> QED
  BY <1>2, <1>4, <1>5 DEF SizesInv, Sized

\* An execution makes objects of the declared size, and resizes none.
LEMMA ExecutionKeepsSizes ==
    ASSUME SizesInv, TypeOK, ExecuteCommand
    PROVE  SizesInv'
<1> PICK c \in Commands, ok \in BOOLEAN :
        /\ c = pending
        /\ ExecuteHandler(c, ok)
        /\ phase' = IF ok THEN "check" ELSE "failed"
  BY DEF ExecuteCommand, TypeOK
<1>0. gl \in GlState /\ gl.buffers \in Seq(Nat) /\ gl.renderbuffers \in Seq(Extent)
  BY DEF TypeOK, ExecutorTypeOK, GlState
<1>1. UNCHANGED <<createdBuffers, createdRenderbuffers>>
  BY DEF ExecuteCommand, checkerVars, objectMaps
<1>2. MapsAfter(c, ok) /\ SizesAfter /\ (ok => ContextAfter(c)) /\ Declared(c)
  BY <1>0, StoresWhatItMakes, HandlersKeepSizes, SuccessInContext DEF SizesInv, ExecuteCommand
<1>3. Sized(execBuffers', gl'.buffers, createdBuffers)
  <2>1. CASE ok /\ c.op = "CREATE_BUFFER"
    <3>1. createdBuffers[c.result] \in Nat
      BY <2>1, <1>2, CommandFields DEF Declared
    <3> QED
      BY <1>0, <1>2, <2>1, <3>1, SizedGrows
         DEF SizesInv, MapsAfter, StoredAfter, ContextAfter, Declared
  <2>2. CASE ~(ok /\ c.op = "CREATE_BUFFER")
    <3>1. execBuffers' = execBuffers
      BY <1>2, <2>2 DEF MapsAfter, StoredAfter
    <3>2. gl'.buffers \in Seq(Nat)
      <4>1. \A n \in Nat : Append(gl.buffers, n) \in Seq(Nat)
        BY <1>0, ContextFields
      <4> QED
        BY <1>0, <1>2, <4>1 DEF SizesAfter
    <3>3. gl'.buffers = gl.buffers \/ (\E n \in Nat : gl'.buffers = Append(gl.buffers, n))
      BY <1>2 DEF SizesAfter
    <3>4. Sized(execBuffers, gl.buffers, createdBuffers)
      BY DEF SizesInv
    <3>5. Sized(execBuffers, gl'.buffers, createdBuffers)
      BY <1>0, <3>2, <3>3, <3>4, SizedStays
    <3> QED
      BY <3>1, <3>5
  <2> QED
    BY <2>1, <2>2
<1>4. Sized(execRenderbuffers', gl'.renderbuffers, createdRenderbuffers)
  <2>1. CASE ok /\ c.op = "CREATE_RENDERBUFFER"
    <3>1. /\ c.result \in DOMAIN createdRenderbuffers
          /\ createdRenderbuffers[c.result] \in Extent
          /\ gl'.renderbuffers = Append(gl.renderbuffers, createdRenderbuffers[c.result])
      BY <2>1, <1>2, CommandFields DEF Declared, ContextAfter, Extent
    <3>2. execRenderbuffers' =
            Inserted(execRenderbuffers, c.result, Len(gl.renderbuffers) + 1)
      BY <2>1, <1>2 DEF MapsAfter, StoredAfter
    <3> QED
      BY <1>0, <3>1, <3>2, SizedGrows DEF SizesInv
  <2>2. CASE ~(ok /\ c.op = "CREATE_RENDERBUFFER")
    <3>1. execRenderbuffers' = execRenderbuffers
      BY <1>2, <2>2 DEF MapsAfter, StoredAfter
    <3>2. gl'.renderbuffers \in Seq(Extent)
      BY <1>0, <1>2 DEF SizesAfter
    <3>3. Sized(execRenderbuffers, gl'.renderbuffers, createdRenderbuffers)
      BY <1>0, <1>2, <3>2, SizedStays DEF SizesInv, SizesAfter
    <3> QED
      BY <3>1, <3>3
  <2> QED
    BY <2>1, <2>2
<1>5. phase' # "execute"
  OBVIOUS
<1> QED
  BY <1>1, <1>3, <1>4, <1>5 DEF SizesInv, Sized

\* Neither a check nor an execution, of those that fail included, tells sizes apart.
THEOREM SizesInvariant == Spec => []SizesInv
<1>1. Init => SizesInv
  BY DEF Init, CheckerInit, ExecutorInit, EmptyMap, SizesInv, Sized
<1>2. TypeOK /\ HeldAreUsed /\ SizesInv /\ [Next]_vars => SizesInv'
  <2> SUFFICES ASSUME TypeOK, HeldAreUsed, SizesInv, [Next]_vars PROVE SizesInv'
    OBVIOUS
  <2>1. ASSUME UNCHANGED <<checkerVars, executorVars>>,
               phase' = "execute" => phase = "execute" /\ pending' = pending
        PROVE  SizesInv'
    BY <2>1 DEF SizesInv, Sized, Declared, checkerVars, objectMaps, executorVars, execMaps,
                execObjectMaps
  <2>2. CASE EndOfScript \/ CrashInExecutor \/ \E c \in Commands : CrashInChecker(c)
    BY <2>1, <2>2 DEF EndOfScript, CrashInExecutor, CrashInChecker
  <2>3. CASE UNCHANGED vars
    BY <2>1, <2>3 DEF vars, runVars
  <2> QED
    BY <2>2, <2>3, CheckKeepsSizes, ExecutionKeepsSizes DEF Next
<1>3. EnvironmentInv => HeldAreUsed
  BY DEF EnvironmentInv
<1> QED
  BY <1>1, <1>2, <1>3, TypeCorrect, EnvironmentInvariant, PTL DEF Spec

\* The sizes the checker compares are those that OpenGL answers.
THEOREM DeclaredSizesAreRealHolds == Spec => []DeclaredSizesAreReal
<1>1. SizesInv => DeclaredSizesAreReal
  BY DEF SizesInv, Sized, DeclaredSizesAreReal
<1> QED
  BY <1>1, SizesInvariant, PTL

-----------------------------------------------------------------------------
(***************************************************************************)
(* The renderbuffer that is bound.                                         *)
(***************************************************************************)
\* Whatever a command that succeeds leaves bound is a renderbuffer of the script.
TargetAfter(c) ==
    IF c.op = "CREATE_RENDERBUFFER"
      THEN gl'.boundRenderbuffer = Len(gl.renderbuffers) + 1
      ELSE gl'.boundRenderbuffer \in {gl.boundRenderbuffer} \cup NamesOf(execRenderbuffers)

\* A handler that succeeds leaves a renderbuffer of the script bound, if it has one.
LEMMA SuccessLeavesATarget ==
    ASSUME NEW c \in Commands, gl \in GlState, LookupsSucceed(c), ExecuteHandler(c, TRUE)
    PROVE  TargetAfter(c)
<1> USE DEF GlCalls, GlCallsThenCompare, TargetAfter, GlState
<1>1. CASE \/ c.op = "DECLARE_SHADER" /\ ExecuteDeclareShader(c, TRUE)
           \/ c.op = "COMPILE_SHADER" /\ ExecuteCompileShader(c, TRUE)
           \/ c.op = "CREATE_PROGRAM" /\ ExecuteCreateProgram(c, TRUE)
           \/ c.op = "CREATE_SAMPLER" /\ ExecuteCreateSampler(c, TRUE)
           \/ c.op = "CREATE_BUFFER" /\ ExecuteCreateBuffer(c, TRUE)
           \/ c.op = "CREATE_EMPTY_TEXTURE_2D" /\ ExecuteCreateEmptyTexture2D(c, TRUE)
  BY <1>1 DEF ExecuteDeclareShader, ExecuteCompileShader, ExecuteCreateProgram,
              ExecuteCreateSampler, ExecuteCreateBuffer, ExecuteCreateEmptyTexture2D
<1>2. CASE c.op = "CREATE_RENDERBUFFER" /\ ExecuteCreateRenderbuffer(c, TRUE)
  <2> DEFINE empty == [width |-> 0, height |-> 0]
             generated == [gl EXCEPT !.renderbuffers = Append(@, empty)]
             bound == [generated EXCEPT !.boundRenderbuffer = Len(generated.renderbuffers)]
  <2>1. gl'.boundRenderbuffer = bound.boundRenderbuffer
    BY <1>2 DEF ExecuteCreateRenderbuffer
  <2>2. bound.boundRenderbuffer = Len(Append(gl.renderbuffers, empty))
    OBVIOUS
  <2>3. empty \in Extent
    BY DEF Extent
  <2>4. Len(Append(gl.renderbuffers, empty)) = Len(gl.renderbuffers) + 1
    BY <2>3
  <2> QED
    BY <1>2, <2>1, <2>2, <2>4
<1>3. CASE \/ c.op = "BIND_SAMPLER" /\ ExecuteBindSampler(c, TRUE)
           \/ c.op = "BIND_SHADER_STORAGE_BUFFER" /\ ExecuteBindShaderStorageBuffer(c, TRUE)
           \/ c.op = "BIND_UNIFORM_BUFFER" /\ ExecuteBindUniformBuffer(c, TRUE)
           \/ c.op = "BIND_TEXTURE" /\ ExecuteBindTexture(c, TRUE)
           \/ c.op = "SET_TEXTURE_PARAMETER" /\ ExecuteSetTextureParameter(c, TRUE)
  BY <1>3 DEF ExecuteBindSampler, ExecuteBindShaderStorageBuffer, ExecuteBindUniformBuffer,
              ExecuteBindTexture, ExecuteSetTextureParameter
<1>4. CASE \/ c.op = "SET_SAMPLER_PARAMETER" /\ ExecuteSetSamplerParameter(c, TRUE)
           \/ c.op = "SET_UNIFORM" /\ ExecuteSetUniform(c, TRUE)
           \/ c.op = "RUN_COMPUTE" /\ ExecuteRunCompute(c, TRUE)
           \/ c.op = "RUN_GRAPHICS" /\ ExecuteRunGraphics(c, TRUE)
           \/ c.op = "DUMP_RENDERBUFFER" /\ ExecuteDumpRenderbuffer(c, TRUE)
           \/ c.op = "ASSERT_PIXELS" /\ ExecuteAssertPixels(c, TRUE)
           \/ c.op = "ASSERT_EQUAL_BUFFERS" /\ ExecuteAssertEqualBuffers(c, TRUE)
           \/ c.op \in {"DUMP_BUFFER_BINARY", "DUMP_BUFFER_TEXT"} /\ DumpBuffer(c, TRUE)
  BY <1>4 DEF ExecuteSetSamplerParameter, ExecuteSetUniform, ExecuteRunCompute,
              ExecuteRunGraphics, ExecuteDumpRenderbuffer, ExecuteAssertPixels, Generated,
              ExecuteAssertEqualBuffers, DumpBuffer
<1>5. CASE \/ c.op = "ASSERT_EQUAL_RENDERBUFFERS" /\ ExecuteAssertEqualRenderbuffers(c, TRUE)
           \/ /\ c.op = "ASSERT_SIMILAR_EMD_HISTOGRAM"
              /\ ExecuteAssertSimilarEmdHistogram(c, TRUE)
  <2>1. gl'.boundRenderbuffer = execRenderbuffers[c.arguments[2]]
    BY <1>5 DEF ExecuteAssertEqualRenderbuffers, ExecuteAssertSimilarEmdHistogram,
                BindingRenderbuffer
  <2>2. c.arguments[2] \in DOMAIN execRenderbuffers
    BY <1>5 DEF LookupsSucceed
  <2> QED
    BY <1>5, <2>1, <2>2 DEF NamesOf
<1> QED
  BY <1>1, <1>2, <1>3, <1>4, <1>5
     DEF ExecuteHandler, ExecuteDumpBufferBinary, ExecuteDumpBufferText

\* Once a script has made a renderbuffer, one of its renderbuffers is bound.
TargetInv ==
    phase \in {"check", "execute", "passed"} /\ DOMAIN execRenderbuffers # {} =>
        gl.boundRenderbuffer \in NamesOf(execRenderbuffers)

\* A query of a renderbuffer's dimensions is answered for a renderbuffer of the script.
THEOREM QueriesHaveATargetHolds == Spec => []QueriesHaveATarget
<1>1. Init => TargetInv
  BY DEF Init, ExecutorInit, EmptyMap, TargetInv
<1>2. ASSUME TypeOK, LockStep, OneScope, TargetInv, [Next]_vars
      PROVE  TargetInv'
  <2>1. CASE UNCHANGED executorVars
    <3>1. phase' \in {"check", "execute", "passed"} =>
            phase \in {"check", "execute", "passed"}
      BY <1>2, <2>1 DEF Next, CheckCommand, ExecuteCommand, EndOfScript, CrashInChecker,
                  CrashInExecutor, vars, runVars
    <3> QED
      BY <1>2, <2>1, <3>1
         DEF TargetInv, NamesOf, executorVars, execMaps, execObjectMaps
  <2>2. CASE ExecuteCommand
    <3> PICK c \in Commands, ok \in BOOLEAN :
            /\ c = pending
            /\ ExecuteHandler(c, ok)
            /\ phase' = IF ok THEN "check" ELSE "failed"
      BY <1>2, <2>2 DEF ExecuteCommand, TypeOK
    <3>1. CASE ok
      <4>1. MapsAfter(c, TRUE) /\ TargetAfter(c) /\ ResultIsNew(c) /\ phase = "execute"
        BY <1>2, <2>2, <3>1, StoresWhatItMakes, SuccessLeavesATarget, PendingResultIsNew
           DEF ExecuteCommand, TypeOK, ExecutorTypeOK
      <4>2. CASE c.op = "CREATE_RENDERBUFFER"
        BY <4>1, <4>2 DEF MapsAfter, StoredAfter, TargetAfter, ResultIsNew, CreationOps,
                          TargetInv, NamesOf, Inserted
      <4>3. CASE c.op # "CREATE_RENDERBUFFER"
        BY <1>2, <4>1, <4>3 DEF MapsAfter, StoredAfter, TargetAfter, TargetInv, NamesOf
      <4> QED
        BY <4>2, <4>3
    <3>2. CASE ~ok
      BY <3>2 DEF TargetInv
    <3> QED
      BY <3>1, <3>2
  <2> QED
    BY <1>2, <2>1, <2>2, OnlyExecutionsChangeTheContext
<1>3. TargetInv /\ ExecutorNeverMisses => QueriesHaveATarget
  BY DEF TargetInv, ExecutorNeverMisses, LookupsSucceed, QueriesHaveATarget
<1> QED
  BY <1>1, <1>2, <1>3, TypeCorrect, LockStepHolds, OneScopeHolds, ExecutorNeverMissesHolds,
     PTL DEF Spec

-----------------------------------------------------------------------------
(***************************************************************************)
(* The run of a script implements the promise the language makes about     *)
(* identifiers.  That the run ends is left to the model checker.           *)
(***************************************************************************)
\* The part of KeepsSingleAssignment that does not depend on fairness.
KeepsSingleAssignmentSafely == Promise!Init /\ [][Promise!Next]_(Promise!vars)

denotes == [id \in Identifier |-> Denoted(id)]
outcome == IF Running THEN "running" ELSE phase

\* A new executor has nothing for an identifier to denote.
LEMMA NothingIsDenoted == Init => Promise!Init
<1> SUFFICES ASSUME Init PROVE Promise!Init
  OBVIOUS
<1>1. \A id : Denoted(id) = {}
  BY DEF Init, ExecutorInit, EmptyMap, Denoted, ObjectsOf
<1> QED
  BY <1>1 DEF Init, Promise!Init, Running

\* A step that leaves the executor's maps alone denotes nothing new.
LEMMA SameMapsDenoteTheSame ==
    ASSUME UNCHANGED execMaps
    PROVE  \A id : Denoted(id)' = Denoted(id)
BY DEF Denoted, ObjectsOf, execMaps, execShaderMaps, execObjectMaps

\* The run may end while the maps stay as they are.
LEMMA EndKeepsPromise ==
    ASSUME UNCHANGED execMaps, Running, phase' \in {"passed", "failed", "crashed"}
    PROVE  Promise!Next
<1>1. denotes' = denotes
  BY SameMapsDenoteTheSame DEF denotes
<1> QED
  BY <1>1 DEF Promise!Next, Promise!End, Running, denotes

\* And it may go on.
LEMMA GoingOnKeepsPromise ==
    ASSUME UNCHANGED execMaps, outcome' = outcome
    PROVE  UNCHANGED Promise!vars
BY SameMapsDenoteTheSame DEF Promise!vars, outcome

-----------------------------------------------------------------------------
\* The object that a command makes, as Denoted has it.
MadeBy(c) ==
    IF c.op = "DECLARE_SHADER" THEN <<"shader", c.result>>
    ELSE IF c.op = "COMPILE_SHADER" THEN <<"compiled_shader", gl.shaders + 1>>
    ELSE IF c.op = "CREATE_PROGRAM" THEN <<"program", gl.programs + 1>>
    ELSE IF c.op = "CREATE_BUFFER" THEN <<"buffer", Len(gl.buffers) + 1>>
    ELSE IF c.op = "CREATE_RENDERBUFFER" THEN <<"renderbuffer", Len(gl.renderbuffers) + 1>>
    ELSE IF c.op = "CREATE_SAMPLER" THEN <<"sampler", gl.samplers + 1>>
    ELSE <<"texture", gl.textures + 1>>

\* A creation that succeeds gives its result the object it made, and nothing else any.
LEMMA CreationDenotes ==
    ASSUME NEW c, c.op \in CreationOps, MapsAfter(c, TRUE), ResultIsNew(c)
    PROVE  /\ Denoted(c.result) = {}
           /\ Denoted(c.result)' = {MadeBy(c)}
           /\ \A id : id # c.result => Denoted(id)' = Denoted(id)
<1> USE DEF Denoted, ObjectsOf, ResultIsNew, MapsAfter, StoredAfter, Inserted, MadeBy
<1>1. Denoted(c.result) = {}
  OBVIOUS
<1>2. CASE c.op = "DECLARE_SHADER"
  BY <1>2
<1>3. CASE c.op = "COMPILE_SHADER"
  BY <1>3
<1>4. CASE c.op = "CREATE_PROGRAM"
  BY <1>4
<1>5. CASE c.op = "CREATE_BUFFER"
  BY <1>5
<1>6. CASE c.op = "CREATE_RENDERBUFFER"
  BY <1>6
<1>7. CASE c.op = "CREATE_SAMPLER"
  BY <1>7
<1>8. CASE c.op = "CREATE_EMPTY_TEXTURE_2D"
  BY <1>8
<1> QED
  BY <1>1, <1>2, <1>3, <1>4, <1>5, <1>6, <1>7, <1>8 DEF CreationOps

\* No identifier denotes the next object of a kind.
LEMMA NextObjectIsNew ==
    ASSUME NEW c, c.op \in CreationOps, ResultIsNew(c), TypeOK, ObjectsInv, Running, NEW id
    PROVE  MadeBy(c) \notin Denoted(id)
<1>1. /\ NamesOf(execCompiledShaders) = 1 .. gl.shaders
      /\ NamesOf(execPrograms) = 1 .. gl.programs
      /\ NamesOf(execBuffers) = 1 .. Len(gl.buffers)
      /\ NamesOf(execRenderbuffers) = 1 .. Len(gl.renderbuffers)
      /\ NamesOf(execSamplers) = 1 .. gl.samplers
      /\ NamesOf(execTextures) = 1 .. gl.textures
  BY DEF ObjectsInv, Numbered, OneNameEach, Running
<1>2. /\ gl.shaders \in Nat /\ gl.programs \in Nat /\ gl.samplers \in Nat
      /\ gl.textures \in Nat /\ Len(gl.buffers) \in Nat /\ Len(gl.renderbuffers) \in Nat
  BY DEF TypeOK, ExecutorTypeOK, GlState
<1>3. ASSUME NEW map, NEW made \in Nat, NamesOf(map) = 1 .. made
      PROVE  \A k \in DOMAIN map : map[k] # made + 1
  BY <1>3 DEF NamesOf
<1>4. /\ \A k \in DOMAIN execCompiledShaders : execCompiledShaders[k] # gl.shaders + 1
      /\ \A k \in DOMAIN execPrograms : execPrograms[k] # gl.programs + 1
      /\ \A k \in DOMAIN execBuffers : execBuffers[k] # Len(gl.buffers) + 1
      /\ \A k \in DOMAIN execRenderbuffers : execRenderbuffers[k] # Len(gl.renderbuffers) + 1
      /\ \A k \in DOMAIN execSamplers : execSamplers[k] # gl.samplers + 1
      /\ \A k \in DOMAIN execTextures : execTextures[k] # gl.textures + 1
  BY <1>1, <1>2, <1>3
<1> QED
  BY <1>4 DEF MadeBy, Denoted, ObjectsOf, ResultIsNew, CreationOps

-----------------------------------------------------------------------------
\* Executing a command produces its result, ends the run, or denotes nothing new.
LEMMA ExecutionKeepsPromise ==
    ASSUME TypeOK, LockStep, OneScope, ObjectsInv, ExecuteCommand
    PROVE  [Promise!Next]_(Promise!vars)
<1> PICK c \in Commands, ok \in BOOLEAN :
        /\ c = pending
        /\ ExecuteHandler(c, ok)
        /\ phase' = IF ok THEN "check" ELSE "failed"
  BY DEF ExecuteCommand, TypeOK
<1>1. MapsAfter(c, ok) /\ ResultIsNew(c) /\ phase = "execute" /\ Running
  BY StoresWhatItMakes, PendingResultIsNew
     DEF ExecuteCommand, TypeOK, ExecutorTypeOK, Running
<1>2. CASE ok /\ c.op \in CreationOps
  <2>1. c.result \in Identifier
    BY <1>2, CommandFields
  <2>2. /\ Denoted(c.result) = {}
        /\ Denoted(c.result)' = {MadeBy(c)}
        /\ \A id : id # c.result => Denoted(id)' = Denoted(id)
    BY <1>1, <1>2, CreationDenotes
  <2>3. \A id \in Identifier : MadeBy(c) \notin Denoted(id)
    BY <1>1, <1>2, NextObjectIsNew
  <2>4. denotes' = [denotes EXCEPT ![c.result] = {MadeBy(c)}]
    BY <2>1, <2>2 DEF denotes
  <2>5. MadeBy(c) \in denotes'[c.result]
    BY <2>1, <2>2 DEF denotes
  <2>6. outcome = "running" /\ outcome' = outcome
    BY <1>1, <1>2 DEF outcome, Running
  <2>7. Promise!Produce(c.result)
    BY <2>1, <2>2, <2>3, <2>4, <2>5, <2>6 DEF Promise!Produce, denotes, outcome
  <2> QED
    BY <2>1, <2>7 DEF Promise!Next
<1>3. CASE ok /\ c.op \notin CreationOps
  BY <1>1, <1>3, UseKeepsMaps, GoingOnKeepsPromise DEF outcome, Running
<1>4. CASE ~ok
  <2>1. c.op # "DECLARE_SHADER"
    BY <1>4 DEF ExecuteHandler, ExecuteDeclareShader
  <2>2. UNCHANGED execMaps
    BY <1>1, <1>4, <2>1
       DEF MapsAfter, StoredAfter, execMaps, execShaderMaps, execObjectMaps
  <2> QED
    BY <1>1, <1>4, <2>2, EndKeepsPromise
<1> QED
  BY <1>2, <1>3, <1>4

\* A step of the run is a step of the promise, or none.
LEMMA StepKeepsPromise ==
    ASSUME TypeOK, LockStep, OneScope, ObjectsInv, [Next]_vars
    PROVE  [Promise!Next]_(Promise!vars)
<1>1. CASE ExecuteCommand
  BY <1>1, ExecutionKeepsPromise
<1>2. ASSUME UNCHANGED execMaps, phase \in {"check", "execute"}
      PROVE  [Promise!Next]_(Promise!vars)
  <2>1. CASE phase' \in {"passed", "failed", "crashed"}
    BY <1>2, <2>1, EndKeepsPromise DEF Running
  <2>2. CASE phase' \in {"check", "execute"}
    BY <1>2, <2>2, GoingOnKeepsPromise DEF outcome, Running
  <2>3. phase' \in Phase
    BY StepKeepsTypes DEF TypeOK
  <2> QED
    BY <2>1, <2>2, <2>3 DEF Phase
<1>3. CASE EndOfScript \/ CrashInExecutor
           \/ \E c \in Commands : CheckCommand(c) \/ CrashInChecker(c)
  BY <1>2, <1>3
     DEF EndOfScript, CrashInExecutor, CheckCommand, CrashInChecker, executorVars
<1>4. CASE UNCHANGED vars
  BY <1>4, GoingOnKeepsPromise DEF vars, runVars, executorVars, outcome, Running
<1> QED
  BY <1>1, <1>3, <1>4 DEF Next

\* An identifier denotes nothing until one command produces it, and from then on the one
\* object that command made (docs/shadertrap_language.md, "Commands").
THEOREM KeepsSingleAssignmentHolds == Spec => KeepsSingleAssignmentSafely
<1>1. Spec => []TypeOK /\ []LockStep /\ []OneScope /\ []ObjectsInv /\ Init /\ [][Next]_vars
  BY TypeCorrect, LockStepHolds, OneScopeHolds, ObjectsInvariant, PTL DEF Spec
<1> QED
  BY <1>1, NothingIsDenoted, StepKeepsPromise, PTL DEF KeepsSingleAssignmentSafely
==============================================================================
