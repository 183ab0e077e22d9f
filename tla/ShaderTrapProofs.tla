-------------------------- MODULE ShaderTrapProofs --------------------------
(***************************************************************************)
(* Proofs about the run of a script, for every set of identifiers and      *)
(* commands, every API version and every length of script: that the two    *)
(* visitors keep in step, and what the checker knows of identifiers,       *)
(* shaders and programs.                                                   *)
(***************************************************************************)
EXTENDS ShaderTrap, TLAPS

-----------------------------------------------------------------------------
(***************************************************************************)
(* Type correctness.  It is inductive as it stands: a name is looked up    *)
(* only where LookupsSucceed guards the executor's step.                   *)
(***************************************************************************)
CreationOps ==
    {"DECLARE_SHADER", "COMPILE_SHADER", "CREATE_PROGRAM", "CREATE_BUFFER",
     "CREATE_SAMPLER", "CREATE_EMPTY_TEXTURE_2D", "CREATE_RENDERBUFFER"}

\* The fields of a command that end up in a variable.
LEMMA CommandFields ==
    ASSUME NEW c \in Commands
    PROVE  /\ c.op \in CreationOps => c.result \in Identifier
           /\ c.op = "DECLARE_SHADER" => c.kind \in ShaderKind
           /\ c.op = "COMPILE_SHADER" => c.shader \in Identifier
           /\ c.op = "CREATE_PROGRAM" => c.shaders \in Seq(Identifier)
           /\ c.op = "CREATE_BUFFER" => c.size \in Nat
           /\ c.op = "CREATE_RENDERBUFFER" => c.width \in Nat /\ c.height \in Nat
           /\ c.op \in {"BIND_SAMPLER", "BIND_TEXTURE"} => c.unit \in TextureUnit
           /\ c.op \in {"BIND_SHADER_STORAGE_BUFFER", "BIND_UNIFORM_BUFFER"} =>
                c.binding \in Binding
BY CommandsAssumption
   DEF CreationOps, Creation, Use, DeclareShader, CompileShader, CreateProgram, CreateBuffer,
       CreateSampler, CreateEmptyTexture2D, CreateRenderbuffer, BindSampler, BindTexture,
       BindShaderStorageBuffer, BindUniformBuffer, AssertEqualBuffers,
       AssertEqualRenderbuffers, AssertPixels, AssertSimilarEmdHistogram, DumpRenderbuffer,
       DumpBufferBinary, DumpBufferText, RunCompute, RunGraphics, SetSamplerParameter,
       SetTextureParameter, SetUniform

\* A command that only refers to results leaves the checker as it was.
LEMMA UseChangesNothing ==
    ASSUME NEW c, NEW ok, CheckHandler(c, ok), c.op \notin CreationOps
    PROVE  UNCHANGED checkerVars
BY DEF CheckHandler, CreationOps, Verdict, CheckBindSampler, CheckBindTexture,
       CheckBindShaderStorageBuffer, CheckBindUniformBuffer, CheckAssertEqualBuffers,
       CheckAssertEqualRenderbuffers, CheckAssertPixels, CheckAssertSimilarEmdHistogram,
       CheckDumpRenderbuffer, CheckDumpBufferBinary, CheckDumpBufferText,
       CheckRunCompute, CheckRunGraphics, CheckSetSamplerParameter,
       CheckSetTextureParameter, CheckSetUniform

\* A creation is one of seven handlers.
LEMMA CreationHandlers ==
    ASSUME NEW c, NEW ok, CheckHandler(c, ok), c.op \in CreationOps
    PROVE  \/ c.op = "DECLARE_SHADER" /\ CheckDeclareShader(c, ok)
           \/ c.op = "COMPILE_SHADER" /\ CheckCompileShader(c, ok)
           \/ c.op = "CREATE_PROGRAM" /\ CheckCreateProgram(c, ok)
           \/ c.op = "CREATE_BUFFER" /\ CheckCreateBuffer(c, ok)
           \/ c.op = "CREATE_SAMPLER" /\ CheckCreateSampler(c, ok)
           \/ c.op = "CREATE_EMPTY_TEXTURE_2D" /\ CheckCreateEmptyTexture2D(c, ok)
           \/ c.op = "CREATE_RENDERBUFFER" /\ CheckCreateRenderbuffer(c, ok)
BY DEF CheckHandler, CreationOps

\* A command that only refers to results leaves the executor's maps as they were.
LEMMA UseKeepsMaps ==
    ASSUME NEW c, NEW ok, ExecuteHandler(c, ok), c.op \notin CreationOps
    PROVE  UNCHANGED execMaps
BY DEF ExecuteHandler, CreationOps, ExecuteBindSampler, ExecuteBindTexture,
       ExecuteBindShaderStorageBuffer, ExecuteBindUniformBuffer,
       ExecuteAssertEqualBuffers, ExecuteAssertEqualRenderbuffers, ExecuteAssertPixels,
       ExecuteAssertSimilarEmdHistogram, ExecuteDumpRenderbuffer, ExecuteDumpBufferBinary,
       ExecuteDumpBufferText, DumpBuffer, ExecuteRunCompute, ExecuteRunGraphics,
       ExecuteSetSamplerParameter, ExecuteSetTextureParameter, ExecuteSetUniform

\* A creation is executed by one of seven handlers.
LEMMA CreationExecutions ==
    ASSUME NEW c, NEW ok, ExecuteHandler(c, ok), c.op \in CreationOps
    PROVE  \/ c.op = "DECLARE_SHADER" /\ ExecuteDeclareShader(c, ok)
           \/ c.op = "COMPILE_SHADER" /\ ExecuteCompileShader(c, ok)
           \/ c.op = "CREATE_PROGRAM" /\ ExecuteCreateProgram(c, ok)
           \/ c.op = "CREATE_BUFFER" /\ ExecuteCreateBuffer(c, ok)
           \/ c.op = "CREATE_SAMPLER" /\ ExecuteCreateSampler(c, ok)
           \/ c.op = "CREATE_EMPTY_TEXTURE_2D" /\ ExecuteCreateEmptyTexture2D(c, ok)
           \/ c.op = "CREATE_RENDERBUFFER" /\ ExecuteCreateRenderbuffer(c, ok)
BY DEF ExecuteHandler, CreationOps

\* A new checker, a new executor and a new context are of their types.
LEMMA InitTypes == Init => TypeOK
<1> SUFFICES ASSUME Init PROVE TypeOK
  OBVIOUS
<1>1. CheckerTypeOK
  BY DEF Init, CheckerInit, CheckerTypeOK, EmptyMap
<1>2. NewContext \in GlState
  BY UnitAssumption DEF NewContext, GlState
<1>3. ExecutorTypeOK
  BY <1>2 DEF Init, ExecutorInit, ExecutorTypeOK, EmptyMap, IsNameMap, NamesOf
<1> QED
  BY <1>1, <1>3, VersionsAssumption DEF Init, TypeOK, Phase

\* Whatever the verdict, a checked command leaves the checker's maps of their types.
LEMMA CheckKeepsTypes ==
    ASSUME NEW c \in Commands, NEW ok, CheckerTypeOK, CheckHandler(c, ok)
    PROVE  CheckerTypeOK'
<1> USE DEF CheckerTypeOK, UseIdentifier, Inserted, CreationOps, checkerVars, objectMaps,
            shaderMaps, programMaps
<1>1. CASE c.op \notin CreationOps
  BY <1>1, UseChangesNothing
<1>2. CASE c.op = "DECLARE_SHADER" /\ CheckDeclareShader(c, ok)
  BY <1>2, CommandFields DEF CheckDeclareShader
<1>3. CASE c.op = "COMPILE_SHADER" /\ CheckCompileShader(c, ok)
  BY <1>3, CommandFields DEF CheckCompileShader
<1>4. CASE c.op = "CREATE_PROGRAM" /\ CheckCreateProgram(c, ok)
  BY <1>4, CommandFields DEF CheckCreateProgram
<1>5. CASE c.op = "CREATE_BUFFER" /\ CheckCreateBuffer(c, ok)
  BY <1>5, CommandFields DEF CheckCreateBuffer, CheckCreation
<1>6. CASE c.op = "CREATE_SAMPLER" /\ CheckCreateSampler(c, ok)
  BY <1>6, CommandFields DEF CheckCreateSampler, CheckCreation
<1>7. CASE c.op = "CREATE_EMPTY_TEXTURE_2D" /\ CheckCreateEmptyTexture2D(c, ok)
  BY <1>7, CommandFields DEF CheckCreateEmptyTexture2D, CheckCreation
<1>8. CASE c.op = "CREATE_RENDERBUFFER" /\ CheckCreateRenderbuffer(c, ok)
  BY <1>8, CommandFields DEF CheckCreateRenderbuffer, CheckCreation, Dimensions
<1> QED
  BY <1>1, <1>2, <1>3, <1>4, <1>5, <1>6, <1>7, <1>8, CreationHandlers

\* Storing a GL name under an identifier.
LEMMA InsertedName ==
    ASSUME NEW map, IsNameMap(map), NEW key \in Identifier, NEW name \in Nat
    PROVE  IsNameMap(Inserted(map, key, name))
BY DEF IsNameMap, NamesOf, Inserted

\* What an executor's map holds is a GL name.
LEMMA StoredName ==
    ASSUME NEW map, IsNameMap(map), NEW key \in DOMAIN map
    PROVE  map[key] \in Nat
BY DEF IsNameMap, NamesOf

\* The fields of the context from which new ones are computed.
LEMMA ContextFields ==
    ASSUME gl \in GlState
    PROVE  /\ gl.shaders + 1 \in Nat
           /\ gl.programs + 1 \in Nat
           /\ gl.textures + 1 \in Nat
           /\ gl.samplers + 1 \in Nat
           /\ gl.framebuffers + 1 \in Nat
           /\ gl.activeUnit \in TextureUnit
           /\ \A size \in Nat :
                /\ Append(gl.buffers, size) \in Seq(Nat)
                /\ Len(Append(gl.buffers, size)) \in Nat
           /\ \A extent \in Extent :
                /\ Append(gl.renderbuffers, extent) \in Seq(Extent)
                /\ Len(Append(gl.renderbuffers, extent)) \in Nat
BY DEF GlState

\* Executing a command leaves the executor's maps of their types: a name that is
\* stored is the one OpenGL returned.
LEMMA ExecuteKeepsMapTypes ==
    ASSUME NEW c \in Commands, NEW ok \in BOOLEAN, ExecutorTypeOK, ExecuteHandler(c, ok)
    PROVE  /\ DOMAIN execDeclaredShaders' \subseteq Identifier
           /\ \A s \in DOMAIN execDeclaredShaders' : execDeclaredShaders'[s] \in ShaderKind
           /\ IsNameMap(execCompiledShaders')
           /\ IsNameMap(execPrograms')
           /\ IsNameMap(execBuffers')
           /\ IsNameMap(execRenderbuffers')
           /\ IsNameMap(execSamplers')
           /\ IsNameMap(execTextures')
<1> USE DEF ExecutorTypeOK, CreationOps, execMaps, execShaderMaps, execObjectMaps
<1> gl \in GlState
  OBVIOUS
<1>1. CASE c.op \notin CreationOps
  BY <1>1, UseKeepsMaps
<1>2. CASE c.op = "DECLARE_SHADER" /\ ExecuteDeclareShader(c, ok)
  BY <1>2, CommandFields DEF ExecuteDeclareShader, Inserted
<1>3. CASE c.op = "COMPILE_SHADER" /\ ExecuteCompileShader(c, ok)
  <2>1. [gl EXCEPT !.shaders = @ + 1].shaders \in Nat
    BY DEF GlState
  <2>2. IsNameMap(Inserted(execCompiledShaders, c.result,
                           [gl EXCEPT !.shaders = @ + 1].shaders))
    BY <1>3, <2>1, CommandFields, InsertedName
  <2> QED
    BY <1>3, <2>2 DEF ExecuteCompileShader
<1>4. CASE c.op = "CREATE_PROGRAM" /\ ExecuteCreateProgram(c, ok)
  <2>1. [gl EXCEPT !.programs = @ + 1].programs \in Nat
    BY DEF GlState
  <2>2. IsNameMap(Inserted(execPrograms, c.result, [gl EXCEPT !.programs = @ + 1].programs))
    BY <1>4, <2>1, CommandFields, InsertedName
  <2> QED
    BY <1>4, <2>2 DEF ExecuteCreateProgram
<1>5. CASE c.op = "CREATE_BUFFER" /\ ExecuteCreateBuffer(c, ok)
  <2>1. Len([gl EXCEPT !.buffers = Append(@, c.size)].buffers) \in Nat
    BY <1>5, CommandFields, ContextFields DEF GlState
  <2>2. IsNameMap(Inserted(execBuffers, c.result,
                           Len([gl EXCEPT !.buffers = Append(@, c.size)].buffers)))
    BY <1>5, <2>1, CommandFields, InsertedName
  <2> QED
    BY <1>5, <2>2 DEF ExecuteCreateBuffer
<1>6. CASE c.op = "CREATE_SAMPLER" /\ ExecuteCreateSampler(c, ok)
  <2>1. [gl EXCEPT !.samplers = @ + 1].samplers \in Nat
    BY DEF GlState
  <2>2. IsNameMap(Inserted(execSamplers, c.result, [gl EXCEPT !.samplers = @ + 1].samplers))
    BY <1>6, <2>1, CommandFields, InsertedName
  <2> QED
    BY <1>6, <2>2 DEF ExecuteCreateSampler
<1>7. CASE c.op = "CREATE_EMPTY_TEXTURE_2D" /\ ExecuteCreateEmptyTexture2D(c, ok)
  <2>1. [gl EXCEPT !.textures = @ + 1].textures \in Nat
    BY DEF GlState
  <2>2. IsNameMap(Inserted(execTextures, c.result, [gl EXCEPT !.textures = @ + 1].textures))
    BY <1>7, <2>1, CommandFields, InsertedName
  <2> QED
    BY <1>7, <2>2 DEF ExecuteCreateEmptyTexture2D
<1>8. CASE c.op = "CREATE_RENDERBUFFER" /\ ExecuteCreateRenderbuffer(c, ok)
  <2> DEFINE extent == [width |-> c.width, height |-> c.height]
             name == Len(Append(gl.renderbuffers, extent))
  <2>1. extent \in Extent
    BY <1>8, CommandFields DEF Extent
  <2>2. name \in Nat
    BY <2>1, ContextFields
  <2>3. IsNameMap(Inserted(execRenderbuffers, c.result, name))
    BY <1>8, <2>2, CommandFields, InsertedName
  <2>4. execRenderbuffers' = IF ok THEN Inserted(execRenderbuffers, c.result, name)
                                   ELSE execRenderbuffers
    BY <1>8 DEF ExecuteCreateRenderbuffer, GlState
  <2> QED
    BY <1>8, <2>3, <2>4 DEF ExecuteCreateRenderbuffer
<1> QED
  BY <1>1, <1>2, <1>3, <1>4, <1>5, <1>6, <1>7, <1>8, CreationExecutions

\* Executing a command whose lookups succeed leaves a context: units and binding
\* points exist, and the names bound to them are names.
LEMMA ExecuteKeepsContextType ==
    ASSUME NEW c \in Commands, NEW ok \in BOOLEAN, ExecutorTypeOK, LookupsSucceed(c),
           ExecuteHandler(c, ok)
    PROVE  gl' \in GlState
<1> USE DEF GlCalls, GlCallsThenCompare
<1>0. gl \in GlState
  BY DEF ExecutorTypeOK
<1>2. CASE c.op = "DECLARE_SHADER" /\ ExecuteDeclareShader(c, ok)
  BY <1>0, <1>2 DEF ExecuteDeclareShader
<1>3. CASE c.op = "COMPILE_SHADER" /\ ExecuteCompileShader(c, ok)
  <2>1. [gl EXCEPT !.shaders = @ + 1] \in GlState
    BY <1>0, ContextFields DEF GlState
  <2> QED
    BY <1>0, <1>3, <2>1 DEF ExecuteCompileShader
<1>4. CASE c.op = "CREATE_PROGRAM" /\ ExecuteCreateProgram(c, ok)
  <2>1. [gl EXCEPT !.programs = @ + 1] \in GlState
    BY <1>0, ContextFields DEF GlState
  <2> QED
    BY <1>0, <1>4, <2>1 DEF ExecuteCreateProgram
<1>5. CASE c.op = "CREATE_BUFFER" /\ ExecuteCreateBuffer(c, ok)
  <2>1. \A size \in Nat : [gl EXCEPT !.buffers = Append(@, size)] \in GlState
    BY <1>0, ContextFields DEF GlState
  <2>2. c.size \in Nat
    BY <1>5, CommandFields
  <2> QED
    BY <1>0, <1>5, <2>1, <2>2 DEF ExecuteCreateBuffer
<1>6. CASE c.op = "CREATE_SAMPLER" /\ ExecuteCreateSampler(c, ok)
  <2>1. [gl EXCEPT !.samplers = @ + 1] \in GlState
    BY <1>0, ContextFields DEF GlState
  <2> QED
    BY <1>0, <1>6, <2>1 DEF ExecuteCreateSampler
<1>7. CASE c.op = "CREATE_EMPTY_TEXTURE_2D" /\ ExecuteCreateEmptyTexture2D(c, ok)
  <2>1. /\ [gl EXCEPT !.textures = @ + 1] \in GlState
        /\ [gl EXCEPT !.textures = @ + 1,
                      !.unitTexture[gl.activeUnit] = gl.textures + 1] \in GlState
    BY <1>0, ContextFields DEF GlState
  <2> QED
    BY <1>0, <1>7, <2>1 DEF ExecuteCreateEmptyTexture2D
<1>8. CASE c.op = "CREATE_RENDERBUFFER" /\ ExecuteCreateRenderbuffer(c, ok)
  <2> DEFINE extent == [width |-> c.width, height |-> c.height]
             empty == [width |-> 0, height |-> 0]
             generated == [gl EXCEPT !.renderbuffers = Append(@, empty)]
             bound == [generated EXCEPT !.boundRenderbuffer = Len(generated.renderbuffers)]
             stored == [bound EXCEPT !.renderbuffers = Append(gl.renderbuffers, extent)]
  <2>1. extent \in Extent /\ empty \in Extent
    BY <1>8, CommandFields DEF Extent
  <2>2. /\ Append(gl.renderbuffers, empty) \in Seq(Extent)
        /\ Append(gl.renderbuffers, extent) \in Seq(Extent)
        /\ Len(Append(gl.renderbuffers, empty)) \in Nat
    BY <1>0, <2>1, ContextFields
  <2>3. generated \in GlState
    BY <1>0, <2>2 DEF GlState
  <2>4. bound \in GlState
    BY <1>0, <2>2 DEF GlState
  <2>5. stored \in GlState
    BY <1>0, <2>2 DEF GlState
  <2> QED
    BY <1>0, <1>8, <2>3, <2>4, <2>5 DEF ExecuteCreateRenderbuffer
<1>9. CASE c.op = "BIND_SAMPLER" /\ ExecuteBindSampler(c, ok)
  <2>1. execSamplers[c.sampler] \in Nat /\ c.unit \in TextureUnit
    BY <1>9, StoredName, CommandFields DEF LookupsSucceed, ExecutorTypeOK
  <2>2. [gl EXCEPT !.unitSampler[c.unit] = execSamplers[c.sampler]] \in GlState
    BY <1>0, <2>1 DEF GlState
  <2> QED
    BY <1>0, <1>9, <2>2 DEF ExecuteBindSampler
<1>10. CASE \/ c.op = "BIND_SHADER_STORAGE_BUFFER" /\ ExecuteBindShaderStorageBuffer(c, ok)
            \/ c.op = "BIND_UNIFORM_BUFFER" /\ ExecuteBindUniformBuffer(c, ok)
  <2>1. execBuffers[c.buffer] \in Nat /\ c.binding \in Binding
    BY <1>10, StoredName, CommandFields DEF LookupsSucceed, ExecutorTypeOK
  <2>2. /\ [gl EXCEPT !.storageBuffer[c.binding] = execBuffers[c.buffer]] \in GlState
        /\ [gl EXCEPT !.uniformBuffer[c.binding] = execBuffers[c.buffer]] \in GlState
    BY <1>0, <2>1 DEF GlState
  <2> QED
    BY <1>0, <1>10, <2>2 DEF ExecuteBindShaderStorageBuffer, ExecuteBindUniformBuffer
<1>11. CASE c.op = "BIND_TEXTURE" /\ ExecuteBindTexture(c, ok)
  <2>1. execTextures[c.texture] \in Nat /\ c.unit \in TextureUnit
    BY <1>11, StoredName, CommandFields DEF LookupsSucceed, ExecutorTypeOK
  <2>2. /\ [gl EXCEPT !.activeUnit = c.unit] \in GlState
        /\ [gl EXCEPT !.activeUnit = c.unit,
                      !.unitTexture[c.unit] = execTextures[c.texture]] \in GlState
    BY <1>0, <2>1 DEF GlState
  <2> QED
    BY <1>0, <1>11, <2>2 DEF ExecuteBindTexture
<1>12. CASE c.op = "SET_TEXTURE_PARAMETER" /\ ExecuteSetTextureParameter(c, ok)
  <2>1. execTextures[c.texture] \in Nat
    BY <1>12, StoredName DEF LookupsSucceed, ExecutorTypeOK
  <2>2. [gl EXCEPT !.unitTexture[gl.activeUnit] = execTextures[c.texture]] \in GlState
    BY <1>0, <2>1, ContextFields DEF GlState
  <2> QED
    BY <1>0, <1>12, <2>2 DEF ExecuteSetTextureParameter
<1>13. Generated \in GlState
  BY <1>0, ContextFields DEF GlState, Generated
<1>14. CASE c.op \in {"SET_SAMPLER_PARAMETER", "SET_UNIFORM", "RUN_COMPUTE", "RUN_GRAPHICS",
                      "ASSERT_PIXELS", "DUMP_RENDERBUFFER"}
  BY <1>0, <1>13, <1>14 DEF ExecuteHandler, ExecuteSetSamplerParameter, ExecuteSetUniform,
     ExecuteRunCompute, ExecuteRunGraphics, ExecuteAssertPixels, ExecuteDumpRenderbuffer
<1>15. ASSUME NEW names \in SUBSET Nat
       PROVE  [gl EXCEPT !.mapped = @ \cup names] \in GlState
  BY <1>0 DEF GlState
<1>16. CASE c.op = "ASSERT_EQUAL_BUFFERS" /\ ExecuteAssertEqualBuffers(c, ok)
  <2>1. execBuffers[c.arguments[1]] \in Nat /\ execBuffers[c.arguments[2]] \in Nat
    BY <1>16, StoredName DEF LookupsSucceed, ExecutorTypeOK
  <2> QED
    BY <1>0, <1>15, <1>16, <2>1 DEF ExecuteAssertEqualBuffers
<1>17. CASE c.op \in {"DUMP_BUFFER_BINARY", "DUMP_BUFFER_TEXT"} /\ DumpBuffer(c, ok)
  <2>1. execBuffers[c.buffer] \in Nat
    BY <1>17, StoredName DEF LookupsSucceed, ExecutorTypeOK
  <2> QED
    BY <1>0, <1>15, <1>17, <2>1 DEF DumpBuffer
<1>18. CASE \/ c.op = "ASSERT_EQUAL_RENDERBUFFERS" /\ ExecuteAssertEqualRenderbuffers(c, ok)
            \/ c.op = "ASSERT_SIMILAR_EMD_HISTOGRAM"
                 /\ ExecuteAssertSimilarEmdHistogram(c, ok)
  <2>1. /\ execRenderbuffers[c.arguments[1]] \in Nat
        /\ execRenderbuffers[c.arguments[2]] \in Nat
    BY <1>18, StoredName DEF LookupsSucceed, ExecutorTypeOK
  <2>2. /\ BindingRenderbuffer(c.arguments[1]) \in GlState
        /\ BindingRenderbuffer(c.arguments[2]) \in GlState
        /\ [BindingRenderbuffer(c.arguments[2]) EXCEPT !.framebuffers = @ + 1] \in GlState
    BY <1>0, <2>1, ContextFields DEF BindingRenderbuffer, GlState
  <2> QED
    BY <1>0, <1>18, <2>2 DEF ExecuteAssertEqualRenderbuffers,
       ExecuteAssertSimilarEmdHistogram
<1> QED
  BY <1>2, <1>3, <1>4, <1>5, <1>6, <1>7, <1>8, <1>9, <1>10, <1>11, <1>12, <1>14, <1>16,
     <1>17, <1>18 DEF ExecuteHandler, ExecuteDumpBufferBinary, ExecuteDumpBufferText

\* A step of the run, or none, keeps every type.
LEMMA StepKeepsTypes ==
    ASSUME TypeOK, [Next]_vars
    PROVE  TypeOK'
<1> USE DEF TypeOK, Phase
<1>1. ASSUME NEW c \in Commands, CheckCommand(c)
      PROVE  TypeOK'
  <2> PICK ok \in BOOLEAN :
          /\ CheckHandler(c, ok)
          /\ errorReported' = (errorReported \/ ~ok)
          /\ phase' = IF ok THEN "execute" ELSE "failed"
          /\ pending' = IF ok THEN c ELSE NoCommand
    BY <1>1 DEF CheckCommand, Check, Reports
  <2>1. CheckerTypeOK'
    BY CheckKeepsTypes
  <2>2. ExecutorTypeOK' /\ position' \in Nat
    BY <1>1 DEF CheckCommand, ExecutorTypeOK, executorVars, execMaps, execShaderMaps,
       execObjectMaps
  <2>3. version' \in ApiVersions
    BY <1>1 DEF CheckCommand
  <2> QED
    BY <2>1, <2>2, <2>3
<1>2. CASE ExecuteCommand
  <2> PICK c \in Commands : c = pending
    BY <1>2 DEF ExecuteCommand
  <2> PICK ok \in BOOLEAN :
          /\ ExecuteHandler(c, ok)
          /\ phase' = IF ok THEN "check" ELSE "failed"
    BY <1>2 DEF ExecuteCommand
  <2>1. CheckerTypeOK'
    BY <1>2 DEF ExecuteCommand, CheckerTypeOK, checkerVars, objectMaps, shaderMaps, programMaps
  <2>2. gl' \in GlState
    BY <1>2, ExecuteKeepsContextType DEF ExecuteCommand
  <2>3. ExecutorTypeOK'
    BY <2>2, ExecuteKeepsMapTypes DEF ExecutorTypeOK
  <2>4. errorReported' \in BOOLEAN
    BY DEF ExecuteHandler, Reports, ExecuteDeclareShader, ExecuteCompileShader,
       ExecuteCreateProgram, ExecuteCreateBuffer, ExecuteCreateSampler,
       ExecuteCreateEmptyTexture2D, ExecuteCreateRenderbuffer, ExecuteBindSampler,
       ExecuteBindTexture, ExecuteBindShaderStorageBuffer, ExecuteBindUniformBuffer,
       ExecuteAssertEqualBuffers, ExecuteAssertEqualRenderbuffers, ExecuteAssertPixels,
       ExecuteAssertSimilarEmdHistogram, ExecuteDumpRenderbuffer, ExecuteDumpBufferBinary,
       ExecuteDumpBufferText, DumpBuffer, ExecuteRunCompute, ExecuteRunGraphics,
       ExecuteSetSamplerParameter, ExecuteSetTextureParameter, ExecuteSetUniform
  <2> QED
    BY <1>2, <2>1, <2>3, <2>4 DEF ExecuteCommand
<1>3. ASSUME UNCHANGED <<checkerVars, executorVars, version, errorReported, pending, position>>,
             phase' = phase \/ phase' \in {"passed", "crashed"}
      PROVE  TypeOK'
  BY <1>3 DEF CheckerTypeOK, ExecutorTypeOK, checkerVars, objectMaps, shaderMaps, programMaps,
     executorVars, execMaps, execShaderMaps, execObjectMaps
<1>4. CASE EndOfScript
  BY <1>3, <1>4 DEF EndOfScript
<1>5. ASSUME NEW c \in Commands, CrashInChecker(c)
      PROVE  TypeOK'
  BY <1>3, <1>5 DEF CrashInChecker
<1>6. CASE CrashInExecutor
  BY <1>3, <1>6 DEF CrashInExecutor
<1>7. CASE UNCHANGED vars
  BY <1>3, <1>7 DEF vars, runVars
<1> QED
  BY <1>1, <1>2, <1>4, <1>5, <1>6, <1>7 DEF Next

\* Every variable keeps its type; in particular every name the executor passes to
\* OpenGL is one that OpenGL returned to it.
THEOREM TypeCorrect == Spec => []TypeOK
BY InitTypes, StepKeepsTypes, PTL DEF Spec

-----------------------------------------------------------------------------
(***************************************************************************)
(* LockStep and ExecutorNeverMisses.                                       *)
(*                                                                         *)
(* Neither is inductive.  The checker adds a result to a map because it    *)
(* was fresh among all used identifiers, so that every identifier held is  *)
(* marked as used is part of the invariant; and what the executor looks up *)
(* is there because the checker, when it accepted the pending command,     *)
(* found it in its own map.                                                *)
(***************************************************************************)
HeldAreUsed ==
    /\ DOMAIN declaredShaders \subseteq usedIdentifiers
    /\ DOMAIN compiledShaders \subseteq usedIdentifiers
    /\ DOMAIN createdPrograms \subseteq usedIdentifiers
    /\ DOMAIN createdBuffers \subseteq usedIdentifiers
    /\ DOMAIN createdRenderbuffers \subseteq usedIdentifiers
    /\ createdSamplers \subseteq usedIdentifiers
    /\ createdTextures \subseteq usedIdentifiers

\* What the command refers to, the checker holds.
Accepted(c) ==
    /\ c.op = "COMPILE_SHADER" => c.shader \in DOMAIN declaredShaders
    /\ c.op = "CREATE_PROGRAM" =>
         \A i \in DOMAIN c.shaders : c.shaders[i] \in DOMAIN compiledShaders
    /\ c.op \in {"BIND_SHADER_STORAGE_BUFFER", "BIND_UNIFORM_BUFFER",
                 "DUMP_BUFFER_BINARY", "DUMP_BUFFER_TEXT"} =>
         c.buffer \in DOMAIN createdBuffers
    /\ c.op \in {"BIND_SAMPLER", "SET_SAMPLER_PARAMETER"} => c.sampler \in createdSamplers
    /\ c.op \in {"BIND_TEXTURE", "SET_TEXTURE_PARAMETER"} => c.texture \in createdTextures
    /\ c.op = "ASSERT_EQUAL_BUFFERS" =>
         {c.arguments[1], c.arguments[2]} \subseteq DOMAIN createdBuffers
    /\ c.op \in {"ASSERT_EQUAL_RENDERBUFFERS", "ASSERT_SIMILAR_EMD_HISTOGRAM"} =>
         {c.arguments[1], c.arguments[2]} \subseteq DOMAIN createdRenderbuffers
    /\ c.op \in {"ASSERT_PIXELS", "DUMP_RENDERBUFFER"} =>
         c.renderbuffer \in DOMAIN createdRenderbuffers
    /\ c.op \in {"RUN_COMPUTE", "SET_UNIFORM"} => c.program \in DOMAIN createdPrograms
    /\ c.op = "RUN_GRAPHICS" =>
         /\ c.program \in DOMAIN createdPrograms
         /\ c.vertexBuffers \cup {c.indexBuffer} \subseteq DOMAIN createdBuffers
         /\ \A attachment \in c.attachments :
              attachment[2] \in DOMAIN createdRenderbuffers \cup createdTextures

EnvironmentInv ==
    /\ LockStep
    /\ HeldAreUsed
    /\ phase = "execute" => Accepted(pending)

-----------------------------------------------------------------------------
\* What a command adds to the map of the results that "op" produces.
Adds(c, op) == IF c.op = op THEN {c.result} ELSE {}

\* Whatever the verdict, an identifier is marked as used before it is held.
LEMMA CheckKeepsHeldAreUsed ==
    ASSUME NEW c, NEW ok, HeldAreUsed, CheckHandler(c, ok)
    PROVE  HeldAreUsed'
<1> USE DEF Inserted, HeldAreUsed, UseIdentifier, checkerVars, objectMaps, shaderMaps,
                           programMaps
<1>1. CASE c.op \notin CreationOps
  BY <1>1, UseChangesNothing
<1>2. CASE c.op = "DECLARE_SHADER" /\ CheckDeclareShader(c, ok)
  BY <1>2 DEF CheckDeclareShader
<1>3. CASE c.op = "COMPILE_SHADER" /\ CheckCompileShader(c, ok)
  BY <1>3 DEF CheckCompileShader
<1>4. CASE c.op = "CREATE_PROGRAM" /\ CheckCreateProgram(c, ok)
  BY <1>4 DEF CheckCreateProgram
<1>5. CASE c.op = "CREATE_BUFFER" /\ CheckCreateBuffer(c, ok)
  BY <1>5 DEF CheckCreateBuffer, CheckCreation
<1>6. CASE c.op = "CREATE_SAMPLER" /\ CheckCreateSampler(c, ok)
  BY <1>6 DEF CheckCreateSampler, CheckCreation
<1>7. CASE c.op = "CREATE_EMPTY_TEXTURE_2D" /\ CheckCreateEmptyTexture2D(c, ok)
  BY <1>7 DEF CheckCreateEmptyTexture2D, CheckCreation
<1>8. CASE c.op = "CREATE_RENDERBUFFER" /\ CheckCreateRenderbuffer(c, ok)
  BY <1>8 DEF CheckCreateRenderbuffer, CheckCreation
<1> QED
  BY <1>1, <1>2, <1>3, <1>4, <1>5, <1>6, <1>7, <1>8, CreationHandlers

\* An accepted command adds its result to the one map of its kind, where it was not
\* before.
CheckerAdds(c) ==
    /\ DOMAIN declaredShaders' = DOMAIN declaredShaders \cup Adds(c, "DECLARE_SHADER")
    /\ DOMAIN compiledShaders' = DOMAIN compiledShaders \cup Adds(c, "COMPILE_SHADER")
    /\ DOMAIN createdPrograms' = DOMAIN createdPrograms \cup Adds(c, "CREATE_PROGRAM")
    /\ DOMAIN createdBuffers' = DOMAIN createdBuffers \cup Adds(c, "CREATE_BUFFER")
    /\ DOMAIN createdRenderbuffers' =
         DOMAIN createdRenderbuffers \cup Adds(c, "CREATE_RENDERBUFFER")
    /\ createdSamplers' = createdSamplers \cup Adds(c, "CREATE_SAMPLER")
    /\ createdTextures' = createdTextures \cup Adds(c, "CREATE_EMPTY_TEXTURE_2D")
    /\ c.op \in CreationOps => c.result \notin usedIdentifiers

\* The checker's maps grow by the result of an accepted command and by nothing else.
LEMMA AcceptedCommandAdds ==
    ASSUME NEW c, CheckHandler(c, TRUE)
    PROVE  CheckerAdds(c)
<1> USE DEF Inserted, CheckerAdds, Adds, CreationOps, Fresh, checkerVars, objectMaps,
                           shaderMaps, programMaps
<1>1. CASE c.op \notin CreationOps
  BY <1>1, UseChangesNothing
<1>2. CASE c.op = "DECLARE_SHADER" /\ CheckDeclareShader(c, TRUE)
  BY <1>2 DEF CheckDeclareShader
<1>3. CASE c.op = "COMPILE_SHADER" /\ CheckCompileShader(c, TRUE)
  BY <1>3 DEF CheckCompileShader
<1>4. CASE c.op = "CREATE_PROGRAM" /\ CheckCreateProgram(c, TRUE)
  BY <1>4 DEF CheckCreateProgram
<1>5. CASE c.op = "CREATE_BUFFER" /\ CheckCreateBuffer(c, TRUE)
  BY <1>5 DEF CheckCreateBuffer, CheckCreation
<1>6. CASE c.op = "CREATE_SAMPLER" /\ CheckCreateSampler(c, TRUE)
  BY <1>6 DEF CheckCreateSampler, CheckCreation
<1>7. CASE c.op = "CREATE_EMPTY_TEXTURE_2D" /\ CheckCreateEmptyTexture2D(c, TRUE)
  BY <1>7 DEF CheckCreateEmptyTexture2D, CheckCreation
<1>8. CASE c.op = "CREATE_RENDERBUFFER" /\ CheckCreateRenderbuffer(c, TRUE)
  BY <1>8 DEF CheckCreateRenderbuffer, CheckCreation
<1> QED
  BY <1>1, <1>2, <1>3, <1>4, <1>5, <1>6, <1>7, <1>8, CreationHandlers

\* What an accepted command refers to, the checker holds.
LEMMA AcceptedCommandRefers ==
    ASSUME NEW c, CheckHandler(c, TRUE)
    PROVE  Accepted(c)'
<1>1. CASE c.op \notin CreationOps
  <2>1. UNCHANGED checkerVars
    BY <1>1, UseChangesNothing
  <2>2. Accepted(c)
    BY <1>1 DEF CheckHandler, CreationOps, Accepted, Verdict, CheckBindSampler,
       CheckBindTexture, CheckBindShaderStorageBuffer, CheckBindUniformBuffer,
       CheckAssertEqualBuffers, CheckAssertEqualRenderbuffers, CheckAssertPixels,
       CheckAssertSimilarEmdHistogram, CheckDumpRenderbuffer, CheckDumpBufferBinary,
       CheckDumpBufferText, CheckRunCompute, CheckRunGraphics, CheckSetSamplerParameter,
       CheckSetTextureParameter, CheckSetUniform, AreBuffers, AreRenderbuffers, IsProgram
  <2> QED
    BY <2>1, <2>2 DEF Accepted, checkerVars, objectMaps, shaderMaps, programMaps
<1>2. CASE c.op = "COMPILE_SHADER" /\ CheckCompileShader(c, TRUE)
  BY <1>2 DEF CheckCompileShader, Accepted
<1>3. CASE c.op = "CREATE_PROGRAM" /\ CheckCreateProgram(c, TRUE)
  BY <1>3 DEF CheckCreateProgram, ProperStages, Accepted, shaderMaps
<1>4. CASE c.op \in CreationOps \ {"COMPILE_SHADER", "CREATE_PROGRAM"}
  BY <1>4 DEF CreationOps, Accepted
<1> QED
  BY <1>1, <1>2, <1>3, <1>4, CreationHandlers DEF CreationOps

-----------------------------------------------------------------------------
\* A command that succeeds adds its result to the one map of its kind.
ExecutorAdds(c) ==
    /\ DOMAIN execDeclaredShaders' =
         DOMAIN execDeclaredShaders \cup Adds(c, "DECLARE_SHADER")
    /\ DOMAIN execCompiledShaders' =
         DOMAIN execCompiledShaders \cup Adds(c, "COMPILE_SHADER")
    /\ DOMAIN execPrograms' = DOMAIN execPrograms \cup Adds(c, "CREATE_PROGRAM")
    /\ DOMAIN execBuffers' = DOMAIN execBuffers \cup Adds(c, "CREATE_BUFFER")
    /\ DOMAIN execRenderbuffers' =
         DOMAIN execRenderbuffers \cup Adds(c, "CREATE_RENDERBUFFER")
    /\ DOMAIN execSamplers' = DOMAIN execSamplers \cup Adds(c, "CREATE_SAMPLER")
    /\ DOMAIN execTextures' = DOMAIN execTextures \cup Adds(c, "CREATE_EMPTY_TEXTURE_2D")

\* The executor's maps grow by the result of a command that succeeds and by nothing
\* else.
LEMMA ExecutedCommandAdds ==
    ASSUME NEW c, ExecuteHandler(c, TRUE)
    PROVE  ExecutorAdds(c)
<1> USE DEF Inserted, ExecutorAdds, Adds, CreationOps, execMaps, execShaderMaps, execObjectMaps
<1>1. CASE c.op \notin CreationOps
  BY <1>1, UseKeepsMaps
<1>2. CASE c.op = "DECLARE_SHADER" /\ ExecuteDeclareShader(c, TRUE)
  BY <1>2 DEF ExecuteDeclareShader
<1>3. CASE c.op = "COMPILE_SHADER" /\ ExecuteCompileShader(c, TRUE)
  BY <1>3 DEF ExecuteCompileShader
<1>4. CASE c.op = "CREATE_PROGRAM" /\ ExecuteCreateProgram(c, TRUE)
  BY <1>4 DEF ExecuteCreateProgram
<1>5. CASE c.op = "CREATE_BUFFER" /\ ExecuteCreateBuffer(c, TRUE)
  BY <1>5 DEF ExecuteCreateBuffer
<1>6. CASE c.op = "CREATE_SAMPLER" /\ ExecuteCreateSampler(c, TRUE)
  BY <1>6 DEF ExecuteCreateSampler
<1>7. CASE c.op = "CREATE_EMPTY_TEXTURE_2D" /\ ExecuteCreateEmptyTexture2D(c, TRUE)
  BY <1>7 DEF ExecuteCreateEmptyTexture2D
<1>8. CASE c.op = "CREATE_RENDERBUFFER" /\ ExecuteCreateRenderbuffer(c, TRUE)
  BY <1>8 DEF ExecuteCreateRenderbuffer
<1> QED
  BY <1>1, <1>2, <1>3, <1>4, <1>5, <1>6, <1>7, <1>8, CreationExecutions

-----------------------------------------------------------------------------
\* Before the first command all maps are empty.
LEMMA EnvironmentInit == Init => EnvironmentInv
BY DEF Init, CheckerInit, ExecutorInit, EmptyMap, EnvironmentInv, LockStep, HeldAreUsed,
       Running, Tracks, Awaited

\* A check keeps the environments together: an accepted command is the one by which
\* the executor is behind.
LEMMA CheckCommandKeepsEnvironment ==
    ASSUME NEW c \in Commands, EnvironmentInv, CheckCommand(c)
    PROVE  EnvironmentInv'
<1> PICK ok \in BOOLEAN :
        /\ CheckHandler(c, ok)
        /\ phase' = IF ok THEN "execute" ELSE "failed"
        /\ pending' = IF ok THEN c ELSE NoCommand
  BY DEF CheckCommand, Check
<1>1. HeldAreUsed'
  BY CheckKeepsHeldAreUsed DEF EnvironmentInv
<1>2. CASE ok
  <2>1. CheckerAdds(c)
    BY <1>2, AcceptedCommandAdds
  <2>2. UNCHANGED executorVars /\ phase = "check"
    BY DEF CheckCommand
  <2>3. LockStep'
    BY <1>2, <2>1, <2>2 DEF CheckerAdds, EnvironmentInv, LockStep, HeldAreUsed, Running,
       Tracks, Awaited, Adds, CreationOps, executorVars, execMaps, execShaderMaps,
       execObjectMaps
  <2>4. Accepted(c)'
    BY <1>2, AcceptedCommandRefers
  <2> QED
    BY <1>1, <1>2, <2>3, <2>4 DEF EnvironmentInv, Accepted
<1>3. CASE ~ok
  BY <1>1, <1>3 DEF EnvironmentInv, LockStep, Running
<1> QED
  BY <1>2, <1>3

\* An execution keeps the environments together: one that succeeds catches up, one
\* that fails ends the run.
LEMMA ExecuteCommandKeepsEnvironment ==
    ASSUME EnvironmentInv, ExecuteCommand
    PROVE  EnvironmentInv'
<1> PICK ok \in BOOLEAN :
        /\ ExecuteHandler(pending, ok)
        /\ phase' = IF ok THEN "check" ELSE "failed"
  BY DEF ExecuteCommand
<1>1. phase = "execute" /\ UNCHANGED checkerVars
  BY DEF ExecuteCommand
<1>2. HeldAreUsed'
  BY <1>1 DEF EnvironmentInv, HeldAreUsed, checkerVars, objectMaps, shaderMaps, programMaps
<1>3. LockStep'
  <2>1. CASE ok
    <3>1. ExecutorAdds(pending)
      <4> PICK c : c = pending
        OBVIOUS
      <4>1. ExecutorAdds(c)
        BY <2>1, ExecutedCommandAdds
      <4> QED
        BY <4>1
    <3> QED
      BY <1>1, <2>1, <3>1 DEF ExecutorAdds, EnvironmentInv, LockStep, Running, Tracks, Awaited,
         Adds, checkerVars, objectMaps, shaderMaps, programMaps
  <2>2. CASE ~ok
    BY <2>2 DEF LockStep, Running
  <2> QED
    BY <2>1, <2>2
<1> QED
  BY <1>2, <1>3 DEF EnvironmentInv

\* A step of the run, or none, keeps the environments together.
LEMMA StepKeepsEnvironment ==
    ASSUME EnvironmentInv, [Next]_vars
    PROVE  EnvironmentInv'
<1> USE DEF EnvironmentInv
<1>1. ASSUME NEW c \in Commands, CheckCommand(c)
      PROVE  EnvironmentInv'
  BY <1>1, CheckCommandKeepsEnvironment
<1>2. CASE ExecuteCommand
  BY <1>2, ExecuteCommandKeepsEnvironment
<1>3. ASSUME UNCHANGED <<checkerVars, executorVars, pending>>,
             phase' = phase \/ phase' \in {"passed", "crashed"} \/ UNCHANGED vars
      PROVE  EnvironmentInv'
  BY <1>3 DEF LockStep, HeldAreUsed, Running, Tracks, Awaited, Accepted, checkerVars,
     objectMaps, shaderMaps, programMaps, executorVars, execMaps, execShaderMaps,
     execObjectMaps, vars, runVars
<1>4. CASE EndOfScript
  BY <1>3, <1>4 DEF EndOfScript
<1>5. ASSUME NEW c \in Commands, CrashInChecker(c)
      PROVE  EnvironmentInv'
  BY <1>3, <1>5 DEF CrashInChecker
<1>6. CASE CrashInExecutor
  BY <1>3, <1>6 DEF CrashInExecutor
<1>7. CASE UNCHANGED vars
  BY <1>3, <1>7 DEF vars, runVars
<1> QED
  BY <1>1, <1>2, <1>4, <1>5, <1>6, <1>7 DEF Next

\* The inductive invariant behind the two theorems that follow, for the steps of
\* command_visitor.cc and compound_visitor.cc.
THEOREM EnvironmentInvariant == Spec => []EnvironmentInv
BY EnvironmentInit, StepKeepsEnvironment, PTL DEF Spec

\* The checker and the executor keep the same environment: the checker's maps are
\* the executor's, with the result of the pending command added (checker.cc and
\* executor.cc, command by command).
THEOREM LockStepHolds == Spec => []LockStep
<1>1. EnvironmentInv => LockStep
  BY DEF EnvironmentInv
<1> QED
  BY <1>1, EnvironmentInvariant, PTL

\* No at() of the executor throws and no assertion about its maps fails.
THEOREM ExecutorNeverMissesHolds == Spec => []ExecutorNeverMisses
<1>1. EnvironmentInv => ExecutorNeverMisses
  <2> SUFFICES ASSUME EnvironmentInv, phase = "execute"
               PROVE  LookupsSucceed(pending)
    BY DEF ExecutorNeverMisses
  <2> QED
    BY DEF EnvironmentInv, LockStep, Running, Tracks, Awaited, Accepted, LookupsSucceed
<1> QED
  BY <1>1, EnvironmentInvariant, PTL

-----------------------------------------------------------------------------
(***************************************************************************)
(* OneScope.  What a handler adds to a map, accepted or not, was fresh in  *)
(* all of them, and it adds to one of them only.                           *)
(***************************************************************************)
\* The kinds of IdentifiersByKind, by the command that produces them.
ProducerOf ==
    << "DECLARE_SHADER", "COMPILE_SHADER", "CREATE_PROGRAM", "CREATE_BUFFER",
       "CREATE_RENDERBUFFER", "CREATE_SAMPLER", "CREATE_EMPTY_TEXTURE_2D" >>

\* A handler's result, if it was fresh, under the kind that the command produces.
MayAdd(c, op) == IF c.op = op /\ c.result \notin usedIdentifiers THEN {c.result} ELSE {}

GrowsByFresh(c) ==
    /\ DOMAIN declaredShaders' \subseteq DOMAIN declaredShaders \cup MayAdd(c, "DECLARE_SHADER")
    /\ DOMAIN compiledShaders' \subseteq DOMAIN compiledShaders \cup MayAdd(c, "COMPILE_SHADER")
    /\ DOMAIN createdPrograms' \subseteq DOMAIN createdPrograms \cup MayAdd(c, "CREATE_PROGRAM")
    /\ DOMAIN createdBuffers' \subseteq DOMAIN createdBuffers \cup MayAdd(c, "CREATE_BUFFER")
    /\ DOMAIN createdRenderbuffers' \subseteq
         DOMAIN createdRenderbuffers \cup MayAdd(c, "CREATE_RENDERBUFFER")
    /\ createdSamplers' \subseteq createdSamplers \cup MayAdd(c, "CREATE_SAMPLER")
    /\ createdTextures' \subseteq createdTextures \cup MayAdd(c, "CREATE_EMPTY_TEXTURE_2D")

\* Whatever a handler decides, it adds at most its result, and only a fresh one, to the
\* map of its kind.
LEMMA HandlersAddFresh ==
    ASSUME NEW c, NEW ok, CheckHandler(c, ok)
    PROVE  GrowsByFresh(c)
<1> USE DEF GrowsByFresh, MayAdd, Inserted, Fresh, checkerVars, objectMaps, shaderMaps,
            programMaps
<1>1. CASE c.op \notin CreationOps
  BY <1>1, UseChangesNothing
<1>2. CASE c.op = "DECLARE_SHADER" /\ CheckDeclareShader(c, ok)
  BY <1>2 DEF CheckDeclareShader
<1>3. CASE c.op = "COMPILE_SHADER" /\ CheckCompileShader(c, ok)
  BY <1>3 DEF CheckCompileShader
<1>4. CASE c.op = "CREATE_PROGRAM" /\ CheckCreateProgram(c, ok)
  BY <1>4 DEF CheckCreateProgram
<1>5. CASE c.op = "CREATE_BUFFER" /\ CheckCreateBuffer(c, ok)
  BY <1>5 DEF CheckCreateBuffer, CheckCreation
<1>6. CASE c.op = "CREATE_SAMPLER" /\ CheckCreateSampler(c, ok)
  BY <1>6 DEF CheckCreateSampler, CheckCreation
<1>7. CASE c.op = "CREATE_EMPTY_TEXTURE_2D" /\ CheckCreateEmptyTexture2D(c, ok)
  BY <1>7 DEF CheckCreateEmptyTexture2D, CheckCreation
<1>8. CASE c.op = "CREATE_RENDERBUFFER" /\ CheckCreateRenderbuffer(c, ok)
  BY <1>8 DEF CheckCreateRenderbuffer, CheckCreation
<1> QED
  BY <1>1, <1>2, <1>3, <1>4, <1>5, <1>6, <1>7, <1>8, CreationHandlers

\* OneScope, with what it takes for granted made part of it.
ScopeInv == HeldAreUsed /\ OneScope

\* The kinds are the seven of ProducerOf.
LEMMA SevenKinds ==
    /\ DOMAIN IdentifiersByKind = 1 .. 7
    /\ DOMAIN ProducerOf = 1 .. 7
    /\ \A i, j \in 1 .. 7 : i # j => ProducerOf[i] # ProducerOf[j]
BY DEF IdentifiersByKind, ProducerOf

\* A check keeps the kinds apart.
LEMMA CheckKeepsScope ==
    ASSUME NEW c, NEW ok, ScopeInv, CheckHandler(c, ok)
    PROVE  ScopeInv'
<1>1. HeldAreUsed'
  BY CheckKeepsHeldAreUsed DEF ScopeInv
<1>2. \A k \in 1 .. 7 : IdentifiersByKind'[k]
          \subseteq IdentifiersByKind[k] \cup MayAdd(c, ProducerOf[k])
  BY HandlersAddFresh DEF GrowsByFresh, IdentifiersByKind, ProducerOf
<1>3. \A k \in 1 .. 7 : IdentifiersByKind[k] \subseteq usedIdentifiers
  BY SevenKinds DEF ScopeInv, OneScope
<1>4. \A k \in 1 .. 7 : IdentifiersByKind'[k] \subseteq usedIdentifiers'
  BY <1>1 DEF HeldAreUsed, IdentifiersByKind
<1>5. ASSUME NEW i \in 1 .. 7, NEW j \in 1 .. 7, i # j
      PROVE  IdentifiersByKind'[i] \cap IdentifiersByKind'[j] = {}
  <2>1. IdentifiersByKind[i] \cap IdentifiersByKind[j] = {}
    BY <1>5, SevenKinds DEF ScopeInv, OneScope
  <2>2. MayAdd(c, ProducerOf[i]) \cap MayAdd(c, ProducerOf[j]) = {}
    BY <1>5, SevenKinds DEF MayAdd
  <2>3. \A k \in 1 .. 7 : MayAdd(c, ProducerOf[k]) \cap usedIdentifiers = {}
    BY DEF MayAdd
  <2> QED
    BY <1>2, <1>3, <2>1, <2>2, <2>3
<1>6. DOMAIN IdentifiersByKind' = 1 .. 7
  BY DEF IdentifiersByKind
<1> QED
  BY <1>1, <1>4, <1>5, <1>6 DEF ScopeInv, OneScope

\* Only a check changes what the checker holds.
LEMMA OnlyChecksChangeTheChecker ==
    ASSUME [Next]_vars
    PROVE  \/ UNCHANGED checkerVars
           \/ \E c \in Commands : CheckCommand(c)
BY DEF Next, ExecuteCommand, EndOfScript, CrashInChecker, CrashInExecutor, vars

\* There is one scope for all kinds of result (CheckIdentifierIsFresh, checker.cc).
THEOREM OneScopeHolds == Spec => []OneScope
<1>1. Init => ScopeInv
  BY DEF Init, CheckerInit, EmptyMap, ScopeInv, OneScope, HeldAreUsed, IdentifiersByKind
<1>2. ScopeInv /\ [Next]_vars => ScopeInv'
  <2> SUFFICES ASSUME ScopeInv, [Next]_vars PROVE ScopeInv'
    OBVIOUS
  <2>1. CASE UNCHANGED checkerVars
    BY <2>1 DEF ScopeInv, OneScope, HeldAreUsed, IdentifiersByKind, checkerVars, objectMaps,
       shaderMaps, programMaps
  <2>2. ASSUME NEW c \in Commands, CheckCommand(c)
        PROVE  ScopeInv'
    BY <2>2, CheckKeepsScope DEF CheckCommand, Check
  <2> QED
    BY <2>1, <2>2, OnlyChecksChangeTheChecker
<1>3. ScopeInv => OneScope
  BY DEF ScopeInv
<1> QED
  BY <1>1, <1>2, <1>3, PTL DEF Spec
-----------------------------------------------------------------------------
(***************************************************************************)
(* ChainOfShaders.  A compiled shader was declared when it was compiled;   *)
(* what was declared has been parsed, and for a version that has its kind. *)
(* No entry of the two maps is ever changed.                               *)
(***************************************************************************)
ShadersAreParsed ==
    /\ DOMAIN declaredShaders \subseteq glslangShaders
    /\ \A s \in DOMAIN declaredShaders :
         declaredShaders[s] = "COMPUTE" => ~ComputeUnsupported
    /\ ChainOfShaders

ShadersStay ==
    /\ \A s \in DOMAIN declaredShaders :
         s \in DOMAIN declaredShaders' /\ declaredShaders'[s] = declaredShaders[s]
    /\ \A s \in DOMAIN compiledShaders :
         s \in DOMAIN compiledShaders' /\ compiledShaders'[s] = compiledShaders[s]

\* What a handler may do to the shaders: nothing, or add one to one of the maps.
LEMMA ShaderHandlers ==
    ASSUME NEW c, NEW ok, CheckHandler(c, ok)
    PROVE  \/ UNCHANGED shaderMaps
           \/ CheckDeclareShader(c, ok)
           \/ CheckCompileShader(c, ok)
<1> USE DEF checkerVars
<1>1. CASE c.op \notin CreationOps
  BY <1>1, UseChangesNothing
<1>2. CASE c.op \in CreationOps
  BY <1>2, CreationHandlers DEF CheckCreateProgram, CheckCreateBuffer, CheckCreateSampler,
     CheckCreateEmptyTexture2D, CheckCreateRenderbuffer, CheckCreation
<1> QED
  BY <1>1, <1>2

\* No handler changes what was declared or compiled.
LEMMA HandlersKeepShaders ==
    ASSUME NEW c, NEW ok, CheckHandler(c, ok)
    PROVE  ShadersStay
<1> USE DEF ShadersStay, Inserted, shaderMaps, checkerVars
<1>1. CASE UNCHANGED shaderMaps
  BY <1>1
<1>2. CASE CheckDeclareShader(c, ok)
  BY <1>2 DEF CheckDeclareShader
<1>3. CASE CheckCompileShader(c, ok)
  BY <1>3 DEF CheckCompileShader
<1> QED
  BY <1>1, <1>2, <1>3, ShaderHandlers

\* A check keeps the shaders parsed, and each compiled one declared.
LEMMA CheckKeepsParsed ==
    ASSUME NEW c, NEW ok, ShadersAreParsed, CheckHandler(c, ok), version' = version
    PROVE  ShadersAreParsed'
<1> USE DEF ShadersAreParsed, ChainOfShaders, ComputeUnsupported, Below, AtLeast
<1>1. CASE UNCHANGED shaderMaps
  BY <1>1 DEF shaderMaps
<1>2. CASE CheckDeclareShader(c, ok)
  <2>1. CASE UNCHANGED shaderMaps
    BY <2>1 DEF shaderMaps
  <2>2. CASE /\ declaredShaders' = Inserted(declaredShaders, c.result, c.kind)
             /\ glslangShaders' = glslangShaders \cup {c.result}
             /\ ~(c.kind = "COMPUTE" /\ ComputeUnsupported)
             /\ UNCHANGED compiledShaders
    BY <2>2 DEF Inserted
  <2> QED
    BY <1>2, <2>1, <2>2 DEF CheckDeclareShader, checkerVars
<1>3. CASE CheckCompileShader(c, ok)
  BY <1>3 DEF CheckCompileShader, Inserted, checkerVars, shaderMaps
<1> QED
  BY <1>1, <1>2, <1>3, ShaderHandlers

\* Every shader parsed, at every step.
LEMMA ParsedInvariant == Spec => []ShadersAreParsed
<1>1. Init => ShadersAreParsed
  BY DEF Init, CheckerInit, EmptyMap, ShadersAreParsed, ChainOfShaders
<1>2. ShadersAreParsed /\ [Next]_vars => ShadersAreParsed'
  <2> SUFFICES ASSUME ShadersAreParsed, [Next]_vars PROVE ShadersAreParsed'
    OBVIOUS
  <2>1. version' = version
    BY DEF Next, CheckCommand, ExecuteCommand, EndOfScript, CrashInChecker, CrashInExecutor,
       vars
  <2>2. CASE UNCHANGED checkerVars
    BY <2>1, <2>2 DEF ShadersAreParsed, ChainOfShaders, ComputeUnsupported, Below, AtLeast,
       checkerVars, shaderMaps
  <2>3. ASSUME NEW c \in Commands, CheckCommand(c)
        PROVE  ShadersAreParsed'
    BY <2>1, <2>3, CheckKeepsParsed DEF CheckCommand, Check
  <2> QED
    BY <2>2, <2>3, OnlyChecksChangeTheChecker
<1> QED
  BY <1>1, <1>2, PTL DEF Spec

\* The three nested at() of Checker::VisitCreateProgram succeed.
THEOREM ChainOfShadersHolds == Spec => []ChainOfShaders
<1>1. ShadersAreParsed => ChainOfShaders
  BY DEF ShadersAreParsed
<1> QED
  BY <1>1, ParsedInvariant, PTL

-----------------------------------------------------------------------------
(***************************************************************************)
(* ProgramsRunAsBuilt and AttachmentsAreDrawnTo.  A program is recorded    *)
(* before its shaders are looked at, so that they are in order is known    *)
(* only while the run goes on.                                             *)
(***************************************************************************)
ProgramsAreLinked ==
    \A p \in DOMAIN createdPrograms :
        p \in glslangPrograms /\ ProperStages(createdPrograms[p])

\* What the acceptance of the pending command says of the program it runs.
AcceptedToRun(c) ==
    /\ c.op = "RUN_COMPUTE" => IsProgram(c.program, 1)
    /\ c.op = "RUN_GRAPHICS" =>
         /\ IsProgram(c.program, 2)
         /\ version = GLES(2, 0) =>
              \A attachment \in c.attachments : attachment[1] = 0

ProgramInv ==
    /\ Running => ProgramsAreLinked
    /\ phase = "execute" => AcceptedToRun(pending)

\* Compiled shaders are of the same stage ever after.
LEMMA StagesStay ==
    ASSUME NEW shaders, ChainOfShaders, ShadersStay, ProperStages(shaders)
    PROVE  ProperStages(shaders)'
<1>1. \A i \in DOMAIN shaders : shaders[i] \in DOMAIN compiledShaders
  BY DEF ProperStages
<1>2. \A i \in DOMAIN shaders : /\ shaders[i] \in DOMAIN compiledShaders'
                                /\ StageOf(shaders[i])' = StageOf(shaders[i])
  BY <1>1 DEF ChainOfShaders, ShadersStay, StageOf
<1>3. \A stage : OfStage(shaders, stage)' = OfStage(shaders, stage)
  BY <1>1, <1>2 DEF OfStage
<1> QED
  BY <1>2, <1>3 DEF ProperStages

\* A check that accepts keeps the programs in order.
LEMMA AcceptanceKeepsPrograms ==
    ASSUME NEW c, ProgramsAreLinked, ChainOfShaders, CheckHandler(c, TRUE)
    PROVE  ProgramsAreLinked'
<1>1. ShadersStay
  BY HandlersKeepShaders
<1>2. CASE UNCHANGED programMaps
  BY <1>1, <1>2, StagesStay DEF ProgramsAreLinked, programMaps
<1>3. CASE CheckCreateProgram(c, TRUE)
  <2>1. /\ createdPrograms' = Inserted(createdPrograms, c.result, c.shaders)
        /\ glslangPrograms' = glslangPrograms \cup {c.result}
        /\ ProperStages(c.shaders)
    BY <1>3 DEF CheckCreateProgram
  <2>2. \A p \in DOMAIN createdPrograms' :
           \/ p \in DOMAIN createdPrograms /\ createdPrograms'[p] = createdPrograms[p]
           \/ p = c.result /\ createdPrograms'[p] = c.shaders
    BY <2>1 DEF Inserted
  <2>3. \A p \in DOMAIN createdPrograms' : ProperStages(createdPrograms'[p])
    BY <2>1, <2>2 DEF ProgramsAreLinked
  <2>4. ASSUME NEW p \in DOMAIN createdPrograms'
        PROVE  ProperStages(createdPrograms[p])'
    <3> PICK shaders : shaders = createdPrograms'[p]
      OBVIOUS
    <3>1. ProperStages(shaders)
      BY <2>3
    <3>2. ProperStages(shaders)'
      BY <1>1, <3>1, StagesStay
    <3> QED
      BY <3>2 DEF ProperStages, OfStage, StageOf
  <2> QED
    BY <2>1, <2>2, <2>4 DEF ProgramsAreLinked
<1>4. UNCHANGED programMaps \/ CheckCreateProgram(c, TRUE)
  <2>1. CASE c.op \notin CreationOps
    BY <2>1, UseChangesNothing DEF checkerVars
  <2>2. CASE c.op \in CreationOps
    BY <2>2, CreationHandlers DEF CheckDeclareShader, CheckCompileShader, CheckCreateBuffer,
       CheckCreateSampler, CheckCreateEmptyTexture2D, CheckCreateRenderbuffer, CheckCreation,
       checkerVars
  <2> QED
    BY <2>1, <2>2
<1> QED
  BY <1>2, <1>3, <1>4

\* A command is accepted to run a program of the right number of shaders.
LEMMA AcceptanceToRun ==
    ASSUME NEW c, CheckHandler(c, TRUE), version' = version
    PROVE  AcceptedToRun(c)'
<1>1. CASE c.op \in {"RUN_COMPUTE", "RUN_GRAPHICS"}
  <2>1. UNCHANGED checkerVars
    BY <1>1, UseChangesNothing DEF CreationOps
  <2>2. AcceptedToRun(c)
    BY <1>1 DEF CheckHandler, CheckRunCompute, CheckRunGraphics, Verdict, AcceptedToRun
  <2> QED
    BY <2>1, <2>2 DEF AcceptedToRun, IsProgram, checkerVars, programMaps
<1>2. CASE c.op \notin {"RUN_COMPUTE", "RUN_GRAPHICS"}
  BY <1>2 DEF AcceptedToRun
<1> QED
  BY <1>1, <1>2

\* The programs are in order before the first command and after every step.
LEMMA ProgramInvariant == Spec => []ProgramInv
<1>1. Init => ProgramInv
  BY DEF Init, CheckerInit, EmptyMap, ProgramInv, ProgramsAreLinked
<1>2. ShadersAreParsed /\ ProgramInv /\ [Next]_vars => ProgramInv'
  <2> SUFFICES ASSUME ShadersAreParsed, ProgramInv, [Next]_vars PROVE ProgramInv'
    OBVIOUS
  <2>1. version' = version
    BY DEF Next, CheckCommand, ExecuteCommand, EndOfScript, CrashInChecker, CrashInExecutor,
       vars
  <2>2. ASSUME NEW c \in Commands, CheckCommand(c)
        PROVE  ProgramInv'
    <3> PICK ok \in BOOLEAN :
            /\ CheckHandler(c, ok)
            /\ phase' = IF ok THEN "execute" ELSE "failed"
            /\ pending' = IF ok THEN c ELSE NoCommand
      BY <2>2 DEF CheckCommand, Check
    <3>1. ProgramsAreLinked /\ ChainOfShaders
      BY <2>2 DEF CheckCommand, ProgramInv, Running, ShadersAreParsed
    <3>2. CASE ok
      <4>1. ProgramsAreLinked'
        BY <3>1, <3>2, AcceptanceKeepsPrograms
      <4>2. AcceptedToRun(c)'
        BY <2>1, <3>2, AcceptanceToRun
      <4> QED
        BY <3>2, <4>1, <4>2 DEF ProgramInv, AcceptedToRun, IsProgram
    <3>3. CASE ~ok
      BY <3>3 DEF ProgramInv, Running
    <3> QED
      BY <3>2, <3>3
  <2>3. ASSUME UNCHANGED checkerVars,
               phase' \notin {"check", "execute"} \/ Running,
               phase' = "execute" => phase = "execute" /\ pending' = pending
        PROVE  ProgramInv'
    BY <2>1, <2>3 DEF ProgramInv, Running, ProgramsAreLinked, ProperStages, OfStage, StageOf,
       AcceptedToRun, IsProgram, checkerVars, shaderMaps, programMaps
  <2>4. CASE ~\E c \in Commands : CheckCommand(c)
    BY <2>3, <2>4 DEF Next, ExecuteCommand, EndOfScript, CrashInChecker, CrashInExecutor,
       Running, vars, runVars
  <2> QED
    BY <2>2, <2>4
<1> QED
  BY <1>1, <1>2, ParsedInvariant, PTL DEF Spec

\* One shader in the right place is a compute shader.
LEMMA OneShaderComputes ==
    ASSUME TypeOK, ShadersAreParsed, ProgramsAreLinked, NEW p, IsProgram(p, 1)
    PROVE  IsComputeProgram(p) /\ ~ComputeUnsupported
<1> DEFINE shaders == createdPrograms[p]
<1>1. shaders \in Seq(Identifier) /\ Len(shaders) = 1 /\ DOMAIN shaders = 1 .. 1
  BY DEF IsProgram, TypeOK, CheckerTypeOK
<1>2. ProperStages(shaders)
  BY DEF IsProgram, ProgramsAreLinked
<1>3. StageOf(shaders[1]) = "COMPUTE"
  BY <1>1, <1>2 DEF ProperStages, OfStage, ShaderKind
<1>4. ~ComputeUnsupported
  BY <1>1, <1>2, <1>3 DEF ProperStages, StageOf, ShadersAreParsed, ChainOfShaders
<1> QED
  BY <1>1, <1>3, <1>4 DEF IsComputeProgram

\* Two are a vertex and a fragment shader.
LEMMA TwoShadersDraw ==
    ASSUME TypeOK, ShadersAreParsed, ProgramsAreLinked, NEW p, IsProgram(p, 2)
    PROVE  IsGraphicsProgram(p)
<1> DEFINE shaders == createdPrograms[p]
<1>1. shaders \in Seq(Identifier) /\ Len(shaders) = 2 /\ DOMAIN shaders = {1, 2}
  BY DEF IsProgram, TypeOK, CheckerTypeOK
<1>2. ProperStages(shaders)
  BY DEF IsProgram, ProgramsAreLinked
<1>3. StageOf(shaders[1]) \in ShaderKind /\ StageOf(shaders[2]) \in ShaderKind
  BY <1>1, <1>2 DEF ProperStages, StageOf, ShadersAreParsed, ChainOfShaders, TypeOK,
     CheckerTypeOK
<1>4. StageOf(shaders[1]) # StageOf(shaders[2])
  BY <1>1, <1>2, <1>3 DEF ProperStages, OfStage
<1>5. StageOf(shaders[1]) # "COMPUTE" /\ StageOf(shaders[2]) # "COMPUTE"
  BY <1>1, <1>2, <1>3, <1>4 DEF ProperStages, OfStage, ShaderKind
<1> QED
  BY <1>1, <1>3, <1>4, <1>5 DEF IsGraphicsProgram, ShaderKind

\* Counting shaders is enough to tell the programs apart: what is dispatched is a compute
\* program, where there are such, and what is drawn with a vertex and a fragment shader.
THEOREM ProgramsRunAsBuiltHolds == Spec => []ProgramsRunAsBuilt
<1>1. TypeOK /\ ShadersAreParsed /\ ProgramInv => ProgramsRunAsBuilt
  <2> SUFFICES ASSUME TypeOK, ShadersAreParsed, ProgramInv, phase = "execute"
               PROVE  /\ pending.op = "RUN_COMPUTE" =>
                           /\ IsComputeProgram(pending.program)
                           /\ AtLeast(version, GL(4, 3)) \/ AtLeast(version, GLES(3, 1))
                      /\ pending.op = "RUN_GRAPHICS" => IsGraphicsProgram(pending.program)
                      /\ pending.op \in {"RUN_COMPUTE", "RUN_GRAPHICS"} =>
                           pending.program \in glslangPrograms
    BY DEF ProgramsRunAsBuilt
  <2>1. ProgramsAreLinked /\ AcceptedToRun(pending)
    BY DEF ProgramInv, Running
  <2>2. ASSUME pending.op = "RUN_COMPUTE"
        PROVE  /\ IsComputeProgram(pending.program)
               /\ AtLeast(version, GL(4, 3)) \/ AtLeast(version, GLES(3, 1))
    <3>1. IsProgram(pending.program, 1)
      BY <2>1, <2>2 DEF AcceptedToRun
    <3>2. IsComputeProgram(pending.program) /\ ~ComputeUnsupported
      BY <2>1, <3>1, OneShaderComputes
    <3>3. version \in ApiVersions
      BY DEF TypeOK
    <3> QED
      BY <3>2, <3>3 DEF ComputeUnsupported, Below, AtLeast, GL, GLES, ApiVersions, Api
  <2>3. ASSUME pending.op = "RUN_GRAPHICS"
        PROVE  IsGraphicsProgram(pending.program)
    BY <2>1, <2>3, TwoShadersDraw DEF AcceptedToRun
  <2> QED
    BY <2>1, <2>2, <2>3 DEF AcceptedToRun, IsProgram, ProgramsAreLinked
<1> QED
  BY <1>1, TypeCorrect, ParsedInvariant, ProgramInvariant, PTL

\* Where the executor calls no glDrawBuffers, the checker has let attachment 0 pass only.
THEOREM AttachmentsAreDrawnToHolds == Spec => []AttachmentsAreDrawnTo
<1>1. ProgramInv => AttachmentsAreDrawnTo
  BY DEF ProgramInv, AcceptedToRun, AttachmentsAreDrawnTo, DrawBuffers
<1> QED
  BY <1>1, ProgramInvariant, PTL
==============================================================================
