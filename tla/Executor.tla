------------------------------ MODULE Executor ------------------------------
(***************************************************************************)
(* shadertrap::Executor (executor.cc): the execution of one command, as a  *)
(* series of OpenGL calls each followed by glGetError (GL_SAFECALL).       *)
(*                                                                         *)
(* Each handler is an action Execute<Command>(c, ok): ok is what the C++   *)
(* method returns.  The first GL call that reports an error ends the       *)
(* handler: "gl" is then what the calls before it made of the context.     *)
(***************************************************************************)
EXTENDS Script

VARIABLES
    execDeclaredShaders,    \* declared_shaders_: identifier -> shader kind
    execCompiledShaders,    \* compiled_shaders_: identifier -> GL name
    execPrograms,           \* created_programs_
    execBuffers,            \* created_buffers_
    execRenderbuffers,      \* created_renderbuffers_
    execSamplers,           \* created_samplers_
    execTextures,           \* created_textures_
    gl                      \* the context, as far as a later command can tell

execShaderMaps == <<execDeclaredShaders, execCompiledShaders>>
execObjectMaps == <<execBuffers, execRenderbuffers, execSamplers, execTextures>>
execMaps == <<execShaderMaps, execPrograms, execObjectMaps>>
executorVars == <<execMaps, gl>>

(***************************************************************************)
(* The OpenGL context (external).  Objects of a kind are named 1, 2, ...   *)
(* in the order glGen* or glCreate* returned them; 0 is "none".            *)
(***************************************************************************)
Extent == [width : Nat, height : Nat]

GlState ==
    [shaders : Nat, programs : Nat, textures : Nat, samplers : Nat,
     buffers : Seq(Nat),            \* the data store sizes
     renderbuffers : Seq(Extent),   \* the storage dimensions
     framebuffers : Nat,            \* generated and not deleted
     boundRenderbuffer : Nat,       \* the GL_RENDERBUFFER binding
     activeUnit : TextureUnit,      \* glActiveTexture
     unitTexture : [TextureUnit -> Nat],
     unitSampler : [TextureUnit -> Nat],
     storageBuffer : [Binding -> Nat],
     uniformBuffer : [Binding -> Nat],
     mapped : SUBSET Nat]           \* buffers whose store is mapped

\* Unit 0 is active in a new context.
ASSUME UnitAssumption == 0 \in TextureUnit

NewContext ==
    [shaders |-> 0, programs |-> 0, textures |-> 0, samplers |-> 0,
     buffers |-> <<>>, renderbuffers |-> <<>>, framebuffers |-> 0,
     boundRenderbuffer |-> 0, activeUnit |-> 0,
     unitTexture |-> [u \in TextureUnit |-> 0],
     unitSampler |-> [u \in TextureUnit |-> 0],
     storageBuffer |-> [b \in Binding |-> 0],
     uniformBuffer |-> [b \in Binding |-> 0],
     mapped |-> {}]

NamesOf(map) == {map[id] : id \in DOMAIN map}

IsNameMap(map) ==
    /\ DOMAIN map \subseteq Identifier
    /\ NamesOf(map) \subseteq Nat

ExecutorTypeOK ==
    /\ DOMAIN execDeclaredShaders \subseteq Identifier
    /\ \A s \in DOMAIN execDeclaredShaders : execDeclaredShaders[s] \in ShaderKind
    /\ IsNameMap(execCompiledShaders)
    /\ IsNameMap(execPrograms)
    /\ IsNameMap(execBuffers)
    /\ IsNameMap(execRenderbuffers)
    /\ IsNameMap(execSamplers)
    /\ IsNameMap(execTextures)
    /\ gl \in GlState

ExecutorInit ==
    /\ execDeclaredShaders = EmptyMap
    /\ execCompiledShaders = EmptyMap
    /\ execPrograms = EmptyMap
    /\ execBuffers = EmptyMap
    /\ execRenderbuffers = EmptyMap
    /\ execSamplers = EmptyMap
    /\ execTextures = EmptyMap
    /\ gl = NewContext

\* GL_SAFECALL over a handler's calls: success leaves the context after the last
\* one, a GL error one of the contexts that the calls before it produced.
GlCalls(ok, partial, done) == gl' \in IF ok THEN {done} ELSE partial

\* The same, for a handler that may also return false when no call failed,
\* because what it read back is not what the command expects.
GlCallsThenCompare(ok, partial, done) == GlCalls(ok, partial \cup {done}, done)

-----------------------------------------------------------------------------
(***************************************************************************)
(* Commands that produce a result.                                         *)
(***************************************************************************)
ExecuteDeclareShader(c, ok) ==
    /\ ok
    /\ execDeclaredShaders' = Inserted(execDeclaredShaders, c.result, c.kind)
    /\ UNCHANGED <<execCompiledShaders, execPrograms, execObjectMaps, gl>>
    /\ Reports(FALSE)

\* Mutant: the compiled shader is not recorded.
ExecuteCompileShaderOnly(c, ok) ==
    /\ GlCalls(ok, {gl}, [gl EXCEPT !.shaders = @ + 1])
    /\ UNCHANGED execMaps
    /\ Reports(~ok)

ExecuteCompileShader(c, ok) ==
    LET created == [gl EXCEPT !.shaders = @ + 1]
    IN  /\ GlCallsThenCompare(ok, {gl, created}, created)   \* GL_COMPILE_STATUS
        /\ execCompiledShaders' =
             IF ok THEN Inserted(execCompiledShaders, c.result, created.shaders)
                   ELSE execCompiledShaders
        /\ UNCHANGED <<execDeclaredShaders, execPrograms, execObjectMaps>>
        /\ Reports(~ok)

ExecuteCreateProgram(c, ok) ==
    LET created == [gl EXCEPT !.programs = @ + 1]
    IN  /\ GlCallsThenCompare(ok, {gl, created}, created)   \* GL_LINK_STATUS
        /\ execPrograms' =
             IF ok THEN Inserted(execPrograms, c.result, created.programs)
                   ELSE execPrograms
        /\ UNCHANGED <<execShaderMaps, execObjectMaps>>
        /\ Reports(~ok)

ExecuteCreateBuffer(c, ok) ==
    LET generated == [gl EXCEPT !.buffers = Append(@, 0)]
        filled == [gl EXCEPT !.buffers = Append(@, c.size)]
    IN  /\ GlCalls(ok, {gl, generated}, filled)
        /\ execBuffers' =
             IF ok THEN Inserted(execBuffers, c.result, Len(filled.buffers))
                   ELSE execBuffers
        /\ UNCHANGED <<execShaderMaps, execPrograms,
                       execRenderbuffers, execSamplers, execTextures>>
        /\ Reports(~ok)

\* Mutant: the sampler is not recorded.
ExecuteCreateSamplerOnly(c, ok) ==
    /\ GlCalls(ok, {gl}, [gl EXCEPT !.samplers = @ + 1])
    /\ UNCHANGED execMaps
    /\ Reports(~ok)

ExecuteCreateSampler(c, ok) ==
    LET generated == [gl EXCEPT !.samplers = @ + 1]
    IN  /\ GlCalls(ok, {gl}, generated)
        /\ execSamplers' =
             IF ok THEN Inserted(execSamplers, c.result, generated.samplers)
                   ELSE execSamplers
        /\ UNCHANGED <<execShaderMaps, execPrograms,
                       execBuffers, execRenderbuffers, execTextures>>
        /\ Reports(~ok)

\* Mutant: the new texture is bound on unit 0 and not on the active unit.
ExecuteCreateTextureOnUnit0(c, ok) ==
    /\ GlCalls(ok, {gl}, [gl EXCEPT !.textures = @ + 1, !.unitTexture[0] = gl.textures + 1])
    /\ execTextures' =
         IF ok THEN Inserted(execTextures, c.result, gl.textures + 1) ELSE execTextures
    /\ UNCHANGED <<execShaderMaps, execPrograms,
                   execBuffers, execRenderbuffers, execSamplers>>
    /\ Reports(~ok)

\* The new texture is bound, to give it storage, on whichever unit is active.
ExecuteCreateEmptyTexture2D(c, ok) ==
    LET generated == [gl EXCEPT !.textures = @ + 1]
        bound == [generated EXCEPT !.unitTexture[gl.activeUnit] = generated.textures]
    IN  /\ GlCalls(ok, {gl, generated, bound}, bound)
        /\ execTextures' =
             IF ok THEN Inserted(execTextures, c.result, generated.textures)
                   ELSE execTextures
        /\ UNCHANGED <<execShaderMaps, execPrograms,
                       execBuffers, execRenderbuffers, execSamplers>>
        /\ Reports(~ok)

\* Mutants: width and height are swapped; the renderbuffer is unbound at the end.
CreateRenderbufferOf(c, ok, extent, bound) ==
    LET name == Len(gl.renderbuffers) + 1
    IN  /\ GlCalls(ok, {gl}, [gl EXCEPT !.renderbuffers = Append(@, extent),
                                        !.boundRenderbuffer = bound])
        /\ execRenderbuffers' =
             IF ok THEN Inserted(execRenderbuffers, c.result, name) ELSE execRenderbuffers
        /\ UNCHANGED <<execShaderMaps, execPrograms, execBuffers, execSamplers, execTextures>>
        /\ Reports(~ok)

ExecuteCreateRenderbufferSwapped(c, ok) ==
    CreateRenderbufferOf(c, ok, [width |-> c.height, height |-> c.width],
                         Len(gl.renderbuffers) + 1)

ExecuteCreateRenderbufferUnbound(c, ok) ==
    CreateRenderbufferOf(c, ok, [width |-> c.width, height |-> c.height], 0)

ExecuteCreateRenderbuffer(c, ok) ==
    LET extent == [width |-> c.width, height |-> c.height]
        generated == [gl EXCEPT !.renderbuffers = Append(@, [width |-> 0, height |-> 0])]
        bound == [generated EXCEPT !.boundRenderbuffer = Len(generated.renderbuffers)]
        stored == [bound EXCEPT !.renderbuffers = Append(gl.renderbuffers, extent)]
    IN  /\ GlCalls(ok, {gl, generated, bound}, stored)
        /\ execRenderbuffers' =
             IF ok THEN Inserted(execRenderbuffers, c.result, Len(stored.renderbuffers))
                   ELSE execRenderbuffers
        /\ UNCHANGED <<execShaderMaps, execPrograms,
                       execBuffers, execSamplers, execTextures>>
        /\ Reports(~ok)

-----------------------------------------------------------------------------
(***************************************************************************)
(* Binding and parameter commands.                                         *)
(***************************************************************************)
ExecuteBindSampler(c, ok) ==
    /\ GlCalls(ok, {gl}, [gl EXCEPT !.unitSampler[c.unit] = execSamplers[c.sampler]])
    /\ UNCHANGED execMaps
    /\ Reports(~ok)

ExecuteBindShaderStorageBuffer(c, ok) ==
    /\ GlCalls(ok, {gl}, [gl EXCEPT !.storageBuffer[c.binding] = execBuffers[c.buffer]])
    /\ UNCHANGED execMaps
    /\ Reports(~ok)

\* The unit named by the command stays the active one.
ExecuteBindTexture(c, ok) ==
    LET activated == [gl EXCEPT !.activeUnit = c.unit]
        bound == [activated EXCEPT !.unitTexture[c.unit] = execTextures[c.texture]]
    IN  /\ GlCalls(ok, {gl, activated}, bound)
        /\ UNCHANGED execMaps
        /\ Reports(~ok)

ExecuteBindUniformBuffer(c, ok) ==
    /\ GlCalls(ok, {gl}, [gl EXCEPT !.uniformBuffer[c.binding] = execBuffers[c.buffer]])
    /\ UNCHANGED execMaps
    /\ Reports(~ok)

ExecuteSetSamplerParameter(c, ok) ==
    /\ GlCalls(ok, {gl}, gl)
    /\ UNCHANGED execMaps
    /\ Reports(~ok)

\* glTexParameteri acts on a bound texture, so the texture is bound first, on
\* whichever unit is active.
ExecuteSetTextureParameter(c, ok) ==
    LET bound == [gl EXCEPT !.unitTexture[gl.activeUnit] = execTextures[c.texture]]
    IN  /\ GlCalls(ok, {gl, bound}, bound)
        /\ UNCHANGED execMaps
        /\ Reports(~ok)

\* False also when the program has no uniform of the given name.  A matrix type
\* reaches the default case: without assertions nothing is set.
ExecuteSetUniform(c, ok) ==
    /\ GlCalls(ok, {gl}, gl)
    /\ UNCHANGED execMaps
    /\ Reports(~ok)

-----------------------------------------------------------------------------
(***************************************************************************)
(* Comparing and dumping.  What is read back is not modelled, so a         *)
(* comparison may come out either way.                                     *)
(***************************************************************************)
Generated == [gl EXCEPT !.framebuffers = @ + 1]

BindingRenderbuffer(id) == [gl EXCEPT !.boundRenderbuffer = execRenderbuffers[id]]

\* glMapBufferRange refuses an empty range and a buffer that is already mapped.
Mappable(name) == name \notin gl.mapped /\ gl.buffers[name] > 0

\* CheckEqualBuffers maps the first buffer and then the second, and holds both
\* mapped while it compares.
BothCanBeMapped(pair) ==
    /\ Mappable(execBuffers[pair[1]])
    /\ Mappable(execBuffers[pair[2]])
    /\ execBuffers[pair[1]] # execBuffers[pair[2]]

ExecuteAssertEqualBuffers(c, ok) ==
    LET first == execBuffers[c.arguments[1]]
        second == execBuffers[c.arguments[2]]
        Mapping(names) == [gl EXCEPT !.mapped = @ \cup names]
    IN  /\ ok => BothCanBeMapped(c.arguments)
        /\ GlCallsThenCompare(ok,
              {gl, Mapping({first}), Mapping({first, second}), Mapping({second})}, gl)
        /\ UNCHANGED execMaps
        /\ Reports(~ok)

\* Mutant: the framebuffer is not deleted.
ExecuteAssertEqualRenderbuffersLeaking(c, ok) ==
    /\ GlCalls(ok, {gl}, Generated)
    /\ UNCHANGED execMaps
    /\ Reports(~ok)

\* CheckEqualRenderbuffers: one framebuffer at a time, deleted after the read.
ExecuteAssertEqualRenderbuffers(c, ok) ==
    LET one == BindingRenderbuffer(c.arguments[1])
        both == BindingRenderbuffer(c.arguments[2])
        attached == [both EXCEPT !.framebuffers = @ + 1]
    IN  /\ GlCallsThenCompare(ok, {gl, one, both, attached}, both)
        /\ UNCHANGED execMaps
        /\ Reports(~ok)

\* The framebuffer is never deleted.
ExecuteAssertPixels(c, ok) ==
    /\ GlCallsThenCompare(ok, {gl, Generated}, Generated)
    /\ UNCHANGED execMaps
    /\ Reports(~ok)

\* A distance above the tolerance is reported as an error, and the handler
\* returns true all the same.  The framebuffer is never deleted.
ExecuteAssertSimilarEmdHistogram(c, ok) ==
    LET one == BindingRenderbuffer(c.arguments[1])
        both == BindingRenderbuffer(c.arguments[2])
        attached == [both EXCEPT !.framebuffers = @ + 1]
    IN  /\ GlCalls(ok, {gl, one, both, attached}, attached)
        /\ UNCHANGED execMaps
        /\ \E aboveTolerance \in BOOLEAN : Reports(~ok \/ aboveTolerance)

\* Failing to write the PNG file is reported, and the handler goes on.
ExecuteDumpRenderbuffer(c, ok) ==
    /\ GlCalls(ok, {gl, Generated}, gl)
    /\ UNCHANGED execMaps
    /\ \E notWritten \in BOOLEAN : Reports(~ok \/ notWritten)

\* Mutant: the buffer is not unmapped.
DumpBufferMapped(c, ok) ==
    LET name == execBuffers[c.buffer]
    IN  /\ ok => Mappable(name)
        /\ GlCalls(ok, {gl}, [gl EXCEPT !.mapped = @ \cup {name}])
        /\ UNCHANGED execMaps
        /\ Reports(~ok)

DumpBuffer(c, ok) ==
    LET name == execBuffers[c.buffer]
        mapped == [gl EXCEPT !.mapped = @ \cup {name}]
    IN  /\ ok => Mappable(name)
        /\ GlCalls(ok, {gl, mapped}, gl)
        /\ UNCHANGED execMaps
        /\ Reports(~ok)

ExecuteDumpBufferBinary(c, ok) == DumpBuffer(c, ok)

ExecuteDumpBufferText(c, ok) == DumpBuffer(c, ok)

-----------------------------------------------------------------------------
(***************************************************************************)
(* Running a program.                                                      *)
(***************************************************************************)
ExecuteRunCompute(c, ok) ==
    /\ GlCalls(ok, {gl}, gl)
    /\ UNCHANGED execMaps
    /\ Reports(~ok)

\* The color attachments a draw writes to: glDrawBuffers names those attached,
\* and is not called on OpenGL ES 2.0, where the default is attachment 0.
DrawBuffers(c) ==
    IF version = GLES(2, 0) THEN {0} ELSE {attachment[1] : attachment \in c.attachments}

\* The vertex array and the framebuffer live only inside the handler, except
\* when a call in between fails.
ExecuteRunGraphics(c, ok) ==
    /\ GlCalls(ok, {gl, Generated}, gl)
    /\ UNCHANGED execMaps
    /\ Reports(~ok)

-----------------------------------------------------------------------------
ExecuteHandler(c, ok) ==
    \/ c.op = "DECLARE_SHADER" /\ ExecuteDeclareShader(c, ok)
    \/ c.op = "COMPILE_SHADER" /\ ExecuteCompileShader(c, ok)
    \/ c.op = "CREATE_PROGRAM" /\ ExecuteCreateProgram(c, ok)
    \/ c.op = "CREATE_BUFFER" /\ ExecuteCreateBuffer(c, ok)
    \/ c.op = "CREATE_SAMPLER" /\ ExecuteCreateSampler(c, ok)
    \/ c.op = "CREATE_EMPTY_TEXTURE_2D" /\ ExecuteCreateEmptyTexture2D(c, ok)
    \/ c.op = "CREATE_RENDERBUFFER" /\ ExecuteCreateRenderbuffer(c, ok)
    \/ c.op = "BIND_SAMPLER" /\ ExecuteBindSampler(c, ok)
    \/ c.op = "BIND_TEXTURE" /\ ExecuteBindTexture(c, ok)
    \/ c.op = "BIND_SHADER_STORAGE_BUFFER" /\ ExecuteBindShaderStorageBuffer(c, ok)
    \/ c.op = "BIND_UNIFORM_BUFFER" /\ ExecuteBindUniformBuffer(c, ok)
    \/ c.op = "ASSERT_EQUAL_BUFFERS" /\ ExecuteAssertEqualBuffers(c, ok)
    \/ c.op = "ASSERT_EQUAL_RENDERBUFFERS" /\ ExecuteAssertEqualRenderbuffers(c, ok)
    \/ c.op = "ASSERT_PIXELS" /\ ExecuteAssertPixels(c, ok)
    \/ c.op = "ASSERT_SIMILAR_EMD_HISTOGRAM" /\ ExecuteAssertSimilarEmdHistogram(c, ok)
    \/ c.op = "DUMP_RENDERBUFFER" /\ ExecuteDumpRenderbuffer(c, ok)
    \/ c.op = "DUMP_BUFFER_BINARY" /\ ExecuteDumpBufferBinary(c, ok)
    \/ c.op = "DUMP_BUFFER_TEXT" /\ ExecuteDumpBufferText(c, ok)
    \/ c.op = "RUN_COMPUTE" /\ ExecuteRunCompute(c, ok)
    \/ c.op = "RUN_GRAPHICS" /\ ExecuteRunGraphics(c, ok)
    \/ c.op = "SET_SAMPLER_PARAMETER" /\ ExecuteSetSamplerParameter(c, ok)
    \/ c.op = "SET_TEXTURE_PARAMETER" /\ ExecuteSetTextureParameter(c, ok)
    \/ c.op = "SET_UNIFORM" /\ ExecuteSetUniform(c, ok)

-----------------------------------------------------------------------------
(***************************************************************************)
(* What the handlers take for granted.  A map looked up with at() must     *)
(* hold the key (std::out_of_range ends the program otherwise), and the    *)
(* assertions about the maps must hold; the checker is what ensures it.    *)
(***************************************************************************)
LookupsSucceed(c) ==
    /\ c.op = "DECLARE_SHADER" => c.result \notin DOMAIN execDeclaredShaders
    /\ c.op = "COMPILE_SHADER" =>
         /\ c.shader \in DOMAIN execDeclaredShaders
         /\ c.result \notin DOMAIN execCompiledShaders
    /\ c.op = "CREATE_PROGRAM" =>
         /\ c.result \notin DOMAIN execPrograms
         /\ \A i \in DOMAIN c.shaders : c.shaders[i] \in DOMAIN execCompiledShaders
    /\ c.op \in {"BIND_SHADER_STORAGE_BUFFER", "BIND_UNIFORM_BUFFER",
                 "DUMP_BUFFER_BINARY", "DUMP_BUFFER_TEXT"} =>
         c.buffer \in DOMAIN execBuffers
    /\ c.op \in {"BIND_SAMPLER", "SET_SAMPLER_PARAMETER"} =>
         c.sampler \in DOMAIN execSamplers
    /\ c.op \in {"BIND_TEXTURE", "SET_TEXTURE_PARAMETER"} =>
         c.texture \in DOMAIN execTextures
    /\ c.op = "ASSERT_EQUAL_BUFFERS" =>
         {c.arguments[1], c.arguments[2]} \subseteq DOMAIN execBuffers
    /\ c.op \in {"ASSERT_EQUAL_RENDERBUFFERS", "ASSERT_SIMILAR_EMD_HISTOGRAM"} =>
         {c.arguments[1], c.arguments[2]} \subseteq DOMAIN execRenderbuffers
    /\ c.op \in {"ASSERT_PIXELS", "DUMP_RENDERBUFFER"} =>
         c.renderbuffer \in DOMAIN execRenderbuffers
    /\ c.op \in {"RUN_COMPUTE", "SET_UNIFORM"} => c.program \in DOMAIN execPrograms
    /\ c.op = "RUN_GRAPHICS" =>
         /\ c.program \in DOMAIN execPrograms
         /\ c.vertexBuffers \cup {c.indexBuffer} \subseteq DOMAIN execBuffers
         /\ \A attachment \in c.attachments :
              attachment[2] \in DOMAIN execRenderbuffers \cup DOMAIN execTextures

\* The assertions about the command itself; the checker does not ensure these.
CommandAssertionsHold(c) ==
    /\ c.op = "SET_UNIFORM" => c.type # "matrix"
    /\ c.op = "RUN_GRAPHICS" => Cardinality(c.attachments) <= 32

\* VisitAssertPixels and VisitDumpRenderbuffer ask for the dimensions of the
\* renderbuffer that is bound, which they do not bind themselves.
QueriedExtent == gl.renderbuffers[gl.boundRenderbuffer]

\* Row y of the image is row height - y - 1 of the data read back.
PixelIndex(x, y) == (QueriedExtent.height - y - 1) * QueriedExtent.width + x

PixelsInBounds(c) ==
    \A x \in c.x .. c.x + c.width - 1, y \in c.y .. c.y + c.height - 1 :
        /\ y < QueriedExtent.height
        /\ PixelIndex(x, y) < QueriedExtent.width * QueriedExtent.height
=============================================================================
