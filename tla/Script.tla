------------------------------- MODULE Script -------------------------------
(***************************************************************************)
(* The commands of a parsed ShaderTrap program, as the checker and the     *)
(* executor see them (libshadertrap/command_*.h).  A command is a record   *)
(* whose "op" is its keyword; the other fields are what the handlers read. *)
(* Shader text, file names, colours, tolerances and uniform values never   *)
(* decide which branch a handler takes except through an outcome (glslang  *)
(* accepts or not, pixels match or not), so they are left out and that     *)
(* outcome is chosen nondeterministically by the handler's action.         *)
(***************************************************************************)
EXTENDS Naturals, FiniteSets, SequencesExt, ApiVersion, Format

CONSTANTS
    Identifier,     \* result identifiers a script may use
    TextureUnit,    \* texture units the bind commands may name
    Binding         \* buffer binding points the bind commands may name

VARIABLES
    version,        \* the API version the script starts with
    errorReported   \* has a kError message been given to the MessageConsumer that
                    \* the parser, the checker and the executor share?

Reports(error) == errorReported' = (errorReported \/ error)

ShaderKind == {"VERTEX", "FRAGMENT", "COMPUTE"}

\* The classes of uniform types that Executor::VisitSetUniform tells apart.
UniformClass == {"sampler", "vector", "matrix"}

DeclareShader == [op : {"DECLARE_SHADER"}, result : Identifier, kind : ShaderKind]
CompileShader == [op : {"COMPILE_SHADER"}, result : Identifier, shader : Identifier]
CreateProgram == [op : {"CREATE_PROGRAM"}, result : Identifier, shaders : Seq(Identifier)]
CreateBuffer == [op : {"CREATE_BUFFER"}, result : Identifier, size : Nat]
CreateSampler == [op : {"CREATE_SAMPLER"}, result : Identifier]
CreateEmptyTexture2D == [op : {"CREATE_EMPTY_TEXTURE_2D"}, result : Identifier]
CreateRenderbuffer ==
    [op : {"CREATE_RENDERBUFFER"}, result : Identifier, width : Nat, height : Nat]

BindSampler == [op : {"BIND_SAMPLER"}, sampler : Identifier, unit : TextureUnit]
BindTexture == [op : {"BIND_TEXTURE"}, texture : Identifier, unit : TextureUnit]
BindShaderStorageBuffer ==
    [op : {"BIND_SHADER_STORAGE_BUFFER"}, buffer : Identifier, binding : Binding]
BindUniformBuffer ==
    [op : {"BIND_UNIFORM_BUFFER"}, buffer : Identifier, binding : Binding]

\* The two forms of ASSERT_EQUAL: only the buffer form has a format (without
\* strings), and an absent FORMAT is an empty sequence.
AssertEqualBuffers ==
    [op : {"ASSERT_EQUAL_BUFFERS"}, arguments : Identifier \X Identifier,
     format : Seq([kind : FormatKind \ {"string"}, count : Nat])]
AssertEqualRenderbuffers ==
    [op : {"ASSERT_EQUAL_RENDERBUFFERS"}, arguments : Identifier \X Identifier]
AssertPixels ==
    [op : {"ASSERT_PIXELS"}, renderbuffer : Identifier,
     x : Nat, y : Nat, width : Nat, height : Nat]
AssertSimilarEmdHistogram ==
    [op : {"ASSERT_SIMILAR_EMD_HISTOGRAM"}, arguments : Identifier \X Identifier]

DumpRenderbuffer == [op : {"DUMP_RENDERBUFFER"}, renderbuffer : Identifier]
DumpBufferBinary == [op : {"DUMP_BUFFER_BINARY"}, buffer : Identifier]
DumpBufferText ==
    [op : {"DUMP_BUFFER_TEXT"}, buffer : Identifier, format : Seq(FormatEntry)]

RunCompute == [op : {"RUN_COMPUTE"}, program : Identifier]
\* attachments: the pairs location -> identifier; the parser refuses a location
\* given twice, so they form a map.
RunGraphics ==
    [op : {"RUN_GRAPHICS"}, program : Identifier, vertexBuffers : SUBSET Identifier,
     indexBuffer : Identifier, attachments : SUBSET (Nat \X Identifier)]

SetSamplerParameter == [op : {"SET_SAMPLER_PARAMETER"}, sampler : Identifier]
SetTextureParameter == [op : {"SET_TEXTURE_PARAMETER"}, texture : Identifier]
SetUniform == [op : {"SET_UNIFORM"}, program : Identifier, type : UniformClass]

\* The commands that produce a result identifier.
Creation ==
    DeclareShader \cup CompileShader \cup CreateProgram \cup CreateBuffer
        \cup CreateSampler \cup CreateEmptyTexture2D \cup CreateRenderbuffer

\* The commands that only refer to what earlier commands produced.
Use ==
    BindSampler \cup BindTexture \cup BindShaderStorageBuffer \cup BindUniformBuffer
        \cup AssertEqualBuffers \cup AssertEqualRenderbuffers \cup AssertPixels
        \cup AssertSimilarEmdHistogram \cup DumpRenderbuffer \cup DumpBufferBinary
        \cup DumpBufferText \cup RunCompute \cup RunGraphics
        \cup SetSamplerParameter \cup SetTextureParameter \cup SetUniform

\* std::unordered_map::insert: an entry that is already there is kept.
Inserted(map, key, value) ==
    [k \in DOMAIN map \cup {key} |-> IF k \in DOMAIN map THEN map[k] ELSE value]

EmptyMap == [k \in {} |-> k]
=============================================================================
