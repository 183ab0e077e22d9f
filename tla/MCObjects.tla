------------------------------ MODULE MCObjects ------------------------------
(***************************************************************************)
(* Scripts that create buffers, renderbuffers, textures and samplers, bind *)
(* them, compare them and dump them.                                       *)
(***************************************************************************)
EXTENDS ShaderTrap

MCIdentifier == {"b1", "b2", "r1", "r2", "t1", "t2", "s1"}

\* "b2" and "r2" come in a size equal to and a size different from the first's,
\* and "t2" may be taken by a sampler instead.
CreateBuffers ==
    {[op |-> "CREATE_BUFFER", result |-> "b1", size |-> 4],
     [op |-> "CREATE_BUFFER", result |-> "b2", size |-> 4],
     [op |-> "CREATE_BUFFER", result |-> "b2", size |-> 8],
     [op |-> "CREATE_BUFFER", result |-> "r2", size |-> 0]}

CreateRenderbuffers ==
    {[op |-> "CREATE_RENDERBUFFER", result |-> "r1", width |-> 2, height |-> 2],
     [op |-> "CREATE_RENDERBUFFER", result |-> "r2", width |-> 2, height |-> 2],
     [op |-> "CREATE_RENDERBUFFER", result |-> "r2", width |-> 1, height |-> 2]}

CreateTextures ==
    {[op |-> "CREATE_EMPTY_TEXTURE_2D", result |-> "t1"],
     [op |-> "CREATE_EMPTY_TEXTURE_2D", result |-> "t2"],
     [op |-> "CREATE_SAMPLER", result |-> "s1"],
     [op |-> "CREATE_SAMPLER", result |-> "t2"]}

BindBuffers ==
    {[op |-> "BIND_SHADER_STORAGE_BUFFER", buffer |-> "b1", binding |-> 0],
     [op |-> "BIND_UNIFORM_BUFFER", buffer |-> "b1", binding |-> 0]}

BindTextures ==
    {[op |-> "BIND_TEXTURE", texture |-> t, unit |-> u] : t \in {"t1", "t2"}, u \in {0, 1}}
    \cup {[op |-> "BIND_SAMPLER", sampler |-> "s1", unit |-> 1]}

SetParameters ==
    {[op |-> "SET_SAMPLER_PARAMETER", sampler |-> "s1"],
     [op |-> "SET_TEXTURE_PARAMETER", texture |-> "t1"]}

Entry(kind, count) == [kind |-> kind, count |-> count]

CompareBuffers ==
    {[op |-> "ASSERT_EQUAL_BUFFERS", arguments |-> <<"b1", b>>, format |-> format] :
        b \in {"b1", "b2"},
        format \in {<<>>, <<Entry("int", 1)>>, <<Entry("byte", 3), Entry("SKIP_BYTES", 1)>>}}

DumpBuffers ==
    {[op |-> "DUMP_BUFFER_BINARY", buffer |-> "b1"],
     [op |-> "DUMP_BUFFER_TEXT", buffer |-> "b1",
      format |-> <<Entry("string", 0), Entry("float", 1)>>],
     [op |-> "DUMP_BUFFER_TEXT", buffer |-> "b1", format |-> <<>>]}

ReadRenderbuffers ==
    {[op |-> "ASSERT_EQUAL_RENDERBUFFERS", arguments |-> <<"r1", "r2">>],
     [op |-> "ASSERT_SIMILAR_EMD_HISTOGRAM", arguments |-> <<"r1", "r2">>],
     [op |-> "DUMP_RENDERBUFFER", renderbuffer |-> "r1"]}
    \cup
    {[op |-> "ASSERT_PIXELS", renderbuffer |-> "r1", x |-> 0, y |-> 0,
      width |-> width, height |-> 1] : width \in {0, 2, 3}}

MCBufferCommands ==
    CreateBuffers \cup BindBuffers \cup CompareBuffers \cup DumpBuffers
MCImageCommands ==
    CreateRenderbuffers \cup ReadRenderbuffers \cup CreateTextures
MCCompareCommands == CreateRenderbuffers
    \cup {c \in ReadRenderbuffers : c.op = "ASSERT_SIMILAR_EMD_HISTOGRAM"}
MCBindCommands == CreateTextures \cup BindTextures \cup SetParameters
MCOldCommands == MCBufferCommands \cup MCImageCommands
MCObjectCommands == MCBufferCommands \cup MCImageCommands \cup MCBindCommands

OnlyGL45 == {GL(4, 5)}
OldVersions == {GL(4, 2), GLES(2, 0)}
=============================================================================
