----------------------------- MODULE MCPipeline -----------------------------
(***************************************************************************)
(* Scripts that declare, compile and link shaders and run the programs,    *)
(* the ones that mix up kinds and reuse identifiers included.              *)
(***************************************************************************)
EXTENDS ShaderTrap

MCIdentifier == {"vert", "frag", "comp", "cvert", "cfrag", "ccomp", "prog", "buf", "img"}

Declares ==
    {[op |-> "DECLARE_SHADER", result |-> "vert", kind |-> "VERTEX"],
     [op |-> "DECLARE_SHADER", result |-> "frag", kind |-> "FRAGMENT"],
     [op |-> "DECLARE_SHADER", result |-> "comp", kind |-> "COMPUTE"]}

Compiles ==
    {[op |-> "COMPILE_SHADER", result |-> "cvert", shader |-> "vert"],
     [op |-> "COMPILE_SHADER", result |-> "cfrag", shader |-> "frag"],
     [op |-> "COMPILE_SHADER", result |-> "ccomp", shader |-> "comp"],
     [op |-> "COMPILE_SHADER", result |-> "prog", shader |-> "vert"]}

Links ==
    {[op |-> "CREATE_PROGRAM", result |-> "prog", shaders |-> shaders] :
        shaders \in {<<"cfrag", "cvert">>, <<"ccomp">>, <<"cvert">>,
                     <<"cvert", "cvert">>, <<"cvert", "ccomp">>, <<"cvert", "frag">>}}

Draw(buffer, attachments) ==
    [op |-> "RUN_GRAPHICS", program |-> "prog", vertexBuffers |-> {buffer},
     indexBuffer |-> buffer, attachments |-> attachments]

Runs ==
    {[op |-> "RUN_COMPUTE", program |-> "prog"],
     Draw("buf", {<<0, "img">>}), Draw("buf", {<<0, "img">>, <<1, "img">>}),
     Draw("img", {<<0, "buf">>}),
     [op |-> "SET_UNIFORM", program |-> "prog", type |-> "vector"],
     [op |-> "SET_UNIFORM", program |-> "prog", type |-> "matrix"]}

MCCommands ==
    Declares \cup Compiles \cup Links \cup Runs \cup
    {[op |-> "CREATE_BUFFER", result |-> "buf", size |-> 4],
     [op |-> "CREATE_EMPTY_TEXTURE_2D", result |-> "img"],
     [op |-> "CREATE_RENDERBUFFER", result |-> "img", width |-> 1, height |-> 1]}

OnlyGL45 == {GL(4, 5)}
NewAndOld == {GL(4, 5), GLES(2, 0)}
=============================================================================
