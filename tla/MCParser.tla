------------------------------ MODULE MCParser ------------------------------
(***************************************************************************)
(* Scripts of one command, or of two if the first is CREATE_SAMPLER.       *)
(* Within a command there are the tokens it may have, and some it may not. *)
(***************************************************************************)
EXTENDS Parser

MCIdentifier == {"a", "b"}

Named(ids) == {[type |-> "identifier", text |-> id] : id \in ids}
Keywords(texts) == {Keyword(text) : text \in texts}
Ints(numbers) == {IntLiteral(n) : n \in numbers}
Floats == {FloatLiteral(<<0, 0>>, converts) : converts \in BOOLEAN}
Marks(texts) == {[type |-> "punctuation", text |-> text] : text \in texts}
Strings(texts) == {[type |-> "string", text |-> text] : text \in texts}

Anywhere ==
    {[type |-> "EOS", text |-> ""], Unknown(TRUE), Unknown(FALSE)}
      \cup Keywords({"KIND"}) \cup Named({"a"}) \cup Ints({0})

\* On and beyond every limit: UINT8_MAX = 0, INT_MAX = 4, UINT32_MAX = 8, LONG_MAX = 9.
Limits == {-11, -1, 0, 4, 5, 8, 9, 10}

Values(of) ==
    CASE of = "DECLARE_SHADER" -> Keywords({"VERTEX", "END"}) \cup Strings({"END"})
      [] of = "COMPILE_SHADER" -> Keywords({"SHADER"})
      [] of = "CREATE_PROGRAM" -> Keywords({"SHADERS"})
      [] of = "CREATE_SAMPLER" -> Keywords({"DECLARE_SHADER", "CREATE_BUFFER", "BIND_TEXTURE"})
      [] of \in {"BIND_SAMPLER", "CREATE_RENDERBUFFER"} -> Ints(Limits)
      [] of \in {"ASSERT_EQUAL", "DUMP_BUFFER_TEXT"} ->
           Keywords({"byte", "int", "SKIP_BYTES"}) \cup Strings({"s"}) \cup Ints({4, 10})
      [] of = "ASSERT_PIXELS" -> Ints({-1, 4, 9, 10})
      [] of = "ASSERT_SIMILAR_EMD_HISTOGRAM" -> Floats
      [] of = "CREATE_BUFFER" ->
           Keywords({"byte", "int", "uint", "float"}) \cup Ints(Limits) \cup Floats
      [] of = "RUN_GRAPHICS" ->
           Keywords({"TRIANGLES"}) \cup Ints({-1}) \cup Marks({"[", "]", ",", "->"})
      [] of \in {"DUMP_BUFFER_BINARY", "DUMP_RENDERBUFFER"} -> Strings({"s"})
      [] of \in {"SET_SAMPLER_PARAMETER", "SET_TEXTURE_PARAMETER"} ->
           Keywords({"TEXTURE_MAG_FILTER", "NEAREST"})
      [] of = "SET_UNIFORM" ->
           Keywords({"sampler2D", "uvec2", "vec3", "mat2x2"}) \cup Ints({-1, 5, 10})
             \cup Floats \cup Marks({"[", "]"}) \cup Strings({"s", "]"})
      [] OTHER -> {}

\* Lists of names and of locations need two of each to tell from one another.
Others(item) ==
    CASE item = "argument" -> Named({"b"}) \cup Strings({"a"})
      [] item \in {"attachment", "shaders"} -> Named({"b"})
      [] item \in {"location", "entries"} -> Ints({4})
      [] OTHER -> {}

Starts ==
    Keywords(Api \cup CommandKeywords)
      \cup {FloatLiteral(v, TRUE) : v \in {<<4, 5>>, <<3, 1>>, <<2, 1>>}}

ParametersOf(of) ==
    IF of \in {"DECLARE_SHADER", "COMPILE_SHADER", "CREATE_PROGRAM", "CREATE_SAMPLER"} THEN {}
    ELSE DOMAIN Tables[of]
           \cup IF of = "RUN_GRAPHICS" THEN DOMAIN Tables["vertex_attribute"] ELSE {}

MCTokensAt(of, item) ==
    Anywhere \cup Others(item)
      \cup IF of = "none" THEN Starts ELSE Values(of) \cup Keywords(ParametersOf(of))

MCUnits == 0 .. UINT32_MAX
=============================================================================
