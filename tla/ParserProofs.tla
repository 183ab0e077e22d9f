---------------------------- MODULE ParserProofs ----------------------------
(***************************************************************************)
(* Proofs about the parser, for every script, with lists of any length     *)
(* within the bounds, whatever the bounds and the limits of numbers.       *)
(***************************************************************************)
EXTENDS Parser, TLAPS

-----------------------------------------------------------------------------
(***************************************************************************)
(* Items, and what may be on todo.                                         *)
(***************************************************************************)
NameLocals ==
    {"result", "shader", "program", "index_data", "buffer", "renderbuffer", "sampler",
     "texture"}
ArgumentLocals == {"first", "second"}
SettingLocals ==
    NameLocals \cup ArgumentLocals \cup NumberLocals \cup Dropped \cup {"kind", "type"}
AnyParameter == UNION {DOMAIN Tables[of] : of \in DOMAIN Tables}
DroppedWords ==
    {{"TEXTURE_MAG_FILTER", "TEXTURE_MIN_FILTER"}, {"LINEAR", "NEAREST"}, {"TRIANGLES"}}
SegmentTypes == {"byte", "float", "int", "uint"}
EntryKinds == {"attachment", "vertex_attribute"}

LegalItem ==
    [item : {"keyword"}, words : {{"KIND"}, {"SHADER"}, {"SHADERS"}}]
      \cup [item : {"symbol"}, text : {"[", "->"}]
      \cup [item : {"literal"}, type : {"identifier"}, local : NameLocals]
      \cup [item : {"literal"}, type : {"string", "float_literal"}, local : Dropped]
      \cup [item : {"argument"}, local : ArgumentLocals]
      \cup [item : {"number"}, local : NumberLocals \cup Dropped,
            most : {UINT8_MAX, UINT32_MAX}]
      \cup [item : {"one_of"}, words : {ShaderKind}, local : {"kind"}]
      \cup [item : {"one_of"}, words : {UniformTypes}, local : {"type"}]
      \cup [item : {"one_of"}, words : DroppedWords, local : Dropped]
      \cup [item : {"count"}, kind : FormatKind \ {"string"}, most : {UINT32_MAX}]
      \cup [item : {"location"}, most : {UINT32_MAX}]
      \cup [item : {"bracket", "attachment", "array_size", "values", "shaders", "text"}]
      \cup [item : {"parameters"}, of : DOMAIN Tables, observed : SUBSET AnyParameter]
      \cup [item : {"format"}, strings : BOOLEAN]
      \cup [item : {"segments"}, type : {"none"}, literals : {0}, before : Nat]
      \cup [item : {"segments"}, type : SegmentTypes, literals : Nat, before : Nat]
      \cup [item : {"entries"}, entry : EntryKinds, before : Nat]
      \cup [item : {"end_of_entry"}, entry : EntryKinds]

\* How deep in the method of a command an item is: what is left of the innermost loop
\* comes first.
Stage(x) ==
    IF x.item = "parameters" THEN IF x.of = "vertex_attribute" THEN 1 ELSE 4
    ELSE IF x.item = "end_of_entry" THEN 2
    ELSE IF x.item = "entries" THEN 3 ELSE 0

Nested(s) ==
    \A i, j \in 1 .. Len(s) : i < j => Stage(s[i]) = 0 \/ Stage(s[i]) < Stage(s[j])

\* The items that a command may have.
BelongsTo(x, of) ==
    /\ x.item = "parameters" =>
         x.of = of \/ (x.of = "vertex_attribute" /\ of = "RUN_GRAPHICS")
    /\ x.item \in {"entries", "end_of_entry"} => of = "RUN_GRAPHICS"
    /\ x.item = "parameters" => x.observed \subseteq DOMAIN Tables[x.of]
    /\ x.item = "format" /\ x.strings => of # "ASSERT_EQUAL"

ItemsInv ==
    /\ todo \in Seq(LegalItem)
    /\ Nested(todo)
    /\ \A i \in 1 .. Len(todo) : BelongsTo(todo[i], command)

(***************************************************************************)
(* Which locals items give a value.                                        *)
(***************************************************************************)
Sets(x) == IF x.item \in {"literal", "argument", "number", "one_of"} THEN {x.local} ELSE {}
GivenBy(of, p) == UNION {Sets(Tables[of][p][i]) : i \in DOMAIN Tables[of][p]}

\* Those that a table gives a value, whichever complete choice of its parameters there is.
Mandatory(of) ==
    {name \in SettingLocals :
       \A observed \in SUBSET DOMAIN Tables[of] :
           Complete(of, observed) => \E p \in observed : name \in GivenBy(of, p)}

Assigns(x, name) ==
    name \in Sets(x) \/ (x.item = "parameters" /\ name \in Mandatory(x.of))

\* Those that must have their value by the time an item is reached.
Demands(x) ==
    IF x.item = "parameters" THEN UNION {GivenBy(x.of, p) : p \in x.observed}
    ELSE IF x.item = "end_of_entry" /\ x.entry = "vertex_attribute" THEN AttributeLocals
    ELSE {}

Supplied(s, held, goal) ==
    /\ \A k \in 1 .. Len(s) : \A name \in Demands(s[k]) :
         name \in held \/ \E j \in 1 .. k - 1 : Assigns(s[j], name)
    /\ \A name \in goal : name \in held \/ \E j \in 1 .. Len(s) : Assigns(s[j], name)

SuppliedInv == pc = "items" => Supplied(todo, DOMAIN locals, Given)

\* The parameters of SET_UNIFORM that exclude one another, and what they give.
WaysToFind == {<<"LOCATION", "uniform_location">>, <<"NAME", "name">>}

UniformInv ==
    pc = "items" /\ command = "SET_UNIFORM" =>
        /\ todo # <<>> =>
             LET last == todo[Len(todo)]
             IN  /\ last.item = "parameters" /\ last.of = "SET_UNIFORM"
                 /\ \A choice \in WaysToFind :
                      choice[2] \in DOMAIN locals
                        \/ (\E j \in 1 .. Len(todo) : choice[2] \in Sets(todo[j]))
                      => choice[1] \in last.observed
        /\ todo = <<>> =>
             ("uniform_location" \in DOMAIN locals) # ("name" \in DOMAIN locals)

(***************************************************************************)
(* The values of locals.                                                   *)
(***************************************************************************)
OneToOne(pairs) == \A a, b \in pairs : a # b => a[1] # b[1] /\ a[2] # b[2]

\* The text of an argument: "other" stands for those of keywords, numbers and the like.
Named == Identifier \cup STRING \cup {"other"}

HasType(of, name, value) ==
    /\ name \in NameLocals => value \in Identifier
    /\ name \in ArgumentLocals => value \in Named
    /\ name \in NumberLocals => value \in 0 .. UINT32_MAX
    /\ name = "kind" => value \in ShaderKind
    /\ name = "type" => value \in UniformTypes
    /\ name = "shaders" => value \in Seq(Identifier)
    /\ name = "format" =>
         /\ of = "ASSERT_EQUAL" =>
              value \in Seq([kind : FormatKind \ {"string"}, count : Nat])
         /\ value \in Seq(FormatEntry)
    /\ name = "size" => value \in Nat /\ value % 4 = 0
    /\ name = "vertices" => \A k \in DOMAIN value : value[k] \in Identifier
    /\ name = "attachments" =>
         value \subseteq (0 .. UINT32_MAX) \X Identifier /\ OneToOne(value)

LocalsInv ==
    pc = "items" =>
        /\ DOMAIN Declared \subseteq DOMAIN locals
        /\ \A name \in DOMAIN locals : HasType(command, name, locals[name])
        /\ ~errorReported => \A name \in ArgumentLocals \cap DOMAIN locals :
                                locals[name] \in Identifier

\* What is to be attached has a location that is not taken.
LocationIsNew ==
    /\ "location" \in DOMAIN locals
    /\ \A a \in locals.attachments : a[1] # locals.location

AttachmentInv ==
    \A i \in 1 .. Len(todo) : todo[i].item = "attachment" =>
        \/ i = 1 /\ LocationIsNew
        \/ i = 2 /\ todo[1].item = "symbol" /\ LocationIsNew
        \/ i = 3 /\ todo[1].item = "location" /\ todo[2].item = "symbol"

(***************************************************************************)
(* The commands made so far.                                               *)
(***************************************************************************)
\* With an argument that was no identifier.
Complained ==
    [op : {"ASSERT_EQUAL_BUFFERS"}, arguments : Named \X Named,
     format : Seq([kind : FormatKind \ {"string"}, count : Nat])]
      \cup [op : {"ASSERT_EQUAL_RENDERBUFFERS", "ASSERT_SIMILAR_EMD_HISTOGRAM"},
            arguments : Named \X Named]

ProgramInv ==
    /\ program \in Seq(Creation \cup Use \cup Complained)
    /\ ~errorReported => program \in Seq(Creation \cup Use)
    /\ AttachmentsAreOneToOne

IsToken(t) ==
    /\ t.type = "identifier" => t.text \in Identifier
    /\ t.type = "string" => t.text \in STRING
    /\ t.type = "int_literal" => t.number \in Int
    /\ t.type \in {"EOS", "unknown"} => t.text = ""

ParserInv ==
    /\ TypeOK
    /\ pc = "items" => command \in CommandKeywords
    /\ pc \in {"commands", "items", "accepted"} => version \in SupportedVersions
    /\ IsToken(next)
    /\ ItemsInv
    /\ SuppliedInv
    /\ UniformInv
    /\ LocalsInv
    /\ AttachmentInv
    /\ ProgramInv
-----------------------------------------------------------------------------
(***************************************************************************)
(* The tables.                                                             *)
(***************************************************************************)
\* Items that give a value to a local.
IsSetting(x) == x.item \in {"literal", "argument", "number", "one_of"}
Settings(s) == s \in Seq(LegalItem) /\ \A i \in 1 .. Len(s) : IsSetting(s[i])

\* What the parsers of single values look for is legal.
LEMMA SettingsAreLegal ==
    /\ \A local \in NameLocals : Literal("identifier", local) \in LegalItem
    /\ \A local \in Dropped, type \in {"string", "float_literal"} :
         Literal(type, local) \in LegalItem
    /\ \A local \in ArgumentLocals : Argument(local) \in LegalItem
    /\ \A local \in NumberLocals \cup Dropped, most \in {UINT8_MAX, UINT32_MAX} :
         Number(local, most) \in LegalItem
    /\ OneOf(ShaderKind, "kind") \in LegalItem
    /\ OneOf(UniformTypes, "type") \in LegalItem
    /\ \A local \in Dropped, words \in DroppedWords : OneOf(words, local) \in LegalItem
<1>1. \A local \in NameLocals : Literal("identifier", local) \in LegalItem
  BY DEF Literal, LegalItem
<1>2. \A local \in Dropped, type \in {"string", "float_literal"} :
        Literal(type, local) \in LegalItem
  BY DEF Literal, LegalItem
<1>3. \A local \in ArgumentLocals : Argument(local) \in LegalItem
  BY DEF Argument, LegalItem
<1>4. \A local \in NumberLocals \cup Dropped, most \in {UINT8_MAX, UINT32_MAX} :
        Number(local, most) \in LegalItem
  BY DEF Number, LegalItem
<1>5. OneOf(ShaderKind, "kind") \in LegalItem
  BY DEF OneOf, LegalItem
<1>6. OneOf(UniformTypes, "type") \in LegalItem
  BY DEF OneOf, LegalItem
<1>7. \A local \in Dropped, words \in DroppedWords : OneOf(words, local) \in LegalItem
  BY DEF OneOf, LegalItem
<1> QED
  BY <1>1, <1>2, <1>3, <1>4, <1>5, <1>6, <1>7

\* And so are the other items.
LEMMA OthersAreLegal ==
    /\ \A words \in {{"KIND"}, {"SHADER"}, {"SHADERS"}} : Expect(words) \in LegalItem
    /\ \A text \in {"[", "->"} : Symbol(text) \in LegalItem
    /\ \A kind \in FormatKind \ {"string"} : Count(kind) \in LegalItem
    /\ Location \in LegalItem /\ Attachment \in LegalItem /\ Bracket \in LegalItem
    /\ \A name \in {"array_size", "values", "shaders", "text"} : Item(name) \in LegalItem
    /\ \A of \in DOMAIN Tables : Parameters(of) \in LegalItem
    /\ \A strings \in BOOLEAN : Format(strings) \in LegalItem
    /\ Segment("none", 0) \in LegalItem
    /\ \A type \in SegmentTypes, before \in Nat : Segment(type, before) \in LegalItem
    /\ \A entry \in EntryKinds :
         /\ Entries(entry) \in LegalItem
         /\ [item |-> "end_of_entry", entry |-> entry] \in LegalItem
<1>1. \A words \in {{"KIND"}, {"SHADER"}, {"SHADERS"}} : Expect(words) \in LegalItem
  BY DEF Expect, LegalItem
<1>2. \A text \in {"[", "->"} : Symbol(text) \in LegalItem
  BY DEF Symbol, LegalItem
<1>3. \A kind \in FormatKind \ {"string"} : Count(kind) \in LegalItem
  BY DEF Count, LegalItem
<1>4. Location \in LegalItem /\ Attachment \in LegalItem /\ Bracket \in LegalItem
  BY DEF Location, Attachment, Bracket, LegalItem
<1>5. \A name \in {"array_size", "values", "shaders", "text"} : Item(name) \in LegalItem
  BY DEF Item, LegalItem
<1>6. \A of \in DOMAIN Tables : Parameters(of) \in LegalItem
  BY DEF Parameters, LegalItem
<1>7. \A strings \in BOOLEAN : Format(strings) \in LegalItem
  BY DEF Format, LegalItem
<1>8. Segment("none", 0) \in LegalItem
  BY DEF Segment, LegalItem
<1>9. \A type \in SegmentTypes, before \in Nat : Segment(type, before) \in LegalItem
  BY DEF Segment, LegalItem
<1>10. \A entry \in EntryKinds :
         /\ Entries(entry) \in LegalItem
         /\ [item |-> "end_of_entry", entry |-> entry] \in LegalItem
  BY DEF Entries, LegalItem
<1> QED
  BY <1>1, <1>2, <1>3, <1>4, <1>5, <1>6, <1>7, <1>8, <1>9, <1>10

\* A setting, from how it is made.
LEMMA SettingsAreSettings ==
    /\ \A type, local : IsSetting(Literal(type, local)) /\ Sets(Literal(type, local)) = {local}
    /\ \A local : IsSetting(Argument(local)) /\ Sets(Argument(local)) = {local}
    /\ \A local, most : IsSetting(Number(local, most)) /\ Sets(Number(local, most)) = {local}
    /\ \A words, local : IsSetting(OneOf(words, local)) /\ Sets(OneOf(words, local)) = {local}
BY DEF IsSetting, Sets, Literal, Argument, Number, OneOf

\* The short sequences of which the tables are made.
LEMMA SettingSequences ==
    /\ \A local \in NameLocals : Settings(Name(local))
    /\ \A local \in Dropped : Settings(Quoted(local))
    /\ \A local \in NumberLocals \cup Dropped : Settings(Uint32(local))
    /\ Settings(Pair) /\ Settings(Setting) /\ Settings(Filter)
    /\ Settings(<<Literal("float_literal", "tolerance")>>)
    /\ Settings(<<OneOf({"TRIANGLES"}, "topology")>>)
<1>1. \A x \in LegalItem : IsSetting(x) => Settings(<<x>>)
  BY DEF Settings
<1>2. \A x, y \in LegalItem : IsSetting(x) /\ IsSetting(y) => Settings(<<x, y>>)
  BY DEF Settings
<1>3. \A local \in NameLocals : Settings(Name(local))
  BY <1>1, SettingsAreLegal, SettingsAreSettings DEF Name
<1>4. \A local \in Dropped : Settings(Quoted(local))
  BY <1>1, SettingsAreLegal, SettingsAreSettings DEF Quoted
<1>5. \A local \in NumberLocals \cup Dropped : Settings(Uint32(local))
  BY <1>1, SettingsAreLegal, SettingsAreSettings DEF Uint32
<1>6. Settings(Pair)
  BY <1>2, SettingsAreLegal, SettingsAreSettings DEF Pair, ArgumentLocals
<1>7. {"parameter", "value", "tolerance", "topology"} \subseteq Dropped
  BY DEF Dropped
<1>8. /\ {"TEXTURE_MAG_FILTER", "TEXTURE_MIN_FILTER"} \in DroppedWords
      /\ {"LINEAR", "NEAREST"} \in DroppedWords /\ {"TRIANGLES"} \in DroppedWords
  BY DEF DroppedWords
<1>9. Settings(Setting) /\ Settings(Filter)
  BY <1>1, <1>7, <1>8, SettingsAreLegal, SettingsAreSettings DEF Setting, Filter
<1>10. /\ Settings(<<Literal("float_literal", "tolerance")>>)
       /\ Settings(<<OneOf({"TRIANGLES"}, "topology")>>)
  BY <1>1, <1>7, <1>8, SettingsAreLegal, SettingsAreSettings
<1> QED
  BY <1>3, <1>4, <1>5, <1>6, <1>9, <1>10

\* What ParseParameters may be told to do for a parameter.
GoodItems(of, s) ==
    /\ s \in Seq(LegalItem)
    /\ \A i \in 1 .. Len(s) :
         /\ s[i].item \notin {"attachment", "parameters", "end_of_entry"}
         /\ s[i].item = "entries" => i = Len(s) /\ of = "RUN_GRAPHICS"
         /\ s[i].item = "format" /\ s[i].strings => of = "DUMP_BUFFER_TEXT"

\* Settings are always allowed.
LEMMA SettingsAreGood == ASSUME NEW s, Settings(s), NEW of PROVE GoodItems(of, s)
BY DEF Settings, GoodItems, IsSetting

\* The tables, looked up.
LEMMA TablesAre ==
    /\ Tables["ASSERT_EQUAL"] = ParseCommandAssertEqual
    /\ Tables["ASSERT_PIXELS"] = ParseCommandAssertPixels
    /\ Tables["ASSERT_SIMILAR_EMD_HISTOGRAM"] = ParseCommandAssertSimilarEmdHistogram
    /\ Tables["BIND_SAMPLER"] = ParseCommandBindSampler
    /\ Tables["BIND_TEXTURE"] = ParseCommandBindTexture
    /\ Tables["BIND_SHADER_STORAGE_BUFFER"] = ParseCommandBindShaderStorageBuffer
    /\ Tables["BIND_UNIFORM_BUFFER"] = ParseCommandBindUniformBuffer
    /\ Tables["CREATE_EMPTY_TEXTURE_2D"] = ParseCommandCreateEmptyTexture2d
    /\ Tables["CREATE_RENDERBUFFER"] = ParseCommandCreateRenderbuffer
    /\ Tables["CREATE_BUFFER"] = ParseCommandCreateBuffer
    /\ Tables["RUN_COMPUTE"] = ParseCommandRunCompute
    /\ Tables["RUN_GRAPHICS"] = ParseCommandRunGraphics
    /\ Tables["vertex_attribute"] = ParseVertexAttributeInfo
    /\ Tables["DUMP_BUFFER_BINARY"] = ParseCommandDumpBufferBinary
    /\ Tables["DUMP_BUFFER_TEXT"] = ParseCommandDumpBufferText
    /\ Tables["DUMP_RENDERBUFFER"] = ParseCommandDumpRenderbuffer
    /\ Tables["SET_SAMPLER_PARAMETER"] = ParseCommandSetSamplerParameter
    /\ Tables["SET_TEXTURE_PARAMETER"] = ParseCommandSetTextureParameter
    /\ Tables["SET_UNIFORM"] = ParseCommandSetUniform
    /\ DOMAIN Tables =
         {"ASSERT_EQUAL", "ASSERT_PIXELS", "ASSERT_SIMILAR_EMD_HISTOGRAM",
          "BIND_SAMPLER", "BIND_TEXTURE", "BIND_SHADER_STORAGE_BUFFER",
          "BIND_UNIFORM_BUFFER", "CREATE_EMPTY_TEXTURE_2D", "CREATE_RENDERBUFFER",
          "CREATE_BUFFER", "RUN_COMPUTE", "RUN_GRAPHICS", "vertex_attribute",
          "DUMP_BUFFER_BINARY", "DUMP_BUFFER_TEXT", "DUMP_RENDERBUFFER",
          "SET_SAMPLER_PARAMETER", "SET_TEXTURE_PARAMETER", "SET_UNIFORM"}
BY DEF Tables

\* The parameters of each command.
LEMMA ParametersAre ==
    /\ DOMAIN Tables["ASSERT_EQUAL"] =
         {"BUFFERS", "RENDERBUFFERS", "FORMAT"}
    /\ DOMAIN Tables["ASSERT_PIXELS"] =
         {"EXPECTED", "RENDERBUFFER", "RECTANGLE"}
    /\ DOMAIN Tables["ASSERT_SIMILAR_EMD_HISTOGRAM"] =
         {"RENDERBUFFERS", "TOLERANCE"}
    /\ DOMAIN Tables["BIND_SAMPLER"] =
         {"SAMPLER", "TEXTURE_UNIT"}
    /\ DOMAIN Tables["BIND_TEXTURE"] =
         {"TEXTURE", "TEXTURE_UNIT"}
    /\ DOMAIN Tables["BIND_SHADER_STORAGE_BUFFER"] =
         {"BUFFER", "BINDING"}
    /\ DOMAIN Tables["BIND_UNIFORM_BUFFER"] =
         {"BUFFER", "BINDING"}
    /\ DOMAIN Tables["CREATE_EMPTY_TEXTURE_2D"] =
         {"WIDTH", "HEIGHT"}
    /\ DOMAIN Tables["CREATE_RENDERBUFFER"] =
         {"WIDTH", "HEIGHT"}
    /\ DOMAIN Tables["CREATE_BUFFER"] =
         {"SIZE_BYTES", "INIT_VALUES"}
    /\ DOMAIN Tables["RUN_COMPUTE"] =
         {"PROGRAM", "NUM_GROUPS"}
    /\ DOMAIN Tables["RUN_GRAPHICS"] =
         {"PROGRAM", "VERTEX_DATA", "INDEX_DATA", "VERTEX_COUNT", "TOPOLOGY",
          "FRAMEBUFFER_ATTACHMENTS"}
    /\ DOMAIN Tables["vertex_attribute"] =
         {"BUFFER", "OFFSET_BYTES", "STRIDE_BYTES", "DIMENSION"}
    /\ DOMAIN Tables["DUMP_BUFFER_BINARY"] =
         {"BUFFER", "FILE"}
    /\ DOMAIN Tables["DUMP_BUFFER_TEXT"] =
         {"BUFFER", "FILE", "FORMAT"}
    /\ DOMAIN Tables["DUMP_RENDERBUFFER"] =
         {"RENDERBUFFER", "FILE"}
    /\ DOMAIN Tables["SET_SAMPLER_PARAMETER"] =
         {"SAMPLER", "PARAMETER", "VALUE"}
    /\ DOMAIN Tables["SET_TEXTURE_PARAMETER"] =
         {"TEXTURE", "PARAMETER", "VALUE"}
    /\ DOMAIN Tables["SET_UNIFORM"] =
         {"PROGRAM", "LOCATION", "NAME", "TYPE", "VALUES"}
BY TablesAre DEF ParseCommandAssertEqual, ParseCommandAssertPixels,
   ParseCommandAssertSimilarEmdHistogram, ParseCommandBindSampler,
   ParseCommandBindTexture, ParseCommandBindShaderStorageBuffer,
   ParseCommandBindUniformBuffer, ParseCommandCreateEmptyTexture2d,
   ParseCommandCreateRenderbuffer, ParseCommandCreateBuffer,
   ParseCommandRunCompute, ParseCommandRunGraphics, ParseVertexAttributeInfo,
   ParseCommandDumpBufferBinary, ParseCommandDumpBufferText,
   ParseCommandDumpRenderbuffer, ParseCommandSetSamplerParameter,
   ParseCommandSetTextureParameter, ParseCommandSetUniform

\* A parameter gives a value to just these locals.
Gives(of, p, names) == GoodItems(of, Tables[of][p]) /\ GivenBy(of, p) = names

\* It gives what its settings set.
LEMMA GivesSettings ==
    ASSUME NEW of, NEW p, NEW s, Tables[of][p] = s, Settings(s)
    PROVE  Gives(of, p, UNION {Sets(s[i]) : i \in DOMAIN s})
BY SettingsAreGood DEF Gives, GivenBy

\* One name, one number, one string or one of some words.
LEMMA GivesOne ==
    ASSUME NEW of, NEW p
    PROVE  /\ \A local \in NameLocals : Tables[of][p] = Name(local) => Gives(of, p, {local})
           /\ \A local \in NumberLocals \cup Dropped :
                Tables[of][p] = Uint32(local) => Gives(of, p, {local})
           /\ \A local \in Dropped : Tables[of][p] = Quoted(local) => Gives(of, p, {local})
           /\ Tables[of][p] = Setting => Gives(of, p, {"parameter"})
           /\ Tables[of][p] = Filter => Gives(of, p, {"value"})
           /\ Tables[of][p] = <<Literal("float_literal", "tolerance")>> =>
                Gives(of, p, {"tolerance"})
           /\ Tables[of][p] = <<OneOf({"TRIANGLES"}, "topology")>> =>
                Gives(of, p, {"topology"})
<1>1. ASSUME NEW x, NEW local, Sets(x) = {local}, Settings(<<x>>), Tables[of][p] = <<x>>
      PROVE  Gives(of, p, {local})
  <2>1. UNION {Sets(<<x>>[i]) : i \in DOMAIN <<x>>} = {local}
    BY <1>1
  <2> QED
    BY <1>1, <2>1, GivesSettings
<1>2. \A local \in NameLocals : Tables[of][p] = Name(local) => Gives(of, p, {local})
  BY <1>1, SettingSequences, SettingsAreSettings DEF Name
<1>3. \A local \in NumberLocals \cup Dropped :
        Tables[of][p] = Uint32(local) => Gives(of, p, {local})
  BY <1>1, SettingSequences, SettingsAreSettings DEF Uint32
<1>4. \A local \in Dropped : Tables[of][p] = Quoted(local) => Gives(of, p, {local})
  BY <1>1, SettingSequences, SettingsAreSettings DEF Quoted
<1>5. Tables[of][p] = Setting => Gives(of, p, {"parameter"})
  <2> DEFINE x == OneOf({"TEXTURE_MAG_FILTER", "TEXTURE_MIN_FILTER"}, "parameter")
  <2>1. Sets(x) = {"parameter"}
    BY SettingsAreSettings
  <2>2. Settings(<<x>>) /\ Setting = <<x>>
    BY SettingSequences DEF Setting
  <2> HIDE DEF x
  <2> QED
    BY <1>1, <2>1, <2>2
<1>6. Tables[of][p] = Filter => Gives(of, p, {"value"})
  <2> DEFINE x == OneOf({"LINEAR", "NEAREST"}, "value")
  <2>1. Sets(x) = {"value"}
    BY SettingsAreSettings
  <2>2. Settings(<<x>>) /\ Filter = <<x>>
    BY SettingSequences DEF Filter
  <2> HIDE DEF x
  <2> QED
    BY <1>1, <2>1, <2>2
<1>7. Tables[of][p] = <<Literal("float_literal", "tolerance")>> => Gives(of, p, {"tolerance"})
  BY <1>1, SettingSequences, SettingsAreSettings
<1>8. Tables[of][p] = <<OneOf({"TRIANGLES"}, "topology")>> => Gives(of, p, {"topology"})
  <2> DEFINE x == OneOf({"TRIANGLES"}, "topology")
  <2>1. Sets(x) = {"topology"}
    BY SettingsAreSettings
  <2>2. Settings(<<x>>) /\ <<OneOf({"TRIANGLES"}, "topology")>> = <<x>>
    BY SettingSequences
  <2> HIDE DEF x
  <2> QED
    BY <1>1, <2>1, <2>2
<1> QED
  BY <1>2, <1>3, <1>4, <1>5, <1>6, <1>7, <1>8

\* Two arguments.
LEMMA GivesPair ==
    ASSUME NEW of, NEW p, Tables[of][p] = Pair PROVE Gives(of, p, {"first", "second"})
<1>1. UNION {Sets(Pair[i]) : i \in DOMAIN Pair} =
        Sets(Argument("first")) \cup Sets(Argument("second"))
  BY DEF Pair
<1>2. UNION {Sets(Pair[i]) : i \in DOMAIN Pair} = {"first", "second"}
  BY <1>1, SettingsAreSettings
<1> QED
  BY <1>2, GivesSettings, SettingSequences

\* Several numbers.
LEMMA GivesNumbers ==
    ASSUME NEW of, NEW p, NEW locs, NEW most \in {UINT8_MAX, UINT32_MAX},
           locs \in Seq(NumberLocals \cup Dropped), Tables[of][p] = Numbers(locs, most)
    PROVE  Gives(of, p, {locs[i] : i \in DOMAIN locs})
<1> DEFINE s == Numbers(locs, most)
<1>1. Len(locs) \in Nat /\ DOMAIN locs = 1 .. Len(locs)
  OBVIOUS
<1>2. \A i \in DOMAIN locs : /\ Number(locs[i], most) \in LegalItem
                             /\ IsSetting(Number(locs[i], most))
                             /\ Sets(Number(locs[i], most)) = {locs[i]}
  BY SettingsAreLegal, SettingsAreSettings
<1>3. s \in Seq(LegalItem) /\ Len(s) = Len(locs)
  BY <1>1, <1>2 DEF Numbers
<1>4. Settings(s)
  BY <1>1, <1>2, <1>3 DEF Settings, Numbers
<1>5. UNION {Sets(s[i]) : i \in DOMAIN s} = {locs[i] : i \in DOMAIN locs}
  <2>1. DOMAIN s = DOMAIN locs /\ \A i \in DOMAIN locs : Sets(s[i]) = {locs[i]}
    BY <1>2 DEF Numbers
  <2> HIDE DEF s
  <2> QED
    BY <2>1
<1> HIDE DEF s
<1>6. Gives(of, p, UNION {Sets(s[i]) : i \in DOMAIN s})
  BY <1>4, GivesSettings DEF s
<1> QED
  BY <1>5, <1>6

\* One item that is no setting gives no value.
LEMMA GivesNoValue ==
    ASSUME NEW of, NEW p, NEW x \in LegalItem, Tables[of][p] = <<x>>, Sets(x) = {},
           x.item \in {"format", "segments", "values"},
           x.item = "format" /\ x.strings => of = "DUMP_BUFFER_TEXT"
    PROVE  Gives(of, p, {})
<1>1. GoodItems(of, <<x>>)
  BY DEF GoodItems
<1>2. UNION {Sets(<<x>>[i]) : i \in DOMAIN <<x>>} = {}
  OBVIOUS
<1> QED
  BY <1>1, <1>2 DEF Gives, GivenBy

\* A format, which only DUMP_BUFFER_TEXT may have strings in.
LEMMA GivesFormat ==
    ASSUME NEW of, NEW p, NEW strings \in BOOLEAN, Tables[of][p] = <<Format(strings)>>,
           strings => of = "DUMP_BUFFER_TEXT"
    PROVE  Gives(of, p, {})
<1>1. /\ Format(strings).item = "format" /\ Format(strings).strings = strings
      /\ Sets(Format(strings)) = {}
  BY DEF Format, Sets
<1>2. Format(strings) \in LegalItem
  BY OthersAreLegal
<1> HIDE DEF Format
<1> QED
  BY <1>1, <1>2, GivesNoValue

\* The other items that give no value.
LEMMA GivesNothing ==
    ASSUME NEW of, NEW p
    PROVE  /\ Tables[of][p] = <<Segment("none", 0)>> => Gives(of, p, {})
           /\ Tables[of][p] = <<Item("values")>> => Gives(of, p, {})
           /\ \A entry \in EntryKinds :
                Tables[of][p] = <<Symbol("["), Entries(entry)>> /\ of = "RUN_GRAPHICS"
                  => Gives(of, p, {})
<1>1. ASSUME Tables[of][p] = <<Segment("none", 0)>> PROVE Gives(of, p, {})
  <2>1. Segment("none", 0).item = "segments" /\ Sets(Segment("none", 0)) = {}
    BY DEF Segment, Sets
  <2> QED
    BY GivesNoValue, <1>1, <2>1, OthersAreLegal
<1>2. ASSUME Tables[of][p] = <<Item("values")>> PROVE Gives(of, p, {})
  <2>1. Item("values").item = "values" /\ Sets(Item("values")) = {}
    BY DEF Item, Sets
  <2> QED
    BY GivesNoValue, <1>2, <2>1, OthersAreLegal
<1>3. ASSUME NEW entry \in EntryKinds, Tables[of][p] = <<Symbol("["), Entries(entry)>>,
             of = "RUN_GRAPHICS"
      PROVE  Gives(of, p, {})
  <2> DEFINE s == <<Symbol("["), Entries(entry)>>
  <2>1. /\ Symbol("[").item = "symbol" /\ Sets(Symbol("[")) = {}
        /\ Entries(entry).item = "entries" /\ Sets(Entries(entry)) = {}
    BY DEF Symbol, Entries, Sets
  <2>2. Symbol("[") \in LegalItem /\ Entries(entry) \in LegalItem
    <3> DEFINE text == "["
    <3>1. text \in {"[", "->"}
      OBVIOUS
    <3> HIDE DEF text
    <3>2. Symbol(text) \in LegalItem
      BY <3>1, OthersAreLegal
    <3> QED
      BY <1>3, <3>2, OthersAreLegal DEF text
  <2>3. s \in Seq(LegalItem) /\ Len(s) = 2 /\ DOMAIN s = {1, 2}
    BY <2>2
  <2>4. GoodItems(of, s)
    BY <1>3, <2>1, <2>3 DEF GoodItems
  <2>5. UNION {Sets(s[i]) : i \in DOMAIN s} = {}
    BY <2>1, <2>3
  <2> QED
    BY <1>3, <2>4, <2>5 DEF Gives, GivenBy
<1> QED
  BY <1>1, <1>2, <1>3

\* The type of a uniform.
LEMMA GivesType ==
    ASSUME NEW of, NEW p,
           Tables[of][p] = <<OneOf(UniformTypes, "type"), Item("array_size")>>
    PROVE  Gives(of, p, {"type"})
<1> DEFINE x == OneOf(UniformTypes, "type")
           s == <<x, Item("array_size")>>
<1>1. /\ IsSetting(x) /\ Sets(x) = {"type"} /\ x \in LegalItem
      /\ Item("array_size").item = "array_size" /\ Sets(Item("array_size")) = {}
  BY SettingsAreSettings, SettingsAreLegal DEF Item, Sets
<1>2. Tables[of][p] = s
  OBVIOUS
<1> HIDE DEF x
<1>3. s \in Seq(LegalItem) /\ Len(s) = 2 /\ DOMAIN s = {1, 2}
  BY <1>1, OthersAreLegal
<1>4. GoodItems(of, s)
  BY <1>1, <1>3 DEF GoodItems, IsSetting
<1>5. UNION {Sets(s[i]) : i \in DOMAIN s} = {"type"}
  BY <1>1, <1>3
<1> QED
  BY <1>2, <1>4, <1>5 DEF Gives, GivenBy

\* What each parameter of each table gives a value.
LEMMA TablesGive ==
    /\ Gives("ASSERT_EQUAL", "BUFFERS", {"first", "second"})
    /\ Gives("ASSERT_EQUAL", "RENDERBUFFERS", {"first", "second"})
    /\ Gives("ASSERT_EQUAL", "FORMAT", {})
    /\ Gives("ASSERT_PIXELS", "EXPECTED", {"r", "g", "b", "a"})
    /\ Gives("ASSERT_PIXELS", "RENDERBUFFER", {"renderbuffer"})
    /\ Gives("ASSERT_PIXELS", "RECTANGLE", {"x", "y", "width", "height"})
    /\ Gives("ASSERT_SIMILAR_EMD_HISTOGRAM", "RENDERBUFFERS", {"first", "second"})
    /\ Gives("ASSERT_SIMILAR_EMD_HISTOGRAM", "TOLERANCE", {"tolerance"})
    /\ Gives("BIND_SAMPLER", "SAMPLER", {"sampler"})
    /\ Gives("BIND_SAMPLER", "TEXTURE_UNIT", {"unit"})
    /\ Gives("BIND_TEXTURE", "TEXTURE", {"texture"})
    /\ Gives("BIND_TEXTURE", "TEXTURE_UNIT", {"unit"})
    /\ Gives("BIND_SHADER_STORAGE_BUFFER", "BUFFER", {"buffer"})
    /\ Gives("BIND_SHADER_STORAGE_BUFFER", "BINDING", {"binding"})
    /\ Gives("BIND_UNIFORM_BUFFER", "BUFFER", {"buffer"})
    /\ Gives("BIND_UNIFORM_BUFFER", "BINDING", {"binding"})
    /\ Gives("CREATE_EMPTY_TEXTURE_2D", "WIDTH", {"width"})
    /\ Gives("CREATE_EMPTY_TEXTURE_2D", "HEIGHT", {"height"})
    /\ Gives("CREATE_RENDERBUFFER", "WIDTH", {"width"})
    /\ Gives("CREATE_RENDERBUFFER", "HEIGHT", {"height"})
    /\ Gives("CREATE_BUFFER", "SIZE_BYTES", {"size_bytes"})
    /\ Gives("CREATE_BUFFER", "INIT_VALUES", {})
    /\ Gives("RUN_COMPUTE", "PROGRAM", {"program"})
    /\ Gives("RUN_COMPUTE", "NUM_GROUPS", {"groups_x", "groups_y", "groups_z"})
    /\ Gives("RUN_GRAPHICS", "PROGRAM", {"program"})
    /\ Gives("RUN_GRAPHICS", "VERTEX_DATA", {})
    /\ Gives("RUN_GRAPHICS", "INDEX_DATA", {"index_data"})
    /\ Gives("RUN_GRAPHICS", "VERTEX_COUNT", {"vertex_count"})
    /\ Gives("RUN_GRAPHICS", "TOPOLOGY", {"topology"})
    /\ Gives("RUN_GRAPHICS", "FRAMEBUFFER_ATTACHMENTS", {})
    /\ Gives("vertex_attribute", "BUFFER", {"buffer"})
    /\ Gives("vertex_attribute", "OFFSET_BYTES", {"offset"})
    /\ Gives("vertex_attribute", "STRIDE_BYTES", {"stride"})
    /\ Gives("vertex_attribute", "DIMENSION", {"dimension"})
    /\ Gives("DUMP_BUFFER_BINARY", "BUFFER", {"buffer"})
    /\ Gives("DUMP_BUFFER_BINARY", "FILE", {"file"})
    /\ Gives("DUMP_BUFFER_TEXT", "BUFFER", {"buffer"})
    /\ Gives("DUMP_BUFFER_TEXT", "FILE", {"file"})
    /\ Gives("DUMP_BUFFER_TEXT", "FORMAT", {})
    /\ Gives("DUMP_RENDERBUFFER", "RENDERBUFFER", {"renderbuffer"})
    /\ Gives("DUMP_RENDERBUFFER", "FILE", {"file"})
    /\ Gives("SET_SAMPLER_PARAMETER", "SAMPLER", {"sampler"})
    /\ Gives("SET_SAMPLER_PARAMETER", "PARAMETER", {"parameter"})
    /\ Gives("SET_SAMPLER_PARAMETER", "VALUE", {"value"})
    /\ Gives("SET_TEXTURE_PARAMETER", "TEXTURE", {"texture"})
    /\ Gives("SET_TEXTURE_PARAMETER", "PARAMETER", {"parameter"})
    /\ Gives("SET_TEXTURE_PARAMETER", "VALUE", {"value"})
    /\ Gives("SET_UNIFORM", "PROGRAM", {"program"})
    /\ Gives("SET_UNIFORM", "LOCATION", {"uniform_location"})
    /\ Gives("SET_UNIFORM", "NAME", {"name"})
    /\ Gives("SET_UNIFORM", "TYPE", {"type"})
    /\ Gives("SET_UNIFORM", "VALUES", {})
<1>1. /\ Gives("ASSERT_EQUAL", "BUFFERS", {"first", "second"})
      /\ Gives("ASSERT_EQUAL", "RENDERBUFFERS", {"first", "second"})
      /\ Gives("ASSERT_EQUAL", "FORMAT", {})
  <2>1. Gives("ASSERT_EQUAL", "FORMAT", {})
    <3>1. ParseCommandAssertEqual["FORMAT"] = <<Format(FALSE)>>
      BY Zenon DEF ParseCommandAssertEqual
    <3>2. Tables["ASSERT_EQUAL"]["FORMAT"] = <<Format(FALSE)>>
      BY <3>1, TablesAre, Zenon
    <3> QED
      BY <3>2, GivesFormat
  <2> QED
    BY <2>1, TablesAre, GivesPair
    DEF ParseCommandAssertEqual, NameLocals, NumberLocals, Dropped, EntryKinds
<1>2. /\ Gives("ASSERT_PIXELS", "EXPECTED", {"r", "g", "b", "a"})
      /\ Gives("ASSERT_PIXELS", "RENDERBUFFER", {"renderbuffer"})
      /\ Gives("ASSERT_PIXELS", "RECTANGLE", {"x", "y", "width", "height"})
  <2>1. Gives("ASSERT_PIXELS", "EXPECTED", {"r", "g", "b", "a"})
    <3> DEFINE locs == <<"r", "g", "b", "a">>
    <3>1. /\ locs \in Seq(NumberLocals \cup Dropped)
          /\ {locs[i] : i \in DOMAIN locs} = {"r", "g", "b", "a"}
      BY DEF NumberLocals, Dropped
    <3>2. Tables["ASSERT_PIXELS"]["EXPECTED"] = Numbers(locs, UINT8_MAX)
      BY TablesAre DEF ParseCommandAssertPixels
    <3> HIDE DEF locs
    <3>3. Gives("ASSERT_PIXELS", "EXPECTED", {locs[i] : i \in DOMAIN locs})
      BY <3>2, <3>1, GivesNumbers
    <3> QED
      BY <3>1, <3>3
  <2>2. Gives("ASSERT_PIXELS", "RECTANGLE", {"x", "y", "width", "height"})
    <3> DEFINE locs == <<"x", "y", "width", "height">>
    <3>1. /\ locs \in Seq(NumberLocals \cup Dropped)
          /\ {locs[i] : i \in DOMAIN locs} = {"x", "y", "width", "height"}
      BY DEF NumberLocals, Dropped
    <3>2. Tables["ASSERT_PIXELS"]["RECTANGLE"] = Numbers(locs, UINT32_MAX)
      BY TablesAre DEF ParseCommandAssertPixels
    <3> HIDE DEF locs
    <3>3. Gives("ASSERT_PIXELS", "RECTANGLE", {locs[i] : i \in DOMAIN locs})
      BY <3>2, <3>1, GivesNumbers
    <3> QED
      BY <3>1, <3>3
  <2> QED
    BY <2>1, <2>2, TablesAre, GivesOne
    DEF ParseCommandAssertPixels, NameLocals, NumberLocals, Dropped, EntryKinds
<1>3. /\ Gives("ASSERT_SIMILAR_EMD_HISTOGRAM", "RENDERBUFFERS", {"first", "second"})
      /\ Gives("ASSERT_SIMILAR_EMD_HISTOGRAM", "TOLERANCE", {"tolerance"})
  BY TablesAre, GivesOne, GivesPair
  DEF ParseCommandAssertSimilarEmdHistogram, NameLocals, NumberLocals, Dropped, EntryKinds
<1>4. /\ Gives("BIND_SAMPLER", "SAMPLER", {"sampler"})
      /\ Gives("BIND_SAMPLER", "TEXTURE_UNIT", {"unit"})
  BY TablesAre, GivesOne
  DEF ParseCommandBindSampler, NameLocals, NumberLocals, Dropped, EntryKinds
<1>5. /\ Gives("BIND_TEXTURE", "TEXTURE", {"texture"})
      /\ Gives("BIND_TEXTURE", "TEXTURE_UNIT", {"unit"})
  BY TablesAre, GivesOne
  DEF ParseCommandBindTexture, NameLocals, NumberLocals, Dropped, EntryKinds
<1>6. /\ Gives("BIND_SHADER_STORAGE_BUFFER", "BUFFER", {"buffer"})
      /\ Gives("BIND_SHADER_STORAGE_BUFFER", "BINDING", {"binding"})
  BY TablesAre, GivesOne
  DEF ParseCommandBindShaderStorageBuffer, NameLocals, NumberLocals, Dropped, EntryKinds
<1>7. /\ Gives("BIND_UNIFORM_BUFFER", "BUFFER", {"buffer"})
      /\ Gives("BIND_UNIFORM_BUFFER", "BINDING", {"binding"})
  BY TablesAre, GivesOne
  DEF ParseCommandBindUniformBuffer, NameLocals, NumberLocals, Dropped, EntryKinds
<1>8. /\ Gives("CREATE_EMPTY_TEXTURE_2D", "WIDTH", {"width"})
      /\ Gives("CREATE_EMPTY_TEXTURE_2D", "HEIGHT", {"height"})
  BY TablesAre, GivesOne
  DEF ParseCommandCreateEmptyTexture2d, NameLocals, NumberLocals, Dropped, EntryKinds
<1>9. /\ Gives("CREATE_RENDERBUFFER", "WIDTH", {"width"})
      /\ Gives("CREATE_RENDERBUFFER", "HEIGHT", {"height"})
  BY TablesAre, GivesOne
  DEF ParseCommandCreateRenderbuffer, NameLocals, NumberLocals, Dropped, EntryKinds
<1>10. /\ Gives("CREATE_BUFFER", "SIZE_BYTES", {"size_bytes"})
      /\ Gives("CREATE_BUFFER", "INIT_VALUES", {})
  BY TablesAre, GivesNothing, GivesOne
  DEF ParseCommandCreateBuffer, NameLocals, NumberLocals, Dropped, EntryKinds
<1>11. /\ Gives("RUN_COMPUTE", "PROGRAM", {"program"})
      /\ Gives("RUN_COMPUTE", "NUM_GROUPS", {"groups_x", "groups_y", "groups_z"})
  <2>1. Gives("RUN_COMPUTE", "NUM_GROUPS", {"groups_x", "groups_y", "groups_z"})
    <3> DEFINE locs == <<"groups_x", "groups_y", "groups_z">>
    <3>1. /\ locs \in Seq(NumberLocals \cup Dropped)
          /\ {locs[i] : i \in DOMAIN locs} = {"groups_x", "groups_y", "groups_z"}
      BY DEF NumberLocals, Dropped
    <3>2. Tables["RUN_COMPUTE"]["NUM_GROUPS"] = Numbers(locs, UINT32_MAX)
      BY TablesAre DEF ParseCommandRunCompute
    <3> HIDE DEF locs
    <3>3. Gives("RUN_COMPUTE", "NUM_GROUPS", {locs[i] : i \in DOMAIN locs})
      BY <3>2, <3>1, GivesNumbers
    <3> QED
      BY <3>1, <3>3
  <2> QED
    BY <2>1, TablesAre, GivesOne
    DEF ParseCommandRunCompute, NameLocals, NumberLocals, Dropped, EntryKinds
<1>12. /\ Gives("RUN_GRAPHICS", "PROGRAM", {"program"})
      /\ Gives("RUN_GRAPHICS", "VERTEX_DATA", {})
      /\ Gives("RUN_GRAPHICS", "INDEX_DATA", {"index_data"})
      /\ Gives("RUN_GRAPHICS", "VERTEX_COUNT", {"vertex_count"})
      /\ Gives("RUN_GRAPHICS", "TOPOLOGY", {"topology"})
      /\ Gives("RUN_GRAPHICS", "FRAMEBUFFER_ATTACHMENTS", {})
  BY TablesAre, GivesNothing, GivesOne
  DEF ParseCommandRunGraphics, NameLocals, NumberLocals, Dropped, EntryKinds
<1>13. /\ Gives("vertex_attribute", "BUFFER", {"buffer"})
      /\ Gives("vertex_attribute", "OFFSET_BYTES", {"offset"})
      /\ Gives("vertex_attribute", "STRIDE_BYTES", {"stride"})
      /\ Gives("vertex_attribute", "DIMENSION", {"dimension"})
  BY TablesAre, GivesOne
  DEF ParseVertexAttributeInfo, NameLocals, NumberLocals, Dropped, EntryKinds
<1>14. /\ Gives("DUMP_BUFFER_BINARY", "BUFFER", {"buffer"})
      /\ Gives("DUMP_BUFFER_BINARY", "FILE", {"file"})
  BY TablesAre, GivesOne
  DEF ParseCommandDumpBufferBinary, NameLocals, NumberLocals, Dropped, EntryKinds
<1>15. /\ Gives("DUMP_BUFFER_TEXT", "BUFFER", {"buffer"})
      /\ Gives("DUMP_BUFFER_TEXT", "FILE", {"file"})
      /\ Gives("DUMP_BUFFER_TEXT", "FORMAT", {})
  <2>1. Gives("DUMP_BUFFER_TEXT", "FORMAT", {})
    <3>1. ParseCommandDumpBufferText["FORMAT"] = <<Format(TRUE)>>
      BY Zenon DEF ParseCommandDumpBufferText
    <3>2. Tables["DUMP_BUFFER_TEXT"]["FORMAT"] = <<Format(TRUE)>>
      BY <3>1, TablesAre, Zenon
    <3> QED
      BY <3>2, GivesFormat
  <2> QED
    BY <2>1, TablesAre, GivesOne
    DEF ParseCommandDumpBufferText, NameLocals, NumberLocals, Dropped, EntryKinds
<1>16. /\ Gives("DUMP_RENDERBUFFER", "RENDERBUFFER", {"renderbuffer"})
      /\ Gives("DUMP_RENDERBUFFER", "FILE", {"file"})
  BY TablesAre, GivesOne
  DEF ParseCommandDumpRenderbuffer, NameLocals, NumberLocals, Dropped, EntryKinds
<1>17. /\ Gives("SET_SAMPLER_PARAMETER", "SAMPLER", {"sampler"})
      /\ Gives("SET_SAMPLER_PARAMETER", "PARAMETER", {"parameter"})
      /\ Gives("SET_SAMPLER_PARAMETER", "VALUE", {"value"})
  BY TablesAre, GivesOne
  DEF ParseCommandSetSamplerParameter, NameLocals, NumberLocals, Dropped, EntryKinds
<1>18. /\ Gives("SET_TEXTURE_PARAMETER", "TEXTURE", {"texture"})
      /\ Gives("SET_TEXTURE_PARAMETER", "PARAMETER", {"parameter"})
      /\ Gives("SET_TEXTURE_PARAMETER", "VALUE", {"value"})
  BY TablesAre, GivesOne
  DEF ParseCommandSetTextureParameter, NameLocals, NumberLocals, Dropped, EntryKinds
<1>19. /\ Gives("SET_UNIFORM", "PROGRAM", {"program"})
      /\ Gives("SET_UNIFORM", "LOCATION", {"uniform_location"})
      /\ Gives("SET_UNIFORM", "NAME", {"name"})
      /\ Gives("SET_UNIFORM", "TYPE", {"type"})
      /\ Gives("SET_UNIFORM", "VALUES", {})
  BY TablesAre, GivesNothing, GivesOne, GivesType
  DEF ParseCommandSetUniform, NameLocals, NumberLocals, Dropped, EntryKinds
<1> QED
  BY <1>1, <1>2, <1>3, <1>4, <1>5, <1>6, <1>7, <1>8, <1>9, <1>10, <1>11, <1>12,
     <1>13, <1>14, <1>15, <1>16, <1>17, <1>18, <1>19

\* A table of which every parameter is legal.
GoodTable(of) == \A p \in DOMAIN Tables[of] : GoodItems(of, Tables[of][p])

\* What a table tells ParseParameters to do is always good.
LEMMA TablesAreGood ==
    \A of \in DOMAIN Tables : \A p \in DOMAIN Tables[of] : GoodItems(of, Tables[of][p])
<1>1. GoodTable("ASSERT_EQUAL")
  BY TablesGive, ParametersAre DEF Gives, GoodTable
<1>2. GoodTable("ASSERT_PIXELS")
  BY TablesGive, ParametersAre DEF Gives, GoodTable
<1>3. GoodTable("ASSERT_SIMILAR_EMD_HISTOGRAM")
  BY TablesGive, ParametersAre DEF Gives, GoodTable
<1>4. GoodTable("BIND_SAMPLER")
  BY TablesGive, ParametersAre DEF Gives, GoodTable
<1>5. GoodTable("BIND_TEXTURE")
  BY TablesGive, ParametersAre DEF Gives, GoodTable
<1>6. GoodTable("BIND_SHADER_STORAGE_BUFFER")
  BY TablesGive, ParametersAre DEF Gives, GoodTable
<1>7. GoodTable("BIND_UNIFORM_BUFFER")
  BY TablesGive, ParametersAre DEF Gives, GoodTable
<1>8. GoodTable("CREATE_EMPTY_TEXTURE_2D")
  BY TablesGive, ParametersAre DEF Gives, GoodTable
<1>9. GoodTable("CREATE_RENDERBUFFER")
  BY TablesGive, ParametersAre DEF Gives, GoodTable
<1>10. GoodTable("CREATE_BUFFER")
  BY TablesGive, ParametersAre DEF Gives, GoodTable
<1>11. GoodTable("RUN_COMPUTE")
  BY TablesGive, ParametersAre DEF Gives, GoodTable
<1>12. GoodTable("RUN_GRAPHICS")
  BY TablesGive, ParametersAre DEF Gives, GoodTable
<1>13. GoodTable("vertex_attribute")
  BY TablesGive, ParametersAre DEF Gives, GoodTable
<1>14. GoodTable("DUMP_BUFFER_BINARY")
  BY TablesGive, ParametersAre DEF Gives, GoodTable
<1>15. GoodTable("DUMP_BUFFER_TEXT")
  BY TablesGive, ParametersAre DEF Gives, GoodTable
<1>16. GoodTable("DUMP_RENDERBUFFER")
  BY TablesGive, ParametersAre DEF Gives, GoodTable
<1>17. GoodTable("SET_SAMPLER_PARAMETER")
  BY TablesGive, ParametersAre DEF Gives, GoodTable
<1>18. GoodTable("SET_TEXTURE_PARAMETER")
  BY TablesGive, ParametersAre DEF Gives, GoodTable
<1>19. GoodTable("SET_UNIFORM")
  BY TablesGive, ParametersAre DEF Gives, GoodTable
<1> QED
  BY <1>1, <1>2, <1>3, <1>4, <1>5, <1>6, <1>7, <1>8, <1>9, <1>10, <1>11, <1>12, <1>13,
     <1>14, <1>15, <1>16, <1>17, <1>18, <1>19, TablesAre DEF GoodTable

\* A parameter that is neither optional nor one of a pair.
Required(of, p) ==
    /\ p \in DOMAIN Tables[of] /\ p \notin Optional(of)
    /\ \A pair \in Exclusive(of) : p \notin {pair[1], pair[2]}

\* It is always there in the end.
LEMMA RequiredIsMandatory ==
    ASSUME NEW of, NEW p, Required(of, p), NEW names, Gives(of, p, names)
    PROVE  names \cap SettingLocals \subseteq Mandatory(of)
<1>1. \A observed : Complete(of, observed) => p \in observed
  BY DEF Complete, Required
<1> QED
  BY <1>1 DEF Mandatory, Gives, Required

\* What has a value at the end of each ParseParameters.
LEMMA MandatoryAre ==
    /\ {"first", "second"} \subseteq Mandatory("ASSERT_EQUAL")
    /\ {"r", "g", "b", "a", "renderbuffer", "x", "y", "width", "height"} \subseteq
         Mandatory("ASSERT_PIXELS")
    /\ {"first", "second", "tolerance"} \subseteq
         Mandatory("ASSERT_SIMILAR_EMD_HISTOGRAM")
    /\ {"sampler", "unit"} \subseteq Mandatory("BIND_SAMPLER")
    /\ {"texture", "unit"} \subseteq Mandatory("BIND_TEXTURE")
    /\ {"buffer", "binding"} \subseteq Mandatory("BIND_SHADER_STORAGE_BUFFER")
    /\ {"buffer", "binding"} \subseteq Mandatory("BIND_UNIFORM_BUFFER")
    /\ {"width", "height"} \subseteq Mandatory("CREATE_EMPTY_TEXTURE_2D")
    /\ {"width", "height"} \subseteq Mandatory("CREATE_RENDERBUFFER")
    /\ {"program", "groups_x", "groups_y", "groups_z"} \subseteq
         Mandatory("RUN_COMPUTE")
    /\ {"program", "index_data", "vertex_count", "topology"} \subseteq
         Mandatory("RUN_GRAPHICS")
    /\ {"buffer", "offset", "stride", "dimension"} \subseteq
         Mandatory("vertex_attribute")
    /\ {"buffer", "file"} \subseteq Mandatory("DUMP_BUFFER_BINARY")
    /\ {"buffer", "file"} \subseteq Mandatory("DUMP_BUFFER_TEXT")
    /\ {"renderbuffer", "file"} \subseteq Mandatory("DUMP_RENDERBUFFER")
    /\ {"sampler", "parameter", "value"} \subseteq Mandatory("SET_SAMPLER_PARAMETER")
    /\ {"texture", "parameter", "value"} \subseteq Mandatory("SET_TEXTURE_PARAMETER")
    /\ {"program", "type"} \subseteq Mandatory("SET_UNIFORM")
<1>1. {"first", "second"} \subseteq Mandatory("ASSERT_EQUAL")
  <2>1. \A observed : Complete("ASSERT_EQUAL", observed) =>
          "BUFFERS" \in observed \/ "RENDERBUFFERS" \in observed
    BY DEF Complete, Exclusive
  <2> QED
    BY <2>1, TablesGive DEF Mandatory, Gives, SettingLocals, ArgumentLocals
<1>2. {"r", "g", "b", "a", "renderbuffer", "x", "y", "width", "height"} \subseteq
      Mandatory("ASSERT_PIXELS")
  <2>1. \A p \in {"EXPECTED", "RENDERBUFFER", "RECTANGLE"} : Required("ASSERT_PIXELS", p)
    BY ParametersAre DEF Required, Optional, Exclusive
  <2> QED
    BY <2>1, TablesGive, RequiredIsMandatory
    DEF SettingLocals, NameLocals, ArgumentLocals, NumberLocals, Dropped
<1>3. {"first", "second", "tolerance"} \subseteq Mandatory("ASSERT_SIMILAR_EMD_HISTOGRAM")
  <2>1. \A p \in {"RENDERBUFFERS", "TOLERANCE"} : Required("ASSERT_SIMILAR_EMD_HISTOGRAM", p)
    BY ParametersAre DEF Required, Optional, Exclusive
  <2> QED
    BY <2>1, TablesGive, RequiredIsMandatory
    DEF SettingLocals, NameLocals, ArgumentLocals, NumberLocals, Dropped
<1>4. {"sampler", "unit"} \subseteq Mandatory("BIND_SAMPLER")
  <2>1. \A p \in {"SAMPLER", "TEXTURE_UNIT"} : Required("BIND_SAMPLER", p)
    BY ParametersAre DEF Required, Optional, Exclusive
  <2> QED
    BY <2>1, TablesGive, RequiredIsMandatory
    DEF SettingLocals, NameLocals, ArgumentLocals, NumberLocals, Dropped
<1>5. {"texture", "unit"} \subseteq Mandatory("BIND_TEXTURE")
  <2>1. \A p \in {"TEXTURE", "TEXTURE_UNIT"} : Required("BIND_TEXTURE", p)
    BY ParametersAre DEF Required, Optional, Exclusive
  <2> QED
    BY <2>1, TablesGive, RequiredIsMandatory
    DEF SettingLocals, NameLocals, ArgumentLocals, NumberLocals, Dropped
<1>6. {"buffer", "binding"} \subseteq Mandatory("BIND_SHADER_STORAGE_BUFFER")
  <2>1. \A p \in {"BUFFER", "BINDING"} : Required("BIND_SHADER_STORAGE_BUFFER", p)
    BY ParametersAre DEF Required, Optional, Exclusive
  <2> QED
    BY <2>1, TablesGive, RequiredIsMandatory
    DEF SettingLocals, NameLocals, ArgumentLocals, NumberLocals, Dropped
<1>7. {"buffer", "binding"} \subseteq Mandatory("BIND_UNIFORM_BUFFER")
  <2>1. \A p \in {"BUFFER", "BINDING"} : Required("BIND_UNIFORM_BUFFER", p)
    BY ParametersAre DEF Required, Optional, Exclusive
  <2> QED
    BY <2>1, TablesGive, RequiredIsMandatory
    DEF SettingLocals, NameLocals, ArgumentLocals, NumberLocals, Dropped
<1>8. {"width", "height"} \subseteq Mandatory("CREATE_EMPTY_TEXTURE_2D")
  <2>1. \A p \in {"WIDTH", "HEIGHT"} : Required("CREATE_EMPTY_TEXTURE_2D", p)
    BY ParametersAre DEF Required, Optional, Exclusive
  <2> QED
    BY <2>1, TablesGive, RequiredIsMandatory
    DEF SettingLocals, NameLocals, ArgumentLocals, NumberLocals, Dropped
<1>9. {"width", "height"} \subseteq Mandatory("CREATE_RENDERBUFFER")
  <2>1. \A p \in {"WIDTH", "HEIGHT"} : Required("CREATE_RENDERBUFFER", p)
    BY ParametersAre DEF Required, Optional, Exclusive
  <2> QED
    BY <2>1, TablesGive, RequiredIsMandatory
    DEF SettingLocals, NameLocals, ArgumentLocals, NumberLocals, Dropped
<1>10. {"program", "groups_x", "groups_y", "groups_z"} \subseteq Mandatory("RUN_COMPUTE")
  <2>1. \A p \in {"PROGRAM", "NUM_GROUPS"} : Required("RUN_COMPUTE", p)
    BY ParametersAre DEF Required, Optional, Exclusive
  <2> QED
    BY <2>1, TablesGive, RequiredIsMandatory
    DEF SettingLocals, NameLocals, ArgumentLocals, NumberLocals, Dropped
<1>11. {"program", "index_data", "vertex_count", "topology"} \subseteq
      Mandatory("RUN_GRAPHICS")
  <2>1. \A p \in {"PROGRAM", "INDEX_DATA", "VERTEX_COUNT", "TOPOLOGY"} : Required("RUN_GRAPHICS", p)
    BY ParametersAre DEF Required, Optional, Exclusive
  <2> QED
    BY <2>1, TablesGive, RequiredIsMandatory
    DEF SettingLocals, NameLocals, ArgumentLocals, NumberLocals, Dropped
<1>12. {"buffer", "offset", "stride", "dimension"} \subseteq Mandatory("vertex_attribute")
  <2>1. \A p \in {"BUFFER", "OFFSET_BYTES", "STRIDE_BYTES", "DIMENSION"} : Required("vertex_attribute", p)
    BY ParametersAre DEF Required, Optional, Exclusive
  <2> QED
    BY <2>1, TablesGive, RequiredIsMandatory
    DEF SettingLocals, NameLocals, ArgumentLocals, NumberLocals, Dropped
<1>13. {"buffer", "file"} \subseteq Mandatory("DUMP_BUFFER_BINARY")
  <2>1. \A p \in {"BUFFER", "FILE"} : Required("DUMP_BUFFER_BINARY", p)
    BY ParametersAre DEF Required, Optional, Exclusive
  <2> QED
    BY <2>1, TablesGive, RequiredIsMandatory
    DEF SettingLocals, NameLocals, ArgumentLocals, NumberLocals, Dropped
<1>14. {"buffer", "file"} \subseteq Mandatory("DUMP_BUFFER_TEXT")
  <2>1. \A p \in {"BUFFER", "FILE"} : Required("DUMP_BUFFER_TEXT", p)
    BY ParametersAre DEF Required, Optional, Exclusive
  <2> QED
    BY <2>1, TablesGive, RequiredIsMandatory
    DEF SettingLocals, NameLocals, ArgumentLocals, NumberLocals, Dropped
<1>15. {"renderbuffer", "file"} \subseteq Mandatory("DUMP_RENDERBUFFER")
  <2>1. \A p \in {"RENDERBUFFER", "FILE"} : Required("DUMP_RENDERBUFFER", p)
    BY ParametersAre DEF Required, Optional, Exclusive
  <2> QED
    BY <2>1, TablesGive, RequiredIsMandatory
    DEF SettingLocals, NameLocals, ArgumentLocals, NumberLocals, Dropped
<1>16. {"sampler", "parameter", "value"} \subseteq Mandatory("SET_SAMPLER_PARAMETER")
  <2>1. \A p \in {"SAMPLER", "PARAMETER", "VALUE"} : Required("SET_SAMPLER_PARAMETER", p)
    BY ParametersAre DEF Required, Optional, Exclusive
  <2> QED
    BY <2>1, TablesGive, RequiredIsMandatory
    DEF SettingLocals, NameLocals, ArgumentLocals, NumberLocals, Dropped
<1>17. {"texture", "parameter", "value"} \subseteq Mandatory("SET_TEXTURE_PARAMETER")
  <2>1. \A p \in {"TEXTURE", "PARAMETER", "VALUE"} : Required("SET_TEXTURE_PARAMETER", p)
    BY ParametersAre DEF Required, Optional, Exclusive
  <2> QED
    BY <2>1, TablesGive, RequiredIsMandatory
    DEF SettingLocals, NameLocals, ArgumentLocals, NumberLocals, Dropped
<1>18. {"program", "type"} \subseteq Mandatory("SET_UNIFORM")
  <2>1. \A p \in {"PROGRAM", "TYPE"} : Required("SET_UNIFORM", p)
    BY ParametersAre DEF Required, Optional, Exclusive
  <2> QED
    BY <2>1, TablesGive, RequiredIsMandatory
    DEF SettingLocals, NameLocals, ArgumentLocals, NumberLocals, Dropped
<1> QED
  BY <1>1, <1>2, <1>3, <1>4, <1>5, <1>6, <1>7, <1>8, <1>9, <1>10, <1>11, <1>12, <1>13,
     <1>14, <1>15, <1>16, <1>17, <1>18

\* The parameters of RUN_GRAPHICS itself and those of its vertex attributes give
\* different locals a value.
LEMMA GraphicsGivesNoAttribute ==
    \A p \in DOMAIN Tables["RUN_GRAPHICS"] :
        GivenBy("RUN_GRAPHICS", p) \cap AttributeLocals = {}
BY TablesGive, ParametersAre DEF Gives, AttributeLocals

\* A uniform has a location by LOCATION only, and a name by NAME only.
LEMMA UniformIsFoundBy ==
    \A p \in DOMAIN Tables["SET_UNIFORM"] : \A choice \in WaysToFind :
        choice[2] \in GivenBy("SET_UNIFORM", p) <=> p = choice[1]
<1>1. \A p \in DOMAIN Tables["SET_UNIFORM"] :
        /\ "uniform_location" \in GivenBy("SET_UNIFORM", p) <=> p = "LOCATION"
        /\ "name" \in GivenBy("SET_UNIFORM", p) <=> p = "NAME"
  BY TablesGive, ParametersAre DEF Gives
<1> QED
  BY <1>1 DEF WaysToFind
-----------------------------------------------------------------------------
(***************************************************************************)
(* What replacing the next item does to the rest.                          *)
(***************************************************************************)
\* A sequence whose first item has been replaced, item by item.
Replaces(new, items, old) ==
    /\ new \in Seq(LegalItem)
    /\ Len(new) = Len(items) + Len(old) - 1
    /\ \A i \in 1 .. Len(items) : new[i] = items[i]
    /\ \A i \in 2 .. Len(old) : new[i + Len(items) - 1] = old[i]
    /\ \A k \in 1 .. Len(new) : k \notin 1 .. Len(items) =>
         \E i \in 2 .. Len(old) : k = i + Len(items) - 1

\* Which is how the parser replaces it.
LEMMA ReplacedIs ==
    ASSUME NEW old \in Seq(LegalItem), old # <<>>, NEW items \in Seq(LegalItem),
           NEW new, new = items \o Tail(old)
    PROVE  Replaces(new, items, old)
<1>1. /\ Tail(old) \in Seq(LegalItem) /\ Len(Tail(old)) = Len(old) - 1
      /\ \A i \in 1 .. Len(old) - 1 : Tail(old)[i] = old[i + 1]
  OBVIOUS
<1>2. new \in Seq(LegalItem) /\ Len(new) = Len(items) + Len(Tail(old))
  BY <1>1
<1>3. \A i \in 1 .. Len(items) : new[i] = items[i]
  BY <1>1
<1>4. ASSUME NEW i \in 2 .. Len(old) PROVE new[i + Len(items) - 1] = old[i]
  <2>1. i + Len(items) - 1 \in Len(items) + 1 .. Len(items) + Len(Tail(old))
    BY <1>1
  <2>2. new[i + Len(items) - 1] = Tail(old)[i - 1]
    BY <1>1, <2>1
  <2> QED
    BY <1>1, <2>2
<1>5. ASSUME NEW k \in 1 .. Len(new), k \notin 1 .. Len(items)
      PROVE  \E i \in 2 .. Len(old) : k = i + Len(items) - 1
  <2>1. Len(old) \in Nat /\ Len(items) \in Nat /\ k \in Int
    BY <1>2
  <2>2. k - Len(items) + 1 \in 2 .. Len(old)
    BY <1>1, <1>2, <1>5, <2>1
  <2>3. k = (k - Len(items) + 1) + Len(items) - 1
    BY <2>1
  <2> QED
    BY <2>2, <2>3
<1> QED
  BY <1>1, <1>2, <1>3, <1>4, <1>5 DEF Replaces

\* What may replace an item of a command.
Follows(x, items, of) ==
    /\ items \in Seq(LegalItem)
    /\ Nested(items)
    /\ \A i \in 1 .. Len(items) : Stage(items[i]) <= Stage(x) /\ BelongsTo(items[i], of)

\* Whatever follows an item may follow it, nested as before.
LEMMA NestedStays ==
    ASSUME NEW of, NEW old \in Seq(LegalItem), old # <<>>, Nested(old),
           \A i \in 1 .. Len(old) : BelongsTo(old[i], of),
           NEW items, Follows(Head(old), items, of), NEW new, new = items \o Tail(old)
    PROVE  /\ new \in Seq(LegalItem)
           /\ Nested(new)
           /\ \A i \in 1 .. Len(new) : BelongsTo(new[i], of)
<1>1. items \in Seq(LegalItem) /\ Nested(items)
  BY DEF Follows
<1>2. Replaces(new, items, old)
  BY <1>1, ReplacedIs
<1> USE DEF Replaces
<1>3. \A i \in 1 .. Len(new) : BelongsTo(new[i], of)
  BY <1>2 DEF Follows
<1>4. ASSUME NEW i \in 1 .. Len(new), NEW j \in 1 .. Len(new), i < j
      PROVE  Stage(new[i]) = 0 \/ Stage(new[i]) < Stage(new[j])
  <2>1. Head(old) = old[1] /\ Len(old) \in Nat /\ Len(old) >= 1 /\ Len(items) \in Nat
    BY <1>1
  <2>2. \A x : Stage(x) \in Nat
    BY DEF Stage
  <2>3. CASE i \in 1 .. Len(items) /\ j \in 1 .. Len(items)
    BY <1>1, <1>2, <1>4, <2>3 DEF Nested
  <2>4. CASE i \in 1 .. Len(items) /\ j \notin 1 .. Len(items)
    <3>1. PICK k \in 2 .. Len(old) : j = k + Len(items) - 1
      BY <1>2, <2>4
    <3>2. new[j] = old[k] /\ new[i] = items[i] /\ Stage(items[i]) <= Stage(old[1])
      BY <1>2, <2>1, <2>4, <3>1 DEF Follows
    <3>3. Stage(old[1]) = 0 \/ Stage(old[1]) < Stage(old[k])
      BY <2>1 DEF Nested
    <3> QED
      BY <2>2, <3>2, <3>3
  <2>5. CASE i \notin 1 .. Len(items)
    <3>1. PICK k \in 2 .. Len(old) : i = k + Len(items) - 1
      BY <1>2, <2>5
    <3>2. j \notin 1 .. Len(items)
      BY <1>4, <2>1, <2>5, <1>2
    <3>3. PICK l \in 2 .. Len(old) : j = l + Len(items) - 1
      BY <1>2, <3>2
    <3>4. k < l /\ new[i] = old[k] /\ new[j] = old[l]
      BY <1>2, <1>4, <2>1, <3>1, <3>3
    <3> QED
      BY <3>4 DEF Nested
  <2> QED
    BY <2>3, <2>4, <2>5
<1> QED
  BY <1>2, <1>3, <1>4 DEF Nested

\* What is wanted stays supplied, if the items that replace the next one give a value to
\* all that it would have, and what had a value keeps it.
LEMMA SuppliedStays ==
    ASSUME NEW old \in Seq(LegalItem), old # <<>>, NEW items \in Seq(LegalItem),
           NEW new, new = items \o Tail(old),
           NEW held, NEW held2, NEW goal, Supplied(old, held, goal),
           Supplied(items, held2, {}),
           NEW wanted, goal \subseteq wanted,
           \A i \in 2 .. Len(old) : Demands(old[i]) \subseteq wanted,
           \A name \in wanted : name \in held \/ Assigns(Head(old), name) =>
             name \in held2 \/ \E j \in 1 .. Len(items) : Assigns(items[j], name)
    PROVE  Supplied(new, held2, goal)
<1>1. Replaces(new, items, old)
  BY ReplacedIs
<1> USE DEF Replaces
<1>2. /\ Head(old) = old[1] /\ Len(old) \in Nat /\ Len(old) >= 1 /\ Len(items) \in Nat
      /\ Len(new) \in Nat
  BY <1>1
<1>3. ASSUME NEW n \in 1 .. Len(old), NEW name \in wanted,
             name \in held \/ \E j \in 1 .. n : Assigns(old[j], name)
      PROVE  name \in held2 \/ \E j \in 1 .. n + Len(items) - 1 : Assigns(new[j], name)
  <2>1. CASE name \in held \/ Assigns(old[1], name)
    <3>1. \A j \in 1 .. Len(items) : j \in 1 .. n + Len(items) - 1
      BY <1>2
    <3> QED
      BY <1>1, <1>2, <2>1, <3>1
  <2>2. CASE \E j \in 2 .. n : Assigns(old[j], name)
    <3>1. PICK j \in 2 .. n : Assigns(old[j], name)
      BY <2>2
    <3>2. /\ j \in 2 .. Len(old)
          /\ j + Len(items) - 1 \in 1 .. n + Len(items) - 1
      BY <1>2
    <3> QED
      BY <1>1, <3>1, <3>2
  <2> QED
    BY <1>2, <1>3, <2>1, <2>2
<1>4. ASSUME NEW k \in 1 .. Len(new), NEW name \in Demands(new[k])
      PROVE  name \in held2 \/ \E j \in 1 .. k - 1 : Assigns(new[j], name)
  <2>1. CASE k \in 1 .. Len(items)
    <3>1. name \in held2 \/ \E j \in 1 .. k - 1 : Assigns(items[j], name)
      BY <1>1, <1>4, <2>1 DEF Supplied
    <3>2. \A j \in 1 .. k - 1 : j \in 1 .. Len(items)
      BY <1>2, <2>1
    <3> QED
      BY <1>1, <3>1, <3>2
  <2>2. CASE k \notin 1 .. Len(items)
    <3>1. PICK i \in 2 .. Len(old) : k = i + Len(items) - 1
      BY <1>1, <2>2
    <3>2. new[k] = old[i]
      BY <1>1, <3>1
    <3>3. name \in wanted
      BY <1>4, <3>2
    <3>4. i \in 1 .. Len(old) /\ i - 1 \in 1 .. Len(old) /\ k - 1 = (i - 1) + Len(items) - 1
      BY <1>2, <3>1
    <3>5. name \in held \/ \E j \in 1 .. i - 1 : Assigns(old[j], name)
      BY <1>4, <3>2, <3>4 DEF Supplied
    <3> QED
      BY <1>3, <3>3, <3>4, <3>5
  <2> QED
    BY <2>1, <2>2
<1>5. ASSUME NEW name \in goal
      PROVE  name \in held2 \/ \E j \in 1 .. Len(new) : Assigns(new[j], name)
  <2>1. name \in held \/ \E j \in 1 .. Len(old) : Assigns(old[j], name)
    BY DEF Supplied
  <2>2. Len(old) \in 1 .. Len(old) /\ Len(new) = Len(old) + Len(items) - 1 /\ name \in wanted
    BY <1>1, <1>2
  <2> QED
    BY <1>3, <2>1, <2>2
<1> QED
  BY <1>4, <1>5 DEF Supplied
-----------------------------------------------------------------------------
(***************************************************************************)
(* Steps that stop, and steps that go on.                                  *)
(***************************************************************************)
\* The token ahead is one the assumption is about, and what is left of it is, too.
LEMMA AheadIsToken ==
    ASSUME ParserInv
    PROVE  \A t \in Ahead : IsToken(t) /\ IsToken(Passed(t)) /\ IsToken(Unread)
<1>1. IsToken(Unread)
  BY DEF IsToken, Unread
<1>2. \A t : IsToken(t) => IsToken(Passed(t))
  BY <1>1 DEF Passed
<1>3. ASSUME NEW t \in Ahead PROVE IsToken(t)
  <2>1. CASE next # Unread
    BY <2>1 DEF Ahead, ParserInv
  <2>2. CASE next = Unread
    <3>1. todo # <<>> => Head(todo) \in LegalItem
      BY DEF ParserInv, ItemsInv
    <3>2. \A x \in LegalItem : x.item \in ItemNames
      BY DEF LegalItem, ItemNames
    <3>3. command \in CommandKeywords \cup {"none"}
      BY DEF ParserInv, TypeOK
    <3>4. PICK item \in ItemNames \cup {"none"} : t \in TokensAt(command, item)
      BY <2>2, <3>1, <3>2 DEF Ahead
    <3> QED
      BY <3>3, <3>4, TokensAssumption DEF IsToken
  <2> QED
    BY <2>1, <2>2
<1> QED
  BY <1>1, <1>2, <1>3

\* The parse may stop at any point.
LEMMA StopKeepsInv ==
    ASSUME ParserInv, NEW how \in Ended, NEW error \in BOOLEAN, Stop(how, error),
           how = "accepted" => pc = "commands"
    PROVE  ParserInv'
<1>1. /\ pc' = how /\ next' = Unread /\ todo' = <<>> /\ locals' = EmptyMap
      /\ command' = command /\ program' = program /\ version' = version
      /\ errorReported' = (errorReported \/ error)
  BY DEF Stop, Reports
<1>2. how \notin {"api", "api_version", "commands", "items"}
  BY DEF Ended
<1>3. TypeOK'
  BY <1>1, <1>2 DEF ParserInv, TypeOK, EmptyMap
<1>4. /\ pc' # "items"
      /\ pc' \in {"commands", "items", "accepted"} => version' \in SupportedVersions
  BY <1>1, <1>2 DEF ParserInv
<1>5. IsToken(next')
  BY <1>1 DEF IsToken, Unread
<1>6. ItemsInv'
  BY <1>1 DEF ItemsInv, Nested
<1>7. SuppliedInv' /\ UniformInv' /\ LocalsInv'
  BY <1>4 DEF SuppliedInv, UniformInv, LocalsInv
<1>8. AttachmentInv'
  BY <1>1 DEF AttachmentInv
<1>9. ProgramInv'
  BY <1>1 DEF ParserInv, ProgramInv, AttachmentsAreOneToOne
<1> QED
  BY <1>3, <1>4, <1>5, <1>6, <1>7, <1>8, <1>9 DEF ParserInv

\* Going on within a command leaves alone what has been parsed.
LEMMA GoOnKeepsInv ==
    ASSUME ParserInv, pc = "items", todo # <<>>,
           NEW ahead, NEW items, NEW assigned, NEW error \in BOOLEAN,
           next' = ahead, todo' = items \o Tail(todo), locals' = assigned,
           Reports(error), UNCHANGED <<pc, command, program, version>>,
           IsToken(ahead), ItemsInv', SuppliedInv', UniformInv', LocalsInv', AttachmentInv'
    PROVE  ParserInv'
<1>1. errorReported' = (errorReported \/ error)
  BY DEF Reports
<1>2. TypeOK'
  <2>1. \A name \in NumberLocals \cap DOMAIN locals' : locals'[name] \in 0 .. UINT32_MAX
    BY DEF LocalsInv, HasType
  <2> QED
    BY <1>1, <2>1 DEF ParserInv, TypeOK
<1>3. ProgramInv'
  BY <1>1 DEF ParserInv, ProgramInv, AttachmentsAreOneToOne
<1> QED
  BY <1>2, <1>3 DEF ParserInv

\* What is to be attached stays at the place it has.
LEMMA AttachmentStays ==
    ASSUME ParserInv, todo # <<>>, NEW items \in Seq(LegalItem), todo' = items \o Tail(todo),
           current.item \notin {"symbol", "location"},
           \A i \in 1 .. Len(items) : items[i].item # "attachment"
    PROVE  AttachmentInv'
<1>1. todo \in Seq(LegalItem) /\ AttachmentInv /\ current = todo[1]
  BY DEF ParserInv, ItemsInv, current
<1>2. Replaces(todo', items, todo)
  BY <1>1, ReplacedIs
<1>3. \A i \in 2 .. Len(todo) : todo[i].item # "attachment"
  BY <1>1 DEF AttachmentInv
<1>4. \A k \in 1 .. Len(todo') : todo'[k].item # "attachment"
  BY <1>2, <1>3 DEF Replaces
<1> QED
  BY <1>4 DEF AttachmentInv

\* The way to find a uniform is not touched by anything but its parameters.
LEMMA UniformStays ==
    ASSUME ParserInv, pc = "items", todo # <<>>,
           NEW items \in Seq(LegalItem), todo' = items \o Tail(todo),
           pc' = pc, command' = command, current.item # "parameters",
           \A choice \in WaysToFind :
             choice[2] \in DOMAIN locals'
               \/ (\E j \in 1 .. Len(items) : choice[2] \in Sets(items[j]))
             => choice[2] \in DOMAIN locals \/ choice[2] \in Sets(current)
    PROVE  UniformInv'
<1> SUFFICES ASSUME command = "SET_UNIFORM" PROVE UniformInv'
  BY DEF UniformInv
<1>1. todo \in Seq(LegalItem) /\ UniformInv /\ current = todo[1] /\ Len(todo) \in Nat
  BY DEF ParserInv, ItemsInv, current
<1>2. Replaces(todo', items, todo)
  BY <1>1, ReplacedIs
<1> DEFINE last == todo[Len(todo)]
<1>3. /\ last.item = "parameters" /\ last.of = "SET_UNIFORM"
      /\ \A choice \in WaysToFind :
           choice[2] \in DOMAIN locals
             \/ (\E j \in 1 .. Len(todo) : choice[2] \in Sets(todo[j]))
           => choice[1] \in last.observed
  BY <1>1 DEF UniformInv
<1>4. Len(todo) \in 2 .. Len(todo)
  BY <1>1, <1>3
<1>5. /\ Len(todo') = Len(todo) + Len(items) - 1 /\ todo'[Len(todo')] = last /\ todo' # <<>>
      /\ Len(todo') \in Nat
  BY <1>2, <1>4 DEF Replaces
<1>6. ASSUME NEW choice \in WaysToFind,
             choice[2] \in DOMAIN locals'
               \/ (\E j \in 1 .. Len(todo') : choice[2] \in Sets(todo'[j]))
      PROVE  choice[1] \in last.observed
  <2>1. CASE choice[2] \in DOMAIN locals'
               \/ (\E j \in 1 .. Len(items) : choice[2] \in Sets(items[j]))
    <3>1. 1 \in 1 .. Len(todo)
      BY <1>4
    <3> QED
      BY <1>1, <1>3, <2>1, <3>1
  <2>2. ASSUME NEW j \in 1 .. Len(todo'), j \notin 1 .. Len(items),
               choice[2] \in Sets(todo'[j])
        PROVE  choice[1] \in last.observed
    <3>1. PICK i \in 2 .. Len(todo) : j = i + Len(items) - 1
      BY <1>2, <2>2 DEF Replaces
    <3>2. todo'[j] = todo[i] /\ i \in 1 .. Len(todo)
      BY <1>1, <1>2, <3>1 DEF Replaces
    <3> QED
      BY <1>3, <2>2, <3>2
  <2> QED
    BY <1>2, <1>6, <2>1, <2>2 DEF Replaces
<1> QED
  BY <1>3, <1>5, <1>6 DEF UniformInv

\* A step that puts no parameters on todo, and leaves at least the values there are.
LEMMA PlainKeepsInv ==
    ASSUME ParserInv, pc = "items", todo # <<>>, NEW ahead, IsToken(ahead),
           NEW items \in Seq(LegalItem), NEW assigned, NEW error \in BOOLEAN,
           GoOn(ahead, items, assigned, error),
           current.item # "parameters",
           \A i \in 1 .. Len(items) : /\ Stage(items[i]) = 0 /\ BelongsTo(items[i], command)
                                      /\ Sets(items[i]) \subseteq {"array_size"},
           DOMAIN locals \cup Sets(current) \subseteq DOMAIN assigned,
           DOMAIN assigned \subseteq DOMAIN locals \cup Sets(current) \cup {"location"},
           LocalsInv', AttachmentInv'
    PROVE  ParserInv'
<1>1. /\ next' = ahead /\ todo' = items \o Tail(todo) /\ locals' = assigned
      /\ Reports(error) /\ pc' = pc /\ command' = command
      /\ UNCHANGED <<pc, command, program, version>>
  BY DEF GoOn
<1>2. /\ todo \in Seq(LegalItem) /\ Nested(todo) /\ current = todo[1] /\ current = Head(todo)
      /\ \A i \in 1 .. Len(todo) : BelongsTo(todo[i], command)
      /\ Supplied(todo, DOMAIN locals, Given)
  BY DEF ParserInv, ItemsInv, SuppliedInv, current
<1>3. Follows(current, items, command)
  BY DEF Follows, Nested, Stage
<1>4. ItemsInv'
  BY <1>1, <1>2, <1>3, NestedStays DEF ItemsInv
<1>5. Supplied(todo', DOMAIN assigned, Given)
  <2>1. \A x : Stage(x) = 0 => Demands(x) = {}
    BY DEF Stage, Demands
  <2>2. Supplied(items, DOMAIN assigned, {})
    BY <2>1 DEF Supplied
  <2>3. \A name : Assigns(current, name) => name \in Sets(current)
    BY DEF Assigns
  <2> DEFINE demanded == UNION {Demands(x) : x \in LegalItem}
             wanted == demanded \cup Given
  <2>4. \A i \in 2 .. Len(todo) : Demands(todo[i]) \subseteq demanded
    BY <1>2
  <2> HIDE DEF demanded
  <2>5. /\ Given \subseteq wanted
        /\ \A i \in 2 .. Len(todo) : Demands(todo[i]) \subseteq wanted
    BY <2>4
  <2> HIDE DEF wanted
  <2>6. \A name \in wanted : name \in DOMAIN locals \/ Assigns(Head(todo), name) =>
          name \in DOMAIN assigned \/ \E j \in 1 .. Len(items) : Assigns(items[j], name)
    BY <1>2, <2>3
  <2> QED
    BY <1>1, <1>2, <2>2, <2>5, <2>6, SuppliedStays
<1>6. SuppliedInv'
  <2>1. Given' = Given
    BY <1>1 DEF Given
  <2> QED
    BY <1>1, <1>5, <2>1 DEF SuppliedInv
<1>7. UniformInv'
  <2>1. \A choice \in WaysToFind : choice[2] \in {"uniform_location", "name"}
    BY DEF WaysToFind
  <2>2. \A choice \in WaysToFind :
          choice[2] \in DOMAIN locals'
            \/ (\E j \in 1 .. Len(items) : choice[2] \in Sets(items[j]))
          => choice[2] \in DOMAIN locals \/ choice[2] \in Sets(current)
    BY <1>1, <2>1
  <2> QED
    BY <1>1, <2>2, UniformStays
<1> QED
  BY <1>1, <1>4, <1>6, <1>7, GoOnKeepsInv

\* What the items of each kind hold.
LEMMA LegalItemsAre ==
    ASSUME NEW x \in LegalItem
    PROVE  /\ x.item = "literal" =>
                \/ x.type = "identifier" /\ x.local \in NameLocals
                \/ x.type \in {"string", "float_literal"} /\ x.local \in Dropped
           /\ x.item = "argument" => x.local \in ArgumentLocals
           /\ x.item = "number" =>
                x.local \in NumberLocals \cup Dropped /\ x.most \in {UINT8_MAX, UINT32_MAX}
           /\ x.item = "one_of" =>
                \/ x.words = ShaderKind /\ x.local = "kind"
                \/ x.words = UniformTypes /\ x.local = "type"
                \/ x.local \in Dropped
           /\ x.item = "count" => x.kind \in FormatKind \ {"string"} /\ x.most = UINT32_MAX
           /\ x.item = "location" => x.most = UINT32_MAX
           /\ x.item = "parameters" =>
                /\ x.of \in DOMAIN Tables /\ x.observed \subseteq AnyParameter
                /\ x = [item |-> "parameters", of |-> x.of, observed |-> x.observed]
           /\ x.item = "format" => x.strings \in BOOLEAN
           /\ x.item = "segments" =>
                /\ x.type \in SegmentTypes \cup {"none"}
                /\ x.literals \in Nat /\ x.before \in Nat
                /\ x.type = "none" => x.literals = 0
                /\ x = [item |-> "segments", type |-> x.type, literals |-> x.literals,
                        before |-> x.before]
           /\ x.item = "entries" =>
                /\ x.entry \in EntryKinds /\ x.before \in Nat
                /\ x = [item |-> "entries", entry |-> x.entry, before |-> x.before]
           /\ x.item = "end_of_entry" => x.entry \in EntryKinds
<1>1. x.item = "literal" =>
       \/ x.type = "identifier" /\ x.local \in NameLocals
       \/ x.type \in {"string", "float_literal"} /\ x.local \in Dropped
  BY DEF LegalItem
<1>2. x.item = "argument" => x.local \in ArgumentLocals
  BY DEF LegalItem
<1>3. x.item = "number" =>
       x.local \in NumberLocals \cup Dropped /\ x.most \in {UINT8_MAX, UINT32_MAX}
  BY DEF LegalItem
<1>4. x.item = "one_of" =>
       \/ x.words = ShaderKind /\ x.local = "kind"
       \/ x.words = UniformTypes /\ x.local = "type"
       \/ x.local \in Dropped
  BY DEF LegalItem
<1>5. x.item = "count" => x.kind \in FormatKind \ {"string"} /\ x.most = UINT32_MAX
  BY DEF LegalItem
<1>6. x.item = "location" => x.most = UINT32_MAX
  BY DEF LegalItem
<1>7. x.item = "parameters" =>
       /\ x.of \in DOMAIN Tables /\ x.observed \subseteq AnyParameter
       /\ x = [item |-> "parameters", of |-> x.of, observed |-> x.observed]
  BY DEF LegalItem
<1>8. x.item = "format" => x.strings \in BOOLEAN
  BY DEF LegalItem
<1>9. x.item = "segments" =>
       /\ x.type \in SegmentTypes \cup {"none"}
       /\ x.literals \in Nat /\ x.before \in Nat
       /\ x.type = "none" => x.literals = 0
       /\ x = [item |-> "segments", type |-> x.type, literals |-> x.literals,
               before |-> x.before]
  <2>1. x.item = "segments" =>
          \/ x \in [item : {"segments"}, type : {"none"}, literals : {0}, before : Nat]
          \/ x \in [item : {"segments"}, type : SegmentTypes, literals : Nat, before : Nat]
    BY DEF LegalItem
  <2>2. "none" \notin SegmentTypes
    BY DEF SegmentTypes
  <2> QED
    BY <2>1, <2>2
<1>10. x.item = "entries" =>
       /\ x.entry \in EntryKinds /\ x.before \in Nat
       /\ x = [item |-> "entries", entry |-> x.entry, before |-> x.before]
  BY DEF LegalItem
<1>11. x.item = "end_of_entry" => x.entry \in EntryKinds
  BY DEF LegalItem
<1> QED
  BY <1>1, <1>2, <1>3, <1>4, <1>5, <1>6, <1>7, <1>8, <1>9, <1>10, <1>11

\* A local that is given a value.
LEMMA WithIsTyped ==
    ASSUME ParserInv, pc = "items", pc' = pc, command' = command,
           NEW local, NEW value, locals' = With(local, value),
           errorReported => errorReported',
           local \in Dropped \/ HasType(command, local, value),
           local \in ArgumentLocals /\ ~errorReported' => value \in Identifier
    PROVE  DOMAIN locals' = DOMAIN locals \cup {local} /\ LocalsInv'
<1>1. /\ DOMAIN Declared \subseteq DOMAIN locals
      /\ \A name \in DOMAIN locals : HasType(command, name, locals[name])
      /\ ~errorReported => \A name \in ArgumentLocals \cap DOMAIN locals :
                              locals[name] \in Identifier
  BY DEF ParserInv, LocalsInv
<1>2. /\ DOMAIN locals' = DOMAIN locals \cup {local}
      /\ \A name \in DOMAIN locals : name # local => locals'[name] = locals[name]
      /\ locals'[local] = IF local \in Dropped THEN "given" ELSE value
  BY DEF With
<1>3. \A name \in Dropped : HasType(command, name, "given")
  BY DEF HasType, Dropped, NameLocals, ArgumentLocals, NumberLocals
<1>4. \A name \in Dropped : name \notin ArgumentLocals
  BY DEF Dropped, ArgumentLocals
<1>5. ASSUME NEW name \in DOMAIN locals' PROVE HasType(command, name, locals'[name])
  BY <1>1, <1>2, <1>3
<1>6. ~errorReported' => \A name \in ArgumentLocals \cap DOMAIN locals' :
                            locals'[name] \in Identifier
  BY <1>1, <1>2, <1>4
<1> QED
  BY <1>1, <1>2, <1>5, <1>6 DEF LocalsInv

\* A container, or the like, that changes.
LEMMA ChangedIsTyped ==
    ASSUME ParserInv, pc = "items", pc' = pc, command' = command,
           NEW local \in DOMAIN Declared, NEW value, locals' = [locals EXCEPT ![local] = value],
           errorReported => errorReported', HasType(command, local, value)
    PROVE  DOMAIN locals' = DOMAIN locals /\ LocalsInv'
<1>1. /\ DOMAIN Declared \subseteq DOMAIN locals
      /\ \A name \in DOMAIN locals : HasType(command, name, locals[name])
      /\ ~errorReported => \A name \in ArgumentLocals \cap DOMAIN locals :
                              locals[name] \in Identifier
  BY DEF ParserInv, LocalsInv
<1>2. /\ DOMAIN locals' = DOMAIN locals
      /\ \A name \in DOMAIN locals : name # local => locals'[name] = locals[name]
      /\ locals'[local] = value
  BY <1>1
<1>3. local \notin ArgumentLocals
  BY DEF Declared, ArgumentLocals
<1> QED
  BY <1>1, <1>2, <1>3 DEF LocalsInv

\* Going on, unfolded.
LEMMA GoOnIs ==
    ASSUME NEW ahead, NEW items, NEW assigned, NEW error \in BOOLEAN,
           GoOn(ahead, items, assigned, error)
    PROVE  /\ next' = ahead /\ todo' = items \o Tail(todo) /\ locals' = assigned
           /\ pc' = pc /\ command' = command /\ program' = program /\ version' = version
           /\ errorReported => errorReported'
           /\ error => errorReported'
BY DEF GoOn, Reports

\* Taking a token and no more.
LEMMA TakenKeepsInv ==
    ASSUME ParserInv, pc = "items", todo # <<>>, NEW t \in Ahead, NEW assigned,
           NEW error \in BOOLEAN, GoOn(Passed(t), <<>>, assigned, error),
           current.item # "parameters",
           DOMAIN locals \cup Sets(current) \subseteq DOMAIN assigned,
           DOMAIN assigned \subseteq DOMAIN locals \cup Sets(current) \cup {"location"},
           LocalsInv', current.item \in {"symbol", "location"} => AttachmentInv'
    PROVE  ParserInv'
<1> DEFINE items == <<>>
<1>1. items \in Seq(LegalItem) /\ \A i \in 1 .. Len(items) : FALSE
  OBVIOUS
<1>2. GoOn(Passed(t), items, assigned, error)
  OBVIOUS
<1>3. IsToken(Passed(t))
  BY AheadIsToken
<1> HIDE DEF items
<1>4. todo' = items \o Tail(todo)
  BY <1>2, GoOnIs
<1>5. AttachmentInv'
  <2>1. CASE current.item \notin {"symbol", "location"}
    <3>1. \A i \in 1 .. Len(items) : items[i].item # "attachment"
      BY <1>1
    <3> QED
      BY <1>1, <1>4, <2>1, <3>1, AttachmentStays
  <2> QED
    BY <2>1
<1>6. \A i \in 1 .. Len(items) : /\ Stage(items[i]) = 0 /\ BelongsTo(items[i], command)
                                /\ Sets(items[i]) \subseteq {"array_size"}
  BY <1>1
<1> QED
  BY <1>1, <1>2, <1>3, <1>5, <1>6, PlainKeepsInv

\* Locals that do not change.
LEMMA SameIsTyped ==
    ASSUME ParserInv, pc' = pc, command' = command, locals' = locals,
           errorReported => errorReported'
    PROVE  LocalsInv'
BY DEF ParserInv, LocalsInv

\* A keyword.
LEMMA ReadKeywordKeepsInv == ASSUME ParserInv, ReadKeyword PROVE ParserInv'
<1>1. /\ pc = "items" /\ todo # <<>> /\ current.item = "keyword"
      /\ \E t \in Ahead : Throw \/ Refuse \/ GoOn(Passed(t), <<>>, locals, FALSE)
  BY DEF ReadKeyword, Takes, Doing, Unchanged, Never, Listed
<1>2. CASE Throw \/ Refuse
  BY <1>2, StopKeepsInv DEF Throw, Refuse, Ended
<1>3. ASSUME NEW t \in Ahead, GoOn(Passed(t), <<>>, locals, FALSE) PROVE ParserInv'
  <2>1. LocalsInv'
    BY <1>3, GoOnIs, SameIsTyped
  <2>2. Sets(current) = {}
    BY <1>1 DEF Sets
  <2> QED
    BY <1>1, <1>3, <2>1, <2>2, TakenKeepsInv
<1> QED
  BY <1>1, <1>2, <1>3

\* A bracket, or a message that there is none.
LEMMA ReadBracketKeepsInv == ASSUME ParserInv, ReadBracket PROVE ParserInv'
<1>1. /\ pc = "items" /\ todo # <<>> /\ current.item = "bracket"
      /\ \E t \in Ahead : \/ Throw \/ Refuse
                          \/ \E error \in BOOLEAN : GoOn(Passed(t), <<>>, locals, error)
  BY DEF ReadBracket, Takes, Doing, Unchanged, Never, Always
<1>2. CASE Throw \/ Refuse
  BY <1>2, StopKeepsInv DEF Throw, Refuse, Ended
<1>3. ASSUME NEW t \in Ahead, NEW error \in BOOLEAN, GoOn(Passed(t), <<>>, locals, error)
      PROVE  ParserInv'
  <2>1. LocalsInv'
    BY <1>3, GoOnIs, SameIsTyped
  <2>2. Sets(current) = {}
    BY <1>1 DEF Sets
  <2> QED
    BY <1>1, <1>3, <2>1, <2>2, TakenKeepsInv
<1> QED
  BY <1>1, <1>2, <1>3

\* One of some words.
LEMMA ReadOneOfKeepsInv == ASSUME ParserInv, ReadOneOf PROVE ParserInv'
<1>1. /\ pc = "items" /\ todo # <<>> /\ current.item = "one_of"
      /\ \E t \in Ahead : \/ Throw \/ Refuse
                          \/ /\ t.text \in current.words
                             /\ GoOn(Passed(t), <<>>, With(current.local, t.text), FALSE)
  BY DEF ReadOneOf, Takes, Doing, Text, Never, Listed, IsKeyword
<1>2. CASE Throw \/ Refuse
  BY <1>2, StopKeepsInv DEF Throw, Refuse, Ended
<1>3. ASSUME NEW t \in Ahead, t.text \in current.words,
             GoOn(Passed(t), <<>>, With(current.local, t.text), FALSE)
      PROVE  ParserInv'
  <2>1. current \in LegalItem
    BY <1>1 DEF ParserInv, ItemsInv, current
  <2>2. \/ current.words = ShaderKind /\ current.local = "kind"
        \/ current.words = UniformTypes /\ current.local = "type"
        \/ current.local \in Dropped
    BY <1>1, <2>1, LegalItemsAre
  <2>3. /\ current.local \in Dropped \/ HasType(command, current.local, t.text)
        /\ current.local \notin ArgumentLocals
    BY <1>3, <2>2 DEF HasType, NameLocals, ArgumentLocals, NumberLocals, Dropped
  <2>4. /\ locals' = With(current.local, t.text) /\ pc' = pc /\ command' = command
        /\ errorReported => errorReported'
    BY <1>3, GoOnIs
  <2>5. DOMAIN locals' = DOMAIN locals \cup {current.local} /\ LocalsInv'
    BY <1>1, <2>3, <2>4, WithIsTyped
  <2>6. Sets(current) = {current.local}
    BY <1>1 DEF Sets
  <2> QED
    BY <1>1, <1>3, <2>4, <2>5, <2>6, TakenKeepsInv
<1> QED
  BY <1>1, <1>2, <1>3

\* An identifier, a string or a number with a fraction.
LEMMA ReadLiteralKeepsInv == ASSUME ParserInv, ReadLiteral PROVE ParserInv'
<1>1. /\ pc = "items" /\ todo # <<>> /\ current.item = "literal"
      /\ \E t \in Ahead : \/ Throw \/ Refuse
                          \/ /\ t.type = current.type
                             /\ GoOn(Passed(t), <<>>, With(current.local, t.text), FALSE)
  BY DEF ReadLiteral, Takes, Doing, Text, Never
<1>2. CASE Throw \/ Refuse
  BY <1>2, StopKeepsInv DEF Throw, Refuse, Ended
<1>3. ASSUME NEW t \in Ahead, t.type = current.type,
             GoOn(Passed(t), <<>>, With(current.local, t.text), FALSE)
      PROVE  ParserInv'
  <2>1. current \in LegalItem
    BY <1>1 DEF ParserInv, ItemsInv, current
  <2>2. \/ current.type = "identifier" /\ current.local \in NameLocals
        \/ current.local \in Dropped
    BY <1>1, <2>1, LegalItemsAre
  <2>3. t.type = "identifier" => t.text \in Identifier
    BY AheadIsToken DEF IsToken
  <2>4. /\ current.local \in Dropped \/ HasType(command, current.local, t.text)
        /\ current.local \notin ArgumentLocals
    BY <1>3, <2>2, <2>3 DEF HasType, NameLocals, ArgumentLocals, NumberLocals, Dropped
  <2>5. /\ locals' = With(current.local, t.text) /\ pc' = pc /\ command' = command
        /\ errorReported => errorReported'
    BY <1>3, GoOnIs
  <2>6. DOMAIN locals' = DOMAIN locals \cup {current.local} /\ LocalsInv'
    BY <1>1, <2>4, <2>5, WithIsTyped
  <2>7. Sets(current) = {current.local}
    BY <1>1 DEF Sets
  <2> QED
    BY <1>1, <1>3, <2>5, <2>6, <2>7, TakenKeepsInv
<1> QED
  BY <1>1, <1>2, <1>3

\* An argument, which is reported unless it is an identifier.
LEMMA ReadArgumentKeepsInv == ASSUME ParserInv, ReadArgument PROVE ParserInv'
<1>1. /\ pc = "items" /\ todo # <<>> /\ current.item = "argument"
      /\ \E t \in Ahead :
           \/ Throw \/ Refuse
           \/ GoOn(Passed(t), <<>>,
                   With(current.local,
                        IF t.type \in {"identifier", "string"} THEN t.text ELSE "other"),
                   t.type # "identifier")
  BY DEF ReadArgument, Takes, Doing, Never, Always
<1>2. CASE Throw \/ Refuse
  BY <1>2, StopKeepsInv DEF Throw, Refuse, Ended
<1>3. ASSUME NEW t \in Ahead, NEW value, NEW error \in BOOLEAN,
             value = IF t.type \in {"identifier", "string"} THEN t.text ELSE "other",
             error = (t.type # "identifier"),
             GoOn(Passed(t), <<>>, With(current.local, value), error)
      PROVE  ParserInv'
  <2>1. current \in LegalItem
    BY <1>1 DEF ParserInv, ItemsInv, current
  <2>2. current.local \in ArgumentLocals
    BY <1>1, <2>1, LegalItemsAre
  <2>3. /\ t.type = "identifier" => t.text \in Identifier
        /\ t.type = "string" => t.text \in STRING
    BY AheadIsToken DEF IsToken
  <2>4. value \in Named /\ (~error => value \in Identifier)
    BY <1>3, <2>3 DEF Named
  <2>5. HasType(command, current.local, value)
    BY <2>2, <2>4 DEF HasType, NameLocals, ArgumentLocals, NumberLocals
  <2>6. ~errorReported' => value \in Identifier
    BY <1>3, <2>4, GoOnIs
  <2>7. /\ locals' = With(current.local, value) /\ pc' = pc /\ command' = command
        /\ errorReported => errorReported'
    BY <1>3, GoOnIs
  <2>8. DOMAIN locals' = DOMAIN locals \cup {current.local} /\ LocalsInv'
    BY <1>1, <2>5, <2>6, <2>7, WithIsTyped
  <2>9. Sets(current) = {current.local}
    BY <1>1 DEF Sets
  <2> QED
    BY <1>1, <1>3, <2>7, <2>8, <2>9, TakenKeepsInv
<1> QED
  BY <1>1, <1>2, <1>3

\* A number of 8 or 32 bits.
LEMMA ReadNumberKeepsInv == ASSUME ParserInv, ReadNumber PROVE ParserInv'
<1>1. /\ pc = "items" /\ todo # <<>> /\ current.item = "number"
      /\ \E t \in Ahead : \/ Throw \/ Refuse
                          \/ /\ t.number \in 0 .. current.most
                             /\ GoOn(Passed(t), <<>>, With(current.local, t.number), FALSE)
  BY DEF ReadNumber, Takes, Doing, Never, IsNumber
<1>2. CASE Throw \/ Refuse
  BY <1>2, StopKeepsInv DEF Throw, Refuse, Ended
<1>3. ASSUME NEW t \in Ahead, t.number \in 0 .. current.most,
             GoOn(Passed(t), <<>>, With(current.local, t.number), FALSE)
      PROVE  ParserInv'
  <2>1. current \in LegalItem
    BY <1>1 DEF ParserInv, ItemsInv, current
  <2>2. /\ current.local \in NumberLocals \cup Dropped
        /\ current.most \in {UINT8_MAX, UINT32_MAX}
    BY <1>1, <2>1, LegalItemsAre
  <2>3. t.number \in 0 .. UINT32_MAX
    BY <1>3, <2>2, LimitsAssumption
  <2>4. /\ current.local \in Dropped \/ HasType(command, current.local, t.number)
        /\ current.local \notin ArgumentLocals
    BY <2>2, <2>3 DEF HasType, NameLocals, ArgumentLocals, NumberLocals, Dropped
  <2>5. /\ locals' = With(current.local, t.number) /\ pc' = pc /\ command' = command
        /\ errorReported => errorReported'
    BY <1>3, GoOnIs
  <2>6. DOMAIN locals' = DOMAIN locals \cup {current.local} /\ LocalsInv'
    BY <1>1, <2>4, <2>5, WithIsTyped
  <2>7. Sets(current) = {current.local}
    BY <1>1 DEF Sets
  <2> QED
    BY <1>1, <1>3, <2>5, <2>6, <2>7, TakenKeepsInv
<1> QED
  BY <1>1, <1>2, <1>3

\* A format with one more entry.
LEMMA EntryIsTyped ==
    ASSUME ParserInv, pc = "items", pc' = pc, command' = command,
           errorReported => errorReported',
           NEW kind \in FormatKind, NEW count \in Nat, locals' = WithEntry(kind, count),
           [kind |-> kind, count |-> count] \in FormatEntry,
           kind = "string" => command # "ASSERT_EQUAL"
    PROVE  DOMAIN locals' = DOMAIN locals /\ LocalsInv'
<1> DEFINE entry == [kind |-> kind, count |-> count]
           value == Append(locals.format, entry)
<1>1. "format" \in DOMAIN Declared /\ DOMAIN Declared \subseteq DOMAIN locals
  BY DEF ParserInv, LocalsInv, Declared
<1>2. HasType(command, "format", locals.format)
  BY <1>1 DEF ParserInv, LocalsInv
<1>3. /\ locals.format \in Seq(FormatEntry)
      /\ command = "ASSERT_EQUAL" =>
           locals.format \in Seq([kind : FormatKind \ {"string"}, count : Nat])
  BY <1>2 DEF HasType
<1>4. /\ entry \in FormatEntry
      /\ command = "ASSERT_EQUAL" => entry \in [kind : FormatKind \ {"string"}, count : Nat]
  OBVIOUS
<1>5. locals' = [locals EXCEPT !.format = value]
  BY DEF WithEntry
<1> HIDE DEF entry
<1>6. /\ value \in Seq(FormatEntry)
      /\ command = "ASSERT_EQUAL" =>
           value \in Seq([kind : FormatKind \ {"string"}, count : Nat])
  BY <1>3, <1>4
<1> HIDE DEF value
<1>7. HasType(command, "format", value)
  BY <1>6 DEF HasType, NameLocals, ArgumentLocals, NumberLocals
<1> QED
  BY <1>1, <1>5, <1>7, ChangedIsTyped

\* The number of elements of an entry.
LEMMA ReadCountKeepsInv == ASSUME ParserInv, ReadCount PROVE ParserInv'
<1>1. /\ pc = "items" /\ todo # <<>> /\ current.item = "count"
      /\ \E t \in Ahead : \/ Throw \/ Refuse
                          \/ /\ t.number \in 0 .. current.most
                             /\ GoOn(Passed(t), <<>>, WithEntry(current.kind, t.number), FALSE)
  BY DEF ReadCount, Takes, Doing, Never, IsNumber
<1>2. CASE Throw \/ Refuse
  BY <1>2, StopKeepsInv DEF Throw, Refuse, Ended
<1>3. ASSUME NEW t \in Ahead, t.number \in 0 .. current.most,
             GoOn(Passed(t), <<>>, WithEntry(current.kind, t.number), FALSE)
      PROVE  ParserInv'
  <2>1. current \in LegalItem
    BY <1>1 DEF ParserInv, ItemsInv, current
  <2>2. current.kind \in FormatKind \ {"string"} /\ t.number \in Nat
    BY <1>1, <1>3, <2>1, LegalItemsAre, LimitsAssumption
  <2>3. [kind |-> current.kind, count |-> t.number] \in FormatEntry
    BY <2>2 DEF FormatEntry
  <2>4. /\ locals' = WithEntry(current.kind, t.number) /\ pc' = pc /\ command' = command
        /\ errorReported => errorReported'
    BY <1>3, GoOnIs
  <2>5. DOMAIN locals' = DOMAIN locals /\ LocalsInv'
    BY <1>1, <2>2, <2>3, <2>4, EntryIsTyped
  <2>6. Sets(current) = {}
    BY <1>1 DEF Sets
  <2> QED
    BY <1>1, <1>3, <2>4, <2>5, <2>6, TakenKeepsInv
<1> QED
  BY <1>1, <1>2, <1>3

\* A symbol; the next item may be what is to be attached.
LEMMA ReadSymbolKeepsInv == ASSUME ParserInv, ReadSymbol PROVE ParserInv'
<1>1. /\ pc = "items" /\ todo # <<>> /\ current.item = "symbol"
      /\ \E t \in Ahead : Throw \/ Refuse \/ GoOn(Passed(t), <<>>, locals, FALSE)
  BY DEF ReadSymbol, Takes, Doing, Unchanged, Never
<1>2. CASE Throw \/ Refuse
  BY <1>2, StopKeepsInv DEF Throw, Refuse, Ended
<1>3. ASSUME NEW t \in Ahead, GoOn(Passed(t), <<>>, locals, FALSE) PROVE ParserInv'
  <2>1. LocalsInv'
    BY <1>3, GoOnIs, SameIsTyped
  <2>2. Sets(current) = {}
    BY <1>1 DEF Sets
  <2>3. todo \in Seq(LegalItem) /\ current = todo[1] /\ AttachmentInv
    BY <1>1 DEF ParserInv, ItemsInv, current
  <2>4. todo' = <<>> \o Tail(todo) /\ locals' = locals
    BY <1>3, GoOnIs
  <2>5. /\ Len(todo) \in Nat /\ Len(todo') = Len(todo) - 1
        /\ \A k \in 1 .. Len(todo') : todo'[k] = todo[k + 1]
    BY <1>1, <2>3, <2>4
  <2>6. ASSUME NEW k \in 1 .. Len(todo'), todo'[k].item = "attachment"
        PROVE  k = 1 /\ LocationIsNew'
    <3>1. /\ k + 1 \in 1 .. Len(todo) /\ k + 1 # 1 /\ todo[k + 1].item = "attachment"
      BY <2>5, <2>6
    <3>2. k + 1 = 2 /\ LocationIsNew
      BY <1>1, <2>3, <3>1 DEF AttachmentInv
    <3> QED
      BY <2>4, <3>2 DEF LocationIsNew
  <2>7. AttachmentInv'
    BY <2>6 DEF AttachmentInv
  <2> QED
    BY <1>1, <1>3, <2>1, <2>2, <2>7, TakenKeepsInv
<1> QED
  BY <1>1, <1>2, <1>3

\* A location that has nothing attached yet.
LEMMA ReadLocationKeepsInv == ASSUME ParserInv, ReadLocation PROVE ParserInv'
<1>1. /\ pc = "items" /\ todo # <<>> /\ current.item = "location"
      /\ \E t \in Ahead : \/ Throw \/ Refuse
                          \/ /\ t.number \in 0 .. current.most
                             /\ \A a \in locals.attachments : a[1] # t.number
                             /\ GoOn(Passed(t), <<>>, With("location", t.number), FALSE)
  BY DEF ReadLocation, Takes, Doing, Never, IsNumber
<1>2. CASE Throw \/ Refuse
  BY <1>2, StopKeepsInv DEF Throw, Refuse, Ended
<1>3. ASSUME NEW t \in Ahead, t.number \in 0 .. current.most,
             \A a \in locals.attachments : a[1] # t.number,
             GoOn(Passed(t), <<>>, With("location", t.number), FALSE)
      PROVE  ParserInv'
  <2>1. current \in LegalItem
    BY <1>1 DEF ParserInv, ItemsInv, current
  <2>2. t.number \in 0 .. UINT32_MAX
    BY <1>1, <1>3, <2>1, LegalItemsAre
  <2>3. HasType(command, "location", t.number) /\ "location" \notin ArgumentLocals
    BY <2>2 DEF HasType, NameLocals, ArgumentLocals, NumberLocals
  <2>4. /\ locals' = With("location", t.number) /\ pc' = pc /\ command' = command
        /\ todo' = <<>> \o Tail(todo) /\ (errorReported => errorReported')
    BY <1>3, GoOnIs
  <2>5. DOMAIN locals' = DOMAIN locals \cup {"location"} /\ LocalsInv'
    BY <1>1, <2>3, <2>4, WithIsTyped
  <2>6. Sets(current) = {}
    BY <1>1 DEF Sets
  <2>7. LocationIsNew'
    <3>1. "attachments" \in DOMAIN locals
      BY <1>1 DEF ParserInv, LocalsInv, Declared
    <3>2. locals'.attachments = locals.attachments /\ locals'.location = t.number
      BY <2>4, <3>1 DEF With, Dropped
    <3> QED
      BY <1>3, <2>5, <3>2 DEF LocationIsNew
  <2>8. /\ todo \in Seq(LegalItem) /\ current = todo[1] /\ AttachmentInv
    BY <1>1, <1>3 DEF ParserInv, ItemsInv, current
  <2>9. /\ Len(todo) \in Nat /\ Len(todo') = Len(todo) - 1
        /\ \A k \in 1 .. Len(todo') : todo'[k] = todo[k + 1]
    BY <1>1, <2>4, <2>8
  <2>10. ASSUME NEW k \in 1 .. Len(todo'), todo'[k].item = "attachment"
         PROVE  k = 2 /\ todo'[1].item = "symbol"
    <3>1. /\ k + 1 \in 1 .. Len(todo) /\ k + 1 # 1 /\ todo[k + 1].item = "attachment"
      BY <2>9, <2>10
    <3>2. k + 1 = 3 /\ todo[2].item = "symbol"
      BY <1>1, <2>8, <3>1 DEF AttachmentInv
    <3> QED
      BY <2>9, <3>2
  <2>11. AttachmentInv'
    BY <2>7, <2>10 DEF AttachmentInv
  <2> QED
    BY <1>1, <1>3, <2>4, <2>5, <2>6, <2>11, TakenKeepsInv
<1> QED
  BY <1>1, <1>2, <1>3

\* What is attached there, if it is attached nowhere yet.
LEMMA ReadAttachmentKeepsInv == ASSUME ParserInv, ReadAttachment PROVE ParserInv'
<1> DEFINE With1(t) == [locals EXCEPT !.attachments = @ \cup {<<locals.location, t.text>>}]
<1>1. /\ pc = "items" /\ todo # <<>> /\ current.item = "attachment"
      /\ \E t \in Ahead : \/ Throw \/ Refuse
                          \/ /\ t.type = "identifier"
                             /\ \A a \in locals.attachments : a[2] # t.text
                             /\ GoOn(Passed(t), <<>>, With1(t), FALSE)
  BY DEF ReadAttachment, Takes, Doing, Never
<1>2. CASE Throw \/ Refuse
  BY <1>2, StopKeepsInv DEF Throw, Refuse, Ended
<1>3. ASSUME NEW t \in Ahead, t.type = "identifier",
             \A a \in locals.attachments : a[2] # t.text,
             GoOn(Passed(t), <<>>, With1(t), FALSE)
      PROVE  ParserInv'
  <2> DEFINE value == locals.attachments \cup {<<locals.location, t.text>>}
  <2>1. todo \in Seq(LegalItem) /\ current = todo[1] /\ 1 \in 1 .. Len(todo)
    BY <1>1 DEF ParserInv, ItemsInv, current
  <2>2. LocationIsNew
    BY <1>1, <2>1 DEF ParserInv, AttachmentInv
  <2>3. "attachments" \in DOMAIN Declared /\ DOMAIN Declared \subseteq DOMAIN locals
    BY <1>1 DEF ParserInv, LocalsInv, Declared
  <2>4. /\ HasType(command, "attachments", locals.attachments)
        /\ HasType(command, "location", locals.location)
    BY <1>1, <2>2, <2>3 DEF ParserInv, LocalsInv, LocationIsNew
  <2>5. /\ locals.attachments \subseteq (0 .. UINT32_MAX) \X Identifier
        /\ OneToOne(locals.attachments) /\ locals.location \in 0 .. UINT32_MAX
    BY <2>4 DEF HasType, NumberLocals
  <2>6. t.text \in Identifier
    BY <1>3, AheadIsToken DEF IsToken
  <2>7. value \subseteq (0 .. UINT32_MAX) \X Identifier /\ OneToOne(value)
    BY <1>3, <2>2, <2>5, <2>6 DEF OneToOne, LocationIsNew
  <2>8. /\ locals' = [locals EXCEPT !.attachments = value] /\ pc' = pc /\ command' = command
        /\ errorReported => errorReported'
    BY <1>3, GoOnIs
  <2>9. locals' = With1(t)
    BY <1>3, GoOnIs
  <2> HIDE DEF value, With1
  <2>10. HasType(command, "attachments", value)
    BY <2>7 DEF HasType, NameLocals, ArgumentLocals, NumberLocals
  <2>11. DOMAIN locals' = DOMAIN locals /\ LocalsInv'
    BY <1>1, <2>3, <2>8, <2>10, ChangedIsTyped
  <2>12. Sets(current) = {}
    BY <1>1 DEF Sets
  <2> QED
    BY <1>1, <1>3, <2>9, <2>11, <2>12, TakenKeepsInv
<1> QED
  BY <1>1, <1>2, <1>3

\* What may come on todo within a list.
Plain(x, of) ==
    /\ x \in LegalItem /\ BelongsTo(x, of) /\ Stage(x) = 0
    /\ x.item # "attachment" /\ Sets(x) \subseteq {"array_size"}

\* A step of a loop over a list.
LEMMA ListKeepsInv ==
    ASSUME ParserInv, pc = "items", todo # <<>>,
           current.item \in {"format", "segments", "shaders", "values", "array_size", "text"},
           NEW ahead, IsToken(ahead), NEW items \in Seq(LegalItem),
           \A i \in 1 .. Len(items) : Plain(items[i], command),
           NEW assigned, GoOn(ahead, items, assigned, FALSE),
           DOMAIN assigned = DOMAIN locals, LocalsInv'
    PROVE  ParserInv'
<1>1. Sets(current) = {}
  BY DEF Sets
<1>2. \A i \in 1 .. Len(items) : /\ Stage(items[i]) = 0 /\ BelongsTo(items[i], command)
                                /\ Sets(items[i]) \subseteq {"array_size"}
                                /\ items[i].item # "attachment"
  BY DEF Plain
<1>3. todo' = items \o Tail(todo)
  BY GoOnIs
<1>4. AttachmentInv'
  BY <1>2, <1>3, AttachmentStays
<1> QED
  BY <1>1, <1>2, <1>4, PlainKeepsInv

\* Loops put nothing, the item itself or one item and itself on todo.
LEMMA PlainSequences ==
    ASSUME NEW of
    PROVE  /\ <<>> \in Seq(LegalItem) /\ \A i \in 1 .. Len(<<>>) : Plain(<<>>[i], of)
           /\ \A x : Plain(x, of) =>
                <<x>> \in Seq(LegalItem) /\ \A i \in 1 .. Len(<<x>>) : Plain(<<x>>[i], of)
           /\ \A x, y : Plain(x, of) /\ Plain(y, of) =>
                /\ <<x, y>> \in Seq(LegalItem)
                /\ \A i \in 1 .. Len(<<x, y>>) : Plain(<<x, y>>[i], of)
<1>1. <<>> \in Seq(LegalItem) /\ \A i \in 1 .. Len(<<>>) : Plain(<<>>[i], of)
  OBVIOUS
<1>2. ASSUME NEW x, Plain(x, of)
      PROVE  <<x>> \in Seq(LegalItem) /\ \A i \in 1 .. Len(<<x>>) : Plain(<<x>>[i], of)
  <2>1. x \in LegalItem
    BY <1>2 DEF Plain
  <2> QED
    BY <1>2, <2>1
<1>3. ASSUME NEW x, NEW y, Plain(x, of), Plain(y, of)
      PROVE  /\ <<x, y>> \in Seq(LegalItem)
             /\ \A i \in 1 .. Len(<<x, y>>) : Plain(<<x, y>>[i], of)
  <2>1. x \in LegalItem /\ y \in LegalItem
    BY <1>3 DEF Plain
  <2> QED
    BY <1>3, <2>1
<1> QED
  BY <1>1, <1>2, <1>3

\* The loops' own items.
LEMMA LoopsArePlain ==
    ASSUME ParserInv, pc = "items", todo # <<>>,
           current.item \in {"format", "segments", "shaders", "values", "array_size", "text"}
    PROVE  Plain(current, command)
<1>1. current \in LegalItem /\ BelongsTo(current, command)
  BY DEF ParserInv, ItemsInv, current
<1> QED
  BY <1>1 DEF Plain, Stage, Sets

\* The entries of a format.
LEMMA ReadFormatKeepsInv == ASSUME ParserInv, ReadFormat PROVE ParserInv'
<1>1. /\ pc = "items" /\ todo # <<>> /\ current.item = "format"
      /\ \E t \in Ahead :
           \/ Refuse
           \/ current.strings /\ GoOn(Unread, Again, WithEntry("string", 0), FALSE)
           \/ /\ t.text \in FormatKind \ {"string"}
              /\ GoOn(Unread, <<Count(t.text)>> \o Again, locals, FALSE)
           \/ GoOn(t, <<>>, locals, FALSE)
  BY DEF ReadFormat, Doing, StartsEntry, IsKeyword
<1>2. CASE Refuse
  BY <1>2, StopKeepsInv DEF Refuse, Ended
<1>3. Plain(current, command) /\ current \in LegalItem
  BY <1>1, LoopsArePlain DEF Plain
<1>4. IsToken(Unread) /\ \A t \in Ahead : IsToken(t)
  BY <1>1, AheadIsToken
<1>5. ASSUME current.strings, GoOn(Unread, Again, WithEntry("string", 0), FALSE)
      PROVE  ParserInv'
  <2>1. /\ locals' = WithEntry("string", 0) /\ pc' = pc /\ command' = command
        /\ errorReported => errorReported'
    BY <1>5, GoOnIs
  <2>2. command # "ASSERT_EQUAL"
    BY <1>1, <1>3, <1>5 DEF Plain, BelongsTo
  <2>3. "string" \in FormatKind /\ [kind |-> "string", count |-> 0] \in FormatEntry
    BY DEF FormatKind, FormatEntry
  <2>4. DOMAIN locals' = DOMAIN locals /\ LocalsInv'
    BY <1>1, <2>1, <2>2, <2>3, EntryIsTyped
  <2>5. Again \in Seq(LegalItem) /\ \A i \in 1 .. Len(Again) : Plain(Again[i], command)
    BY <1>3, PlainSequences DEF Again
  <2> QED
    BY <1>1, <1>4, <1>5, <2>1, <2>4, <2>5, ListKeepsInv
<1>6. ASSUME NEW t \in Ahead, t.text \in FormatKind \ {"string"},
             GoOn(Unread, <<Count(t.text)>> \o Again, locals, FALSE)
      PROVE  ParserInv'
  <2> DEFINE items == <<Count(t.text), current>>
  <2>1. items = <<Count(t.text)>> \o Again
    BY DEF Again
  <2>2. Plain(Count(t.text), command)
    <3>1. Count(t.text) \in LegalItem
      BY <1>6, OthersAreLegal
    <3> QED
      BY <3>1 DEF Plain, Count, BelongsTo, Stage, Sets
  <2>3. items \in Seq(LegalItem) /\ \A i \in 1 .. Len(items) : Plain(items[i], command)
    BY <1>3, <2>2, PlainSequences
  <2> HIDE DEF items
  <2>4. LocalsInv'
    BY <1>6, GoOnIs, SameIsTyped
  <2> QED
    BY <1>1, <1>4, <1>6, <2>1, <2>3, <2>4, ListKeepsInv
<1>7. ASSUME NEW t \in Ahead, GoOn(t, <<>>, locals, FALSE) PROVE ParserInv'
  <2>1. LocalsInv'
    BY <1>7, GoOnIs, SameIsTyped
  <2> QED
    BY <1>1, <1>4, <1>7, <2>1, PlainSequences, ListKeepsInv
<1> QED
  BY <1>1, <1>2, <1>5, <1>6, <1>7

\* A literal of a segment of INIT_VALUES.
LEMMA ReadSegmentLiteralKeepsInv == ASSUME ParserInv, ReadSegmentLiteral PROVE ParserInv'
<1> DEFINE counted == [current EXCEPT !.literals = @ + 1]
<1>1. /\ pc = "items" /\ todo # <<>> /\ current.item = "segments" /\ current.type # "none"
      /\ Throw \/ Refuse \/ GoOn(Unread, <<counted>>, locals, FALSE)
  BY DEF ReadSegmentLiteral, Doing
<1>2. CASE Throw \/ Refuse
  BY <1>2, StopKeepsInv DEF Throw, Refuse, Ended
<1>3. CASE GoOn(Unread, <<counted>>, locals, FALSE)
  <2>1. Plain(current, command) /\ current \in LegalItem
    BY <1>1, LoopsArePlain DEF Plain
  <2>2. /\ current.type \in SegmentTypes /\ current.literals \in Nat /\ current.before \in Nat
        /\ current = [item |-> "segments", type |-> current.type,
                      literals |-> current.literals, before |-> current.before]
    BY <1>1, <2>1, LegalItemsAre
  <2>3. counted = [item |-> "segments", type |-> current.type,
                   literals |-> current.literals + 1, before |-> current.before]
    BY <2>2
  <2>4. counted \in LegalItem
    BY <2>2, <2>3 DEF LegalItem
  <2>5. Plain(counted, command)
    BY <2>3, <2>4 DEF Plain, BelongsTo, Stage, Sets
  <2>6. LocalsInv'
    BY <1>3, GoOnIs, SameIsTyped
  <2>7. IsToken(Unread)
    BY DEF IsToken, Unread
  <2> HIDE DEF counted
  <2>8. <<counted>> \in Seq(LegalItem) /\ \A i \in 1 .. Len(<<counted>>) : Plain(<<counted>>[i], command)
    BY <2>5, PlainSequences
  <2> QED
    BY <1>1, <1>3, <2>6, <2>7, <2>8, ListKeepsInv
<1> QED
  BY <1>1, <1>2, <1>3

\* The end of a segment, which is as many words as it should be.
LEMMA EndSegmentKeepsInv == ASSUME ParserInv, EndSegment PROVE ParserInv'
<1> DEFINE ended == [locals EXCEPT !.size = @ + SegmentBytes]
<1>1. /\ pc = "items" /\ todo # <<>> /\ current.item = "segments"
      /\ \E t \in Ahead :
           \/ Refuse
           \/ /\ WholeWords
              /\ t.text \in SegmentTypes
              /\ GoOn(Unread, <<Segment(t.text, current.before + 1)>>, ended, FALSE)
           \/ WholeWords /\ GoOn(t, <<>>, ended, FALSE)
  BY DEF EndSegment, Doing, IsKeyword, SegmentTypes
<1>2. CASE Refuse
  BY <1>2, StopKeepsInv DEF Refuse, Ended
<1>3. IsToken(Unread) /\ \A t \in Ahead : IsToken(t)
  BY <1>1, AheadIsToken
<1>4. Plain(current, command) /\ current \in LegalItem
  BY <1>1, LoopsArePlain DEF Plain
<1>5. /\ current.literals \in Nat /\ current.before \in Nat
      /\ current.type \in SegmentTypes \cup {"none"} /\ (current.type = "none" => current.literals = 0)
  BY <1>1, <1>4, LegalItemsAre
<1>6. ASSUME WholeWords, locals' = ended, pc' = pc, command' = command,
             errorReported => errorReported'
      PROVE  DOMAIN ended = DOMAIN locals /\ LocalsInv'
  <2> DEFINE value == locals.size + SegmentBytes
  <2>1. "size" \in DOMAIN Declared /\ DOMAIN Declared \subseteq DOMAIN locals
    BY <1>1 DEF ParserInv, LocalsInv, Declared
  <2>2. HasType(command, "size", locals.size)
    BY <1>1, <2>1 DEF ParserInv, LocalsInv
  <2>3. locals.size \in Nat /\ locals.size % 4 = 0
    BY <2>2 DEF HasType
  <2>4. SegmentBytes \in Nat /\ SegmentBytes % 4 = 0
    BY <1>5, <1>6 DEF SegmentBytes, WholeWords
  <2>5. value \in Nat /\ value % 4 = 0
    <3> DEFINE m == locals.size
               n == SegmentBytes
    <3>1. m \in Nat /\ m % 4 = 0 /\ n \in Nat /\ n % 4 = 0
      BY <2>3, <2>4
    <3> HIDE DEF m, n
    <3>2. m + n \in Nat /\ (m + n) % 4 = 0
      BY <3>1
    <3> QED
      BY <3>2 DEF m, n
  <2>6. locals' = [locals EXCEPT !.size = value]
    BY <1>6
  <2> HIDE DEF value
  <2>7. HasType(command, "size", value)
    BY <2>5 DEF HasType, NameLocals, ArgumentLocals, NumberLocals
  <2> QED
    BY <1>1, <1>6, <2>1, <2>6, <2>7, ChangedIsTyped
<1>7. ASSUME NEW t \in Ahead, WholeWords, t.text \in SegmentTypes,
             GoOn(Unread, <<Segment(t.text, current.before + 1)>>, ended, FALSE)
      PROVE  ParserInv'
  <2> DEFINE x == Segment(t.text, current.before + 1)
  <2>1. x \in LegalItem
    BY <1>5, <1>7, OthersAreLegal
  <2>2. Plain(x, command)
    BY <2>1 DEF Plain, Segment, BelongsTo, Stage, Sets
  <2>3. /\ locals' = ended /\ pc' = pc /\ command' = command
        /\ errorReported => errorReported'
    BY <1>7, GoOnIs
  <2>4. DOMAIN ended = DOMAIN locals /\ LocalsInv'
    BY <1>6, <1>7, <2>3
  <2>5. GoOn(Unread, <<x>>, ended, FALSE)
    BY <1>7
  <2> HIDE DEF x, ended
  <2>6. <<x>> \in Seq(LegalItem) /\ \A i \in 1 .. Len(<<x>>) : Plain(<<x>>[i], command)
    BY <2>2, PlainSequences
  <2> QED
    BY <1>1, <1>3, <2>4, <2>5, <2>6, ListKeepsInv
<1>8. ASSUME NEW t \in Ahead, WholeWords, GoOn(t, <<>>, ended, FALSE) PROVE ParserInv'
  <2>1. /\ locals' = ended /\ pc' = pc /\ command' = command
        /\ errorReported => errorReported'
    BY <1>8, GoOnIs
  <2>2. DOMAIN ended = DOMAIN locals /\ LocalsInv'
    BY <1>6, <1>8, <2>1
  <2> HIDE DEF ended
  <2> QED
    BY <1>1, <1>3, <1>8, <2>2, PlainSequences, ListKeepsInv
<1> QED
  BY <1>1, <1>2, <1>7, <1>8

\* The shaders of a program.
LEMMA ReadShadersKeepsInv == ASSUME ParserInv, ReadShaders PROVE ParserInv'
<1> DEFINE WithShader(t) == [locals EXCEPT !.shaders = Append(@, t.text)]
<1>1. /\ pc = "items" /\ todo # <<>> /\ current.item = "shaders"
      /\ \E t \in Ahead :
           \/ Refuse
           \/ t.type = "identifier" /\ GoOn(Unread, Again, WithShader(t), FALSE)
           \/ GoOn(t, <<>>, locals, FALSE)
  BY DEF ReadShaders, Doing
<1>2. CASE Refuse
  BY <1>2, StopKeepsInv DEF Refuse, Ended
<1>3. IsToken(Unread) /\ \A t \in Ahead : IsToken(t)
  BY <1>1, AheadIsToken
<1>4. ASSUME NEW t \in Ahead, t.type = "identifier",
             GoOn(Unread, Again, WithShader(t), FALSE)
      PROVE  ParserInv'
  <2> DEFINE value == Append(locals.shaders, t.text)
  <2>1. "shaders" \in DOMAIN Declared /\ DOMAIN Declared \subseteq DOMAIN locals
    BY <1>1 DEF ParserInv, LocalsInv, Declared
  <2>2. HasType(command, "shaders", locals.shaders)
    BY <1>1, <2>1 DEF ParserInv, LocalsInv
  <2>3. locals.shaders \in Seq(Identifier) /\ t.text \in Identifier
    BY <1>3, <1>4, <2>2 DEF HasType, IsToken
  <2>4. value \in Seq(Identifier)
    BY <2>3
  <2>5. /\ locals' = [locals EXCEPT !.shaders = value] /\ pc' = pc /\ command' = command
        /\ errorReported => errorReported'
    BY <1>4, GoOnIs
  <2>6. locals' = WithShader(t)
    BY <1>4, GoOnIs
  <2> HIDE DEF value, WithShader
  <2>7. HasType(command, "shaders", value)
    BY <2>4 DEF HasType, NameLocals, ArgumentLocals, NumberLocals
  <2>8. DOMAIN locals' = DOMAIN locals /\ LocalsInv'
    BY <1>1, <2>1, <2>5, <2>7, ChangedIsTyped
  <2>9. Again \in Seq(LegalItem) /\ \A i \in 1 .. Len(Again) : Plain(Again[i], command)
    BY <1>1, LoopsArePlain, PlainSequences DEF Again
  <2> QED
    BY <1>1, <1>3, <1>4, <2>6, <2>8, <2>9, ListKeepsInv
<1>5. ASSUME NEW t \in Ahead, GoOn(t, <<>>, locals, FALSE) PROVE ParserInv'
  <2>1. LocalsInv'
    BY <1>5, GoOnIs, SameIsTyped
  <2> QED
    BY <1>1, <1>3, <1>5, <2>1, PlainSequences, ListKeepsInv
<1> QED
  BY <1>1, <1>2, <1>4, <1>5

\* The literals of VALUES.
LEMMA ReadValuesKeepsInv == ASSUME ParserInv, ReadValues PROVE ParserInv'
<1> DEFINE WithValue(t) == [locals EXCEPT !.values = Append(@, t)]
<1>1. /\ pc = "items" /\ todo # <<>> /\ current.item = "values"
      /\ \E t \in Ahead : \/ GoOn(Unread, Again, WithValue(t), FALSE)
                          \/ GoOn(t, <<>>, locals, FALSE)
  BY DEF ReadValues, Doing
<1>2. IsToken(Unread) /\ \A t \in Ahead : IsToken(t)
  BY <1>1, AheadIsToken
<1>3. ASSUME NEW t \in Ahead, GoOn(Unread, Again, WithValue(t), FALSE) PROVE ParserInv'
  <2> DEFINE value == Append(locals.values, t)
  <2>1. "values" \in DOMAIN Declared /\ DOMAIN Declared \subseteq DOMAIN locals
    BY <1>1 DEF ParserInv, LocalsInv, Declared
  <2>2. /\ locals' = [locals EXCEPT !.values = value] /\ pc' = pc /\ command' = command
        /\ errorReported => errorReported'
    BY <1>3, GoOnIs
  <2>3. locals' = WithValue(t)
    BY <1>3, GoOnIs
  <2> HIDE DEF value, WithValue
  <2>4. HasType(command, "values", value)
    BY DEF HasType, NameLocals, ArgumentLocals, NumberLocals
  <2>5. DOMAIN locals' = DOMAIN locals /\ LocalsInv'
    BY <1>1, <2>1, <2>2, <2>4, ChangedIsTyped
  <2>6. Again \in Seq(LegalItem) /\ \A i \in 1 .. Len(Again) : Plain(Again[i], command)
    BY <1>1, LoopsArePlain, PlainSequences DEF Again
  <2> QED
    BY <1>1, <1>2, <1>3, <2>3, <2>5, <2>6, ListKeepsInv
<1>4. ASSUME NEW t \in Ahead, GoOn(t, <<>>, locals, FALSE) PROVE ParserInv'
  <2>1. LocalsInv'
    BY <1>4, GoOnIs, SameIsTyped
  <2> QED
    BY <1>1, <1>2, <1>4, <2>1, PlainSequences, ListKeepsInv
<1> QED
  BY <1>1, <1>3, <1>4

\* The size of an array of uniforms, if it is one.
LEMMA ReadArraySizeKeepsInv == ASSUME ParserInv, ReadArraySize PROVE ParserInv'
<1> DEFINE size == Number("array_size", UINT32_MAX)
           items == <<size, Bracket>>
<1>1. items = Uint32("array_size") \o <<Bracket>>
  BY DEF Uint32
<1>2. /\ pc = "items" /\ todo # <<>> /\ current.item = "array_size"
      /\ \E t \in Ahead : GoOn(Unread, items, locals, FALSE) \/ GoOn(t, <<>>, locals, FALSE)
  BY <1>1 DEF ReadArraySize, Doing
<1>3. IsToken(Unread) /\ \A t \in Ahead : IsToken(t)
  BY <1>2, AheadIsToken
<1>4. Plain(size, command) /\ Plain(Bracket, command)
  <2>1. size \in LegalItem /\ Bracket \in LegalItem
    BY SettingsAreLegal, OthersAreLegal DEF Dropped
  <2> QED
    BY <2>1 DEF Plain, Number, Bracket, BelongsTo, Stage, Sets
<1> HIDE DEF size
<1>5. items \in Seq(LegalItem) /\ \A i \in 1 .. Len(items) : Plain(items[i], command)
  BY <1>4, PlainSequences
<1> HIDE DEF items
<1>6. ASSUME GoOn(Unread, items, locals, FALSE) PROVE ParserInv'
  <2>1. LocalsInv'
    BY <1>6, GoOnIs, SameIsTyped
  <2> QED
    BY <1>2, <1>3, <1>5, <1>6, <2>1, ListKeepsInv
<1>7. ASSUME NEW t \in Ahead, GoOn(t, <<>>, locals, FALSE) PROVE ParserInv'
  <2>1. LocalsInv'
    BY <1>7, GoOnIs, SameIsTyped
  <2> QED
    BY <1>2, <1>3, <1>7, <2>1, PlainSequences, ListKeepsInv
<1> QED
  BY <1>2, <1>6, <1>7

\* The text of a shader.
LEMMA ReadTextKeepsInv == ASSUME ParserInv, ReadText PROVE ParserInv'
<1>1. /\ pc = "items" /\ todo # <<>> /\ current.item = "text"
      /\ Refuse \/ GoOn(Unread, <<>>, locals, FALSE)
  BY DEF ReadText, Doing
<1>2. CASE Refuse
  BY <1>2, StopKeepsInv DEF Refuse, Ended
<1>3. CASE GoOn(Unread, <<>>, locals, FALSE)
  <2>1. LocalsInv'
    BY <1>3, GoOnIs, SameIsTyped
  <2>2. IsToken(Unread)
    BY DEF IsToken, Unread
  <2> QED
    BY <1>1, <1>3, <2>1, <2>2, PlainSequences, ListKeepsInv
<1> QED
  BY <1>1, <1>2, <1>3
-----------------------------------------------------------------------------
(***************************************************************************)
(* ParseParameters.                                                        *)
(***************************************************************************)
\* The next item is one of the command's, and what it wants has a value.
LEMMA CurrentIs ==
    ASSUME ParserInv, pc = "items", todo # <<>>
    PROVE  /\ todo \in Seq(LegalItem) /\ current = todo[1] /\ current = Head(todo)
           /\ Len(todo) \in Nat /\ 1 \in 1 .. Len(todo)
           /\ current \in LegalItem /\ BelongsTo(current, command)
           /\ Demands(current) \subseteq DOMAIN locals
<1>1. /\ todo \in Seq(LegalItem) /\ current = todo[1] /\ current = Head(todo)
      /\ Len(todo) \in Nat /\ 1 \in 1 .. Len(todo)
  BY DEF ParserInv, ItemsInv, current
<1>2. current \in LegalItem /\ BelongsTo(current, command)
  BY <1>1 DEF ParserInv, ItemsInv
<1>3. Supplied(todo, DOMAIN locals, Given)
  BY DEF ParserInv, SuppliedInv
<1>4. Demands(current) \subseteq DOMAIN locals
  BY <1>1, <1>3 DEF Supplied
<1> QED
  BY <1>1, <1>2, <1>4

\* The last item, replaced.
LEMMA NothingIsLeft ==
    ASSUME NEW old \in Seq(LegalItem), old # <<>>, Len(old) = 1, NEW items \in Seq(LegalItem),
           NEW new, new = items \o Tail(old)
    PROVE  new = items
<1>1. Replaces(new, items, old)
  BY ReplacedIs
<1>2. new \in Seq(LegalItem) /\ Len(new) = Len(items) /\ \A i \in 1 .. Len(items) : new[i] = items[i]
  BY <1>1 DEF Replaces
<1> QED
  BY <1>2

\* The parameters of SET_UNIFORM are the last thing to do for it.
LEMMA UniformParametersAreLast ==
    ASSUME ParserInv, pc = "items", todo # <<>>, current.item = "parameters",
           command = "SET_UNIFORM"
    PROVE  Len(todo) = 1 /\ current.of = "SET_UNIFORM"
<1>1. current.of = "SET_UNIFORM"
  BY CurrentIs DEF BelongsTo
<1>2. Stage(current) = 4 /\ \A x : Stage(x) <= 4
  BY <1>1 DEF Stage
<1>3. \A j \in 1 .. Len(todo) : 1 < j => Stage(current) < Stage(todo[j])
  BY <1>2, CurrentIs DEF ParserInv, ItemsInv, Nested
<1>4. Len(todo) \in Nat /\ Len(todo) >= 1 /\ Len(todo) \in 1 .. Len(todo)
  BY CurrentIs
<1>5. \A x : Stage(x) \in Nat
  BY DEF Stage
<1>6. ~ 1 < Len(todo)
  <2>1. SUFFICES ASSUME 1 < Len(todo) PROVE FALSE
    OBVIOUS
  <2>2. Stage(current) < Stage(todo[Len(todo)])
    BY <1>3, <1>4, <2>1
  <2> QED
    BY <1>2, <1>5, <2>2
<1>7. \A n \in Nat : n >= 1 /\ ~ 1 < n => n = 1
  OBVIOUS
<1>8. Len(todo) = 1
  BY <1>4, <1>6, <1>7, Zenon
<1> QED
  BY <1>1, <1>8

\* A parameter that has not been there before.
LEMMA ReadParameterKeepsInv == ASSUME ParserInv, ReadParameter PROVE ParserInv'
<1> DEFINE of == current.of
           told(p) == Tables[of][p]
           rest(p) == [current EXCEPT !.observed = @ \cup {p}]
<1>1. /\ pc = "items" /\ todo # <<>> /\ current.item = "parameters"
      /\ \E p \in DOMAIN Tables[of] :
           Refuse \/ GoOn(Unread, told(p) \o <<rest(p)>>, locals, FALSE)
  BY DEF ReadParameter, Doing, IsKeyword
<1>2. CASE Refuse
  BY <1>2, StopKeepsInv DEF Refuse, Ended
<1>3. ASSUME NEW p \in DOMAIN Tables[of],
             GoOn(Unread, told(p) \o <<rest(p)>>, locals, FALSE)
      PROVE  ParserInv'
  <2> DEFINE s == told(p)
             y == rest(p)
             items == s \o <<y>>
  <2>1. /\ of \in DOMAIN Tables /\ current.observed \subseteq AnyParameter
        /\ current = [item |-> "parameters", of |-> of, observed |-> current.observed]
    BY <1>1, CurrentIs, LegalItemsAre
  <2>2. /\ of = command \/ (of = "vertex_attribute" /\ command = "RUN_GRAPHICS")
        /\ current.observed \subseteq DOMAIN Tables[of]
    BY <1>1, CurrentIs DEF BelongsTo
  <2>3. GoodItems(of, s)
    BY <1>3, <2>1, TablesAreGood
  <2>4. y = [item |-> "parameters", of |-> of, observed |-> current.observed \cup {p}]
    BY <2>1
  <2>5. p \in AnyParameter
    BY <1>3, <2>1 DEF AnyParameter
  <2>6. y \in LegalItem
    BY <2>1, <2>4, <2>5 DEF LegalItem
  <2>7. BelongsTo(y, command) /\ Stage(y) = Stage(current) /\ Sets(y) = {}
    BY <1>1, <2>2, <2>4 DEF BelongsTo, Stage, Sets
  <2>8. Demands(y) = Demands(current) \cup GivenBy(of, p)
    BY <1>1, <2>4 DEF Demands
  <2>9. \A name : Assigns(current, name) => Assigns(y, name)
    BY <1>1, <2>4 DEF Assigns, Sets
  <2>10. s \in Seq(LegalItem) /\ Len(s) \in Nat
    BY <2>3 DEF GoodItems
  <2>11. GivenBy(of, p) = UNION {Sets(s[i]) : i \in 1 .. Len(s)}
    <3>1. DOMAIN s = 1 .. Len(s)
      BY <2>10
    <3> QED
      BY <3>1 DEF GivenBy
  <2>12. GoOn(Unread, items, locals, FALSE)
    BY <1>3
  <2>13. y.item = "parameters" /\ y.of = of /\ y.observed = current.observed \cup {p}
    BY <2>4
  <2> HIDE DEF y, s
  <2>14. /\ items \in Seq(LegalItem) /\ Len(items) = Len(s) + 1 /\ items[Len(items)] = y
         /\ \A i \in 1 .. Len(s) : items[i] = s[i]
         /\ \A i \in 1 .. Len(items) : i \in 1 .. Len(s) \/ i = Len(items)
    BY <2>6, <2>10
  <2> HIDE DEF items
  <2>15. \A i \in 1 .. Len(s) :
           /\ s[i].item \notin {"attachment", "parameters", "end_of_entry"}
           /\ s[i].item = "entries" =>
                i = Len(s) /\ Stage(s[i]) = 3 /\ Stage(current) = 4 /\ command = "RUN_GRAPHICS"
           /\ s[i].item # "entries" => Stage(s[i]) = 0
           /\ s[i].item = "format" /\ s[i].strings => command = "DUMP_BUFFER_TEXT"
    BY <1>1, <2>2, <2>3 DEF GoodItems, Stage
  <2>16. \A x : Stage(x) \in Nat
    BY DEF Stage
  <2>17. Follows(current, items, command)
    <3>1. \A i \in 1 .. Len(s) : Stage(s[i]) <= Stage(current) /\ BelongsTo(s[i], command)
      BY <2>15, <2>16 DEF BelongsTo
    <3>2. Nested(items)
      BY <2>7, <2>10, <2>14, <2>15, <2>16 DEF Nested
    <3> QED
      BY <2>7, <2>14, <2>16, <3>1, <3>2 DEF Follows
  <2>18. /\ todo' = items \o Tail(todo) /\ locals' = locals /\ pc' = pc /\ command' = command
         /\ next' = Unread /\ program' = program /\ version' = version
         /\ errorReported => errorReported'
    BY <2>12, GoOnIs
  <2>19. ItemsInv'
    BY <1>1, <2>17, <2>18, CurrentIs, NestedStays DEF ParserInv, ItemsInv
  <2>20. SuppliedInv'
    <3>1. Supplied(items, DOMAIN locals, {})
      <4>1. \A i \in 1 .. Len(s) : Demands(s[i]) = {}
        BY <2>15 DEF Demands
      <4>2. ASSUME NEW name \in Demands(y)
            PROVE  name \in DOMAIN locals \/ \E j \in 1 .. Len(items) - 1 : Assigns(items[j], name)
        <5>1. CASE name \in Demands(current)
          BY <1>1, <5>1, CurrentIs
        <5>2. CASE name \in GivenBy(of, p)
          <6>1. PICK i \in 1 .. Len(s) : name \in Sets(s[i])
            BY <2>11, <5>2
          <6>2. i \in 1 .. Len(items) - 1 /\ Assigns(items[i], name)
            BY <2>10, <2>14, <6>1 DEF Assigns
          <6> QED
            BY <6>2
        <5> QED
          BY <2>8, <4>2, <5>1, <5>2
      <4> QED
        BY <2>14, <4>1, <4>2 DEF Supplied
    <3> DEFINE demanded == UNION {Demands(x) : x \in LegalItem}
               wanted == demanded \cup Given
    <3>2. \A i \in 2 .. Len(todo) : Demands(todo[i]) \subseteq demanded
      BY <1>1, CurrentIs
    <3> HIDE DEF demanded
    <3>3. /\ Given \subseteq wanted
          /\ \A i \in 2 .. Len(todo) : Demands(todo[i]) \subseteq wanted
      BY <3>2
    <3> HIDE DEF wanted
    <3>4. \A name \in wanted : name \in DOMAIN locals \/ Assigns(Head(todo), name) =>
            name \in DOMAIN locals \/ \E j \in 1 .. Len(items) : Assigns(items[j], name)
      <4>1. Len(items) \in 1 .. Len(items) /\ Head(todo) = current
        BY <1>1, <2>10, <2>14, CurrentIs
      <4> QED
        BY <2>9, <2>14, <4>1
    <3>5. Supplied(todo, DOMAIN locals, Given)
      BY <1>1 DEF ParserInv, SuppliedInv
    <3>6. todo \in Seq(LegalItem)
      BY <1>1, CurrentIs
    <3>7. Supplied(todo', DOMAIN locals, Given)
      BY <1>1, <2>14, <2>18, <3>1, <3>3, <3>4, <3>5, <3>6, SuppliedStays
    <3>8. Given' = Given
      BY <2>18 DEF Given
    <3> QED
      BY <2>18, <3>7, <3>8 DEF SuppliedInv
  <2>21. UniformInv'
    <3> SUFFICES ASSUME command = "SET_UNIFORM" PROVE UniformInv'
      BY <2>18 DEF UniformInv
    <3>1. Len(todo) = 1 /\ of = "SET_UNIFORM" /\ todo \in Seq(LegalItem) /\ current = todo[1]
      BY <1>1, UniformParametersAreLast, CurrentIs
    <3>2. todo' = items
      BY <1>1, <2>14, <2>18, <3>1, NothingIsLeft
    <3>3. \A choice \in WaysToFind :
            choice[2] \in DOMAIN locals => choice[1] \in current.observed
      BY <1>1, <3>1 DEF ParserInv, UniformInv
    <3>4. ASSUME NEW choice \in WaysToFind,
                 choice[2] \in DOMAIN locals'
                   \/ (\E j \in 1 .. Len(items) : choice[2] \in Sets(items[j]))
          PROVE  choice[1] \in y.observed
      <4>1. CASE choice[2] \in DOMAIN locals
        BY <2>13, <3>3, <4>1
      <4>2. ASSUME NEW j \in 1 .. Len(items), choice[2] \in Sets(items[j])
            PROVE  choice[1] \in y.observed
        <5>1. j \in 1 .. Len(s) /\ choice[2] \in Sets(s[j])
          BY <2>7, <2>14, <4>2
        <5>2. choice[2] \in GivenBy(of, p)
          BY <2>11, <5>1
        <5>3. p = choice[1]
          BY <1>3, <3>1, <5>2, UniformIsFoundBy
        <5> QED
          BY <2>13, <5>3
      <4> QED
        BY <2>18, <3>4, <4>1, <4>2
    <3>5. items # <<>>
      BY <2>10, <2>14
    <3> QED
      BY <2>13, <2>14, <3>1, <3>2, <3>4, <3>5 DEF UniformInv
  <2>22. LocalsInv'
    BY <2>18, SameIsTyped
  <2>23. AttachmentInv'
    <3>1. \A i \in 1 .. Len(items) : items[i].item # "attachment"
      BY <2>13, <2>14, <2>15
    <3> QED
      BY <1>1, <2>14, <2>18, <3>1, AttachmentStays
  <2>24. IsToken(Unread)
    BY DEF IsToken, Unread
  <2>25. Reports(FALSE) /\ UNCHANGED <<pc, command, program, version>>
    BY <2>12 DEF GoOn
  <2> QED
    BY <1>1, <2>18, <2>19, <2>20, <2>21, <2>22, <2>23, <2>24, <2>25, GoOnKeepsInv
<1> QED
  BY <1>1, <1>2, <1>3

\* All parameters have been given.
LEMMA EndParametersKeepsInv == ASSUME ParserInv, EndParameters PROVE ParserInv'
<1> DEFINE of == current.of
           seen == current.observed
           assigned == [locals EXCEPT !.observed = seen]
           items == <<>>
<1>1. /\ pc = "items" /\ todo # <<>> /\ current.item = "parameters"
      /\ \E t \in Ahead :
           Refuse \/ (Complete(of, current.observed) /\ GoOn(t, items, assigned, FALSE))
  BY DEF EndParameters, Doing
<1>2. CASE Refuse
  BY <1>2, StopKeepsInv DEF Refuse, Ended
<1>3. ASSUME NEW t \in Ahead, Complete(of, current.observed), GoOn(t, items, assigned, FALSE)
      PROVE  ParserInv'
  <2>1. /\ items \in Seq(LegalItem) /\ Len(items) = 0 /\ \A i \in 1 .. Len(items) : FALSE
    OBVIOUS
  <2> HIDE DEF items
  <2>2. /\ todo' = items \o Tail(todo) /\ locals' = assigned /\ pc' = pc /\ command' = command
        /\ next' = t /\ (errorReported => errorReported')
    BY <1>3, GoOnIs
  <2>3. current.observed \in SUBSET DOMAIN Tables[of] /\ of \in DOMAIN Tables
    BY <1>1, CurrentIs, LegalItemsAre DEF BelongsTo
  <2>4. Demands(current) = UNION {GivenBy(of, p) : p \in current.observed}
    BY <1>1 DEF Demands
  <2>5. "observed" \in DOMAIN Declared
    BY DEF Declared
  <2>6. HasType(command, "observed", seen)
    BY DEF HasType, NameLocals, ArgumentLocals, NumberLocals
  <2>7. DOMAIN locals' = DOMAIN locals /\ LocalsInv'
    <3> HIDE DEF seen
    <3> QED
      BY <1>1, <2>2, <2>5, <2>6, ChangedIsTyped
  <2> HIDE DEF assigned
  <2>8. Follows(current, items, command)
    BY <2>1 DEF Follows, Nested
  <2>9. ItemsInv'
    BY <1>1, <2>2, <2>8, CurrentIs, NestedStays DEF ParserInv, ItemsInv
  <2>10. \A name : Assigns(current, name) => name \in DOMAIN locals
    <3>1. ASSUME NEW name, Assigns(current, name) PROVE name \in DOMAIN locals
      <4>1. name \in Mandatory(of)
        BY <1>1, <3>1 DEF Assigns, Sets
      <4>2. PICK p \in current.observed : name \in GivenBy(of, p)
        BY <1>3, <2>3, <4>1 DEF Mandatory
      <4>3. name \in Demands(current)
        BY <2>4, <4>2
      <4> QED
        BY <1>1, <4>3, CurrentIs
    <3> QED
      BY <3>1
  <2>11. SuppliedInv'
    <3>1. Supplied(items, DOMAIN locals, {})
      BY <2>1 DEF Supplied
    <3> DEFINE demanded == UNION {Demands(x) : x \in LegalItem}
               wanted == demanded \cup Given
    <3>2. \A i \in 2 .. Len(todo) : Demands(todo[i]) \subseteq demanded
      BY <1>1, CurrentIs
    <3> HIDE DEF demanded
    <3>3. /\ Given \subseteq wanted
          /\ \A i \in 2 .. Len(todo) : Demands(todo[i]) \subseteq wanted
      BY <3>2
    <3> HIDE DEF wanted
    <3>4. \A name \in wanted : name \in DOMAIN locals \/ Assigns(Head(todo), name) =>
            name \in DOMAIN locals \/ \E j \in 1 .. Len(items) : Assigns(items[j], name)
      <4>1. Head(todo) = current
        BY <1>1, CurrentIs
      <4> QED
        BY <2>10, <4>1
    <3>5. Supplied(todo, DOMAIN locals, Given)
      BY <1>1 DEF ParserInv, SuppliedInv
    <3>6. todo \in Seq(LegalItem)
      BY <1>1, CurrentIs
    <3>7. Supplied(todo', DOMAIN locals, Given)
      BY <1>1, <2>1, <2>2, <3>1, <3>3, <3>4, <3>5, <3>6, SuppliedStays
    <3>8. Given' = Given
      BY <2>2 DEF Given
    <3> QED
      BY <2>2, <2>7, <3>7, <3>8 DEF SuppliedInv
  <2>12. UniformInv'
    <3> SUFFICES ASSUME command = "SET_UNIFORM" PROVE UniformInv'
      BY <2>2 DEF UniformInv
    <3>1. Len(todo) = 1 /\ of = "SET_UNIFORM" /\ todo \in Seq(LegalItem) /\ current = todo[1]
      BY <1>1, UniformParametersAreLast, CurrentIs
    <3>2. todo' = <<>>
      BY <1>1, <2>1, <2>2, <3>1, NothingIsLeft
    <3>3. \A choice \in WaysToFind :
            choice[2] \in DOMAIN locals => choice[1] \in current.observed
      BY <1>1, <3>1 DEF ParserInv, UniformInv
    <3>4. ASSUME NEW choice \in WaysToFind, choice[1] \in current.observed
          PROVE  choice[2] \in DOMAIN locals
      <4>1. choice[2] \in GivenBy(of, choice[1])
        BY <2>3, <3>1, <3>4, UniformIsFoundBy
      <4>2. choice[2] \in Demands(current)
        BY <2>4, <3>4, <4>1
      <4> QED
        BY <1>1, <4>2, CurrentIs
    <3>5. ("LOCATION" \in current.observed) # ("NAME" \in current.observed)
      BY <1>3, <3>1 DEF Complete, Exclusive
    <3>6. /\ "uniform_location" \in DOMAIN locals <=> "LOCATION" \in current.observed
          /\ "name" \in DOMAIN locals <=> "NAME" \in current.observed
      BY <3>3, <3>4 DEF WaysToFind
    <3> QED
      BY <2>7, <3>2, <3>5, <3>6 DEF UniformInv
  <2>13. AttachmentInv'
    <3>1. \A i \in 1 .. Len(items) : items[i].item # "attachment"
      BY <2>1
    <3> QED
      BY <1>1, <2>1, <2>2, <3>1, AttachmentStays
  <2>14. IsToken(t)
    BY <1>3, AheadIsToken
  <2>15. Reports(FALSE) /\ UNCHANGED <<pc, command, program, version>>
    BY <1>3 DEF GoOn
  <2> QED
    BY <1>1, <2>2, <2>7, <2>9, <2>11, <2>12, <2>13, <2>14, <2>15, GoOnKeepsInv
<1> QED
  BY <1>1, <1>2, <1>3
-----------------------------------------------------------------------------
(***************************************************************************)
(* VERTEX_DATA and FRAMEBUFFER_ATTACHMENTS.                                *)
(***************************************************************************)
\* One more item.
Appends(u, s, x) ==
    /\ u \in Seq(LegalItem) /\ Len(u) = Len(s) + 1 /\ u[Len(s) + 1] = x
    /\ \A i \in 1 .. Len(s) : u[i] = s[i]

\* Which is how an item is put behind others.
LEMMA AppendedIs ==
    ASSUME NEW s \in Seq(LegalItem), NEW x \in LegalItem, NEW u, u = s \o <<x>>
    PROVE  Appends(u, s, x)
BY DEF Appends

\* An entry of a list whose loop is then the next to go on.
LEMMA EntryItemsFollow ==
    ASSUME NEW entry \in EntryKinds, NEW x, x.item = "entries", BelongsTo(x, "RUN_GRAPHICS"),
           NEW y \in LegalItem, y.item = "entries",
           NEW items, items = EntryItems(entry) \o <<y>>
    PROVE  /\ Follows(x, items, "RUN_GRAPHICS")
           /\ \A held : Supplied(items, held, {})
           /\ Len(items) = 5 /\ items[1].item \in {"number", "location"}
           /\ \A i \in 1 .. 5 : items[i].item = "attachment" =>
                i = 3 /\ items[1].item = "location" /\ items[2].item = "symbol"
<1> DEFINE first == IF entry = "attachment" THEN Location ELSE Number("location", UINT32_MAX)
           arrow == Symbol("->")
           third == IF entry = "attachment" THEN Attachment ELSE Parameters("vertex_attribute")
           last == [item |-> "end_of_entry", entry |-> entry]
<1>1. /\ first \in LegalItem /\ Stage(first) = 0 /\ Demands(first) = {}
      /\ first.item = IF entry = "attachment" THEN "location" ELSE "number"
      /\ entry = "vertex_attribute" => Sets(first) = {"location"}
  <2>1. first \in LegalItem
    BY SettingsAreLegal, OthersAreLegal DEF NumberLocals
  <2> QED
    BY <2>1 DEF Location, Number, Stage, Demands, Sets
<1>2. arrow \in LegalItem /\ Stage(arrow) = 0 /\ Demands(arrow) = {} /\ arrow.item = "symbol"
  <2>1. arrow \in LegalItem
    BY DEF Symbol, LegalItem
  <2> QED
    BY <2>1 DEF Symbol, Stage, Demands
<1>3. /\ third \in LegalItem /\ Demands(third) = {}
      /\ entry = "attachment" => third.item = "attachment" /\ Stage(third) = 0
      /\ entry # "attachment" => /\ third.item = "parameters" /\ Stage(third) = 1
                                 /\ third.of = "vertex_attribute" /\ third.observed = {}
  <2>1. third \in LegalItem
    BY OthersAreLegal, TablesAre
  <2> QED
    BY <2>1 DEF Attachment, Parameters, Stage, Demands
<1>4. /\ last \in LegalItem /\ Stage(last) = 2 /\ last.item = "end_of_entry"
      /\ last.entry = entry
  <2>1. last \in LegalItem
    BY OthersAreLegal
  <2> QED
    BY <2>1 DEF Stage
<1>5. Stage(y) = 3 /\ Stage(x) = 3 /\ Demands(y) = {}
  BY DEF Stage, Demands
<1>6. Demands(last) = IF entry = "vertex_attribute" THEN AttributeLocals ELSE {}
  BY <1>4 DEF Demands
<1>7. first \in LegalItem /\ arrow \in LegalItem /\ third \in LegalItem /\ last \in LegalItem
  BY <1>1, <1>2, <1>3, <1>4
<1>8. /\ items \in Seq(LegalItem) /\ Len(items) = 5
      /\ items[1] = first /\ items[2] = arrow /\ items[3] = third /\ items[4] = last
      /\ items[5] = y
  <2> DEFINE s == IF entry = "attachment" THEN <<Location, arrow, Attachment>>
                  ELSE Uint32("location") \o <<arrow, Parameters(entry)>>
             u == s \o <<last>>
  <2>1. items = u \o <<y>>
    BY DEF EntryItems
  <2>2. /\ s \in Seq(LegalItem) /\ Len(s) = 3
        /\ s[1] = first /\ s[2] = arrow /\ s[3] = third
    <3>1. CASE entry = "attachment"
      <4>1. first = Location /\ third = Attachment /\ s = <<Location, arrow, Attachment>>
        BY <3>1
      <4> HIDE DEF first, arrow, third, s
      <4> QED
        BY <1>7, <4>1
    <3>2. CASE entry # "attachment"
      <4>1. s = <<first>> \o <<arrow, third>>
        BY <3>2 DEF Uint32, EntryKinds
      <4> HIDE DEF first, arrow, third, s
      <4>2. <<first>> \in Seq(LegalItem) /\ <<arrow, third>> \in Seq(LegalItem)
        BY <1>7
      <4> QED
        BY <4>1, <4>2
    <3> QED
      BY <3>1, <3>2
  <2> HIDE DEF first, arrow, third, last, s
  <2>3. /\ u \in Seq(LegalItem) /\ Len(u) = 4
        /\ u[1] = first /\ u[2] = arrow /\ u[3] = third /\ u[4] = last
    <3>1. Appends(u, s, last)
      BY <1>7, <2>2, AppendedIs
    <3> HIDE DEF u
    <3> QED
      BY <2>2, <3>1 DEF Appends
  <2> HIDE DEF u
  <2>4. Appends(items, u, y)
    BY <2>1, <2>3, AppendedIs
  <2> QED
    BY <2>3, <2>4 DEF Appends
<1> HIDE DEF first, arrow, third, last
<1>9. \A i \in 1 .. 5 : i = 1 \/ i = 2 \/ i = 3 \/ i = 4 \/ i = 5
  OBVIOUS
<1>10. Nested(items)
  BY <1>1, <1>2, <1>3, <1>4, <1>5, <1>8 DEF Nested, EntryKinds
<1>11. \A i \in 1 .. 5 : Stage(items[i]) <= Stage(x)
  BY <1>1, <1>2, <1>3, <1>4, <1>5, <1>8, <1>9
<1>12. \A i \in 1 .. 5 : BelongsTo(items[i], "RUN_GRAPHICS")
  BY <1>1, <1>2, <1>3, <1>4, <1>8, <1>9 DEF BelongsTo
<1>13. ASSUME NEW held PROVE Supplied(items, held, {})
  <2>1. CASE entry # "vertex_attribute"
    BY <1>1, <1>2, <1>3, <1>5, <1>6, <1>8, <1>9, <2>1 DEF Supplied
  <2>2. CASE entry = "vertex_attribute"
    <3>1. \A name \in AttributeLocals :
            name = "location" \/ name \in Mandatory("vertex_attribute")
      BY MandatoryAre DEF AttributeLocals
    <3>2. \A name \in AttributeLocals : Assigns(items[1], name) \/ Assigns(items[3], name)
      BY <1>1, <1>3, <1>8, <2>2, <3>1 DEF Assigns
    <3>3. 1 \in 1 .. 4 - 1 /\ 3 \in 1 .. 4 - 1
      OBVIOUS
    <3>4. \A name \in AttributeLocals : \E j \in 1 .. 4 - 1 : Assigns(items[j], name)
      BY <3>2, <3>3
    <3>5. \A k \in 1 .. 5 : Demands(items[k]) # {} => k = 4 /\ Demands(items[k]) = AttributeLocals
      BY <1>1, <1>2, <1>3, <1>5, <1>6, <1>8, <1>9, <2>2
    <3> QED
      BY <1>8, <3>4, <3>5 DEF Supplied
  <2> QED
    BY <2>1, <2>2
<1>14. \A i \in 1 .. 5 : items[i].item = "attachment" =>
         i = 3 /\ items[1].item = "location" /\ items[2].item = "symbol"
  BY <1>1, <1>2, <1>3, <1>4, <1>8, <1>9
<1> QED
  BY <1>1, <1>8, <1>10, <1>11, <1>12, <1>13, <1>14 DEF Follows

\* The next entry, or the end of the list.
LEMMA ReadEntriesKeepsInv == ASSUME ParserInv, ReadEntries PROVE ParserInv'
<1> DEFINE y == [current EXCEPT !.before = @ + 1]
           items == EntryItems(current.entry) \o <<y>>
<1>1. /\ pc = "items" /\ todo # <<>> /\ current.item = "entries"
      /\ \E t \in Ahead : GoOn(Unread, <<>>, locals, FALSE) \/ GoOn(t, items, locals, FALSE)
  BY DEF ReadEntries, Doing
<1>2. IsToken(Unread) /\ \A t \in Ahead : IsToken(t)
  BY <1>1, AheadIsToken
<1>3. /\ command = "RUN_GRAPHICS" /\ BelongsTo(current, "RUN_GRAPHICS")
  BY <1>1, CurrentIs DEF BelongsTo
<1>4. CASE GoOn(Unread, <<>>, locals, FALSE)
  <2> DEFINE none == <<>>
  <2>1. /\ none \in Seq(LegalItem) /\ \A i \in 1 .. Len(none) : FALSE
    OBVIOUS
  <2>2. GoOn(Unread, none, locals, FALSE)
    BY <1>4
  <2> HIDE DEF none
  <2>3. LocalsInv' /\ todo' = none \o Tail(todo)
    BY <2>2, GoOnIs, SameIsTyped
  <2>4. \A i \in 1 .. Len(none) : none[i].item # "attachment"
    BY <2>1
  <2>5. AttachmentInv'
    BY <1>1, <2>1, <2>3, <2>4, AttachmentStays
  <2>6. \A i \in 1 .. Len(none) : /\ Stage(none[i]) = 0 /\ BelongsTo(none[i], command)
                                  /\ Sets(none[i]) \subseteq {"array_size"}
    BY <2>1
  <2>7. Sets(current) = {}
    BY <1>1 DEF Sets
  <2> QED
    BY <1>1, <1>2, <2>1, <2>2, <2>3, <2>5, <2>6, <2>7, PlainKeepsInv
<1>5. ASSUME NEW t \in Ahead, GoOn(t, items, locals, FALSE) PROVE ParserInv'
  <2>1. /\ current.entry \in EntryKinds /\ current.before \in Nat
        /\ current = [item |-> "entries", entry |-> current.entry, before |-> current.before]
    BY <1>1, CurrentIs, LegalItemsAre
  <2>2. y = [item |-> "entries", entry |-> current.entry, before |-> current.before + 1]
    BY <2>1
  <2>3. y \in LegalItem /\ y.item = "entries"
    BY <2>1, <2>2 DEF LegalItem
  <2> HIDE DEF y
  <2>4. /\ Follows(current, items, "RUN_GRAPHICS")
        /\ \A held : Supplied(items, held, {})
        /\ Len(items) = 5
        /\ \A i \in 1 .. 5 : items[i].item = "attachment" =>
             i = 3 /\ items[1].item = "location" /\ items[2].item = "symbol"
    BY <1>1, <1>3, <2>1, <2>3, EntryItemsFollow
  <2> HIDE DEF items
  <2>5. /\ todo' = items \o Tail(todo) /\ locals' = locals /\ pc' = pc /\ command' = command
        /\ next' = t /\ (errorReported => errorReported')
    BY <1>5, GoOnIs
  <2>6. items \in Seq(LegalItem)
    BY <2>4 DEF Follows
  <2>7. ItemsInv'
    BY <1>1, <1>3, <2>4, <2>5, CurrentIs, NestedStays DEF ParserInv, ItemsInv
  <2>8. SuppliedInv'
    <3> DEFINE demanded == UNION {Demands(x) : x \in LegalItem}
               wanted == demanded \cup Given
    <3>1. \A i \in 2 .. Len(todo) : Demands(todo[i]) \subseteq demanded
      BY <1>1, CurrentIs
    <3> HIDE DEF demanded
    <3>2. /\ Given \subseteq wanted
          /\ \A i \in 2 .. Len(todo) : Demands(todo[i]) \subseteq wanted
      BY <3>1
    <3> HIDE DEF wanted
    <3>3. \A name : ~Assigns(Head(todo), name)
      <4>1. Head(todo) = current
        BY <1>1, CurrentIs
      <4> QED
        BY <1>1, <4>1 DEF Assigns, Sets
    <3>4. \A name \in wanted : name \in DOMAIN locals \/ Assigns(Head(todo), name) =>
            name \in DOMAIN locals \/ \E j \in 1 .. Len(items) : Assigns(items[j], name)
      BY <3>3
    <3>5. Supplied(todo, DOMAIN locals, Given)
      BY <1>1 DEF ParserInv, SuppliedInv
    <3>6. todo \in Seq(LegalItem) /\ Supplied(items, DOMAIN locals, {})
      BY <1>1, <2>4, CurrentIs
    <3>7. Supplied(todo', DOMAIN locals, Given)
      BY <1>1, <2>5, <2>6, <3>2, <3>4, <3>5, <3>6, SuppliedStays
    <3>8. Given' = Given
      BY <2>5 DEF Given
    <3> QED
      BY <2>5, <3>7, <3>8 DEF SuppliedInv
  <2>9. UniformInv'
    BY <1>3, <2>5 DEF UniformInv
  <2>10. LocalsInv'
    BY <2>5, SameIsTyped
  <2>11. AttachmentInv'
    <3>1. Replaces(todo', items, todo)
      BY <1>1, <2>5, <2>6, CurrentIs, ReplacedIs
    <3>2. \A i \in 2 .. Len(todo) : todo[i].item # "attachment"
      BY <1>1, CurrentIs DEF ParserInv, AttachmentInv
    <3>3. \A k \in 1 .. Len(todo') : todo'[k].item = "attachment" => k \in 1 .. 5
      BY <2>4, <3>1, <3>2 DEF Replaces
    <3>4. todo'[1] = items[1] /\ todo'[2] = items[2]
      BY <2>4, <3>1 DEF Replaces
    <3>5. \A k \in 1 .. 5 : todo'[k] = items[k]
      BY <2>4, <3>1 DEF Replaces
    <3> QED
      BY <2>4, <3>3, <3>4, <3>5 DEF AttachmentInv
  <2>12. Reports(FALSE) /\ UNCHANGED <<pc, command, program, version>>
    BY <1>5 DEF GoOn
  <2>13. IsToken(t)
    BY <1>2
  <2> QED
    BY <1>1, <2>5, <2>7, <2>8, <2>9, <2>10, <2>11, <2>12, <2>13, GoOnKeepsInv
<1> QED
  BY <1>1, <1>4, <1>5

\* The locals of a vertex attribute end with it; the others stay as they are.
LEMMA AttributeIsTyped ==
    ASSUME ParserInv, pc = "items", pc' = pc, command' = command,
           errorReported => errorReported', locals' = WithAttribute,
           "buffer" \in DOMAIN locals
    PROVE  DOMAIN locals' = DOMAIN locals \ AttributeLocals /\ LocalsInv'
<1>1. /\ DOMAIN Declared \subseteq DOMAIN locals
      /\ \A name \in DOMAIN locals : HasType(command, name, locals[name])
      /\ ~errorReported => \A name \in ArgumentLocals \cap DOMAIN locals :
                              locals[name] \in Identifier
  BY DEF ParserInv, LocalsInv
<1>2. /\ "vertices" \in DOMAIN locals
      /\ HasType(command, "vertices", locals.vertices)
      /\ HasType(command, "buffer", locals.buffer)
  BY <1>1 DEF Declared
<1> DEFINE value == Inserted(locals.vertices, locals.location, locals.buffer)
<1>3. /\ DOMAIN locals' = DOMAIN locals \ AttributeLocals
      /\ \A name \in DOMAIN locals' : name # "vertices" => locals'[name] = locals[name]
      /\ locals'.vertices = value
  BY <1>2 DEF WithAttribute, AttributeLocals
<1>4. \A k \in DOMAIN value : value[k] \in Identifier
  BY <1>2 DEF HasType, NameLocals, Inserted
<1> HIDE DEF value
<1>5. HasType(command, "vertices", value)
  BY <1>4 DEF HasType, NameLocals, ArgumentLocals, NumberLocals
<1>6. DOMAIN Declared \subseteq DOMAIN locals'
  BY <1>1, <1>3 DEF Declared, AttributeLocals
<1>7. \A name \in DOMAIN locals' : HasType(command, name, locals'[name])
  BY <1>1, <1>3, <1>5
<1>8. ~errorReported' => \A name \in ArgumentLocals \cap DOMAIN locals' :
                            locals'[name] \in Identifier
  BY <1>1, <1>3 DEF ArgumentLocals
<1> QED
  BY <1>3, <1>6, <1>7, <1>8 DEF LocalsInv

\* The end of an entry.
LEMMA EndEntryKeepsInv == ASSUME ParserInv, EndEntry PROVE ParserInv'
<1> DEFINE ended == IF current.entry = "attachment" THEN locals ELSE WithAttribute
           items == <<>>
<1>1. /\ pc = "items" /\ todo # <<>> /\ current.item = "end_of_entry"
      /\ \E t \in Ahead : \/ Refuse
                          \/ GoOn(Unread, items, ended, FALSE) \/ GoOn(t, items, ended, FALSE)
  BY DEF EndEntry, Doing
<1>2. CASE Refuse
  BY <1>2, StopKeepsInv DEF Refuse, Ended
<1>3. IsToken(Unread) /\ \A t \in Ahead : IsToken(t)
  BY <1>1, AheadIsToken
<1>4. /\ command = "RUN_GRAPHICS" /\ current.entry \in EntryKinds
  BY <1>1, CurrentIs, LegalItemsAre DEF BelongsTo
<1>5. items \in Seq(LegalItem) /\ \A i \in 1 .. Len(items) : FALSE
  OBVIOUS
<1> HIDE DEF items
<1>6. ASSUME NEW ahead, IsToken(ahead), GoOn(ahead, items, ended, FALSE) PROVE ParserInv'
  <2>1. /\ todo' = items \o Tail(todo) /\ locals' = ended /\ pc' = pc /\ command' = command
        /\ next' = ahead /\ (errorReported => errorReported')
    <3> HIDE DEF ended
    <3> QED
      BY <1>6, GoOnIs
  <2>2. \A i \in 1 .. Len(items) : items[i].item # "attachment"
    BY <1>5
  <2>3. AttachmentInv'
    BY <1>1, <1>5, <2>1, <2>2, AttachmentStays
  <2>4. CASE current.entry = "attachment"
    <3>1. locals' = locals /\ GoOn(ahead, items, locals, FALSE)
      BY <1>6, <2>1, <2>4
    <3>2. LocalsInv'
      BY <2>1, <3>1, SameIsTyped
    <3>3. \A i \in 1 .. Len(items) : /\ Stage(items[i]) = 0 /\ BelongsTo(items[i], command)
                                    /\ Sets(items[i]) \subseteq {"array_size"}
      BY <1>5
    <3>4. Sets(current) = {}
      BY <1>1 DEF Sets
    <3> QED
      BY <1>1, <1>5, <1>6, <2>3, <3>1, <3>2, <3>3, <3>4, PlainKeepsInv
  <2>5. CASE current.entry = "vertex_attribute"
    <3>1. locals' = WithAttribute
      BY <2>1, <2>5
    <3>2. AttributeLocals \subseteq DOMAIN locals
      BY <1>1, <2>5, CurrentIs DEF Demands
    <3>3. DOMAIN locals' = DOMAIN locals \ AttributeLocals /\ LocalsInv'
      BY <1>1, <2>1, <3>1, <3>2, AttributeIsTyped DEF AttributeLocals
    <3>4. Follows(current, items, command)
      BY <1>5 DEF Follows, Nested
    <3>5. ItemsInv'
      BY <1>1, <2>1, <3>4, CurrentIs, NestedStays DEF ParserInv, ItemsInv
    <3>6. \A i \in 2 .. Len(todo) : Demands(todo[i]) \cap AttributeLocals = {}
      <4>1. ASSUME NEW i \in 2 .. Len(todo)
            PROVE  Demands(todo[i]) \cap AttributeLocals = {}
        <5>1. i \in 1 .. Len(todo) /\ 1 < i
          BY <1>1, CurrentIs
        <5>2. Stage(current) < Stage(todo[i]) \/ Stage(current) = 0
          BY <1>1, <5>1, CurrentIs DEF ParserInv, ItemsInv, Nested
        <5>3. Stage(current) = 2
          BY <1>1 DEF Stage
        <5>4. todo[i] \in LegalItem /\ BelongsTo(todo[i], command)
          BY <1>1, <5>1, CurrentIs DEF ParserInv, ItemsInv
        <5>5. CASE todo[i].item = "parameters"
          <6>1. todo[i].of # "vertex_attribute"
            BY <5>2, <5>3, <5>5 DEF Stage
          <6>2. todo[i].of = "RUN_GRAPHICS" /\ todo[i].observed \subseteq DOMAIN Tables["RUN_GRAPHICS"]
            BY <1>4, <5>4, <5>5, <6>1 DEF BelongsTo
          <6>3. Demands(todo[i]) = UNION {GivenBy("RUN_GRAPHICS", p) : p \in todo[i].observed}
            BY <5>5, <6>2 DEF Demands
          <6> QED
            BY <6>2, <6>3, GraphicsGivesNoAttribute
        <5>6. CASE todo[i].item = "end_of_entry"
          BY <5>2, <5>3, <5>6 DEF Stage
        <5>7. CASE todo[i].item \notin {"parameters", "end_of_entry"}
          BY <5>7 DEF Demands
        <5> QED
          BY <5>5, <5>6, <5>7
      <4> QED
        BY <4>1
    <3>7. Given \cap AttributeLocals = {}
      BY <1>4 DEF Given, AttributeLocals
    <3>8. SuppliedInv'
      <4> DEFINE demanded == UNION {Demands(todo[i]) : i \in 2 .. Len(todo)}
                 wanted == demanded \cup Given
      <4>1. \A i \in 2 .. Len(todo) : Demands(todo[i]) \subseteq demanded
        OBVIOUS
      <4>2. demanded \cap AttributeLocals = {}
        BY <3>6
      <4> HIDE DEF demanded
      <4>3. /\ Given \subseteq wanted
            /\ \A i \in 2 .. Len(todo) : Demands(todo[i]) \subseteq wanted
            /\ wanted \cap AttributeLocals = {}
        BY <3>7, <4>1, <4>2
      <4> HIDE DEF wanted
      <4>4. \A name : ~Assigns(Head(todo), name)
        <5>1. Head(todo) = current
          BY <1>1, CurrentIs
        <5> QED
          BY <1>1, <5>1 DEF Assigns, Sets
      <4>5. \A name \in wanted : name \in DOMAIN locals \/ Assigns(Head(todo), name) =>
              name \in DOMAIN locals' \/ \E j \in 1 .. Len(items) : Assigns(items[j], name)
        BY <3>3, <4>3, <4>4
      <4>6. Supplied(todo, DOMAIN locals, Given)
        BY <1>1 DEF ParserInv, SuppliedInv
      <4>7. todo \in Seq(LegalItem)
        BY <1>1, CurrentIs
      <4>8. Supplied(items, DOMAIN locals', {})
        BY <1>5 DEF Supplied
      <4>9. Supplied(todo', DOMAIN locals', Given)
        BY <1>1, <1>5, <2>1, <4>3, <4>5, <4>6, <4>7, <4>8, SuppliedStays
      <4>10. Given' = Given
        BY <2>1 DEF Given
      <4> QED
        BY <4>9, <4>10 DEF SuppliedInv
    <3>9. UniformInv'
      BY <1>4, <2>1 DEF UniformInv
    <3>10. Reports(FALSE) /\ UNCHANGED <<pc, command, program, version>>
      BY <1>6 DEF GoOn
    <3> HIDE DEF ended
    <3> QED
      BY <1>1, <1>6, <2>1, <2>3, <3>3, <3>5, <3>8, <3>9, <3>10, GoOnKeepsInv
  <2> QED
    BY <1>4, <2>4, <2>5 DEF EntryKinds
<1> QED
  BY <1>1, <1>2, <1>3, <1>6
-----------------------------------------------------------------------------
(***************************************************************************)
(* Between commands.                                                       *)
(***************************************************************************)
\* The API.
LEMMA ParseApiKeepsInv == ASSUME ParserInv, ParseApi PROVE ParserInv'
<1>1. /\ pc = "api"
      /\ \/ Refuse
         \/ \E api \in Api : /\ version' = [version EXCEPT !.api = api]
                             /\ pc' = "api_version"
                             /\ UNCHANGED <<next, todo, command, locals, program, errorReported>>
  BY DEF ParseApi, IsKeyword
<1>2. CASE Refuse
  BY <1>2, StopKeepsInv DEF Refuse, Ended
<1>3. ASSUME NEW api \in Api, version' = [version EXCEPT !.api = api], pc' = "api_version",
             UNCHANGED <<next, todo, command, locals, program, errorReported>>
      PROVE  ParserInv'
  <2>1. version' \in ApiVersions
    BY <1>3 DEF ParserInv, TypeOK, ApiVersions
  <2>2. TypeOK'
    BY <1>1, <1>3, <2>1 DEF ParserInv, TypeOK
  <2>3. IsToken(next')
    BY <1>3 DEF ParserInv
  <2>4. ItemsInv' /\ AttachmentInv'
    BY <1>1, <1>3 DEF ParserInv, TypeOK, ItemsInv, Nested, AttachmentInv
  <2>5. SuppliedInv' /\ UniformInv' /\ LocalsInv'
    BY <1>3 DEF SuppliedInv, UniformInv, LocalsInv
  <2>6. ProgramInv'
    BY <1>3 DEF ParserInv, ProgramInv, AttachmentsAreOneToOne
  <2> QED
    BY <1>3, <2>2, <2>3, <2>4, <2>5, <2>6 DEF ParserInv
<1> QED
  BY <1>1, <1>2, <1>3

\* Its version, which is one of those supported.
LEMMA ParseApiVersionKeepsInv == ASSUME ParserInv, ParseApiVersion PROVE ParserInv'
<1>1. /\ pc = "api_version"
      /\ \/ Refuse
         \/ /\ version' \in SupportedVersions
            /\ pc' = "commands"
            /\ UNCHANGED <<next, todo, command, locals, program, errorReported>>
  BY DEF ParseApiVersion
<1>2. CASE Refuse
  BY <1>2, StopKeepsInv DEF Refuse, Ended
<1>3. ASSUME version' \in SupportedVersions, pc' = "commands",
             UNCHANGED <<next, todo, command, locals, program, errorReported>>
      PROVE  ParserInv'
  <2>1. version' \in ApiVersions
    BY <1>3 DEF SupportedVersions, ApiVersions, GL, GLES, Api
  <2>2. TypeOK'
    BY <1>1, <1>3, <2>1 DEF ParserInv, TypeOK
  <2>3. IsToken(next')
    BY <1>3 DEF ParserInv
  <2>4. ItemsInv' /\ AttachmentInv'
    BY <1>1, <1>3 DEF ParserInv, TypeOK, ItemsInv, Nested, AttachmentInv
  <2>5. SuppliedInv' /\ UniformInv' /\ LocalsInv'
    BY <1>3 DEF SuppliedInv, UniformInv, LocalsInv
  <2>6. ProgramInv'
    BY <1>3 DEF ParserInv, ProgramInv, AttachmentsAreOneToOne
  <2> QED
    BY <1>3, <2>2, <2>3, <2>4, <2>5, <2>6 DEF ParserInv
<1> QED
  BY <1>1, <1>2, <1>3

\* One item before others.
Prepends(u, x, s) ==
    /\ u \in Seq(LegalItem) /\ Len(u) = Len(s) + 1 /\ u[1] = x
    /\ \A i \in 1 .. Len(s) : u[i + 1] = s[i]

\* What a concatenation with a single item is.
LEMMA PrependedIs ==
    ASSUME NEW s \in Seq(LegalItem), NEW x \in LegalItem, NEW u, u = <<x>> \o s
    PROVE  Prepends(u, x, s)
BY DEF Prepends

\* What is to be done when a command starts.
Starts(of, s, goal) ==
    /\ s \in Seq(LegalItem) /\ Nested(s)
    /\ \A i \in 1 .. Len(s) : BelongsTo(s[i], of) /\ s[i].item # "attachment"
    /\ \A i \in 1 .. Len(s) : Demands(s[i]) = {}
    /\ \A name \in goal : \E j \in 1 .. Len(s) : Assigns(s[j], name)

\* Items that take what there is one of.
LEMMA PlainStarts ==
    ASSUME NEW of, NEW goal, NEW s \in Seq(LegalItem),
           \A i \in 1 .. Len(s) : IsSetting(s[i]) \/ s[i].item \in {"keyword", "text", "shaders"},
           \A name \in goal : \E j \in 1 .. Len(s) : name \in Sets(s[j])
    PROVE  Starts(of, s, goal)
<1>1. \A i \in 1 .. Len(s) : /\ Stage(s[i]) = 0 /\ BelongsTo(s[i], of)
                            /\ s[i].item # "attachment" /\ Demands(s[i]) = {}
  BY DEF IsSetting, Stage, BelongsTo, Demands
<1>2. \A name \in goal : \E j \in 1 .. Len(s) : Assigns(s[j], name)
  BY DEF Assigns
<1>3. Nested(s)
  BY <1>1 DEF Nested
<1> QED
  BY <1>1, <1>2, <1>3 DEF Starts

\* A table.
LEMMA ParametersStart ==
    ASSUME NEW of \in DOMAIN Tables, of # "vertex_attribute"
    PROVE  /\ Parameters(of) \in LegalItem /\ BelongsTo(Parameters(of), of)
           /\ Parameters(of).item = "parameters" /\ Demands(Parameters(of)) = {}
           /\ \A name \in Mandatory(of) : Assigns(Parameters(of), name)
<1>1. Parameters(of) \in LegalItem
  BY OthersAreLegal
<1> QED
  BY <1>1 DEF Parameters, BelongsTo, Demands, Assigns

\* A table alone.
LEMMA TableStarts ==
    ASSUME NEW of \in DOMAIN Tables, of # "vertex_attribute",
           NEW goal, goal \subseteq Mandatory(of)
    PROVE  Starts(of, <<Parameters(of)>>, goal)
<1> DEFINE x == Parameters(of)
<1>1. /\ x \in LegalItem /\ BelongsTo(x, of) /\ x.item = "parameters" /\ Demands(x) = {}
      /\ \A name \in Mandatory(of) : Assigns(x, name)
  BY ParametersStart
<1> HIDE DEF x
<1>2. Starts(of, <<x>>, goal)
  BY <1>1 DEF Starts, Nested
<1> QED
  BY <1>2 DEF x

\* A result, and a table.
LEMMA SizedStarts ==
    ASSUME NEW of \in Sized, NEW goal, goal \subseteq Mandatory(of) \cup {"result"}
    PROVE  Starts(of, Result \o <<Parameters(of)>>, goal)
<1> DEFINE x == Parameters(of)
           r == Literal("identifier", "result")
           u == <<r>> \o <<x>>
<1>1. of \in DOMAIN Tables /\ of # "vertex_attribute"
  BY TablesAre DEF Sized
<1>2. /\ x \in LegalItem /\ BelongsTo(x, of) /\ x.item = "parameters" /\ Demands(x) = {}
      /\ \A name \in Mandatory(of) : Assigns(x, name)
  BY <1>1, ParametersStart
<1>3. r \in LegalItem /\ IsSetting(r) /\ Sets(r) = {"result"}
  BY SettingsAreLegal, SettingsAreSettings DEF NameLocals
<1> HIDE DEF x, r
<1>4. /\ Stage(r) = 0 /\ BelongsTo(r, of) /\ r.item # "attachment" /\ Demands(r) = {}
      /\ Assigns(r, "result")
  BY <1>3 DEF IsSetting, Stage, BelongsTo, Demands, Assigns
<1>5. Appends(u, <<r>>, x)
  <2>1. <<r>> \in Seq(LegalItem)
    BY <1>3
  <2>2. x \in LegalItem
    BY <1>2
  <2> QED
    BY <2>1, <2>2, AppendedIs
<1> HIDE DEF u
<1>6. u \in Seq(LegalItem) /\ Len(u) = 2 /\ u[1] = r /\ u[2] = x
  BY <1>5 DEF Appends
<1>7. Nested(u)
  BY <1>4, <1>6 DEF Nested
<1>8. Starts(of, u, goal)
  BY <1>2, <1>4, <1>6, <1>7 DEF Starts
<1> QED
  BY <1>8 DEF u, r, x, Result, Name

\* The commands that have no table.
LEMMA OthersStart ==
    /\ Starts("DECLARE_SHADER", ParseCommandDeclareShader, {"result", "kind"})
    /\ Starts("COMPILE_SHADER", ParseCommandCompileShader, {"result", "shader"})
    /\ Starts("CREATE_PROGRAM", ParseCommandCreateProgram, {"result"})
    /\ Starts("CREATE_SAMPLER", ParseCommandCreateSampler, {"result"})
<1> DEFINE r == Literal("identifier", "result")
           n == Literal("identifier", "shader")
           k == OneOf(ShaderKind, "kind")
           e1 == Expect({"KIND"})
           e2 == Expect({"SHADER"})
           e3 == Expect({"SHADERS"})
           text == Item("text")
           shaders == Item("shaders")
<1>1. /\ r \in LegalItem /\ IsSetting(r) /\ Sets(r) = {"result"}
      /\ n \in LegalItem /\ IsSetting(n) /\ Sets(n) = {"shader"}
      /\ k \in LegalItem /\ IsSetting(k) /\ Sets(k) = {"kind"}
  BY SettingsAreLegal, SettingsAreSettings DEF NameLocals
<1>2. /\ e1 \in LegalItem /\ e2 \in LegalItem /\ e3 \in LegalItem
      /\ text \in LegalItem /\ shaders \in LegalItem
  BY OthersAreLegal
<1>3. /\ e1.item = "keyword" /\ e2.item = "keyword" /\ e3.item = "keyword"
      /\ text.item = "text" /\ shaders.item = "shaders"
  BY DEF Expect, Item
<1>4. Result = <<r>> /\ Name("shader") = <<n>>
  BY DEF Result, Name
<1> HIDE DEF r, n, k, e1, e2, e3, text, shaders
<1>5. Starts("DECLARE_SHADER", ParseCommandDeclareShader, {"result", "kind"})
  <2> DEFINE s == <<e1, k, text>>
             u == <<r>> \o s
  <2>1. s \in Seq(LegalItem) /\ Len(s) = 3 /\ s[1] = e1 /\ s[2] = k /\ s[3] = text
    BY <1>1, <1>2
  <2> HIDE DEF s
  <2>2. Prepends(u, r, s)
    BY <1>1, <2>1, PrependedIs
  <2> HIDE DEF u
  <2>3. /\ u \in Seq(LegalItem) /\ Len(u) = 4
        /\ u[1] = r /\ u[1 + 1] = e1 /\ u[2 + 1] = k /\ u[3 + 1] = text
    BY <2>1, <2>2 DEF Prepends
  <2>4. \A i \in 1 .. Len(u) : IsSetting(u[i]) \/ u[i].item \in {"keyword", "text", "shaders"}
    BY <1>1, <1>3, <2>3
  <2>5. \A name \in {"result", "kind"} : \E j \in 1 .. Len(u) : name \in Sets(u[j])
    BY <1>1, <2>3
  <2>6. Starts("DECLARE_SHADER", u, {"result", "kind"})
    BY <2>3, <2>4, <2>5, PlainStarts
  <2>7. u = ParseCommandDeclareShader
    BY <1>4 DEF u, s, e1, k, text, ParseCommandDeclareShader
  <2> QED
    BY <2>6, <2>7
<1>6. Starts("COMPILE_SHADER", ParseCommandCompileShader, {"result", "shader"})
  <2> DEFINE s == <<r>> \o <<e2>>
             u == s \o <<n>>
  <2>1. <<r>> \in Seq(LegalItem) /\ Len(<<r>>) = 1 /\ <<r>>[1] = r
    BY <1>1
  <2>2. Appends(s, <<r>>, e2)
    BY <1>2, <2>1, AppendedIs
  <2> HIDE DEF s
  <2>3. s \in Seq(LegalItem) /\ Len(s) = 2 /\ s[1] = r /\ s[2] = e2
    BY <2>1, <2>2 DEF Appends
  <2>4. Appends(u, s, n)
    BY <1>1, <2>3, AppendedIs
  <2> HIDE DEF u
  <2>5. /\ u \in Seq(LegalItem) /\ Len(u) = 3
        /\ u[1] = r /\ u[2] = e2 /\ u[3] = n
    BY <2>3, <2>4 DEF Appends
  <2>6. \A i \in 1 .. Len(u) : IsSetting(u[i]) \/ u[i].item \in {"keyword", "text", "shaders"}
    BY <1>1, <1>3, <2>5
  <2>7. \A name \in {"result", "shader"} : \E j \in 1 .. Len(u) : name \in Sets(u[j])
    BY <1>1, <2>5
  <2>8. Starts("COMPILE_SHADER", u, {"result", "shader"})
    BY <2>5, <2>6, <2>7, PlainStarts
  <2>9. u = ParseCommandCompileShader
    BY <1>4 DEF u, s, e2, ParseCommandCompileShader
  <2> QED
    BY <2>8, <2>9
<1>7. Starts("CREATE_PROGRAM", ParseCommandCreateProgram, {"result"})
  <2> DEFINE s == <<e3, shaders>>
             u == <<r>> \o s
  <2>1. s \in Seq(LegalItem) /\ Len(s) = 2 /\ s[1] = e3 /\ s[2] = shaders
    BY <1>2
  <2> HIDE DEF s
  <2>2. Prepends(u, r, s)
    BY <1>1, <2>1, PrependedIs
  <2> HIDE DEF u
  <2>3. u \in Seq(LegalItem) /\ Len(u) = 3 /\ u[1] = r /\ u[1 + 1] = e3 /\ u[2 + 1] = shaders
    BY <2>1, <2>2 DEF Prepends
  <2>4. \A i \in 1 .. Len(u) : IsSetting(u[i]) \/ u[i].item \in {"keyword", "text", "shaders"}
    BY <1>1, <1>3, <2>3
  <2>5. \A name \in {"result"} : \E j \in 1 .. Len(u) : name \in Sets(u[j])
    BY <1>1, <2>3
  <2>6. Starts("CREATE_PROGRAM", u, {"result"})
    BY <2>3, <2>4, <2>5, PlainStarts
  <2>7. u = ParseCommandCreateProgram
    BY <1>4 DEF u, s, e3, shaders, ParseCommandCreateProgram
  <2> QED
    BY <2>6, <2>7
<1>8. Starts("CREATE_SAMPLER", ParseCommandCreateSampler, {"result"})
  <2>1. <<r>> \in Seq(LegalItem) /\ Len(<<r>>) = 1 /\ <<r>>[1] = r
    BY <1>1
  <2>2. \A i \in 1 .. Len(<<r>>) :
          IsSetting(<<r>>[i]) \/ <<r>>[i].item \in {"keyword", "text", "shaders"}
    BY <1>1, <2>1
  <2>3. \A name \in {"result"} : \E j \in 1 .. Len(<<r>>) : name \in Sets(<<r>>[j])
    BY <1>1, <2>1
  <2>4. Starts("CREATE_SAMPLER", <<r>>, {"result"})
    BY <2>1, <2>2, <2>3, PlainStarts
  <2> QED
    BY <1>4, <2>4 DEF ParseCommandCreateSampler
<1> QED
  BY <1>5, <1>6, <1>7, <1>8

\* The start of a command.
LEMMA CommandStarts ==
    ASSUME NEW of \in CommandKeywords, command' = of
    PROVE  /\ Starts(of, Items(of), Given')
           /\ of = "SET_UNIFORM" => Items(of) = <<Parameters("SET_UNIFORM")>>
<1>1. CASE of \in {"DECLARE_SHADER", "COMPILE_SHADER", "CREATE_PROGRAM", "CREATE_SAMPLER"}
  <2>1. CASE of = "DECLARE_SHADER"
    <3>1. Items(of) = ParseCommandDeclareShader /\ Given' = {"result", "kind"}
      BY <2>1, TablesAre DEF Items, Given, Sized
    <3> QED
      BY <2>1, <3>1, OthersStart
  <2>2. CASE of = "COMPILE_SHADER"
    <3>1. Items(of) = ParseCommandCompileShader /\ Given' = {"result", "shader"}
      BY <2>2, TablesAre DEF Items, Given, Sized
    <3> QED
      BY <2>2, <3>1, OthersStart
  <2>3. CASE of = "CREATE_PROGRAM"
    <3>1. Items(of) = ParseCommandCreateProgram /\ Given' = {"result"}
      BY <2>3, TablesAre DEF Items, Given, Sized
    <3> QED
      BY <2>3, <3>1, OthersStart
  <2>4. CASE of = "CREATE_SAMPLER"
    <3>1. Items(of) = ParseCommandCreateSampler /\ Given' = {"result"}
      BY <2>4, TablesAre DEF Items, Given, Sized
    <3> QED
      BY <2>4, <3>1, OthersStart
  <2> QED
    BY <1>1, <2>1, <2>2, <2>3, <2>4
<1>2. CASE of \in Sized
  <2>1. Items(of) = Result \o <<Parameters(of)>>
    BY <1>2 DEF Items, Sized
  <2>2. Given' \subseteq Mandatory(of) \cup {"result"}
    BY <1>2, MandatoryAre DEF Sized, Given
  <2> QED
    BY <1>2, <2>1, <2>2, SizedStarts DEF Sized
<1>3. CASE of \in DOMAIN Tables \ (Sized \cup {"vertex_attribute"})
  <2>1. Items(of) = <<Parameters(of)>>
    BY <1>3, TablesAre DEF Items, Sized
  <2>2. Given' \subseteq Mandatory(of)
    BY <1>3, TablesAre, MandatoryAre DEF Sized, Given
  <2> QED
    BY <1>3, <2>1, <2>2, TableStarts
<1> QED
  BY <1>1, <1>2, <1>3, TablesAre DEF CommandKeywords, Sized

\* A new command, or the end of the script.
LEMMA ParseCommandKeepsInv == ASSUME ParserInv, ParseCommand PROVE ParserInv'
<1>1. /\ pc = "commands"
      /\ \/ Stop("accepted", FALSE)
         \/ \E of \in CommandKeywords :
              /\ pc' = "items" /\ next' = Unread /\ command' = of
              /\ todo' = Items(of) /\ locals' = Declared
              /\ UNCHANGED <<program, version, errorReported>>
         \/ Refuse
  BY DEF ParseCommand, IsKeyword
<1>2. CASE Stop("accepted", FALSE)
  BY <1>1, <1>2, StopKeepsInv DEF Ended
<1>3. CASE Refuse
  BY <1>3, StopKeepsInv DEF Refuse, Ended
<1>4. ASSUME NEW of \in CommandKeywords,
             pc' = "items", next' = Unread, command' = of,
             todo' = Items(of), locals' = Declared,
             UNCHANGED <<program, version, errorReported>>
      PROVE  ParserInv'
  <2> DEFINE s == Items(of)
  <2>1. Starts(of, s, Given')
    BY <1>4, CommandStarts
  <2>2. of = "SET_UNIFORM" => s = <<Parameters("SET_UNIFORM")>>
    BY <1>4, CommandStarts
  <2> HIDE DEF s
  <2>3. todo' = s
    BY <1>4 DEF s
  <2>4. \A name \in NumberLocals : name \notin DOMAIN Declared
    BY DEF NumberLocals, Declared
  <2>5. TypeOK'
    BY <1>1, <1>4, <2>4 DEF ParserInv, TypeOK
  <2>6. IsToken(next')
    BY <1>4 DEF IsToken, Unread
  <2>7. ItemsInv' /\ AttachmentInv'
    BY <1>4, <2>1, <2>3 DEF Starts, ItemsInv, AttachmentInv
  <2>8. SuppliedInv'
    <3>1. Supplied(s, DOMAIN locals', Given')
      BY <2>1 DEF Starts, Supplied
    <3> QED
      BY <2>3, <3>1 DEF SuppliedInv
  <2>9. UniformInv'
    <3>1. CASE of = "SET_UNIFORM"
      <4> DEFINE x == Parameters("SET_UNIFORM")
      <4>1. x.item = "parameters" /\ x.of = "SET_UNIFORM" /\ Sets(x) = {}
        BY DEF Parameters, Sets
      <4> HIDE DEF x
      <4>2. todo' = <<x>>
        BY <2>2, <2>3, <3>1 DEF x
      <4>3. todo' # <<>> /\ Len(todo') = 1 /\ todo'[1] = x
        BY <4>2
      <4>4. \A choice \in WaysToFind : choice[2] \notin DOMAIN locals'
        BY <1>4 DEF WaysToFind, Declared
      <4> QED
        BY <4>1, <4>3, <4>4 DEF UniformInv
    <3>2. CASE of # "SET_UNIFORM"
      BY <1>4, <3>2 DEF UniformInv
    <3> QED
      BY <3>1, <3>2
  <2>10. LocalsInv'
    <3>1. \A name \in DOMAIN Declared : HasType(of, name, Declared[name])
      <4>1. DOMAIN EmptyMap = {} /\ OneToOne({})
        BY DEF EmptyMap, OneToOne
      <4>2. /\ DOMAIN Declared = {"shaders", "format", "size", "values", "vertices",
                                  "attachments", "observed"}
            /\ Declared["shaders"] = <<>> /\ Declared["format"] = <<>> /\ Declared["size"] = 0
            /\ Declared["vertices"] = EmptyMap /\ Declared["attachments"] = {}
        BY DEF Declared
      <4>3. /\ HasType(of, "shaders", <<>>) /\ HasType(of, "format", <<>>)
            /\ HasType(of, "size", 0)
        BY DEF HasType, NameLocals, ArgumentLocals, NumberLocals
      <4>4. HasType(of, "vertices", EmptyMap) /\ HasType(of, "attachments", {})
        BY <4>1 DEF HasType, NameLocals, ArgumentLocals, NumberLocals
      <4>5. \A value : HasType(of, "values", value) /\ HasType(of, "observed", value)
        BY DEF HasType, NameLocals, ArgumentLocals, NumberLocals
      <4> QED
        BY <4>2, <4>3, <4>4, <4>5
    <3>2. ArgumentLocals \cap DOMAIN Declared = {}
      BY DEF ArgumentLocals, Declared
    <3> QED
      BY <1>4, <3>1, <3>2 DEF LocalsInv
  <2>11. ProgramInv'
    BY <1>4 DEF ParserInv, ProgramInv, AttachmentsAreOneToOne
  <2> QED
    BY <1>1, <1>4, <2>5, <2>6, <2>7, <2>8, <2>9, <2>10, <2>11 DEF ParserInv
<1> QED
  BY <1>1, <1>2, <1>3, <1>4

-----------------------------------------------------------------------------
(***************************************************************************)
(* The end of a command.                                                   *)
(***************************************************************************)
\* When nothing is left to do, the locals that the command is made of have values.
LEMMA ValuesAreGiven ==
    ASSUME ParserInv, pc = "items", todo = <<>>
    PROVE  /\ \A name \in Given \cap NameLocals : locals[name] \in Identifier
           /\ \A name \in Given \cap NumberLocals : locals[name] \in 0 .. UINT32_MAX
           /\ \A name \in Given \cap ArgumentLocals :
                locals[name] \in Named /\ (~errorReported => locals[name] \in Identifier)
           /\ "kind" \in Given => locals["kind"] \in ShaderKind
           /\ "type" \in Given => locals["type"] \in UniformTypes
           /\ \A name \in DOMAIN Declared : HasType(command, name, locals[name])
<1>1. Given \subseteq DOMAIN locals
  BY DEF ParserInv, SuppliedInv, Supplied
<1>2. /\ DOMAIN Declared \subseteq DOMAIN locals
      /\ \A name \in DOMAIN locals : HasType(command, name, locals[name])
      /\ ~errorReported => \A name \in ArgumentLocals \cap DOMAIN locals :
                              locals[name] \in Identifier
  BY DEF ParserInv, LocalsInv
<1> HIDE DEF Given
<1>3. \A name \in Given : HasType(command, name, locals[name])
  BY <1>1, <1>2
<1>4. /\ \A name \in Given \cap NameLocals : locals[name] \in Identifier
      /\ \A name \in Given \cap NumberLocals : locals[name] \in 0 .. UINT32_MAX
      /\ \A name \in Given \cap ArgumentLocals : locals[name] \in Named
  BY <1>3 DEF HasType
<1>5. /\ "kind" \in Given => locals["kind"] \in ShaderKind
      /\ "type" \in Given => locals["type"] \in UniformTypes
  BY <1>3 DEF HasType
<1> QED
  BY <1>1, <1>2, <1>4, <1>5

\* The values of those that are declared with one.
LEMMA DeclaredValues ==
    ASSUME ParserInv, pc = "items", todo = <<>>
    PROVE  /\ locals["shaders"] \in Seq(Identifier)
           /\ locals["format"] \in Seq(FormatEntry)
           /\ command = "ASSERT_EQUAL" =>
                locals["format"] \in Seq([kind : FormatKind \ {"string"}, count : Nat])
           /\ locals["size"] \in Nat /\ locals["size"] % 4 = 0
           /\ \A k \in DOMAIN locals["vertices"] : locals["vertices"][k] \in Identifier
           /\ locals["attachments"] \subseteq (0 .. UINT32_MAX) \X Identifier
           /\ OneToOne(locals["attachments"])
<1>1. \A name \in {"shaders", "format", "size", "vertices", "attachments"} :
        HasType(command, name, locals[name])
  BY ValuesAreGiven DEF Declared
<1> QED
  BY <1>1 DEF HasType

\* Numbers that fit.
LEMMA NumbersFit ==
    \A n \in 0 .. UINT32_MAX : n \in Nat /\ n \in TextureUnit /\ n \in Binding
BY LimitsAssumption, UnitsAssumption

\* The commands whose operands are locals.
LEMMA MadeIsCommand ==
    ASSUME ParserInv, pc = "items", todo = <<>>, command \in CommandKeywords,
           command \notin {"ASSERT_EQUAL", "ASSERT_SIMILAR_EMD_HISTOGRAM", "RUN_GRAPHICS"}
    PROVE  /\ Made \in Creation \cup Use
           /\ Made.op = command
           /\ command = "CREATE_BUFFER" => Made.size = locals["size"]
<1>1. CASE command = "DECLARE_SHADER"
  <2>1. {"result", "kind"} \subseteq Given
    BY <1>1 DEF Given
  <2>2. /\ locals["result"] \in Identifier
        /\ locals["kind"] \in ShaderKind
    BY <2>1, ValuesAreGiven DEF NameLocals
  <2>3. Made \in DeclareShader /\ Made.op = command
    BY <1>1, <2>2 DEF Made, DeclareShader
  <2> QED
    BY <1>1, <2>3 DEF Creation
<1>2. CASE command = "COMPILE_SHADER"
  <2>1. {"result", "shader"} \subseteq Given
    BY <1>2 DEF Given
  <2>2. /\ locals["result"] \in Identifier
        /\ locals["shader"] \in Identifier
    BY <2>1, ValuesAreGiven DEF NameLocals
  <2>3. Made \in CompileShader /\ Made.op = command
    BY <1>2, <2>2 DEF Made, CompileShader
  <2> QED
    BY <1>2, <2>3 DEF Creation
<1>3. CASE command = "CREATE_PROGRAM"
  <2>1. {"result"} \subseteq Given
    BY <1>3 DEF Given
  <2>2. /\ locals["result"] \in Identifier
        /\ locals["shaders"] \in Seq(Identifier)
    BY <2>1, ValuesAreGiven, DeclaredValues DEF NameLocals
  <2>3. Made \in CreateProgram /\ Made.op = command
    BY <1>3, <2>2 DEF Made, CreateProgram
  <2> QED
    BY <1>3, <2>3 DEF Creation
<1>4. CASE command = "CREATE_BUFFER"
  <2>1. {"result"} \subseteq Given
    BY <1>4 DEF Given
  <2>2. /\ locals["result"] \in Identifier
        /\ locals["size"] \in Nat
    BY <2>1, ValuesAreGiven, DeclaredValues DEF NameLocals
  <2>3. Made \in CreateBuffer /\ Made.op = command
    BY <1>4, <2>2 DEF Made, CreateBuffer
  <2>4. Made.size = locals["size"]
    BY <1>4 DEF Made
  <2> QED
    BY <1>4, <2>3, <2>4 DEF Creation
<1>5. CASE command = "CREATE_SAMPLER"
  <2>1. {"result"} \subseteq Given
    BY <1>5 DEF Given
  <2>2. locals["result"] \in Identifier
    BY <2>1, ValuesAreGiven DEF NameLocals
  <2>3. Made \in CreateSampler /\ Made.op = command
    BY <1>5, <2>2 DEF Made, CreateSampler
  <2> QED
    BY <1>5, <2>3 DEF Creation
<1>6. CASE command = "CREATE_EMPTY_TEXTURE_2D"
  <2>1. {"result"} \subseteq Given
    BY <1>6 DEF Given
  <2>2. locals["result"] \in Identifier
    BY <2>1, ValuesAreGiven DEF NameLocals
  <2>3. Made \in CreateEmptyTexture2D /\ Made.op = command
    BY <1>6, <2>2 DEF Made, CreateEmptyTexture2D
  <2> QED
    BY <1>6, <2>3 DEF Creation
<1>7. CASE command = "CREATE_RENDERBUFFER"
  <2>1. {"result", "width", "height"} \subseteq Given
    BY <1>7 DEF Given
  <2>2. /\ locals["result"] \in Identifier
        /\ locals["width"] \in Nat
        /\ locals["height"] \in Nat
    BY <2>1, ValuesAreGiven, NumbersFit DEF NameLocals, NumberLocals
  <2>3. Made \in CreateRenderbuffer /\ Made.op = command
    BY <1>7, <2>2 DEF Made, CreateRenderbuffer
  <2> QED
    BY <1>7, <2>3 DEF Creation
<1>8. CASE command = "BIND_SAMPLER"
  <2>1. {"sampler", "unit"} \subseteq Given
    BY <1>8 DEF Given
  <2>2. /\ locals["sampler"] \in Identifier
        /\ locals["unit"] \in TextureUnit
    BY <2>1, ValuesAreGiven, NumbersFit DEF NameLocals, NumberLocals
  <2>3. Made \in BindSampler /\ Made.op = command
    BY <1>8, <2>2 DEF Made, BindSampler
  <2> QED
    BY <1>8, <2>3 DEF Use
<1>9. CASE command = "BIND_TEXTURE"
  <2>1. {"texture", "unit"} \subseteq Given
    BY <1>9 DEF Given
  <2>2. /\ locals["texture"] \in Identifier
        /\ locals["unit"] \in TextureUnit
    BY <2>1, ValuesAreGiven, NumbersFit DEF NameLocals, NumberLocals
  <2>3. Made \in BindTexture /\ Made.op = command
    BY <1>9, <2>2 DEF Made, BindTexture
  <2> QED
    BY <1>9, <2>3 DEF Use
<1>10. CASE command = "BIND_SHADER_STORAGE_BUFFER"
  <2>1. {"buffer", "binding"} \subseteq Given
    BY <1>10 DEF Given
  <2>2. /\ locals["buffer"] \in Identifier
        /\ locals["binding"] \in Binding
    BY <2>1, ValuesAreGiven, NumbersFit DEF NameLocals, NumberLocals
  <2>3. Made \in BindShaderStorageBuffer /\ Made.op = command
    BY <1>10, <2>2 DEF Made, BindShaderStorageBuffer
  <2> QED
    BY <1>10, <2>3 DEF Use
<1>11. CASE command = "BIND_UNIFORM_BUFFER"
  <2>1. {"buffer", "binding"} \subseteq Given
    BY <1>11 DEF Given
  <2>2. /\ locals["buffer"] \in Identifier
        /\ locals["binding"] \in Binding
    BY <2>1, ValuesAreGiven, NumbersFit DEF NameLocals, NumberLocals
  <2>3. Made \in BindUniformBuffer /\ Made.op = command
    BY <1>11, <2>2 DEF Made, BindUniformBuffer
  <2> QED
    BY <1>11, <2>3 DEF Use
<1>12. CASE command = "ASSERT_PIXELS"
  <2>1. {"renderbuffer", "x", "y", "width", "height"} \subseteq Given
    BY <1>12 DEF Given
  <2>2. /\ locals["renderbuffer"] \in Identifier
        /\ locals["x"] \in Nat
        /\ locals["y"] \in Nat
        /\ locals["width"] \in Nat
        /\ locals["height"] \in Nat
    BY <2>1, ValuesAreGiven, NumbersFit DEF NameLocals, NumberLocals
  <2>3. Made \in AssertPixels /\ Made.op = command
    BY <1>12, <2>2 DEF Made, AssertPixels
  <2> QED
    BY <1>12, <2>3 DEF Use
<1>13. CASE command = "DUMP_RENDERBUFFER"
  <2>1. {"renderbuffer"} \subseteq Given
    BY <1>13 DEF Given
  <2>2. locals["renderbuffer"] \in Identifier
    BY <2>1, ValuesAreGiven DEF NameLocals
  <2>3. Made \in DumpRenderbuffer /\ Made.op = command
    BY <1>13, <2>2 DEF Made, DumpRenderbuffer
  <2> QED
    BY <1>13, <2>3 DEF Use
<1>14. CASE command = "DUMP_BUFFER_BINARY"
  <2>1. {"buffer"} \subseteq Given
    BY <1>14 DEF Given
  <2>2. locals["buffer"] \in Identifier
    BY <2>1, ValuesAreGiven DEF NameLocals
  <2>3. Made \in DumpBufferBinary /\ Made.op = command
    BY <1>14, <2>2 DEF Made, DumpBufferBinary
  <2> QED
    BY <1>14, <2>3 DEF Use
<1>15. CASE command = "DUMP_BUFFER_TEXT"
  <2>1. {"buffer"} \subseteq Given
    BY <1>15 DEF Given
  <2>2. /\ locals["buffer"] \in Identifier
        /\ locals["format"] \in Seq(FormatEntry)
    BY <2>1, ValuesAreGiven, DeclaredValues DEF NameLocals
  <2>3. Made \in DumpBufferText /\ Made.op = command
    BY <1>15, <2>2 DEF Made, DumpBufferText
  <2> QED
    BY <1>15, <2>3 DEF Use
<1>16. CASE command = "RUN_COMPUTE"
  <2>1. {"program"} \subseteq Given
    BY <1>16 DEF Given
  <2>2. locals["program"] \in Identifier
    BY <2>1, ValuesAreGiven DEF NameLocals
  <2>3. Made \in RunCompute /\ Made.op = command
    BY <1>16, <2>2 DEF Made, RunCompute
  <2> QED
    BY <1>16, <2>3 DEF Use
<1>17. CASE command = "SET_SAMPLER_PARAMETER"
  <2>1. {"sampler"} \subseteq Given
    BY <1>17 DEF Given
  <2>2. locals["sampler"] \in Identifier
    BY <2>1, ValuesAreGiven DEF NameLocals
  <2>3. Made \in SetSamplerParameter /\ Made.op = command
    BY <1>17, <2>2 DEF Made, SetSamplerParameter
  <2> QED
    BY <1>17, <2>3 DEF Use
<1>18. CASE command = "SET_TEXTURE_PARAMETER"
  <2>1. {"texture"} \subseteq Given
    BY <1>18 DEF Given
  <2>2. locals["texture"] \in Identifier
    BY <2>1, ValuesAreGiven DEF NameLocals
  <2>3. Made \in SetTextureParameter /\ Made.op = command
    BY <1>18, <2>2 DEF Made, SetTextureParameter
  <2> QED
    BY <1>18, <2>3 DEF Use
<1>19. CASE command = "SET_UNIFORM"
  <2>1. {"program", "type"} \subseteq Given
    BY <1>19 DEF Given
  <2>2. /\ locals["program"] \in Identifier
        /\ locals["type"] \in UniformTypes
    BY <2>1, ValuesAreGiven DEF NameLocals
  <2>3. Made \in SetUniform /\ Made.op = command
    <3>1. ClassOf(locals["type"]) \in UniformClass
      BY DEF ClassOf, UniformClass
    <3> QED
      BY <1>19, <2>2, <3>1 DEF Made, SetUniform
  <2> QED
    BY <1>19, <2>3 DEF Use
<1> QED
  BY <1>1, <1>2, <1>3, <1>4, <1>5, <1>6, <1>7, <1>8, <1>9, <1>10,
     <1>11, <1>12, <1>13, <1>14, <1>15, <1>16, <1>17, <1>18, <1>19 DEF CommandKeywords

\* A draw: its vertex buffers are identifiers, and its attachments a one-to-one map.
LEMMA MadeIsDraw ==
    ASSUME ParserInv, pc = "items", todo = <<>>, command = "RUN_GRAPHICS"
    PROVE  Made \in RunGraphics /\ OneToOne(Made.attachments)
<1>1. {"program", "index_data"} \subseteq Given
  BY DEF Given
<1>2. locals["program"] \in Identifier /\ locals["index_data"] \in Identifier
  BY <1>1, ValuesAreGiven DEF NameLocals
<1>3. Range(locals["vertices"]) \subseteq Identifier
  BY DeclaredValues DEF Range
<1>4. locals["attachments"] \subseteq Nat \X Identifier /\ OneToOne(locals["attachments"])
  BY DeclaredValues, NumbersFit
<1>5. Made = [op |-> "RUN_GRAPHICS", program |-> locals["program"],
              indexBuffer |-> locals["index_data"],
              vertexBuffers |-> Range(locals["vertices"]),
              attachments |-> locals["attachments"]]
  BY DEF Made
<1> QED
  BY <1>2, <1>3, <1>4, <1>5 DEF RunGraphics

\* A comparison: its arguments are identifiers, unless there was a complaint.
LEMMA MadeIsComparison ==
    ASSUME ParserInv, pc = "items", todo = <<>>,
           command \in {"ASSERT_EQUAL", "ASSERT_SIMILAR_EMD_HISTOGRAM"}
    PROVE  /\ Made \in Complained
           /\ ~errorReported => Made \in Use
           /\ Made.op \notin {"CREATE_BUFFER", "RUN_GRAPHICS"}
<1>1. {"first", "second"} \subseteq Given
  BY DEF Given
<1>2. /\ locals["first"] \in Named /\ locals["second"] \in Named
      /\ ~errorReported => locals["first"] \in Identifier /\ locals["second"] \in Identifier
  BY <1>1, ValuesAreGiven DEF ArgumentLocals
<1>3. CASE command = "ASSERT_EQUAL" /\ ~OfRenderbuffers
  <2>1. locals["format"] \in Seq([kind : FormatKind \ {"string"}, count : Nat])
    BY <1>3, DeclaredValues
  <2>2. Made = [op |-> "ASSERT_EQUAL_BUFFERS", format |-> locals["format"],
                arguments |-> <<locals["first"], locals["second"]>>]
    BY <1>3 DEF Made
  <2> QED
    BY <1>2, <2>1, <2>2 DEF Complained, Use, AssertEqualBuffers
<1>4. CASE command = "ASSERT_EQUAL" /\ OfRenderbuffers
  <2>1. Made = [op |-> "ASSERT_EQUAL_RENDERBUFFERS",
                arguments |-> <<locals["first"], locals["second"]>>]
    BY <1>4 DEF Made
  <2> QED
    BY <1>2, <2>1 DEF Complained, Use, AssertEqualRenderbuffers
<1>5. CASE command = "ASSERT_SIMILAR_EMD_HISTOGRAM"
  <2>1. Made = [op |-> "ASSERT_SIMILAR_EMD_HISTOGRAM",
                arguments |-> <<locals["first"], locals["second"]>>]
    BY <1>5 DEF Made
  <2> QED
    BY <1>2, <2>1 DEF Complained, Use, AssertSimilarEmdHistogram
<1> QED
  BY <1>3, <1>4, <1>5

\* Whatever the command, its record may be added.
LEMMA MadeIs ==
    ASSUME ParserInv, pc = "items", todo = <<>>
    PROVE  /\ Made \in Creation \cup Use \cup Complained
           /\ ~errorReported => Made \in Creation \cup Use
           /\ Made.op = "RUN_GRAPHICS" => OneToOne(Made.attachments)
<1>1. command \in CommandKeywords
  BY DEF ParserInv
<1>2. CASE command = "RUN_GRAPHICS"
  <2>1. Made.op = "RUN_GRAPHICS"
    BY <1>2 DEF Made
  <2> QED
    BY <1>2, <2>1, MadeIsDraw DEF Use
<1>3. CASE command \in {"ASSERT_EQUAL", "ASSERT_SIMILAR_EMD_HISTOGRAM"}
  BY <1>3, MadeIsComparison
<1>4. CASE command \notin {"ASSERT_EQUAL", "ASSERT_SIMILAR_EMD_HISTOGRAM", "RUN_GRAPHICS"}
  <2>1. /\ Made \in Creation \cup Use
        /\ Made.op = command
    BY <1>1, <1>4, MadeIsCommand
  <2> QED
    BY <1>4, <2>1
<1> QED
  BY <1>2, <1>3, <1>4

\* Its record is added, or there is a reason not to.
LEMMA FinishCommandKeepsInv == ASSUME ParserInv, FinishCommand PROVE ParserInv'
<1>1. /\ pc = "items" /\ todo = <<>>
      /\ \/ /\ program' = Append(program, Made)
            /\ pc' = "commands"
            /\ locals' = EmptyMap
            /\ UNCHANGED <<next, todo, command, version, errorReported>>
         \/ Throw
         \/ Refuse
  BY DEF FinishCommand
<1>2. CASE Throw
  BY <1>2, StopKeepsInv DEF Throw, Ended
<1>3. CASE Refuse
  BY <1>3, StopKeepsInv DEF Refuse, Ended
<1>4. ASSUME program' = Append(program, Made), pc' = "commands", locals' = EmptyMap,
             UNCHANGED <<next, todo, command, version, errorReported>>
      PROVE  ParserInv'
  <2> DEFINE made == Made
  <2>1. /\ made \in Creation \cup Use \cup Complained
        /\ ~errorReported => made \in Creation \cup Use
        /\ made.op = "RUN_GRAPHICS" => OneToOne(made.attachments)
    BY <1>1, MadeIs
  <2>2. program' = Append(program, made)
    BY <1>4
  <2> HIDE DEF made
  <2>3. DOMAIN EmptyMap = {}
    BY DEF EmptyMap
  <2>4. TypeOK'
    BY <1>1, <1>4, <2>3 DEF ParserInv, TypeOK
  <2>5. IsToken(next')
    BY <1>4 DEF ParserInv
  <2>6. ItemsInv' /\ AttachmentInv'
    BY <1>1, <1>4 DEF ParserInv, TypeOK, ItemsInv, Nested, AttachmentInv
  <2>7. SuppliedInv' /\ UniformInv' /\ LocalsInv'
    BY <1>4 DEF SuppliedInv, UniformInv, LocalsInv
  <2>8. ProgramInv'
    <3>1. /\ program \in Seq(Creation \cup Use \cup Complained)
          /\ ~errorReported => program \in Seq(Creation \cup Use)
          /\ AttachmentsAreOneToOne
      BY DEF ParserInv, ProgramInv
    <3>2. /\ program' \in Seq(Creation \cup Use \cup Complained)
          /\ ~errorReported' => program' \in Seq(Creation \cup Use)
      BY <1>4, <2>1, <2>2, <3>1
    <3>3. \A i \in DOMAIN program' : \/ i \in DOMAIN program /\ program'[i] = program[i]
                                    \/ program'[i] = made
      BY <2>1, <2>2, <3>1
    <3>4. AttachmentsAreOneToOne'
      BY <2>1, <3>1, <3>3 DEF AttachmentsAreOneToOne, OneToOne
    <3> QED
      BY <3>2, <3>4 DEF ProgramInv
  <2> QED
    BY <1>1, <1>4, <2>4, <2>5, <2>6, <2>7, <2>8 DEF ParserInv
<1> QED
  BY <1>1, <1>2, <1>3, <1>4

-----------------------------------------------------------------------------
(***************************************************************************)
(* The invariant, and what it gives.                                       *)
(***************************************************************************)
\* It holds at the start.
LEMMA InitGivesInv == ASSUME Init PROVE ParserInv
<1>1. DOMAIN EmptyMap = {} /\ IsToken(Unread)
  BY DEF EmptyMap, IsToken, Unread
<1>2. TypeOK
  BY <1>1 DEF Init, TypeOK, Ended, ApiVersions, Api, GL
<1>3. ItemsInv /\ AttachmentInv
  BY DEF Init, ItemsInv, Nested, AttachmentInv
<1>4. SuppliedInv /\ UniformInv /\ LocalsInv
  BY DEF Init, SuppliedInv, UniformInv, LocalsInv
<1>5. ProgramInv
  BY DEF Init, ProgramInv, AttachmentsAreOneToOne
<1> QED
  BY <1>1, <1>2, <1>3, <1>4, <1>5 DEF Init, ParserInv

\* Every step of the parser keeps it.
LEMMA NextKeepsInv == ASSUME ParserInv, [Next]_parserVars PROVE ParserInv'
<1>1. CASE ParseApi
  BY <1>1, ParseApiKeepsInv
<1>2. CASE ParseApiVersion
  BY <1>2, ParseApiVersionKeepsInv
<1>3. CASE ParseCommand
  BY <1>3, ParseCommandKeepsInv
<1>4. CASE ReadKeyword
  BY <1>4, ReadKeywordKeepsInv
<1>5. CASE ReadOneOf
  BY <1>5, ReadOneOfKeepsInv
<1>6. CASE ReadSymbol
  BY <1>6, ReadSymbolKeepsInv
<1>7. CASE ReadBracket
  BY <1>7, ReadBracketKeepsInv
<1>8. CASE ReadLiteral
  BY <1>8, ReadLiteralKeepsInv
<1>9. CASE ReadArgument
  BY <1>9, ReadArgumentKeepsInv
<1>10. CASE ReadNumber
  BY <1>10, ReadNumberKeepsInv
<1>11. CASE ReadCount
  BY <1>11, ReadCountKeepsInv
<1>12. CASE ReadLocation
  BY <1>12, ReadLocationKeepsInv
<1>13. CASE ReadAttachment
  BY <1>13, ReadAttachmentKeepsInv
<1>14. CASE ReadParameter
  BY <1>14, ReadParameterKeepsInv
<1>15. CASE EndParameters
  BY <1>15, EndParametersKeepsInv
<1>16. CASE ReadFormat
  BY <1>16, ReadFormatKeepsInv
<1>17. CASE ReadSegmentLiteral
  BY <1>17, ReadSegmentLiteralKeepsInv
<1>18. CASE EndSegment
  BY <1>18, EndSegmentKeepsInv
<1>19. CASE ReadShaders
  BY <1>19, ReadShadersKeepsInv
<1>20. CASE ReadArraySize
  BY <1>20, ReadArraySizeKeepsInv
<1>21. CASE ReadValues
  BY <1>21, ReadValuesKeepsInv
<1>22. CASE ReadEntries
  BY <1>22, ReadEntriesKeepsInv
<1>23. CASE EndEntry
  BY <1>23, EndEntryKeepsInv
<1>24. CASE ReadText
  BY <1>24, ReadTextKeepsInv
<1>25. CASE FinishCommand
  BY <1>25, FinishCommandKeepsInv
<1>26. CASE UNCHANGED parserVars
  <2>1. UNCHANGED <<pc, next, todo, command, locals, program, version, errorReported>>
    BY <1>26 DEF parserVars
  <2>2. TypeOK' /\ IsToken(next')
    BY <2>1 DEF ParserInv, TypeOK
  <2>3. ItemsInv' /\ AttachmentInv'
    BY <2>1 DEF ParserInv, ItemsInv, AttachmentInv, LocationIsNew
  <2>4. Given' = Given
    BY <2>1 DEF Given
  <2>5. SuppliedInv' /\ UniformInv' /\ LocalsInv'
    BY <2>1, <2>4 DEF ParserInv, SuppliedInv, UniformInv, LocalsInv
  <2>6. ProgramInv'
    BY <2>1 DEF ParserInv, ProgramInv, AttachmentsAreOneToOne
  <2> QED
    BY <2>1, <2>2, <2>3, <2>5, <2>6 DEF ParserInv
<1> QED
  BY <1>1, <1>2, <1>3, <1>4, <1>5, <1>6, <1>7, <1>8, <1>9, <1>10, <1>11, <1>12, <1>13,
     <1>14, <1>15, <1>16, <1>17, <1>18, <1>19, <1>20, <1>21, <1>22, <1>23, <1>24, <1>25,
     <1>26 DEF Next

\* The inductive invariant of the parser: what is left to do is nested as the methods
\* are, and gives every local a value before it is needed.
THEOREM ParserIsInvariant == Spec => []ParserInv
<1>1. Init => ParserInv
  BY InitGivesInv
<1>2. ParserInv /\ [Next]_parserVars => ParserInv'
  BY NextKeepsInv
<1> QED
  BY <1>1, <1>2, PTL DEF Spec

\* Every variable keeps its type, and every number its 32 bits (Parser::ParseUint32).
THEOREM ParserKeepsTypes == Spec => []TypeOK
<1>1. ParserInv => TypeOK
  BY DEF ParserInv
<1> QED
  BY <1>1, ParserIsInvariant, PTL

\* No command is built from a variable that its parameters have not given a value, and a
\* uniform is found in just one way (Parser::ParseParameters and its callers).
THEOREM CommandsAreBuiltFromGivenValues == Spec => []BuiltFromGivenValues
<1>1. ParserInv => BuiltFromGivenValues
  <2> SUFFICES ASSUME ParserInv PROVE BuiltFromGivenValues
    OBVIOUS
  <2>1. ASSUME pc = "items", todo = <<>>
        PROVE  /\ Given \subseteq DOMAIN locals
               /\ command = "SET_UNIFORM" =>
                    ("uniform_location" \in DOMAIN locals) # ("name" \in DOMAIN locals)
    <3>1. Given \subseteq DOMAIN locals
      BY <2>1 DEF ParserInv, SuppliedInv, Supplied
    <3>2. command = "SET_UNIFORM" =>
            ("uniform_location" \in DOMAIN locals) # ("name" \in DOMAIN locals)
      BY <2>1 DEF ParserInv, UniformInv
    <3> QED
      BY <3>1, <3>2
  <2>2. ASSUME Doing("end_of_entry"), current.entry = "vertex_attribute"
        PROVE  AttributeLocals \subseteq DOMAIN locals
    <3>1. pc = "items" /\ todo # <<>> /\ current.item = "end_of_entry"
      BY <2>2 DEF Doing
    <3>2. Demands(current) \subseteq DOMAIN locals
      BY <3>1, CurrentIs
    <3> QED
      BY <2>2, <3>1, <3>2 DEF Demands
  <2> QED
    BY <2>1, <2>2 DEF BuiltFromGivenValues
<1> QED
  BY <1>1, ParserIsInvariant, PTL

\* A script accepted without complaint has a supported version, and commands that the
\* checker and the executor are made for (Parser::Parse).
THEOREM AcceptedScriptsAreScripts == Spec => []ProducesScripts
<1>1. ParserInv => ProducesScripts
  BY DEF ParserInv, ProgramInv, ProducesScripts
<1> QED
  BY <1>1, ParserIsInvariant, PTL

\* Only at the end of a command is one added to the program.
LEMMA OnlyFinishCommandMakes == ASSUME Next, program' # program PROVE FinishCommand
<1> USE DEF Refuse, Throw, Stop, GoOn
<1>1. ~(\/ ReadKeyword \/ ReadOneOf \/ ReadSymbol \/ ReadBracket \/ ReadLiteral
        \/ ReadArgument \/ ReadNumber \/ ReadCount \/ ReadLocation \/ ReadAttachment)
  BY DEF ReadKeyword, ReadOneOf, ReadSymbol, ReadBracket, ReadLiteral, ReadArgument,
         ReadNumber, ReadCount, ReadLocation, ReadAttachment, Takes
<1>2. ~(ParseApi \/ ParseApiVersion \/ ParseCommand)
  BY DEF ParseApi, ParseApiVersion, ParseCommand
<1>3. ~(ReadParameter \/ EndParameters \/ ReadFormat \/ ReadShaders)
  BY DEF ReadParameter, EndParameters, ReadFormat, ReadShaders
<1>4. ~(ReadSegmentLiteral \/ EndSegment \/ ReadArraySize \/ ReadValues)
  BY DEF ReadSegmentLiteral, EndSegment, ReadArraySize, ReadValues
<1>5. ~(ReadEntries \/ EndEntry \/ ReadText)
  BY DEF ReadEntries, EndEntry, ReadText
<1> QED
  BY <1>1, <1>2, <1>3, <1>4, <1>5 DEF Next

\* Every buffer has the size its SIZE_BYTES says, and whole words
\* (Parser::ParseCommandCreateBuffer).
THEOREM ParsedBuffersAreAsDeclared == Spec => BuffersAreAsDeclared
<1> DEFINE AsDeclared ==
             command = "CREATE_BUFFER" /\ program' # program =>
               /\ program'[Len(program')].size = locals.size_bytes
               /\ locals.size_bytes % 4 = 0
<1>1. ParserInv /\ [Next]_parserVars => [AsDeclared]_parserVars
  <2> SUFFICES ASSUME ParserInv, Next, command = "CREATE_BUFFER", program' # program
               PROVE  /\ program'[Len(program')].size = locals.size_bytes
                      /\ locals.size_bytes % 4 = 0
    OBVIOUS
  <2> DEFINE made == Made
  <2>1. /\ pc = "items" /\ todo = <<>> /\ program' = Append(program, made)
        /\ locals.size_bytes = locals.size
    BY OnlyFinishCommandMakes DEF FinishCommand, Acceptable, Refuse, Throw, Stop
  <2>2. made.size = locals.size
    BY <2>1, MadeIsCommand DEF CommandKeywords
  <2>3. locals.size % 4 = 0
    BY <2>1, DeclaredValues
  <2> HIDE DEF made
  <2>4. program'[Len(program')] = made
    BY <2>1 DEF ParserInv, ProgramInv
  <2> QED
    BY <2>1, <2>2, <2>3, <2>4
<1> QED
  BY <1>1, ParserIsInvariant, PTL DEF Spec, BuffersAreAsDeclared

\* A location, and what is attached, occurs once in a draw
\* (Parser::ParseCommandRunGraphics).
THEOREM ParsedAttachmentsAreOneToOne == Spec => []AttachmentsAreOneToOne
<1>1. ParserInv => AttachmentsAreOneToOne
  BY DEF ParserInv, ProgramInv
<1> QED
  BY <1>1, ParserIsInvariant, PTL

-----------------------------------------------------------------------------
(***************************************************************************)
(* The parser gets on.  Of ParseEnds this is the part that is about the    *)
(* parser: a script has finitely many tokens, and between two of them the  *)
(* steps are counted down.                                                 *)
(***************************************************************************)
\* A token that is looked at is left behind.
PassesToken == next' = Unread /\ \E t \in Ahead : Passed(t) = Unread

\* Items that cannot be done without passing a token.
Numerals == {"number", "location"}

\* How many steps can come before the next token is passed.  Most items may leave the token
\* to the one after it; the list of entries puts a new entry in front, with a number first.
Lingering ==
    IF pc # "items" \/ (todo # <<>> /\ current.item \in Numerals) THEN 0 ELSE Len(todo) + 1

\* Passing a token, unfolded.
LEMMA PassesIs ==
    ASSUME ParserInv, NEW t \in Ahead
    PROVE  /\ t.type \notin {"EOS", "unknown"} => Passed(t) = Unread
           /\ t.text # "" => Passed(t) = Unread
<1>1. IsToken(t)
  BY AheadIsToken
<1> QED
  BY <1>1 DEF IsToken, Passed

\* Within a command the number is one, and an item taken off makes it smaller if the item
\* is none of those that pass a token anyway.
LEMMA LessLeft ==
    ASSUME ParserInv, pc = "items"
    PROVE  /\ Lingering \in Nat
           /\ todo = <<>> => Lingering = 1
           /\ todo # <<>> /\ current.item \notin Numerals =>
                /\ Lingering = Len(todo) + 1 /\ Len(todo) > 0
                /\ todo' = Tail(todo) /\ pc' = pc => Lingering' < Lingering
                /\ todo' # <<>> /\ Head(todo').item \in Numerals => Lingering' < Lingering
<1>1. todo \in Seq(LegalItem)
  BY DEF ParserInv, ItemsInv
<1>2. Lingering \in Nat /\ (todo = <<>> => Lingering = 1)
  BY <1>1 DEF Lingering
<1>3. ASSUME todo # <<>>, current.item \notin Numerals
      PROVE  Lingering = Len(todo) + 1 /\ Len(todo) > 0
  BY <1>1, <1>3 DEF Lingering
<1>4. ASSUME todo # <<>>, current.item \notin Numerals, todo' = Tail(todo), pc' = pc
      PROVE  Lingering' < Lingering
  <2>1. Len(Tail(todo)) = Len(todo) - 1 /\ Len(todo) \in Nat \ {0}
    BY <1>1, <1>4
  <2>2. Lingering' = 0 \/ Lingering' = Len(todo') + 1
    BY DEF Lingering
  <2> QED
    BY <1>3, <1>4, <2>1, <2>2
<1>5. ASSUME todo # <<>>, current.item \notin Numerals,
             todo' # <<>>, Head(todo').item \in Numerals
      PROVE  Lingering' < Lingering
  <2>1. Lingering' = 0
    BY <1>5 DEF Lingering, current
  <2> QED
    BY <1>1, <1>3, <1>5, <2>1
<1> QED
  BY <1>2, <1>3, <1>4, <1>5

GetsOn == pc' \in Ended \/ PassesToken \/ Lingering' < Lingering

\* Taking one token: either it is passed, or the item is one that can do without.
LEMMA TakesGetsOn ==
    ASSUME ParserInv, pc = "items", todo # <<>>, NEW t \in Ahead, NEW assigned,
           NEW error \in BOOLEAN, GoOn(Passed(t), <<>>, assigned, error),
           current.item \in Numerals => t.type = "int_literal"
    PROVE  GetsOn
<1>1. next' = Passed(t) /\ todo' = Tail(todo) /\ pc' = pc
  <2>1. todo' = <<>> \o Tail(todo) /\ todo \in Seq(LegalItem)
    BY GoOnIs DEF ParserInv, ItemsInv
  <2> QED
    BY <2>1, GoOnIs
<1>2. CASE Passed(t) = Unread
  BY <1>1, <1>2 DEF GetsOn, PassesToken
<1>3. CASE Passed(t) # Unread
  <2>1. current.item \notin Numerals
    BY <1>3, PassesIs
  <2> QED
    BY <1>1, <2>1, LessLeft DEF GetsOn
<1> QED
  BY <1>2, <1>3

\* Leaving the token to the next item.
LEMMA LeavingGetsOn ==
    ASSUME ParserInv, pc = "items", todo # <<>>, current.item \notin Numerals,
           NEW t, NEW assigned, NEW error \in BOOLEAN, GoOn(t, <<>>, assigned, error)
    PROVE  GetsOn
<1>1. todo' = <<>> \o Tail(todo) /\ todo \in Seq(LegalItem) /\ pc' = pc
  BY GoOnIs DEF ParserInv, ItemsInv
<1> QED
  BY <1>1, LessLeft DEF GetsOn

\* Going on with the token passed.
LEMMA PassingGetsOn ==
    ASSUME ParserInv, NEW t \in Ahead, NEW items, NEW assigned, NEW error \in BOOLEAN,
           GoOn(Unread, items, assigned, error),
           t.type \notin {"EOS", "unknown"} \/ t.text # ""
    PROVE  GetsOn
BY PassesIs, GoOnIs DEF GetsOn, PassesToken

\* The items that take one token.
SingleItem ==
    \/ ReadKeyword \/ ReadOneOf \/ ReadSymbol \/ ReadBracket \/ ReadLiteral
    \/ ReadArgument \/ ReadNumber \/ ReadCount \/ ReadLocation \/ ReadAttachment

\* Each of them stops the parse or takes its token.
LEMMA SingleItemsTake ==
    ASSUME SingleItem
    PROVE  /\ pc = "items" /\ todo # <<>>
           /\ \E t \in Ahead :
                \/ pc' \in Ended
                \/ /\ current.item \in Numerals => t.type = "int_literal"
                   /\ \E error \in BOOLEAN : \E assigned : GoOn(Passed(t), <<>>, assigned, error)
<1> USE DEF Takes, Doing, Refuse, Throw, Stop, Ended, Never, Numerals
<1>1. CASE ReadKeyword
  BY <1>1 DEF ReadKeyword, Never, Listed, Unchanged
<1>2. CASE ReadOneOf
  BY <1>2 DEF ReadOneOf, Never, Listed, Text
<1>3. CASE ReadSymbol
  BY <1>3 DEF ReadSymbol, Never, Unchanged
<1>4. CASE ReadBracket
  BY <1>4 DEF ReadBracket, Never, Always, Unchanged
<1>5. CASE ReadLiteral
  BY <1>5 DEF ReadLiteral, Never, Text
<1>6. CASE ReadArgument
  BY <1>6 DEF ReadArgument, Never, Always
<1>7. CASE ReadNumber
  BY <1>7 DEF ReadNumber, OutOfRange, IsNumber, Never
<1>8. CASE ReadCount
  BY <1>8 DEF ReadCount, OutOfRange, IsNumber, Never
<1>9. CASE ReadLocation
  BY <1>9 DEF ReadLocation, OutOfRange, IsNumber, Never
<1>10. CASE ReadAttachment
  BY <1>10 DEF ReadAttachment, Never
<1> QED
  BY <1>1, <1>2, <1>3, <1>4, <1>5, <1>6, <1>7, <1>8, <1>9, <1>10 DEF SingleItem

\* What takes one token gets on.
LEMMA SingleItemsGetOn == ASSUME ParserInv, SingleItem PROVE GetsOn
<1>1. PICK t \in Ahead :
        \/ pc' \in Ended
        \/ /\ current.item \in Numerals => t.type = "int_literal"
           /\ \E error \in BOOLEAN : \E assigned : GoOn(Passed(t), <<>>, assigned, error)
  BY SingleItemsTake
<1>2. pc = "items" /\ todo # <<>>
  BY SingleItemsTake
<1>3. CASE pc' \in Ended
  BY <1>3 DEF GetsOn
<1>4. CASE pc' \notin Ended
  <2>1. PICK error \in BOOLEAN : \E assigned : GoOn(Passed(t), <<>>, assigned, error)
    BY <1>1, <1>4
  <2>2. PICK assigned : GoOn(Passed(t), <<>>, assigned, error)
    BY <2>1
  <2> QED
    BY <1>1, <1>2, <1>4, <2>2, TakesGetsOn
<1> QED
  BY <1>3, <1>4

\* The loops: each stops the parse, passes the token that keeps it going, or leaves the one
\* that does not.
Leaves(t) ==
    /\ pc = "items" /\ todo # <<>> /\ current.item \notin Numerals
    /\ \E assigned : GoOn(t, <<>>, assigned, FALSE)

Goes(t) ==
    /\ t.type \notin {"EOS", "unknown"} \/ t.text # ""
    /\ \E items, assigned : GoOn(Unread, items, assigned, FALSE)

\* What stops, goes or leaves gets on.
LEMMA LoopsGetOn ==
    ASSUME ParserInv, NEW t \in Ahead, pc' \in Ended \/ Leaves(t) \/ Goes(t)
    PROVE  GetsOn
<1>1. CASE pc' \in Ended
  BY <1>1 DEF GetsOn
<1>2. CASE Leaves(t)
  <2>1. PICK assigned : GoOn(t, <<>>, assigned, FALSE)
    BY <1>2 DEF Leaves
  <2> QED
    BY <1>2, <2>1, LeavingGetsOn DEF Leaves
<1>3. CASE Goes(t)
  <2>1. PICK items, assigned : GoOn(Unread, items, assigned, FALSE)
    BY <1>3 DEF Goes
  <2> QED
    BY <1>3, <2>1, PassingGetsOn DEF Goes
<1> QED
  BY <1>1, <1>2, <1>3

\* The loops of parameters, lists and values, and the rest of an entry.
Loop ==
    \/ ReadParameter \/ EndParameters \/ ReadFormat \/ ReadSegmentLiteral \/ EndSegment
    \/ ReadShaders \/ ReadArraySize \/ ReadValues \/ EndEntry \/ ReadText

\* Each of them does one of the three with a token.
LEMMA LoopsStopLeaveOrGo ==
    ASSUME Loop
    PROVE  pc' \in Ended \/ \E t \in Ahead : Leaves(t) \/ Goes(t)
<1> USE DEF Doing, Refuse, Throw, Stop, Ended, Numerals, Leaves, Goes
<1>1. CASE ReadParameter
  BY <1>1 DEF ReadParameter, IsKeyword
<1>2. CASE EndParameters
  BY <1>2 DEF EndParameters
<1>3. CASE ReadFormat
  BY <1>3 DEF ReadFormat
<1>4. CASE ReadSegmentLiteral
  BY <1>4 DEF ReadSegmentLiteral, LiteralOf
<1>5. CASE EndSegment
  BY <1>5 DEF EndSegment, IsKeyword
<1>6. CASE ReadShaders
  BY <1>6 DEF ReadShaders
<1>7. CASE ReadArraySize
  BY <1>7 DEF ReadArraySize
<1>8. CASE ReadValues
  BY <1>8 DEF ReadValues, IsLiteral
<1>9. CASE EndEntry
  BY <1>9 DEF EndEntry
<1>10. CASE ReadText
  BY <1>10 DEF ReadText
<1> QED
  BY <1>1, <1>2, <1>3, <1>4, <1>5, <1>6, <1>7, <1>8, <1>9, <1>10 DEF Loop

\* A list of entries ends with its bracket, or starts an entry that needs a number.
LEMMA ReadEntriesGetsOn == ASSUME ParserInv, ReadEntries PROVE GetsOn
<1> DEFINE y == [current EXCEPT !.before = @ + 1]
           items == EntryItems(current.entry) \o <<y>>
<1>1. pc = "items" /\ todo # <<>> /\ current.item = "entries"
  BY DEF ReadEntries, Doing
<1>2. PICK t \in Ahead :
        (t.text = "]" /\ GoOn(Unread, <<>>, locals, FALSE)) \/ GoOn(t, items, locals, FALSE)
  BY DEF ReadEntries
<1>3. CASE t.text = "]" /\ GoOn(Unread, <<>>, locals, FALSE)
  BY <1>3, PassingGetsOn
<1>4. CASE GoOn(t, items, locals, FALSE)
  <2>1. /\ current.entry \in EntryKinds /\ current.before \in Nat
        /\ current = [item |-> "entries", entry |-> current.entry, before |-> current.before]
    BY <1>1, CurrentIs, LegalItemsAre
  <2>2. y = [item |-> "entries", entry |-> current.entry, before |-> current.before + 1]
    BY <2>1
  <2>3. y \in LegalItem /\ y.item = "entries"
    BY <2>1, <2>2 DEF LegalItem
  <2> HIDE DEF y
  <2>4. BelongsTo(current, "RUN_GRAPHICS")
    BY <1>1, CurrentIs DEF BelongsTo
  <2>5. /\ Follows(current, items, "RUN_GRAPHICS")
        /\ Len(items) = 5 /\ items[1].item \in {"number", "location"}
    BY <1>1, <2>1, <2>3, <2>4, EntryItemsFollow
  <2> HIDE DEF items
  <2>6. todo' = items \o Tail(todo)
    BY <1>4, GoOnIs
  <2>7. items \in Seq(LegalItem) /\ Tail(todo) \in Seq(LegalItem)
    BY <1>1, <2>5 DEF Follows, ParserInv, ItemsInv
  <2>8. todo' # <<>> /\ Head(todo').item \in Numerals
    <3>1. \A s, r \in Seq(LegalItem) : Len(s) = 5 =>
            s \o r # <<>> /\ Head(s \o r) = s[1]
      OBVIOUS
    <3>2. todo' # <<>> /\ Head(todo') = items[1]
      BY <2>5, <2>6, <2>7, <3>1
    <3> QED
      BY <2>5, <3>2 DEF Numerals
  <2>9. current.item \notin Numerals
    BY <1>1 DEF Numerals
  <2> QED
    BY <1>1, <2>8, <2>9, LessLeft DEF GetsOn
<1> QED
  BY <1>2, <1>3, <1>4

\* Before and after a command.
LEMMA CommandsGetOn ==
    ASSUME ParserInv, ParseApi \/ ParseApiVersion \/ ParseCommand \/ FinishCommand,
           pc \in {"api", "api_version"} => next = Unread
    PROVE  GetsOn
<1> USE DEF Refuse, Throw, Stop, Ended, GetsOn
<1>1. CASE ParseApi
  <2>1. PICK t \in Ahead : pc' = "refused" \/ (IsKeyword(t, Api) /\ next' = next)
    BY <1>1 DEF ParseApi
  <2> QED
    BY <1>1, <2>1, PassesIs DEF ParseApi, PassesToken, IsKeyword
<1>2. CASE ParseApiVersion
  <2>1. PICK t \in Ahead : pc' = "refused" \/ (t.type = "float_literal" /\ next' = next)
    BY <1>2 DEF ParseApiVersion
  <2> QED
    BY <1>2, <2>1, PassesIs DEF ParseApiVersion, PassesToken
<1>3. CASE ParseCommand
  <2>1. PICK t \in Ahead :
          pc' \in {"accepted", "refused"} \/ (t.type = "keyword" /\ next' = Unread)
    BY <1>3 DEF ParseCommand, IsKeyword
  <2> QED
    BY <2>1, PassesIs DEF PassesToken
<1>4. CASE FinishCommand
  <2>1. Lingering = 1
    BY <1>4, LessLeft DEF FinishCommand
  <2>2. pc' = "commands" => Lingering' = 0
    BY DEF Lingering
  <2>3. pc' \in Ended \/ pc' = "commands"
    BY <1>4 DEF FinishCommand
  <2> QED
    BY <2>1, <2>2, <2>3
<1> QED
  BY <1>1, <1>2, <1>3, <1>4

\* Nothing is looked at before the version.
NothingAhead == pc \in {"api", "api_version"} => next = Unread

\* No step goes back to the version.
LEMMA NothingAheadStep ==
    ASSUME NothingAhead, [Next]_parserVars
    PROVE  NothingAhead'
<1> USE DEF NothingAhead
<1>1. CASE ParseApi
  BY <1>1 DEF ParseApi, Refuse, Stop
<1>2. CASE ParseApiVersion
  BY <1>2 DEF ParseApiVersion, Refuse, Stop
<1>3. CASE ParseCommand \/ FinishCommand
  BY <1>3 DEF ParseCommand, FinishCommand, Refuse, Throw, Stop
<1>4. CASE SingleItem
  <2>1. pc = "items" /\ \E t \in Ahead : pc' \in Ended \/ pc' = pc
    BY <1>4, SingleItemsTake DEF GoOn
  <2> QED
    BY <2>1 DEF Ended
<1>5. CASE Loop
  <2>1. pc' \in Ended \/ (pc' = pc /\ pc = "items")
    BY <1>5, LoopsStopLeaveOrGo
    DEF Leaves, Goes, GoOn, Loop, ReadParameter, EndParameters, ReadFormat,
        ReadSegmentLiteral, EndSegment, ReadShaders, ReadArraySize, ReadValues, EndEntry,
        ReadText, Doing
  <2> QED
    BY <2>1 DEF Ended
<1>6. CASE ReadEntries
  BY <1>6 DEF ReadEntries, Doing, GoOn
<1>7. CASE UNCHANGED parserVars
  BY <1>7 DEF parserVars
<1> QED
  BY <1>1, <1>2, <1>3, <1>4, <1>5, <1>6, <1>7 DEF Next, SingleItem, Loop

\* Every step of the parser ends the parse, passes a token, or is one of finitely many before
\* the next token; once the parse has ended there is none.  So a script of finitely many
\* tokens is parsed in finitely many steps, whatever they are (Parser::Parse).
THEOREM EveryStepGetsOn ==
    Spec => /\ [](Lingering \in Nat)
            /\ [][pc \notin Ended /\ GetsOn]_parserVars
<1>1. ParserInv => Lingering \in Nat
  BY LessLeft DEF Lingering
<1>2. ASSUME ParserInv, NothingAhead, Next PROVE pc \notin Ended /\ GetsOn
  <2>1. pc \notin Ended
    BY <1>2, SingleItemsTake
    DEF Next, ParseApi, ParseApiVersion, ParseCommand, FinishCommand, SingleItem,
        ReadParameter, EndParameters, ReadFormat, ReadSegmentLiteral, EndSegment, ReadShaders,
        ReadArraySize, ReadValues, EndEntry, ReadText, ReadEntries, Doing, Ended
  <2>2. ASSUME ParseApi \/ ParseApiVersion \/ ParseCommand \/ FinishCommand PROVE GetsOn
    BY <1>2, <2>2, CommandsGetOn DEF NothingAhead
  <2>3. ASSUME SingleItem PROVE GetsOn
    BY <1>2, <2>3, SingleItemsGetOn
  <2>4. ASSUME Loop PROVE GetsOn
    <3>1. CASE pc' \in Ended
      BY <3>1 DEF GetsOn
    <3>2. CASE pc' \notin Ended
      BY <1>2, <2>4, <3>2, LoopsStopLeaveOrGo, LoopsGetOn
    <3> QED
      BY <3>1, <3>2
  <2>5. ASSUME ReadEntries PROVE GetsOn
    BY <1>2, <2>5, ReadEntriesGetsOn
  <2> QED
    BY <1>2, <2>1, <2>2, <2>3, <2>4, <2>5 DEF Next, SingleItem, Loop
<1>3. ParserInv /\ NothingAhead /\ [Next]_parserVars => [pc \notin Ended /\ GetsOn]_parserVars
  BY <1>2
<1>4. Spec => []NothingAhead
  <2>1. Init => NothingAhead
    BY DEF Init, NothingAhead
  <2>2. NothingAhead /\ [Next]_parserVars => NothingAhead'
    BY NothingAheadStep
  <2> QED
    BY <2>1, <2>2, PTL DEF Spec
<1> QED
  BY <1>1, <1>3, <1>4, ParserIsInvariant, PTL DEF Spec
=============================================================================
