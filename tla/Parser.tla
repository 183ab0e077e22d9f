------------------------------- MODULE Parser -------------------------------
(***************************************************************************)
(* libshadertrap/parser.cc: a recursive-descent parser, one token of       *)
(* lookahead at a time.  What its methods and lambdas have still to do is  *)
(* the sequence "todo" of items, the next one first; a call replaces an    *)
(* item by those of the method called.  Returning false anywhere ends the  *)
(* parse, and so does the exception of a number std::stol, std::stoi or    *)
(* std::stof cannot convert, which nothing catches.                        *)
(*                                                                         *)
(* The script is not fixed: each token is chosen when it is first looked   *)
(* at.                                                                     *)
(***************************************************************************)
EXTENDS Script, Integers

CONSTANTS
    TokensAt(_, _),     \* the tokens that may come within a command, at an item
    MaxList,            \* bound: entries of a format, a map, a list of shaders, segments
    MaxLiterals,        \* bound: literals of a segment
    MaxValues,          \* bound: literals of VALUES
    UINT8_MAX, INT_MAX, UINT32_MAX, LONG_MAX

ASSUME LimitsAssumption ==
    /\ {UINT8_MAX, INT_MAX, UINT32_MAX, LONG_MAX} \subseteq Nat
    /\ UINT8_MAX < INT_MAX /\ INT_MAX < UINT32_MAX /\ INT_MAX <= LONG_MAX
ASSUME UnitsAssumption ==
    0 .. UINT32_MAX \subseteq TextureUnit /\ 0 .. UINT32_MAX \subseteq Binding
ASSUME BoundsAssumption == {MaxList, MaxLiterals, MaxValues} \subseteq Nat

VARIABLES
    pc,         \* which loop of the parser is running, or how it ended
    next,       \* the token the tokenizer yields next, if it has been looked at
    todo,       \* what is left to do for the command
    command,    \* the keyword of the command
    locals,     \* the local variables of its method that have a value
    program     \* parsed_commands_, as records of module Script

parserVars == <<pc, next, todo, command, locals, program, version, errorReported>>

(***************************************************************************)
(* Tokens.  A keyword, an identifier, a string and the punctuation have a  *)
(* text; that of a string may be anything.  A literal has a number, and a  *)
(* float literal tells whether it converts; an unknown token whether        *)
(* NextToken stays at it.                                                  *)
(***************************************************************************)
Keyword(text) == [type |-> "keyword", text |-> text]
IntLiteral(n) == [type |-> "int_literal", text |-> "0", number |-> n]
FloatLiteral(n, converts) ==
    [type |-> "float_literal", text |-> "0.0", number |-> n, converts |-> converts]
Unknown(stays) == [type |-> "unknown", text |-> "", stays |-> stays]
Unread == [type |-> "unread"]

IsKeyword(t, words) == t.type = "keyword" /\ t.text \in words

\* std::stol and std::stoi convert it: to a 64- or 32-bit number, as most says.
Converts(n, most) == n \in (-most - 1) .. most

\* PeekNextToken
Ahead ==
    IF next # Unread THEN {next}
    ELSE TokensAt(command, IF todo = <<>> THEN "none" ELSE Head(todo).item)

\* NextToken: the end of the script is never passed, nor is a character that starts
\* no token; a string up to a bad escape sequence, unknown as well, is.
Passed(t) == IF t.type = "EOS" \/ (t.type = "unknown" /\ t.stays) THEN t ELSE Unread

(***************************************************************************)
(* Items that take one token.                                              *)
(***************************************************************************)
Expect(words) == [item |-> "keyword", words |-> words]
Symbol(text) == [item |-> "symbol", text |-> text]
Literal(type, local) == [item |-> "literal", type |-> type, local |-> local]
Argument(local) == [item |-> "argument", local |-> local]
Number(local, most) == [item |-> "number", local |-> local, most |-> most]
Numbers(locs, most) == [i \in DOMAIN locs |-> Number(locs[i], most)]
OneOf(words, local) == [item |-> "one_of", words |-> words, local |-> local]
Bracket == [item |-> "bracket"]
Count(kind) == [item |-> "count", kind |-> kind, most |-> UINT32_MAX]
Location == [item |-> "location", most |-> UINT32_MAX]
Attachment == [item |-> "attachment"]

(***************************************************************************)
(* Items that take any number.                                             *)
(***************************************************************************)
Parameters(of) == [item |-> "parameters", of |-> of, observed |-> {}]
Format(strings) == [item |-> "format", strings |-> strings]
Segment(type, before) ==
    [item |-> "segments", type |-> type, literals |-> 0, before |-> before]
Entries(entry) == [item |-> "entries", entry |-> entry, before |-> 0]
Item(name) == [item |-> name]

(***************************************************************************)
(* The types of uniforms and the tables of ParseParameters.                *)
(***************************************************************************)
IntTypes == {"int", "ivec2", "ivec3", "ivec4", "sampler2D"}
UintTypes == {"uint", "uvec2", "uvec3", "uvec4"}
MatrixTypes ==
    {"mat2x2", "mat2x3", "mat2x4", "mat3x2", "mat3x3", "mat3x4", "mat4x2", "mat4x3",
     "mat4x4"}
FloatTypes == {"float", "vec2", "vec3", "vec4"} \cup MatrixTypes
UniformTypes == IntTypes \cup UintTypes \cup FloatTypes

Uint32(local) == <<Number(local, UINT32_MAX)>>
Name(local) == <<Literal("identifier", local)>>
Quoted(local) == <<Literal("string", local)>>

Pair == <<Argument("first"), Argument("second")>>
Setting == <<OneOf({"TEXTURE_MAG_FILTER", "TEXTURE_MIN_FILTER"}, "parameter")>>
Filter == <<OneOf({"LINEAR", "NEAREST"}, "value")>>

\* What the command parsers give ParseParameters first: what follows the keyword of each
\* parameter.
ParseCommandAssertEqual ==
    [BUFFERS |-> Pair, RENDERBUFFERS |-> Pair, FORMAT |-> <<Format(FALSE)>>]

ParseCommandAssertPixels ==
    [EXPECTED |-> Numbers(<<"r", "g", "b", "a">>, UINT8_MAX),
     RENDERBUFFER |-> Name("renderbuffer"),
     RECTANGLE |-> Numbers(<<"x", "y", "width", "height">>, UINT32_MAX)]

ParseCommandAssertSimilarEmdHistogram ==
    [RENDERBUFFERS |-> Pair, TOLERANCE |-> <<Literal("float_literal", "tolerance")>>]

ParseCommandBindSampler ==
    [SAMPLER |-> Name("sampler"), TEXTURE_UNIT |-> Uint32("unit")]

ParseCommandBindTexture ==
    [TEXTURE |-> Name("texture"), TEXTURE_UNIT |-> Uint32("unit")]

ParseCommandBindShaderStorageBuffer ==
    [BUFFER |-> Name("buffer"), BINDING |-> Uint32("binding")]

ParseCommandBindUniformBuffer ==
    [BUFFER |-> Name("buffer"), BINDING |-> Uint32("binding")]

ParseCommandCreateEmptyTexture2d ==
    [WIDTH |-> Uint32("width"), HEIGHT |-> Uint32("height")]

ParseCommandCreateRenderbuffer ==
    [WIDTH |-> Uint32("width"), HEIGHT |-> Uint32("height")]

ParseCommandCreateBuffer ==
    [SIZE_BYTES |-> Uint32("size_bytes"), INIT_VALUES |-> <<Segment("none", 0)>>]

ParseCommandRunCompute ==
    [PROGRAM |-> Name("program"),
     NUM_GROUPS |-> Numbers(<<"groups_x", "groups_y", "groups_z">>, UINT32_MAX)]

ParseCommandRunGraphics ==
    [PROGRAM |-> Name("program"),
     VERTEX_DATA |-> <<Symbol("["), Entries("vertex_attribute")>>,
     INDEX_DATA |-> Name("index_data"),
     VERTEX_COUNT |-> Uint32("vertex_count"),
     TOPOLOGY |-> <<OneOf({"TRIANGLES"}, "topology")>>,
     FRAMEBUFFER_ATTACHMENTS |-> <<Symbol("["), Entries("attachment")>>]

ParseVertexAttributeInfo ==
    [BUFFER |-> Name("buffer"), OFFSET_BYTES |-> Uint32("offset"),
     STRIDE_BYTES |-> Uint32("stride"), DIMENSION |-> Uint32("dimension")]

ParseCommandDumpBufferBinary == [BUFFER |-> Name("buffer"), FILE |-> Quoted("file")]

ParseCommandDumpBufferText ==
    [BUFFER |-> Name("buffer"), FILE |-> Quoted("file"), FORMAT |-> <<Format(TRUE)>>]

ParseCommandDumpRenderbuffer ==
    [RENDERBUFFER |-> Name("renderbuffer"), FILE |-> Quoted("file")]

ParseCommandSetSamplerParameter ==
    [SAMPLER |-> Name("sampler"), PARAMETER |-> Setting, VALUE |-> Filter]

ParseCommandSetTextureParameter ==
    [TEXTURE |-> Name("texture"), PARAMETER |-> Setting, VALUE |-> Filter]

ParseCommandSetUniform ==
    [PROGRAM |-> Name("program"), LOCATION |-> Uint32("uniform_location"),
     NAME |-> Quoted("name"),
     TYPE |-> <<OneOf(UniformTypes, "type"), Item("array_size")>>,
     VALUES |-> <<Item("values")>>]

Tables ==
    [ASSERT_EQUAL |-> ParseCommandAssertEqual,
     ASSERT_PIXELS |-> ParseCommandAssertPixels,
     ASSERT_SIMILAR_EMD_HISTOGRAM |-> ParseCommandAssertSimilarEmdHistogram,
     BIND_SAMPLER |-> ParseCommandBindSampler,
     BIND_TEXTURE |-> ParseCommandBindTexture,
     BIND_SHADER_STORAGE_BUFFER |-> ParseCommandBindShaderStorageBuffer,
     BIND_UNIFORM_BUFFER |-> ParseCommandBindUniformBuffer,
     CREATE_EMPTY_TEXTURE_2D |-> ParseCommandCreateEmptyTexture2d,
     CREATE_RENDERBUFFER |-> ParseCommandCreateRenderbuffer,
     CREATE_BUFFER |-> ParseCommandCreateBuffer,
     RUN_COMPUTE |-> ParseCommandRunCompute,
     RUN_GRAPHICS |-> ParseCommandRunGraphics,
     vertex_attribute |-> ParseVertexAttributeInfo,
     DUMP_BUFFER_BINARY |-> ParseCommandDumpBufferBinary,
     DUMP_BUFFER_TEXT |-> ParseCommandDumpBufferText,
     DUMP_RENDERBUFFER |-> ParseCommandDumpRenderbuffer,
     SET_SAMPLER_PARAMETER |-> ParseCommandSetSamplerParameter,
     SET_TEXTURE_PARAMETER |-> ParseCommandSetTextureParameter,
     SET_UNIFORM |-> ParseCommandSetUniform]

\* Its second and its third argument.
Exclusive(of) ==
    IF of = "ASSERT_EQUAL" THEN {<<"BUFFERS", "RENDERBUFFERS">>}
    ELSE IF of = "SET_UNIFORM" THEN {<<"LOCATION", "NAME">>} ELSE {}

Optional(of) == IF of = "ASSERT_EQUAL" THEN {"FORMAT"} ELSE {}

\* What the other command parsers do, from the token after the command's name on.
Result == Name("result")
ParseCommandDeclareShader ==
    Result \o <<Expect({"KIND"}), OneOf(ShaderKind, "kind"), Item("text")>>
ParseCommandCompileShader == Result \o <<Expect({"SHADER"})>> \o Name("shader")
ParseCommandCreateProgram == Result \o <<Expect({"SHADERS"}), Item("shaders")>>
ParseCommandCreateSampler == Result
Sized == {"CREATE_BUFFER", "CREATE_EMPTY_TEXTURE_2D", "CREATE_RENDERBUFFER"}

Items(of) ==
    CASE of = "DECLARE_SHADER" -> ParseCommandDeclareShader
      [] of = "COMPILE_SHADER" -> ParseCommandCompileShader
      [] of = "CREATE_PROGRAM" -> ParseCommandCreateProgram
      [] of = "CREATE_SAMPLER" -> ParseCommandCreateSampler
      [] of \in Sized -> Result \o <<Parameters(of)>>
      [] of \in DOMAIN Tables \ Sized -> <<Parameters(of)>>

-----------------------------------------------------------------------------
Init ==
    /\ pc = "api"
    /\ next = Unread
    /\ todo = <<>>
    /\ command = "none"
    /\ locals = EmptyMap
    /\ program = <<>>
    /\ version = GL(0, 0)
    /\ errorReported = FALSE

Stop(how, error) ==
    /\ pc' = how
    /\ next' = Unread /\ todo' = <<>> /\ locals' = EmptyMap
    /\ Reports(error)
    /\ UNCHANGED <<command, program, version>>

\* A message, and "return false" all the way up to Parse.
Refuse == Stop("refused", TRUE)

Throw == Stop("threw", FALSE)

current == Head(todo)
Doing(name) == pc = "items" /\ todo # <<>> /\ current.item = name

\* On to what follows: the token ahead, and the items that replace the current one.
GoOn(ahead, items, assigned, error) ==
    /\ next' = ahead
    /\ todo' = items \o Tail(todo)
    /\ locals' = assigned
    /\ Reports(error)
    /\ UNCHANGED <<pc, command, program, version>>

Again == <<current>>

\* Locals whose value no record of module Script has; only that they have one matters.
Dropped ==
    {"r", "g", "b", "a", "tolerance", "groups_x", "groups_y", "groups_z", "vertex_count",
     "topology", "offset", "stride", "dimension", "file", "name", "uniform_location",
     "parameter", "value", "array_size"}

With(local, value) ==
    [name \in DOMAIN locals \cup {local} |->
       IF name # local THEN locals[name] ELSE IF local \in Dropped THEN "given" ELSE value]

(***************************************************************************)
(* Parse and ParseApiVersion.                                              *)
(***************************************************************************)
ParseApi ==
    /\ pc = "api"
    /\ \E t \in Ahead :
         \/ ~IsKeyword(t, Api) /\ Refuse
         \/ /\ IsKeyword(t, Api)
            /\ version' = [version EXCEPT !.api = t.text]
            /\ pc' = "api_version"
            /\ UNCHANGED <<next, todo, command, locals, program, errorReported>>

ParseApiVersion ==
    /\ pc = "api_version"
    /\ \E t \in Ahead :
         LET named == {v \in SupportedVersions :
                         /\ v.api = version.api
                         /\ t.type = "float_literal" /\ t.number = <<v.major, v.minor>>}
         IN  \/ named = {} /\ Refuse
             \/ /\ version' \in named
                /\ pc' = "commands"
                /\ UNCHANGED <<next, todo, command, locals, program, errorReported>>

CommandKeywords ==
    {"DECLARE_SHADER", "COMPILE_SHADER", "CREATE_PROGRAM", "CREATE_BUFFER",
     "CREATE_SAMPLER", "CREATE_EMPTY_TEXTURE_2D", "CREATE_RENDERBUFFER", "BIND_SAMPLER",
     "BIND_TEXTURE", "BIND_SHADER_STORAGE_BUFFER", "BIND_UNIFORM_BUFFER", "ASSERT_EQUAL",
     "ASSERT_PIXELS", "ASSERT_SIMILAR_EMD_HISTOGRAM", "DUMP_RENDERBUFFER",
     "DUMP_BUFFER_BINARY", "DUMP_BUFFER_TEXT", "RUN_COMPUTE", "RUN_GRAPHICS",
     "SET_SAMPLER_PARAMETER", "SET_TEXTURE_PARAMETER", "SET_UNIFORM"}

ItemNames ==
    {"keyword", "symbol", "literal", "argument", "number", "one_of", "bracket", "count",
     "location", "attachment", "parameters", "format", "segments", "entries",
     "end_of_entry", "array_size", "values", "shaders", "text"}

\* An identifier token names an identifier, a string token a string, an integer literal has a
\* number, and neither the end of the script nor an unknown token has a text.
ASSUME TokensAssumption ==
    \A of \in CommandKeywords \cup {"none"}, item \in ItemNames \cup {"none"} :
        \A t \in TokensAt(of, item) :
            /\ t.type = "identifier" => t.text \in Identifier
            /\ t.type = "string" => t.text \in STRING
            /\ t.type = "int_literal" => t.number \in Int
            /\ t.type \in {"EOS", "unknown"} => t.text = ""

\* The locals that are containers, or nullptr, or 0 before any parameter.
Declared ==
    [shaders |-> <<>>, format |-> <<>>, size |-> 0, values |-> <<>>,
     vertices |-> EmptyMap, attachments |-> {}, observed |-> {}]

ParseCommand ==
    /\ pc = "commands"
    /\ \E t \in Ahead :
         \/ t.type = "EOS" /\ Stop("accepted", FALSE)
         \/ /\ IsKeyword(t, CommandKeywords)
            /\ pc' = "items"
            /\ next' = Unread
            /\ command' = t.text
            /\ todo' = Items(t.text)
            /\ locals' = Declared
            /\ UNCHANGED <<program, version, errorReported>>
         \/ t.type # "EOS" /\ ~IsKeyword(t, CommandKeywords) /\ Refuse

(***************************************************************************)
(* Items that take one token.                                              *)
(***************************************************************************)
Takes(name, throws(_), fits(_), assigned(_), complains(_)) ==
    /\ Doing(name)
    /\ \E t \in Ahead :
         \/ throws(t) /\ Throw
         \/ ~throws(t) /\ ~fits(t) /\ Refuse
         \/ ~throws(t) /\ fits(t) /\ GoOn(Passed(t), <<>>, assigned(t), complains(t))

Never(t) == FALSE
Always(t) == TRUE
Unchanged(t) == locals
Text(t) == With(current.local, t.text)

Listed(t) == IsKeyword(t, current.words)
ReadKeyword == Takes("keyword", Never, Listed, Unchanged, Never)
ReadOneOf == Takes("one_of", Never, Listed, Text, Never)

\* Texts are compared, so a string will do.
ReadSymbol == Takes("symbol", Never, LAMBDA t : t.text = current.text, Unchanged, Never)

\* An array size must be closed, but it is enough to say that it is not.
ReadBracket == Takes("bracket", Never, Always, Unchanged, LAMBDA t : t.text # "]")

DoesNotConvert(t) == t.type = "float_literal" /\ ~t.converts

\* An identifier, a string, or ParseFloat.
ReadLiteral ==
    Takes("literal", LAMBDA t : t.type = current.type /\ DoesNotConvert(t),
          LAMBDA t : t.type = current.type, Text, Never)

\* Whatever it is it becomes the argument; it is reported if it is no identifier.  The
\* visitors go by its text, which a string may share with an identifier.
ReadArgument ==
    Takes("argument", Never, Always,
          LAMBDA t : With(current.local,
                          IF t.type \in {"identifier", "string"} THEN t.text ELSE "other"),
          LAMBDA t : t.type # "identifier")

\* Mutant: negative numbers are let through.
IsSignedNumber(t) == t.type = "int_literal" /\ t.number <= current.most

OutOfRange(t) == t.type = "int_literal" /\ ~Converts(t.number, LONG_MAX)
IsNumber(t) == t.type = "int_literal" /\ t.number \in 0 .. current.most

\* ParseUint32 and ParseUint8.
ReadNumber ==
    Takes("number", OutOfRange, IsNumber, LAMBDA t : With(current.local, t.number), Never)

\* format_entries.push_back
WithEntry(kind, count) ==
    [locals EXCEPT !.format = Append(@, [kind |-> kind, count |-> count])]

\* The count of a format entry.
ReadCount ==
    Takes("count", OutOfRange, IsNumber,
          LAMBDA t : WithEntry(current.kind, t.number), Never)

\* Mutant: identifiers already attached are not looked up.
ReadAnyAttachment ==
    Takes("attachment", Never, LAMBDA t : t.type = "identifier",
          LAMBDA t : [locals EXCEPT !.attachments = @ \cup {<<locals.location, t.text>>}],
          Never)

\* A location of FRAMEBUFFER_ATTACHMENTS, and what is attached there: each once.
ReadLocation ==
    Takes("location", OutOfRange,
          LAMBDA t : IsNumber(t) /\ \A a \in locals.attachments : a[1] # t.number,
          LAMBDA t : With("location", t.number), Never)

ReadAttachment ==
    Takes("attachment", Never,
          LAMBDA t : t.type = "identifier" /\ \A a \in locals.attachments : a[2] # t.text,
          LAMBDA t : [locals EXCEPT !.attachments = @ \cup {<<locals.location, t.text>>}],
          Never)

\* Mutant: an exclusive pair may be left out altogether.
CompleteWithoutEither(of, observed) ==
    /\ \A pair \in Exclusive(of) : ~(pair[1] \in observed /\ pair[2] \in observed)
    /\ \A p \in DOMAIN Tables[of] \ (Optional(of) \cup observed) :
         \E pair \in Exclusive(of) : p \in {pair[1], pair[2]}

(***************************************************************************)
(* ParseParameters.                                                        *)
(***************************************************************************)
\* Of each exclusive pair exactly one has been observed, and of the others all but the
\* optional ones.
Complete(of, observed) ==
    /\ \A pair \in Exclusive(of) : (pair[1] \in observed) # (pair[2] \in observed)
    /\ \A p \in DOMAIN Tables[of] \ (Optional(of) \cup observed) :
         \E pair \in Exclusive(of) : p \in {pair[1], pair[2]}

ReadParameter ==
    /\ Doing("parameters")
    /\ \E t \in Ahead :
         /\ IsKeyword(t, DOMAIN Tables[current.of])
         /\ \/ t.text \in current.observed /\ Refuse
            \/ /\ t.text \notin current.observed
               /\ GoOn(Unread,
                       Tables[current.of][t.text]
                         \o <<[current EXCEPT !.observed = @ \cup {t.text}]>>,
                       locals, FALSE)

EndParameters ==
    /\ Doing("parameters")
    /\ \E t \in Ahead :
         /\ ~IsKeyword(t, DOMAIN Tables[current.of])
         /\ \/ ~Complete(current.of, current.observed) /\ Refuse
            \/ /\ Complete(current.of, current.observed)
               /\ GoOn(t, <<>>, [locals EXCEPT !.observed = current.observed], FALSE)

(***************************************************************************)
(* The lists.  Each loop looks at the next token to see if it goes on.     *)
(***************************************************************************)
\* Mutant: either command takes strings.
StartsAnyEntry(t) == IsKeyword(t, FormatKind \ {"string"}) \/ t.type = "string"

StartsEntry(t) ==
    \/ IsKeyword(t, FormatKind \ {"string"})
    \/ current.strings /\ t.type = "string"

\* FORMAT of ASSERT_EQUAL, which wants an entry, and of DUMP_BUFFER_TEXT, which takes
\* strings.
ReadFormat ==
    /\ Doing("format")
    /\ \E t \in Ahead :
         \/ /\ StartsEntry(t) /\ t.type = "string"
            /\ Len(locals.format) < MaxList
            /\ GoOn(Unread, Again, WithEntry("string", 0), FALSE)
         \/ /\ StartsEntry(t) /\ t.type = "keyword"
            /\ Len(locals.format) < MaxList
            /\ GoOn(Unread, <<Count(t.text)>> \o Again, locals, FALSE)
         \/ /\ ~StartsEntry(t) /\ (current.strings \/ locals.format # <<>>)
            /\ GoOn(t, <<>>, locals, FALSE)
         \/ ~StartsEntry(t) /\ ~current.strings /\ locals.format = <<>> /\ Refuse

\* GetSizeBytes of the segment that ends.
SegmentBytes ==
    IF current.type = "byte" THEN current.literals ELSE 4 * current.literals

LiteralOf(type) == IF type = "float" THEN "float_literal" ELSE "int_literal"

\* ParseUint8, ParseFloat, std::stoi and ParseUint32.
SegmentThrows(t) ==
    CASE current.type = "float" -> ~t.converts
      [] current.type = "int" -> ~Converts(t.number, INT_MAX)
      [] current.type \in {"byte", "uint"} -> ~Converts(t.number, LONG_MAX)

SegmentFits(t) ==
    CASE current.type = "byte" -> t.number \in 0 .. UINT8_MAX
      [] current.type = "uint" -> t.number \in 0 .. UINT32_MAX
      [] current.type \in {"float", "int"} -> TRUE

\* A literal of ParseValuesSegment.
ReadSegmentLiteral ==
    /\ Doing("segments")
    /\ current.type # "none"
    /\ \E t \in Ahead :
         /\ t.type = LiteralOf(current.type)
         /\ \/ SegmentThrows(t) /\ Throw
            \/ ~SegmentThrows(t) /\ ~SegmentFits(t) /\ Refuse
            \/ /\ ~SegmentThrows(t) /\ SegmentFits(t)
               /\ current.literals < MaxLiterals
               /\ GoOn(Unread, <<[current EXCEPT !.literals = @ + 1]>>, locals, FALSE)

\* Mutant: any number of bytes will do.
AnyLength == TRUE

WholeWords == current.type = "byte" => current.literals % 4 = 0

\* The end of a segment, and the start of another if there is one.
EndSegment ==
    /\ Doing("segments")
    /\ \E t \in Ahead :
         /\ current.type = "none" \/ t.type # LiteralOf(current.type)
         /\ \/ ~WholeWords /\ Refuse
            \/ /\ WholeWords
               /\ LET ended == [locals EXCEPT !.size = @ + SegmentBytes]
                  IN  \/ /\ IsKeyword(t, {"byte", "float", "int", "uint"})
                         /\ current.before < MaxList
                         /\ GoOn(Unread, <<Segment(t.text, current.before + 1)>>,
                                 ended, FALSE)
                      \/ /\ ~IsKeyword(t, {"byte", "float", "int", "uint"})
                         /\ GoOn(t, <<>>, ended, FALSE)

\* At least one compiled shader.
ReadShaders ==
    /\ Doing("shaders")
    /\ \E t \in Ahead :
         \/ /\ t.type = "identifier"
            /\ Len(locals.shaders) < MaxList
            /\ GoOn(Unread, Again, [locals EXCEPT !.shaders = Append(@, t.text)], FALSE)
         \/ t.type # "identifier" /\ locals.shaders # <<>> /\ GoOn(t, <<>>, locals, FALSE)
         \/ t.type # "identifier" /\ locals.shaders = <<>> /\ Refuse

ReadArraySize ==
    /\ Doing("array_size")
    /\ \E t \in Ahead :
         \/ t.text = "[" /\ GoOn(Unread, Uint32("array_size") \o <<Bracket>>, locals, FALSE)
         \/ t.text # "[" /\ GoOn(t, <<>>, locals, FALSE)

IsLiteral(t) == t.type \in {"int_literal", "float_literal"}

\* The tokens are kept; ProcessUniformValue looks at them when the type is known.
ReadValues ==
    /\ Doing("values")
    /\ \E t \in Ahead :
         \/ /\ IsLiteral(t)
            /\ Len(locals.values) < MaxValues
            /\ GoOn(Unread, Again, [locals EXCEPT !.values = Append(@, t)], FALSE)
         \/ ~IsLiteral(t) /\ GoOn(t, <<>>, locals, FALSE)

EntryItems(entry) ==
    (IF entry = "attachment" THEN <<Location, Symbol("->"), Attachment>>
     ELSE Uint32("location") \o <<Symbol("->"), Parameters(entry)>>)
      \o <<[item |-> "end_of_entry", entry |-> entry]>>

\* VERTEX_DATA and FRAMEBUFFER_ATTACHMENTS, up to their bracket.
ReadEntries ==
    /\ Doing("entries")
    /\ \E t \in Ahead :
         \/ t.text = "]" /\ GoOn(Unread, <<>>, locals, FALSE)
         \/ /\ t.text # "]"
            /\ t.type = "int_literal" => current.before < MaxList
            /\ GoOn(t, EntryItems(current.entry) \o <<[current EXCEPT !.before = @ + 1]>>,
                    locals, FALSE)

AttributeLocals == {"location", "buffer", "offset", "stride", "dimension"}

\* vertex_data.insert; the locals of ParseVertexAttributeInfo end here.
WithAttribute ==
    [name \in DOMAIN locals \ AttributeLocals |->
       IF name = "vertices" THEN Inserted(locals.vertices, locals.location, locals.buffer)
       ELSE locals[name]]

\* The end of an entry: what follows is a comma or the bracket.
EndEntry ==
    /\ Doing("end_of_entry")
    /\ LET ended == IF current.entry = "attachment" THEN locals ELSE WithAttribute
       IN  \E t \in Ahead :
             \/ t.text = "," /\ GoOn(Unread, <<>>, ended, FALSE)
             \/ t.text = "]" /\ GoOn(t, <<>>, ended, FALSE)
             \/ t.text \notin {",", "]"} /\ Refuse

\* Mutant: the end of the script is not told from any other line.
ReadTextPastTheEnd ==
    /\ Doing("text")
    /\ \E t \in Ahead :
         \/ t.text = "END" /\ GoOn(Unread, <<>>, locals, FALSE)
         \/ t.type = "EOS" /\ GoOn(t, Again, locals, FALSE)

\* The text of a shader: nothing but a comment may follow on the line of its kind, and
\* the lines after it are skipped until one that starts with END.
ReadText ==
    /\ Doing("text")
    /\ \/ Refuse
       \/ \E t \in Ahead : t.text = "END" /\ GoOn(Unread, <<>>, locals, FALSE)

(***************************************************************************)
(* The end of a command.                                                   *)
(***************************************************************************)
ClassOf(type) ==
    IF type = "sampler2D" THEN "sampler"
    ELSE IF type \in MatrixTypes THEN "matrix" ELSE "vector"

OfRenderbuffers == "RENDERBUFFERS" \in locals.observed

\* The record that is pushed onto parsed_commands_: of the locals, those that the checker
\* and the executor read.
Made ==
    CASE command = "DECLARE_SHADER" ->
           [op |-> command, result |-> locals.result, kind |-> locals.kind]
      [] command = "COMPILE_SHADER" ->
           [op |-> command, result |-> locals.result, shader |-> locals.shader]
      [] command = "CREATE_PROGRAM" ->
           [op |-> command, result |-> locals.result, shaders |-> locals.shaders]
      [] command = "CREATE_BUFFER" ->
           [op |-> command, result |-> locals.result, size |-> locals.size]
      [] command \in {"CREATE_SAMPLER", "CREATE_EMPTY_TEXTURE_2D"} ->
           [op |-> command, result |-> locals.result]
      [] command = "CREATE_RENDERBUFFER" ->
           [op |-> command, result |-> locals.result,
            width |-> locals.width, height |-> locals.height]
      [] command = "BIND_SAMPLER" ->
           [op |-> command, sampler |-> locals.sampler, unit |-> locals.unit]
      [] command = "BIND_TEXTURE" ->
           [op |-> command, texture |-> locals.texture, unit |-> locals.unit]
      [] command \in {"BIND_SHADER_STORAGE_BUFFER", "BIND_UNIFORM_BUFFER"} ->
           [op |-> command, buffer |-> locals.buffer, binding |-> locals.binding]
      [] command = "ASSERT_EQUAL" /\ OfRenderbuffers ->
           [op |-> "ASSERT_EQUAL_RENDERBUFFERS",
            arguments |-> <<locals.first, locals.second>>]
      [] command = "ASSERT_EQUAL" /\ ~OfRenderbuffers ->
           [op |-> "ASSERT_EQUAL_BUFFERS", format |-> locals.format,
            arguments |-> <<locals.first, locals.second>>]
      [] command = "ASSERT_SIMILAR_EMD_HISTOGRAM" ->
           [op |-> command, arguments |-> <<locals.first, locals.second>>]
      [] command = "ASSERT_PIXELS" ->
           [op |-> command, renderbuffer |-> locals.renderbuffer, x |-> locals.x,
            y |-> locals.y, width |-> locals.width, height |-> locals.height]
      [] command = "DUMP_RENDERBUFFER" ->
           [op |-> command, renderbuffer |-> locals.renderbuffer]
      [] command = "DUMP_BUFFER_BINARY" -> [op |-> command, buffer |-> locals.buffer]
      [] command = "DUMP_BUFFER_TEXT" ->
           [op |-> command, buffer |-> locals.buffer, format |-> locals.format]
      [] command = "RUN_COMPUTE" -> [op |-> command, program |-> locals.program]
      [] command = "RUN_GRAPHICS" ->
           [op |-> command, program |-> locals.program, indexBuffer |-> locals.index_data,
            vertexBuffers |-> Range(locals.vertices), attachments |-> locals.attachments]
      [] command = "SET_SAMPLER_PARAMETER" -> [op |-> command, sampler |-> locals.sampler]
      [] command = "SET_TEXTURE_PARAMETER" -> [op |-> command, texture |-> locals.texture]
      [] command = "SET_UNIFORM" ->
           [op |-> command, program |-> locals.program, type |-> ClassOf(locals.type)]

\* ProcessUniformValue: a literal must be of the uniform's sort, and convert.
ValueThrows(v) ==
    IF locals.type \in IntTypes \cup UintTypes
    THEN v.type = "int_literal" /\ ~Converts(v.number, INT_MAX)
    ELSE DoesNotConvert(v)

ValueFits(v) ==
    IF locals.type \in FloatTypes THEN v.type = "float_literal"
    ELSE v.type = "int_literal" /\ (locals.type \in UintTypes => v.number >= 0)

\* The first value that is not as it should be decides.
BadValues ==
    {i \in DOMAIN locals.values :
       ValueThrows(locals.values[i]) \/ ~ValueFits(locals.values[i])}

UniformThrows ==
    /\ command = "SET_UNIFORM"
    /\ BadValues # {}
    /\ ValueThrows(locals.values[Min(BadValues)])

\* Mutant: the declared size is not compared with that of the values.
AcceptableOfAnySize ==
    /\ command = "ASSERT_EQUAL" /\ OfRenderbuffers => locals.format = <<>>
    /\ command = "SET_UNIFORM" => BadValues = {}

\* What is tested once all parameters have been read.
Acceptable ==
    /\ command = "ASSERT_EQUAL" /\ OfRenderbuffers => locals.format = <<>>
    /\ command = "CREATE_BUFFER" => locals.size_bytes = locals.size
    /\ command = "SET_UNIFORM" => BadValues = {}

FinishCommand ==
    /\ pc = "items"
    /\ todo = <<>>
    /\ \/ /\ Acceptable
          /\ program' = Append(program, Made)
          /\ pc' = "commands"
          /\ locals' = EmptyMap
          /\ UNCHANGED <<next, todo, command, version, errorReported>>
       \/ ~Acceptable /\ UniformThrows /\ Throw
       \/ ~Acceptable /\ ~UniformThrows /\ Refuse

Next ==
    \/ ParseApi \/ ParseApiVersion \/ ParseCommand
    \/ ReadKeyword \/ ReadOneOf \/ ReadSymbol \/ ReadBracket \/ ReadLiteral
    \/ ReadArgument \/ ReadNumber \/ ReadCount \/ ReadLocation \/ ReadAttachment
    \/ ReadParameter \/ EndParameters
    \/ ReadFormat \/ ReadSegmentLiteral \/ EndSegment \/ ReadShaders
    \/ ReadArraySize \/ ReadValues
    \/ ReadEntries \/ EndEntry
    \/ ReadText
    \/ FinishCommand

\* One thread parses a script that ends.
Spec == Init /\ [][Next]_parserVars /\ WF_parserVars(Next)

-----------------------------------------------------------------------------
Ended == {"accepted", "refused", "threw"}

NumberLocals == {"x", "y", "width", "height", "size_bytes", "unit", "binding", "location"}

\* Every variable keeps its type, every number the 32 bits it is given; nothing is left
\* to do but within a command.
TypeOK ==
    /\ pc \in {"api", "api_version", "commands", "items"} \cup Ended
    /\ command \in CommandKeywords \cup {"none"}
    /\ pc # "items" => todo = <<>> /\ locals = EmptyMap
    /\ \A name \in NumberLocals \cap DOMAIN locals : locals[name] \in 0 .. UINT32_MAX
    /\ version \in ApiVersions
    /\ errorReported \in BOOLEAN

\* What the command's constructor is given.
Given ==
    CASE command = "DECLARE_SHADER" -> {"result", "kind"}
      [] command = "COMPILE_SHADER" -> {"result", "shader"}
      [] command \in {"CREATE_PROGRAM", "CREATE_BUFFER", "CREATE_SAMPLER"} -> {"result"}
      [] command \in {"CREATE_EMPTY_TEXTURE_2D", "CREATE_RENDERBUFFER"} ->
           {"result", "width", "height"}
      [] command = "BIND_SAMPLER" -> {"sampler", "unit"}
      [] command = "BIND_TEXTURE" -> {"texture", "unit"}
      [] command \in {"BIND_SHADER_STORAGE_BUFFER", "BIND_UNIFORM_BUFFER"} ->
           {"buffer", "binding"}
      [] command = "ASSERT_EQUAL" -> {"first", "second"}
      [] command = "ASSERT_SIMILAR_EMD_HISTOGRAM" -> {"first", "second", "tolerance"}
      [] command = "ASSERT_PIXELS" ->
           {"r", "g", "b", "a", "renderbuffer", "x", "y", "width", "height"}
      [] command = "DUMP_RENDERBUFFER" -> {"renderbuffer", "file"}
      [] command \in {"DUMP_BUFFER_BINARY", "DUMP_BUFFER_TEXT"} -> {"buffer", "file"}
      [] command = "RUN_COMPUTE" -> {"program", "groups_x", "groups_y", "groups_z"}
      [] command = "RUN_GRAPHICS" ->
           {"program", "index_data", "vertex_count", "topology"}
      [] command = "SET_SAMPLER_PARAMETER" -> {"sampler", "parameter", "value"}
      [] command = "SET_TEXTURE_PARAMETER" -> {"texture", "parameter", "value"}
      [] command = "SET_UNIFORM" -> {"program", "type"}

\* Whatever the order of the parameters, a command, and each of its vertex attributes,
\* is built only from variables that a parameter has given a value: the parser declares
\* them without one.  A uniform is found by its location or by its name, and just one of
\* them was given.
BuiltFromGivenValues ==
    /\ pc = "items" /\ todo = <<>> =>
         /\ Given \subseteq DOMAIN locals
         /\ command = "SET_UNIFORM" =>
              ("uniform_location" \in DOMAIN locals) # ("name" \in DOMAIN locals)
    /\ Doing("end_of_entry") /\ current.entry = "vertex_attribute" =>
         AttributeLocals \subseteq DOMAIN locals

\* A script parsed without complaint is one the checker and the executor are made for:
\* a supported version and commands of module Script.
ProducesScripts ==
    pc = "accepted" /\ ~errorReported =>
        /\ version \in SupportedVersions
        /\ \A i \in DOMAIN program : program[i] \in Creation \cup Use

\* A buffer is made only as large as its SIZE_BYTES, whichever segments its values came in
\* and whichever of the two parameters was first; and it holds whole 4-byte words, bytes
\* included: the comparison of buffers reads them as such.
BuffersAreAsDeclared ==
    [][command = "CREATE_BUFFER" /\ program' # program =>
         /\ program'[Len(program')].size = locals.size_bytes
         /\ locals.size_bytes % 4 = 0]_parserVars

\* The attachments of a draw are a map, and no renderbuffer or texture is attached twice.
AttachmentsAreOneToOne ==
    \A i \in DOMAIN program : program[i].op = "RUN_GRAPHICS" =>
        \A a, b \in program[i].attachments : a # b => a[1] # b[1] /\ a[2] # b[2]

\* Every script ends, whatever its tokens: no loop waits for one that does not come.
ParseEnds == <>(pc \in Ended)
=============================================================================
