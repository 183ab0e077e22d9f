# ShaderTrap in TLA+

ShaderTrap runs scripts that declare, compile, link and run shaders and then assert
something about what they produced.  This directory holds TLA+ modules for the path a script
takes: the command line and the choice of an EGL device, the tokenizer, the parser, and the
checker and the executor that act on one command after the other.  TLC checks the modules on
small instances; TLAPS proves the central results for every script, every set of commands,
every number of devices and every limit of numbers.

To check one configuration: `tlc -config MCObjects.cfg MCObjects.tla`.  To check proofs:
`tlapm ShaderTrapProofs.tla`, and likewise for `ContextProofs`, `ParserProofs`,
`TokenizerProofs`, `ContentsProofs`, `GlslangMessagesProofs`, `EglMainProofs` and `Recursion`.  Source paths below are relative to `src/`; `checker.cc`, `executor.cc`,
`parser.cc`, `tokenizer.cc`, `command_visitor.cc` and `compound_visitor.cc` are in
`src/libshadertrap/src/`, `main.cc` is in `src/shadertrap/src/`.

## 1. Inventory

| Component | State | Operations | Here |
|---|---|---|---|
| Command line and EGL loop (`main.cc`) | arguments; the EGL display, context and surface of the device being tried | read the arguments; try each device, run the script on it, release | `CommandLine`, `EglMain` |
| Tokenizer (`tokenizer.cc`) | position, line, column | `NextToken`, `PeekNextToken`, skipping a line or its rest | `Tokenizer` |
| Parser (`parser.cc`) | tokenizer, program so far, parsed version | one parse function per command; `ParseParameters`; lists, segments, formats | `Parser` |
| Checker (`checker.cc`) | used identifiers; one map per kind of result (7); the shaders and programs glslang accepted | one `Visit` per command: accept or refuse | `Checker` |
| Executor (`executor.cc`) | one map per kind of result (7): identifier to GL name; the OpenGL context | one `Visit` per command: a series of GL calls | `Executor`, `FormattedBuffers` |
| Command sequencing (`command_visitor.cc`, `compound_visitor.cc`) | the position in the script | apply checker, then executor, to each command; stop at the first `false` | `ShaderTrap` |
| Commands (`command_*.h`, `uniform_value.h`, ...) | immutable data | accessors | `Script`, `Format` |
| API versions (`api_version.h`) | none | partial order on versions | `ApiVersion` |
| Message consumers | collected messages | `Message(severity, ...)` | "was an error reported" |
| Histogram distance (`executor.cc`), glslang message rewriting (`checker.cc`) | none | the loop over bins of `VisitAssertSimilarEmdHistogram`; `FixLinesInGlslangOutput` | `EmdHistogram`, `GlslangMessages` |
| GL function tables (`gl_functions.h`, glad) | function pointers | generated or vendored | no |
| Tests, examples, Android wrapper, scripts | - | - | read as intent only |

How they interact.  `main` reads the arguments and has the whole script parsed; the parser
pulls tokens one at a time, mostly peeking first.  Then for one device after another `main`
makes a context, and on the first on which nothing fails it makes a `CompoundVisitor` of a
fresh `Checker` and a fresh `Executor` and walks the commands.  For each command the
checker's handler runs first and, if it returns true, the executor's; then comes the next
command.  There is no checking pass before the first GL call.  The two visitors share
nothing but the message consumer: each keeps its own seven maps, and the executor looks up
with `at()` or asserts, trusting that the checker has been there.  Everything is one thread;
there are no callbacks into either visitor.

What is hard here, and what each component owes:

* Command line and EGL loop: a device that fails at any call is skipped with everything
  released; what an earlier device left current must not be used; the exit code is that of
  the one run.
* Tokenizer: peeking must not move it, its line and column are quoted by every message, and
  it must return at the end of any script.
* Parser: any order of parameters, each at most once, the mandatory ones present, mutually
  exclusive ones not both; nothing is used that no parameter has given a value; every
  refusal has a message.
* Checker: its own maps must support its nested lookups (program, compiled shader,
  declared shader, glslang shader); one scope for all kinds; what it accepts the executor
  can execute without a failed lookup, assertion or out-of-bounds access.
* Executor: it must update its maps exactly as the checker did; each handler must leave
  the context (bindings, mapped buffers, framebuffers) as later commands expect; a
  failure in the middle of a handler must end the run; a format must lead it over the
  buffers without a byte too many or too few.
* Sequencing: a failure of either visitor ends the run, and nothing is executed that was
  not accepted.

`PROJECT.json` lists the hazards line by line, with the properties that cover each.

## 2. Modules

| Module | What it is |
|---|---|
| `ApiVersion` | versions, their order, the ones a script may name |
| `Format` | the entries of a `FORMAT`: the bytes they stand for, the word boundaries they keep |
| `Script` | the commands, as sets of records; `unordered_map::insert`; the version and the error flag |
| `Checker` | one action `Check<Command>(c, ok)` per `Visit` method; `ok` is what it returns |
| `Executor` | one action `Execute<Command>(c, ok)` per `Visit` method, over an abstract context `gl` |
| `ShaderTrap` | the run: `CheckCommand`, `ExecuteCommand`, `EndOfScript`, and the two ways of crashing |
| `SingleAssignment` | abstract: what the language promises about identifiers |
| `BoundTextures` | `ShaderTrap` with a history of what `BIND_TEXTURE` bound |
| `Parser` | the recursive descent, one token at a time |
| `Tokenizer` | the methods, one character at a time |
| `FormattedBuffers` | the loops of `CheckEqualBuffers` and `VisitDumpBufferText` over the entries |
| `EmdHistogram` | the running sums of the histogram distance, channel by channel and bin by bin |
| `GlslangMessages` | the loop that rewrites the lines of glslang's log |
| `CommandLine` | the loop over `argv`, as a recursive function, and what the arguments mean |
| `EglMain` | `main`: one action per EGL call, `EglData`'s destructor, the loop |
| `FirstSuitableDevice` | abstract: what the tool promises about devices |
| `ShaderTrapProofs`, `ContextProofs` | theorems about the run of a script: the two visitors and the programs; the context and the refinement |
| `ParserProofs`, `TokenizerProofs` | theorems about the parser and the tokenizer |
| `ContentsProofs`, `GlslangMessagesProofs` | theorems about the loops over the contents of buffers and images, and over glslang's log |
| `EglMainProofs` | theorems about `main` and the command line |
| `Recursion` | lemmas: induction over numbers and over finite sets, functions defined by recursion, sums |
| `MC...` | the scripts, tokens, formats and arguments TLC is given |

`ShaderTrap` composes `Checker` and `Executor` over `Script`.  `Parser` writes into `program`
the records of `Script` that `Checker` and `Executor` read: that it writes no others is one
of its properties (`ProducesScripts`), so `CommandsAssumption` of `ShaderTrap` is what the
parser is proved to deliver when it has had nothing to complain of.  `EglMain` has one step for a run of `ShaderTrap`, with that
run's three outcomes.

### The run of a script

`declaredShaders`, `compiledShaders`, ... are the members of `Checker`, and
`execDeclaredShaders`, `execBuffers`, ... those of `Executor`.  `gl` is what a later command
can tell of the context: how many objects of each kind exist, the sizes of buffers and
renderbuffers, the framebuffers not deleted, the renderbuffer binding, the active unit and
what each unit and binding point holds, and the mapped buffers.  `phase` and `pending` say
which of the two visitors is next and with which command.  `version` is the API version of
the script.  `errorReported` is true once a message of severity `kError` has been delivered.

The script is not a constant: each command is chosen when it is reached.  A run of the model
is therefore a run of the program on some script over `Commands`, and all scripts up to
`MaxCommands` are covered, the ones the checker refuses included.

Failures.  Every GL call is wrapped in `GL_SAFECALL`, which returns false at the first GL
error.  `GlCalls(ok, partial, done)` says this once: a handler that succeeds leaves `done`,
one that fails leaves one of the intermediate contexts.  Handlers that read something back
and compare may also fail after the last call.  A handler that fails reports; where
`glMapBufferRange` returns null without a GL error the executor would not, but OpenGL does not
allow that.

What is abstracted, and why it does not matter to the properties:

* Shader text, pixels, buffer contents, uniform values, colours, tolerances and file names
  decide only whether a handler succeeds.  That outcome is nondeterministic.
* GL names of a kind are 1, 2, ... in the order they are made; no handler compares names of
  different kinds.
* Bindings every handler sets before use (array buffer, framebuffer, vertex array, current
  program) are not kept.  The renderbuffer and texture bindings are kept because handlers
  do use them without setting them.
* Which objects glslang's linker sees is kept only as the sets of accepted shaders and
  programs.
* Sizes are natural numbers: a 64-bit `size_t` does not wrap on the sizes a script can
  give.
* The build has PNG support, which is the default.  `Assertions` chooses between a build
  with and one without C++ assertions; the runs use the former, the proofs cover both.
* Undefined behaviour (entry 0 of an empty `FORMAT` in the checker's message; a pixel index
  outside the data read back) is a choice between going on and crashing.

### The parser

What the C++ call stack has still to do is the sequence `todo` of items, and what the local
variables hold is the function `locals`, which has a name in its domain once the variable has
been given a value.  A call of a parse function replaces an item by the function's items.
The command parsers differ mostly in the tables they hand to `ParseParameters`; each table is
a record of its own, named after its method (`ParseCommandBindSampler`, ...), and the actions
are shared.  `next` is the token that has been looked at and not consumed: a token is chosen
when it is first looked at, so that a behaviour is a parse of some script.

There are four ends: `accepted`, `refused` (some function returned false), `threw` (a
`std::stol`, `std::stoi` or `std::stof` threw, and nothing catches it), and none if the
parser ran for ever.  Numbers keep their limits, scaled down: what matters is on which side
of `UINT8_MAX`, `INT_MAX`, `UINT32_MAX` and of the range of `long` a literal lies.
Identifiers and strings are opaque, except that a string can have the text of an identifier,
which the arguments of comparisons do not tell apart; a shader's text is one item, as its lines are read
by the tokenizer and looked at for `END` alone.

### The tokenizer

The state is that of the class, and `pc` is the loop it stands in.  Characters come in
classes that the code treats alike (white space, the end of a line, a letter that is an
escape and one that is not, a digit, a mark, ...).  `Call` is any method, in any order and any
number of times; the other actions read one character or return.  `backup` is the place at
the time of the call: what `PeekNextToken` saves.  An escape sequence that does not exist
fails an assertion or gives an unknown token, by `Builds`.  Which words are keywords is
decided by a table and is not modelled.

### Walks over buffers

One action for each kind of entry and command.  Of the contents of two buffers only the set
of positions at which they differ is kept, of a dumped file only the values with the position
and the width they were read at.  The initial states are those the checker lets through.

### Histograms and glslang's log

`EmdHistogram` walks over the bins as the code does, with the sums it keeps, in whole pixels and
whole bins: the divisions by the number of pixels and of bins at the end are left out, and with
them their rounding.  What it is compared with is the definition of the distance: the least
cost of moving the pixels of one image to where those of the other are.  `GlslangMessages` reads
a log as a sequence of items (a prefix that starts a message, a number, a colon, a newline,
anything else).

### Command line and devices

One action per EGL call of an attempt, each with its failure, which leads to `release`
(`~EglData`) and to the next device.  EGL's rule that a context destroyed while it is current
lives on until another becomes current is `doomed`; nothing in `main` makes the last one not
current.  If `eglQueryDevicesEXT` fails, `num_devices` is whatever was in that memory: any
number of devices, one beyond the array (`OutOfBounds`) included, for all of those.  The four
`glGetString` results become `std::string`s before the error is looked at, so a null one may
end the process.  `CommandLine` is a recursive function over the arguments: the state of the
loop before each of them, and after the last.

## 3. What TLC checks

Passing runs.  All explore the complete state space within the bounds; deadlock is not
checked because a run, a parse, a walk and `main` itself come to an end.

| Run | Bounds | Properties |
|---|---|---|
| `pipeline` | OpenGL 4.5 and OpenGL ES 2.0; 9 identifiers; 3 declarations, 4 compilations, 6 programs (wrong mixtures among them), draws whose arguments have the wrong kind; scripts of up to 9 commands | `TypeOK` `LockStep` `ExecutorNeverMisses` `OneScope` `ChainOfShaders` `ProgramsRunAsBuilt` `AttachmentsAreDrawnTo` |
| `objects` | OpenGL 4.5; two each of buffers, renderbuffers and textures and one sampler, with sizes that agree and differ, two identifiers shared between kinds; two units; scripts of up to 6 commands | `DeclaredSizesAreReal` `NothingStaysMapped` `QueriesHaveATarget` `NoOrphans` `LockStep` `OneScope` `OnlyPixelReadsLeakFramebuffers` `OtherUnitsKeepTheirTexture` `KeepsSingleAssignment` |
| `egl` | two devices and the one beyond the array; all lists of up to four arguments; a Release build; a script for OpenGL | `TypeOK` `NothingLeaks` `RunsOnItsOwnContext` `NothingIsIgnored` `KeepsItsPromise` |
| `parser` | one command, or two after `CREATE_SAMPLER`; two names; lists, maps and formats of up to 2 entries, segments of up to 4 literals, 2 values; limits 0, 4, 8 and 9 for `UINT8_MAX`, `INT_MAX`, `UINT32_MAX`, `LONG_MAX` | `TypeOK` `BuiltFromGivenValues` `ProducesScripts` `AttachmentsAreOneToOne` `BuffersAreAsDeclared` `ParseEnds` |
| `algorithms` | scripts of up to 4 characters from those that matter to strings or to layout, 3 with those of all other tokens, read by any calls; buffers of 4, 8 and 12 bytes, formats of up to 3 entries, up to 2 bytes that differ; images of 3 pixels, 3 values and 2 channels; logs of up to 5 items | `PlaceIsReal` `OnlyLayoutIsSkipped` `StringsEndAtTheirQuote` `PeekedTokenComesNext` `CallsReturn` `ReadsStayInBuffers` `SkippedBytesAreIgnored` `DifferencesAreReported` `DumpedOnceInOrder` `DistanceIsTheLeastCost` `OnlyPlacesAreRewritten` |

`algorithms` checks the four loops over data side by side: a behaviour is one of `Tokenizer`, of
`FormattedBuffers`, of `EmdHistogram` or of `GlslangMessages`.

What the properties say of the run of a script:

* `LockStep`: while the script runs, the executor's maps are the checker's, kind by kind,
  except for the result of the command that is accepted and not yet executed.
* `ExecutorNeverMisses`: no `at()` throws, no assertion about a map fails.
* `OneScope`, `NoOrphans`: an identifier is of one kind, and every GL object made has
  exactly one identifier, so `insert` never finds its key taken.
* `ChainOfShaders`: the three nested `at()` of `Checker::VisitCreateProgram` succeed,
  including after a handler that failed half-way.
* `ProgramsRunAsBuilt`: the checker tells compute from graphics programs by counting their
  shaders.  That is enough: a dispatched program is one compute shader on an API that has
  them, a drawing one is a vertex and a fragment shader, and glslang linked it.
* `AttachmentsAreDrawnTo`: on OpenGL ES 2.0 the executor omits `glDrawBuffers`, relying
  on the checker to have refused attachments other than 0.
* `DeclaredSizesAreReal`: sizes the checker compares are those the context would answer.
* `NothingStaysMapped`, `QueriesHaveATarget`, `OtherUnitsKeepTheirTexture`,
  `OnlyPixelReadsLeakFramebuffers`: what one command leaves behind for the next.  The last
  also records that two handlers never delete their framebuffer.
* `KeepsSingleAssignment`: the run, with the executor's maps seen as what identifiers
  denote, implements `SingleAssignment`: an identifier denotes nothing or one object of its
  own, for ever, and the run ends.

Of the parser:

* `BuiltFromGivenValues`: the C++ locals are declared without a value; whatever the order of
  the parameters, and whichever are left out, a constructor gets none that was not assigned.
* `ProducesScripts`: what is accepted without a complaint has a supported version and consists
  of commands of `Script`.  (With a complaint it may not: see "Disagreements" below.)
* `BuffersAreAsDeclared`: when a `CREATE_BUFFER` is made, the sum of its segments is its
  `SIZE_BYTES`, and a number of whole words.  It has two mutants, one for each of the two tests
  it takes: without the comparison of sizes, and without the test of `byte` segments.
* `AttachmentsAreOneToOne`: neither a location nor an image is given twice.
* `ParseEnds`: no loop waits for a token that does not come, at the end of the script in
  particular.

That every refusal of the parser has a message is no property here: `Refuse` reports by
definition, because each `return false` was found to follow a message.

Of the loops over data:

* `PlaceIsReal`: line and column are those of the position at every step, after a string was
  given up and after a peek too.
* `OnlyLayoutIsSkipped`, `StringsEndAtTheirQuote`: tokens start and strings end where they
  should.
* `PeekedTokenComesNext`: what `PeekNextToken` shows is what `NextToken` returns.
* `CallsReturn`: also at the end of a script, inside a comment or an open string.
* `ReadsStayInBuffers`, `SkippedBytesAreIgnored`, `DifferencesAreReported`,
  `DumpedOnceInOrder`: entries of different widths lead the offset over the buffers as
  the documentation lays them out, with the exception under `byte_entries` below.

* `DistanceIsTheLeastCost`: the largest distance of a channel, computed bin by bin from running
  sums, is the cost of the cheapest way to turn one image's pixels into the other's.
* `OnlyPlacesAreRewritten`: in glslang's log the place `file:line` of a message becomes
  the line of the script, and nothing else is changed.

Of `main`:

* `NothingLeaks`: whichever call fails, what exists is held by `egl_data` or was destroyed
  while it was current.
* `RunsOnItsOwnContext`: the script runs on the context and surface of the device being tried,
  not on what an earlier device left current.
* `NothingIsIgnored`: if the arguments are accepted each has had its effect, empty ones aside:
  that an option was given is told by its value not being empty, so a second value or name
  after an empty one replaces it.
* `KeepsItsPromise`: `EglMain` implements `FirstSuitableDevice`: devices are tried in order,
  the script runs once at most, success is the success of that run, and `main` ends.

Why the bounds are enough.  In the run of a script a hazard is a relation between a command
and the commands that made its arguments.  The longest chain is declare, compile, declare,
compile, link, buffer, attachment, draw: eight commands, so nine leave room for a refusal or
a repetition.  For objects a chain is two creations, a binding and one or two uses, and with
two objects of a kind one can be current when the other is named.  The parser keeps nothing
from one command to the next but the program, so one command at a time is enough; two entries
of a list tell the first from the others and a repetition from something new; four literals
fill a word of bytes.  Three entries of a format put a middle one between two others, and
three words leave room for each.  Two devices show what one leaves to the next.  A token of
the tokenizer is decided by at most two characters and its surroundings by two more.  Each
property is broken, within these bounds, by at least one plausible bug in the code (the
definitions commented `Mutant` in the modules, listed in `PROJECT.json`).

Fairness.  `ShaderTrap`, `EglMain` and `Parser` have weak fairness of `Next`: one thread runs
to the end and nothing blocks (a driver call that hangs is outside the model).  `Tokenizer` has
it of `Step` only: a call runs until it returns, but nothing forces the parser to make another.
The liveness properties that use it are the endings in `KeepsSingleAssignment` and
`KeepsItsPromise`, `ParseEnds` and `CallsReturn`.  `ParseEnds` is over scripts whose lists are
within the bounds, which is to say finite ones.

### Disagreements

Seven further runs each check one statement of the documentation, a comment or an assertion,
and find a script for which the code does something else.

| Run | Statement | What happens |
|---|---|---|
| `pixel_extent` | `PixelsAreReadAtOwnExtent` | `ASSERT_PIXELS` and `DUMP_RENDERBUFFER` query the dimensions of the renderbuffer bound last, not of the one named (`executor.cc:134`, `:564`) |
| `errors_fail` | `ErrorsFailTheRun` | a histogram distance above the tolerance, or a PNG that cannot be written, is an error message and then SUCCESS (`executor.cc:343`, `:601`) |
| `self_compare` | `BuffersCanBeCompared` | comparing a buffer with itself, or an empty one, fails in `glMapBufferRange` (`executor.cc:1207`) |
| `versions` | `CallsAreSupported` | on OpenGL 4.2 the version requirement of `BIND_SHADER_STORAGE_BUFFER` is not checked (`checker.cc:353`); on OpenGL ES 2.0 three handlers call `glReadBuffer`, the fourth has a comment on why it must not (`executor.cc:157`, `:585`) |
| `matrix_uniform` | `AssertionsNeverFail` | a matrix type reaches "Unhandled uniform type." (`executor.cc:1041`) |
| `bound_textures` | `TexturesStayBound` | creating or configuring a texture replaces the one bound to the active unit (`executor.cc:465`, `:862`) |
| `byte_entries` | `ByteEntriesAreCompared` | the loop over a `byte` entry ends at its count and not at its end, so a `byte` entry that is not the first is compared in part or not at all (`executor.cc:1245`) |

Three more were met and have no run:

* How a value is spelt is not modelled: a `byte` entry of `DUMP_BUFFER_TEXT` is written through
  the stream operator for characters (`executor.cc:74`), where `docs/shadertrap_language.md:309`
  says "output as non-negative integers".
* An argument of a comparison that is no identifier, or an array size that is not closed, is an
  error message without a `return false` (`parser.cc:221`, `:1537`).  `main` goes by the return
  value, and a name in quotes is found like one without, so such a script may end in SUCCESS.
  `ReadArgument` and `ReadBracket` of `Parser` do the same.
* In a Debug build a null from `eglCreateContext` or `eglCreatePbufferSurface` fails the
  assertion of `GetContext` or `GetSurface` before the test that would go on to the next device
  (`main.cc:305`).  `Creates` of `EglMain` has that end under `Assertions`.

## 4. What is proved

All theorems are of the specification, for every value of the constants.  The assumptions on
them are few.

| Module | Assumption |
|---|---|
| `ShaderTrap`, `Executor` | the commands are records of `Script` (`CommandsAssumption`), versions are versions, unit 0 exists (`UnitAssumption`: it is the active one at first), `NoCommand` is no command, `Assertions` is a Boolean and `MaxCommands` a number |
| `Parser` | the limits of numbers are numbers, in the order they have in C++ (`LimitsAssumption`); any 32-bit number is a unit and a binding point (`UnitsAssumption`); the bounds are numbers; the text of an identifier token is an identifier, that of a string token a string and the value of an integer literal an integer, and the end of the script and unknown tokens have no text, as `tokenizer.cc` makes them without one (`TokensAssumption`) |
| `Tokenizer` | scripts are sequences of strings, `Builds` are Booleans |
| `FormattedBuffers` | sizes are positive, as an empty buffer cannot be mapped and the handlers fail before their loop; formats are sequences of entries |
| `EmdHistogram` | there are finitely many pixels and at least one channel; images give each pixel of each channel one of the bins |
| `GlslangMessages` | logs are sequences |
| `EglMain` | there is at least one slot for devices; a command line is a sequence of the kinds of argument the loop tells apart; `Assertions` and `TargetsGL` are Booleans |

### The run of a script

| Module | Theorem | States |
|---|---|---|
| `ShaderTrapProofs` | `TypeCorrect` | `TypeOK` |
| | `EnvironmentInvariant` | the inductive invariant |
| | `LockStepHolds` | `LockStep` |
| | `ExecutorNeverMissesHolds` | `ExecutorNeverMisses` |
| | `OneScopeHolds` | `OneScope` |
| | `ChainOfShadersHolds` | `ChainOfShaders` |
| | `ProgramsRunAsBuiltHolds` | `ProgramsRunAsBuilt` |
| | `AttachmentsAreDrawnToHolds` | `AttachmentsAreDrawnTo` |
| `ContextProofs` | `NothingStaysMappedHolds` | `NothingStaysMapped` |
| | `OnlyPixelReadsLeakFramebuffersHolds` | `OnlyPixelReadsLeakFramebuffers` |
| | `OtherUnitsKeepTheirTextureHolds` | `OtherUnitsKeepTheirTexture` |
| | `NoOrphansHolds` | `NoOrphans` |
| | `DeclaredSizesAreRealHolds` | `DeclaredSizesAreReal` |
| | `QueriesHaveATargetHolds` | `QueriesHaveATarget` |
| | `KeepsSingleAssignmentHolds` | the safety part of `KeepsSingleAssignment` |

`LockStep` is not inductive: it does not say that the pending command is one the checker has
accepted.  `EnvironmentInv` adds that, and that whatever is held is marked as used; from the
two it follows that a result is new when it is inserted, so that the executor's map gets the
entry the checker's map got.  One lemma for each `Check<Command>` says what it stores, one for
each `Execute<Command>` that it finds what it looks up.

`OneScope` follows once it is known that what is held is marked as used, as a handler marks its
result before it adds it.  `ChainOfShaders` is kept because no
entry of the shaders' maps is ever changed; `ShadersAreParsed` adds that what was declared has
been parsed, and that a compute shader was declared only where the API has them.  `ProgramInv`
says that programs are linked and of proper stages, and of a pending draw or dispatch what its
acceptance says of its program and attachments.

For the context the lemmas say, handler by handler, what success leaves behind
(`StoresWhatItMakes`, `TargetAfter`) and what no outcome touches (`UnitsAfter`, `SizesAfter`).
`NoOrphans` is the projection of `ObjectsInv`: as long as nothing has failed, the names of a
kind are 1 to the number of objects, one identifier each.  It rests on `LockStep` and
`OneScope`: without them an `insert` could find its key taken and an object be lost.
`DeclaredSizesAreReal` is proved of failed handlers too (`SizesInv`).  `QueriesHaveATarget`
holds because making a renderbuffer binds it and nothing unbinds (`TargetInv`).

The refinement: what an identifier denotes (`Denoted`) changes by one object with each
command that makes one, and by nothing else; a failure maps to the abstract failure.  That a
run ends is liveness, and left to the run `objects`.

### The parser

| Theorem of `ParserProofs` | States |
|---|---|
| `ParserIsInvariant` | the inductive invariant |
| `ParserKeepsTypes` | `TypeOK` |
| `CommandsAreBuiltFromGivenValues` | `BuiltFromGivenValues` |
| `AcceptedScriptsAreScripts` | `ProducesScripts` |
| `ParsedBuffersAreAsDeclared` | `BuffersAreAsDeclared` |
| `ParsedAttachmentsAreOneToOne` | `AttachmentsAreOneToOne` |
| `EveryStepGetsOn` | of `ParseEnds` what needs no fairness |

They hold for every script of any length, every bound on its lists and every width of numbers.
None of them but the last is inductive, because what a command gets depends on what is still on
`todo` many steps before.  `ParserInv` adds:

* `ItemsInv`: `todo` consists of legal items, each belongs to the command, and they are nested as
  the C++ calls are.  An item has a stage (within an attribute's parameters, at the end of an
  entry, within a list of entries, within the command's parameters); later items have later ones.
  This tells that an attribute is finished before the draw's parameters go on.
* `SuppliedInv`: what an item demands (a set of locals: for `ParseParameters`, those that the
  parameters observed so far give a value) has a value or gets it from an earlier item, and what
  the command's constructor demands has one or gets it from some item on `todo`.
  `ParseParameters` counts as assigning what *every* complete choice of its parameters gives
  (`Mandatory`), and is replaced by nothing only when the choice is complete.  `MandatoryAre` finds
  this set for each of the tables.  At the end of a vertex attribute its locals are dropped, which
  is harmless because no parameter of the draw gives a value to one of them
  (`GraphicsGivesNoAttribute`).
* `UniformInv`: for `SET_UNIFORM`, that a location or a name has a value, or is about to get one,
  only if that parameter has been observed.  With the exclusive pair this makes it exactly one.
* `LocalsInv`: every local that has a value has one of its sort.  Arguments are identifiers unless
  an error was reported; the size of a buffer is a multiple of 4 between its segments; attachments
  are one-to-one.
* `AttachmentInv`: while an attachment is awaited the location read for it is not taken.
* `ProgramInv`: the commands made so far are of `Script`, or were complained of (`Complained`), and
  the last can only be if an error has been reported.

TLC checks `ParserInv` on the instance of the run `parser` as well; there is one lemma for each
action.  Most actions replace the current item by items of stage 0 and give a value to one
local, which `TakenKeepsInv`, `ListKeepsInv` and `PlainKeepsInv` treat at once.

`EveryStepGetsOn` does not use the bounds on lists, so unlike the run it is about any script.  A
step ends the parse, passes a token, or lessens the number of steps that can be made without
passing one (`Lingering`).  Such steps leave the token to the item that follows, with one
exception, the list of entries, which puts the items of another entry in front; but these start
with a number, and without one the parse ends.

### The tokenizer

| Theorem of `TokenizerProofs` | States | Strengthened by |
|---|---|---|
| `PlaceIsRealHolds` | `PlaceIsReal` | `PlaceInv`: the places put back, those of the token's start and of the call, are real too, and a string is still on the line it started on |
| `OnlyLayoutIsSkippedHolds` | `OnlyLayoutIsSkipped` | `LayoutInv`: what has been passed is layout; whether the position is in a comment is told by the loop, except at the end of the script |
| `StringsEndAtTheirQuoteHolds` | `StringsEndAtTheirQuote` | `StringInv`: up to here no newline and no closing quote, and an even number of backslashes just passed, or an odd one where an escape is read |
| `PeekedTokenComesNextHolds` | `PeekedTokenComesNext` | `ScanInv`: the loops have come from the token's start to the position the way the script determines; `AheadInv`: what a peek found, it found from where the next call of `NextToken` starts |
| `CallsGetShorter` | of `CallsReturn` what needs no fairness | |

They hold for scripts of any length and any sequence of calls.  `PeekedTokenComesNext` compares
two calls, and an invariant of the second cannot carry the steps of the first along.  Instead the
token is characterised by the script alone (`IsToken`: the control points passed on the way from
its first character to its end), there is only one from each place (`TokenIsDetermined`, an
induction along the way), and both calls return it.  `PeekNextToken(false)` is compared where
there is no layout to skip, as with layout it looks for a token where none starts.

`CallsGetShorter` is the part of `CallsReturn` that needs no fairness: while a call runs, every
step of it lessens a number (`StepsLeft`), which is at most twice what is left of the script, and
six.  Twice, because the character that starts a comment is looked at as white space first and
then as part of its line.

### Recursive definitions

`Recursion` proves what the library's theorems say with an operator as parameter, for sets and
functions instead.  `NumbersInduction` is induction: a set with 0 and with the successor of each
of its numbers has all numbers.  It follows from the fact that the strict subset ordering of
finite sets is well-founded: the initial segment that ends with the least number left out would
be minimal.  `IterationExists` and `IterationUnique` say that a first value and a step determine
a function on `1 .. n`, and `IterationTyped` that its values stay where the step leads; so the
recursive functions of the modules exist and satisfy their equations.  `SetsInduction` is
induction over finite sets.  `SumExists` and `SumTakesAny` say of a sum over a finite set, which
takes its elements in an order fixed by `CHOOSE`, that it is defined and that any element may
be taken first.

### Walks over buffers and images, and glslang's log

| Module | Theorem | States |
|---|---|---|
| `ContentsProofs` | `OffsetFollowsTheFormat` | the invariant `WalkInv`: the offset is the number of bytes the entries walked so far stand for |
| | `BuffersAreReadWithin` | `ReadsStayInBuffers` |
| | `SkippedBytesHaveNoEffect` | `SkippedBytesAreIgnored` |
| | `EveryDifferenceIsReported` | `DifferencesAreReported` |
| | `DumpsPrintOnceInOrder` | `DumpedOnceInOrder` |
| | `DistanceInvariant` | the invariant `DistanceInv` |
| | `DistanceIsTheLeastCostHolds` | `DistanceIsTheLeastCost` |
| `GlslangMessagesProofs` | `MessagesArePassedOn` | `OnlyPlacesAreRewritten` |

The number of bytes before an entry is a recursive function, `BytesBefore`; by induction it grows,
and the bytes of different entries are apart.  `ComparedInv` adds to `WalkInv` that only bytes of
data entries have been read and which entries have been compared in full: for a `byte` entry
that is the first alone, the flaw of the run `byte_entries`.  `PrintedInv` says that what a dump has
written are the bytes of the data entries so far, in increasing order, up to the offset.

`DistanceIsTheLeastCost` holds for images of any number of pixels, values and channels.  The cost
of moves is followed bin by bin, with both images cut off at the bin the loop has reached: a bin
more adds the number of pixels that are moved across its border.  These are at least as many as
the difference of the numbers of pixels below it, which is what the loop adds, and exactly as
many if the moves keep the pixels in the order of their values.  Moves that do exist, by
induction over the pixels (`OrderedMovesExist`); so the loop's total is what they cost, and no
moves cost less.  `DistanceInv` says this of the bins and channels passed.  TLC checked it on
images of 3 pixels, 3 values and 2 channels before it was proved.

`MessagesArePassedOn` compares the loop with a definition that looks at each item of a log and at
its neighbours.  `PlacesInv` says that between iterations either a line starts, or no place
begins near enough to be missed or to have been cut in two.

### `main`

| Theorem of `EglMainProofs` | States |
|---|---|
| `MainTypeCorrect` | `TypeOK` |
| `MainInvariant` | the inductive invariant |
| `NothingLeaksHolds` | `NothingLeaks` |
| `RunsOnItsOwnContextHolds` | `RunsOnItsOwnContext` |
| `KeepsItsPromiseHolds` | the safety part of `KeepsItsPromise` |
| `NothingIsIgnoredHolds` | `NothingIsIgnored` |
| `EveryStepIsOneLess` | of the end that `KeepsItsPromise` asks for, what needs no fairness |

`MainInv` says which handles exist at each call (`Handles`), whose context is current, that of
an earlier device left behind included (`Currency`), and how far the loop has got
(`Progress`).  The number of devices is any.  `NothingIsIgnored` is an induction over the
arguments, of which there may be any number: before each the loop's state has every name and
every value that came before it, and expects a value exactly if the argument before is an option
that takes one and no value itself.  `EveryStepIsOneLess` counts the steps down: 13 for an attempt,
and one attempt less whenever the loop goes on.

### Only model-checked

The endings: `KeepsSingleAssignment` and `KeepsItsPromise` say also that a run ends; `ParseEnds`
and `CallsReturn` say it of the parse and of a call.  For the last three it is proved that there
are only finitely many steps to the end; that there is always one to be made, and that it is
made, takes `ENABLED` and fairness, which are beyond the prover used.  (A run of a script has two
steps for each command and one for the end.)

## 5. Not modelled

* The table of keywords, and the texts of identifiers, strings and messages.
* What a shader computes, and all data: pixels, buffer contents, uniform values.  In particular
  the number of `VALUES` is not compared with what the type of a uniform needs.
* How values are spelt in dumped files; PNG encoding; all file input and output.
* Floating point: the histogram distance is exact in the model.
* Overflow of `size_t` where it has 32 bits (Android), and numbers in glslang's log that
  `std::stoi` cannot convert.
* Characters outside ASCII: `isalpha` and `isdigit` of a negative `char` are undefined; the
  model has such a character start no token.
* A driver call that never returns.
* OpenGL itself, beyond the state listed under "The run of a script"; EGL beyond handles,
  currency and deferred destruction.
* The GL function tables (`gl_functions.h`, `get_gl_functions.cc`), which are lists of pointers;
  glad and other vendored code; the Android wrapper, the scripts, the examples and the test
  programs, which were read for what they expect.
