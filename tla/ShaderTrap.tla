----------------------------- MODULE ShaderTrap -----------------------------
(***************************************************************************)
(* One run of a script: CommandVisitor::VisitCommands over a               *)
(* CompoundVisitor that holds a Checker and an Executor (main.cc).  Each   *)
(* command is checked and then executed before the next one is looked at,  *)
(* and the first handler to return false ends the run; so the checker's    *)
(* and the executor's maps are two copies of one environment, the          *)
(* checker's a step ahead.                                                 *)
(*                                                                         *)
(* The script is not fixed: each command is chosen when it is reached,     *)
(* and the script may end before any of them.                              *)
(***************************************************************************)
EXTENDS Checker, Executor

CONSTANTS
    Commands,       \* the commands scripts are written from
    Versions,       \* the API versions they start with
    MaxCommands,    \* the longest script
    Assertions,     \* are C++ assertions compiled in (a Debug build)?
    NoCommand

ASSUME CommandsAssumption == \A c \in Commands : c \in Creation \cup Use
ASSUME VersionsAssumption == Versions \subseteq ApiVersions
ASSUME BoundsAssumption == MaxCommands \in Nat /\ Assertions \in BOOLEAN
ASSUME NoCommandAssumption == NoCommand \notin Commands

VARIABLES
    phase,      \* whose handler runs next, or how the run ended
    pending,    \* the command checked and not yet executed
    position    \* number of commands executed

runVars == <<phase, pending, position>>
vars == <<checkerVars, executorVars, version, errorReported, runVars>>

Init ==
    /\ CheckerInit
    /\ ExecutorInit
    /\ version \in Versions
    /\ errorReported = FALSE
    /\ phase = "check"
    /\ pending = NoCommand
    /\ position = 0

\* Mutant: the result of the first visitor is ignored.
CheckCommandAndGoOn(c) ==
    /\ phase = "check"
    /\ position < MaxCommands
    /\ \E ok \in BOOLEAN :
         /\ Check(c, ok)
         /\ phase' = "execute"
         /\ pending' = IF ok THEN c ELSE NoCommand
    /\ UNCHANGED <<executorVars, version, position>>

\* ApplyVisitors, first visitor.
CheckCommand(c) ==
    /\ phase = "check"
    /\ position < MaxCommands
    /\ \E ok \in BOOLEAN :
         /\ Check(c, ok)
         /\ phase' = IF ok THEN "execute" ELSE "failed"
         /\ pending' = IF ok THEN c ELSE NoCommand
    /\ UNCHANGED <<executorVars, version, position>>

\* ApplyVisitors, second visitor, and on to the next command.
ExecuteCommand ==
    /\ phase = "execute"
    /\ LookupsSucceed(pending)
    /\ Assertions => CommandAssertionsHold(pending)
    /\ \E ok \in BOOLEAN :
         /\ ExecuteHandler(pending, ok)
         /\ phase' = IF ok THEN "check" ELSE "failed"
    /\ pending' = NoCommand
    /\ position' = position + 1
    /\ UNCHANGED <<checkerVars, version>>

\* VisitCommands returns true: main prints SUCCESS and returns 0.
EndOfScript ==
    /\ phase = "check"
    /\ phase' = "passed"
    /\ UNCHANGED <<checkerVars, executorVars, version, errorReported, pending, position>>

\* A handler does what C++ leaves undefined, or fails an assertion or a lookup.
CrashInChecker(c) ==
    /\ phase = "check"
    /\ position < MaxCommands
    /\ CheckUndefined(c)
    /\ phase' = "crashed"
    /\ UNCHANGED <<checkerVars, executorVars, version, errorReported, pending, position>>

ExecutionUndefined(c) ==
    \/ ~LookupsSucceed(c)
    \/ Assertions /\ ~CommandAssertionsHold(c)
    \/ c.op = "ASSERT_PIXELS" /\ ~PixelsInBounds(c)

CrashInExecutor ==
    /\ phase = "execute"
    /\ ExecutionUndefined(pending)
    /\ phase' = "crashed"
    /\ UNCHANGED <<checkerVars, executorVars, version, errorReported, pending, position>>

Next ==
    \/ \E c \in Commands : CheckCommand(c) \/ CrashInChecker(c)
    \/ ExecuteCommand
    \/ EndOfScript
    \/ CrashInExecutor

\* One thread runs the script from start to end.
Spec == Init /\ [][Next]_vars /\ WF_vars(Next)

-----------------------------------------------------------------------------
(***************************************************************************)
(* Type invariant.                                                         *)
(***************************************************************************)
Phase == {"check", "execute", "passed", "failed", "crashed"}

\* Every variable keeps its type; a command is pending exactly while the
\* executor's turn is due.
TypeOK ==
    /\ CheckerTypeOK
    /\ ExecutorTypeOK
    /\ version \in ApiVersions
    /\ errorReported \in BOOLEAN
    /\ phase \in Phase
    /\ pending \in Commands \cup {NoCommand}
    /\ phase = "execute" => pending \in Commands
    /\ position \in Nat

-----------------------------------------------------------------------------
(***************************************************************************)
(* Safety.                                                                 *)
(***************************************************************************)
Running == phase \in {"check", "execute"}

\* What the pending command is about to add to the executor's map.
Awaited(op) ==
    IF phase = "execute" /\ pending.op = op THEN {pending.result} ELSE {}

\* The checker is ahead of the executor by the pending command, no more.
Tracks(checked, executed, op) ==
    /\ checked = executed \cup Awaited(op)
    /\ executed \cap Awaited(op) = {}

\* While the script runs, the environment the checker decides against is the one
\* the executor acts in, map by map (checker.h and executor.h keep seven each).
LockStep ==
    Running =>
        /\ Tracks(DOMAIN declaredShaders, DOMAIN execDeclaredShaders, "DECLARE_SHADER")
        /\ Tracks(DOMAIN compiledShaders, DOMAIN execCompiledShaders, "COMPILE_SHADER")
        /\ Tracks(DOMAIN createdPrograms, DOMAIN execPrograms, "CREATE_PROGRAM")
        /\ Tracks(DOMAIN createdBuffers, DOMAIN execBuffers, "CREATE_BUFFER")
        /\ Tracks(DOMAIN createdRenderbuffers, DOMAIN execRenderbuffers,
                  "CREATE_RENDERBUFFER")
        /\ Tracks(createdSamplers, DOMAIN execSamplers, "CREATE_SAMPLER")
        /\ Tracks(createdTextures, DOMAIN execTextures, "CREATE_EMPTY_TEXTURE_2D")

\* No handler of the executor looks up a name it does not hold, nor finds a result
\* it is about to insert already there: its at() calls never throw and its
\* assertions about its maps never fail, because the checker went first.
ExecutorNeverMisses == phase = "execute" => LookupsSucceed(pending)

\* The sets of identifiers the checker holds, one per kind of result.
IdentifiersByKind ==
    << DOMAIN declaredShaders, DOMAIN compiledShaders, DOMAIN createdPrograms,
       DOMAIN createdBuffers, DOMAIN createdRenderbuffers, createdSamplers,
       createdTextures >>

\* There is one scope for all kinds of result: an identifier is of one kind, and
\* every one the checker holds is marked as used.
OneScope ==
    /\ \A k1, k2 \in DOMAIN IdentifiersByKind :
         k1 # k2 => IdentifiersByKind[k1] \cap IdentifiersByKind[k2] = {}
    /\ \A k \in DOMAIN IdentifiersByKind : IdentifiersByKind[k] \subseteq usedIdentifiers

\* The nested at() calls of Checker::VisitCreateProgram never throw: behind every
\* compiled shader is a declared one, which glslang has parsed.
ChainOfShaders ==
    \A s \in DOMAIN compiledShaders :
        compiledShaders[s] \in DOMAIN declaredShaders \cap glslangShaders

IsComputeProgram(p) ==
    /\ Len(createdPrograms[p]) = 1
    /\ StageOf(createdPrograms[p][1]) = "COMPUTE"

IsGraphicsProgram(p) ==
    /\ Len(createdPrograms[p]) = 2
    /\ {StageOf(createdPrograms[p][1]), StageOf(createdPrograms[p][2])}
         = {"VERTEX", "FRAGMENT"}

\* The checker tells compute from graphics programs by counting shaders
\* (VisitRunCompute, VisitRunGraphics).  That is enough: what is dispatched is a
\* compute program, on an API that has them, and what is drawn with is a vertex
\* and a fragment shader; glslang has linked either.
ProgramsRunAsBuilt ==
    phase = "execute" =>
        /\ pending.op = "RUN_COMPUTE" =>
             /\ IsComputeProgram(pending.program)
             /\ AtLeast(version, GL(4, 3)) \/ AtLeast(version, GLES(3, 1))
        /\ pending.op = "RUN_GRAPHICS" => IsGraphicsProgram(pending.program)
        /\ pending.op \in {"RUN_COMPUTE", "RUN_GRAPHICS"} =>
             pending.program \in glslangPrograms

\* Everything a script attaches to a draw is drawn to.  Executor::VisitRunGraphics
\* relies on the checker for it where it has no glDrawBuffers to call.
AttachmentsAreDrawnTo ==
    phase = "execute" /\ pending.op = "RUN_GRAPHICS" =>
        \A attachment \in pending.attachments : attachment[1] \in DrawBuffers(pending)

\* The sizes the checker compares (declared in the script) are the sizes the
\* objects have in the context, so the executor's own size comparisons, made on
\* what GL answers, never find a difference.
DeclaredSizesAreReal ==
    /\ \A b \in DOMAIN execBuffers : gl.buffers[execBuffers[b]] = createdBuffers[b]
    /\ \A r \in DOMAIN execRenderbuffers :
         gl.renderbuffers[execRenderbuffers[r]] = createdRenderbuffers[r]

OneNameEach(map, made) ==
    /\ NamesOf(map) = 1 .. made
    /\ Cardinality(DOMAIN map) = made

\* Every object made in the context has exactly one identifier: insert() never
\* meets an existing key, which would orphan the new object.
NoOrphans ==
    phase \in {"check", "execute", "passed"} =>
        /\ OneNameEach(execCompiledShaders, gl.shaders)
        /\ OneNameEach(execPrograms, gl.programs)
        /\ OneNameEach(execBuffers, Len(gl.buffers))
        /\ OneNameEach(execRenderbuffers, Len(gl.renderbuffers))
        /\ OneNameEach(execSamplers, gl.samplers)
        /\ OneNameEach(execTextures, gl.textures)

\* No buffer stays mapped after the command that mapped it: a later command that
\* draws with it or maps it again would fail.
NothingStaysMapped ==
    phase \in {"check", "execute", "passed"} => gl.mapped = {}

\* ASSERT_PIXELS and DUMP_RENDERBUFFER query whatever renderbuffer is bound; one
\* of the script's always is.
QueriesHaveATarget ==
    phase = "execute" /\ pending.op \in {"ASSERT_PIXELS", "DUMP_RENDERBUFFER"} =>
        gl.boundRenderbuffer \in NamesOf(execRenderbuffers)

-----------------------------------------------------------------------------
(***************************************************************************)
(* Action properties.                                                      *)
(***************************************************************************)
Executed == phase = "execute" /\ phase' = "check"

\* Only ASSERT_PIXELS and ASSERT_SIMILAR_EMD_HISTOGRAM leave a framebuffer behind
\* when they succeed.
OnlyPixelReadsLeakFramebuffers ==
    [][Executed /\ gl'.framebuffers # gl.framebuffers =>
         pending.op \in {"ASSERT_PIXELS", "ASSERT_SIMILAR_EMD_HISTOGRAM"}]_vars

\* The texture of a unit that is not the active one changes only by a
\* BIND_TEXTURE to that unit.
OtherUnitsKeepTheirTexture ==
    [][\A u \in TextureUnit :
         u # gl.activeUnit /\ gl'.unitTexture[u] # gl.unitTexture[u] =>
            pending.op = "BIND_TEXTURE" /\ pending.unit = u]_vars

-----------------------------------------------------------------------------
(***************************************************************************)
(* Refinement: the objects the executor holds, seen as what identifiers    *)
(* denote.                                                                 *)
(***************************************************************************)
ObjectsOf(kind, map, id) == IF id \in DOMAIN map THEN {<<kind, map[id]>>} ELSE {}

Denoted(id) ==
    UNION {ObjectsOf("compiled_shader", execCompiledShaders, id),
           ObjectsOf("program", execPrograms, id),
           ObjectsOf("buffer", execBuffers, id),
           ObjectsOf("renderbuffer", execRenderbuffers, id),
           ObjectsOf("sampler", execSamplers, id),
           ObjectsOf("texture", execTextures, id),
           IF id \in DOMAIN execDeclaredShaders THEN {<<"shader", id>>} ELSE {}}

Promise == INSTANCE SingleAssignment WITH
    denotes <- [id \in Identifier |-> Denoted(id)],
    outcome <- IF Running THEN "running" ELSE phase

\* The run keeps the language's promise about identifiers.
KeepsSingleAssignment == Promise!Spec

-----------------------------------------------------------------------------
(***************************************************************************)
(* What the documentation, a comment or an assertion says, and the code    *)
(* does not do.  Each is checked by a run that finds it violated.          *)
(***************************************************************************)
\* ASSERT_PIXELS and DUMP_RENDERBUFFER read a renderbuffer at its own dimensions.
PixelsAreReadAtOwnExtent ==
    phase = "execute" /\ pending.op \in {"ASSERT_PIXELS", "DUMP_RENDERBUFFER"} =>
        QueriedExtent = createdRenderbuffers[pending.renderbuffer]

\* A script during which an error was reported does not end in SUCCESS.
ErrorsFailTheRun == phase = "passed" => ~errorReported

\* ASSERT_EQUAL can read both of its buffers.
BuffersCanBeCompared ==
    phase = "execute" /\ pending.op = "ASSERT_EQUAL_BUFFERS" =>
        BothCanBeMapped(pending.arguments)

\* Every uniform type can be set, and the attachments of a draw are at most 32.
AssertionsNeverFail == phase = "execute" => CommandAssertionsHold(pending)

\* What a command calls exists in the script's API version: shader storage buffers from
\* OpenGL 4.3 and OpenGL ES 3.1 on, glReadBuffer everywhere but in OpenGL ES 2.0.
CallsAreSupported ==
    phase = "execute" =>
        /\ pending.op = "BIND_SHADER_STORAGE_BUFFER" =>
             AtLeast(version, GL(4, 3)) \/ AtLeast(version, GLES(3, 1))
        /\ pending.op \in {"DUMP_RENDERBUFFER", "ASSERT_EQUAL_RENDERBUFFERS",
                           "ASSERT_SIMILAR_EMD_HISTOGRAM"} =>
             version.api = "GL" \/ AtLeast(version, GLES(3, 0))
=============================================================================
