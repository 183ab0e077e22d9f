------------------------------- MODULE EglMain -------------------------------
(***************************************************************************)
(* main of the shadertrap tool: arguments, the script, and the loop that   *)
(* tries one EGL device after another.  Every call of an attempt may fail; *)
(* the attempt then ends, EglData's destructor releases what it made, and  *)
(* the next device is tried.  The script runs on the first device on which *)
(* nothing fails.                                                          *)
(*                                                                         *)
(* Devices are numbered from 1, and 0 is a null handle; a display, context *)
(* or surface is known by the number of its device.                        *)
(***************************************************************************)
EXTENDS CommandLine, FiniteSets

CONSTANTS
    MaxDevices,     \* kMaxDevices
    ArgumentLists,  \* argv without the program's name
    Assertions,     \* are C++ assertions compiled in (a Debug build)?
    TargetsGL       \* does the script ask for OpenGL rather than OpenGL ES?

ASSUME DevicesAssumption == MaxDevices \in Nat \ {0}
ASSUME ArgumentsAssumption == ArgumentLists \subseteq Seq(Argument)
ASSUME BuildAssumption == Assertions \in BOOLEAN /\ TargetsGL \in BOOLEAN

VARIABLES
    args,           \* the arguments
    pc,             \* what main does next, or how it ended
    numDevices,     \* num_devices
    device,         \* the loop's index; 0 before the loop
    display, context, surface,  \* the members of egl_data
    result,         \* what the run of the script returned
    exitCode,
    live,           \* external: the displays, contexts and surfaces that exist
    doomed,         \* external: those destroyed while current, and so not gone yet
    current         \* external: the device whose context and surface are current

loopVars == <<numDevices, device>>
dataVars == <<display, context, surface>>
eglVars == <<live, doomed, current>>
endVars == <<result, exitCode>>
mainVars == <<args, pc, loopVars, dataVars, eglVars, endVars>>

Null == 0

\* Where egl_devices has no entry: an index the loop reaches only if num_devices
\* was never written.  It stands for all of them.
OutOfBounds == MaxDevices + 1

Made(kind, d) == {<<kind, d>>}

Init ==
    /\ args \in ArgumentLists
    /\ pc = "arguments"
    /\ numDevices = 0
    /\ device = 0
    /\ display = Null /\ context = Null /\ surface = Null
    /\ result = "none"
    /\ exitCode = 1
    /\ live = {} /\ doomed = {}
    /\ current = Null

substring == CommandLineOf(args).substring

ReadArguments ==
    /\ pc = "arguments"
    /\ pc' = IF Usable(CommandLineOf(args)) THEN "script" ELSE "returned"
    /\ UNCHANGED <<args, loopVars, dataVars, eglVars, endVars>>

\* The parser accepts, refuses, or throws on a number out of range.
ParseScript ==
    /\ pc = "script"
    /\ pc' \in {"query", "returned", "crashed"}
    /\ UNCHANGED <<args, loopVars, dataVars, eglVars, endVars>>

\* The number the loop is to run to: one device without the extensions, up to
\* MaxDevices with them, and anything if eglQueryDevicesEXT fails, which leaves
\* num_devices uninitialized and is not noticed.
QueryDevices ==
    /\ pc = "query"
    /\ \E n \in 0 .. OutOfBounds :
         /\ numDevices' = n
         /\ device' = IF n = 0 THEN 0 ELSE 1
         /\ pc' = IF n = 0 THEN "returned" ELSE "display"
    /\ UNCHANGED <<args, dataVars, eglVars, endVars>>

\* The constructor of EglData and eglInitialize.  GetDisplay asserts that there is a
\* display; without assertions eglInitialize refuses the null one.
OpenDisplay ==
    /\ pc = "display"
    /\ \/ /\ display' = Null
          /\ pc' = IF Assertions THEN "crashed" ELSE "release"
          /\ UNCHANGED live
       \/ /\ display' = device
          /\ pc' = "release"
          /\ UNCHANGED live
       \/ /\ display' = device
          /\ pc' = IF TargetsGL THEN "version" ELSE "api"
          /\ live' = live \cup Made("display", device)
    /\ UNCHANGED <<args, loopVars, context, surface, doomed, current, endVars>>

\* Reading egl_devices beyond its end, instead of opening that display.
ReadBeyondDevices ==
    /\ pc = "display"
    /\ device = OutOfBounds
    /\ pc' = "crashed"
    /\ UNCHANGED <<args, loopVars, dataVars, eglVars, endVars>>

\* A step of the attempt that changes nothing but where main is: it goes on, or the
\* device is skipped.
Passes(step, next) ==
    /\ pc = step
    /\ pc' \in {next, "release"}
    /\ UNCHANGED <<args, loopVars, dataVars, eglVars, endVars>>

CheckEglVersion == Passes("version", "api")
BindApi == Passes("api", "config")
ChooseConfig == Passes("config", "context")
LoadFunctions == Passes("functions", "strings")

\* A null from eglCreateContext fails the assertion of GetContext, before the test
\* that would skip the device; the same goes for the surface.
Creates(step, next, made) ==
    /\ pc = step
    /\ \/ /\ made' = device
          /\ live' = live \cup Made(step, device)
          /\ pc' = next
       \/ /\ pc' = IF Assertions THEN "crashed" ELSE "release"
          /\ UNCHANGED <<made, live>>
    /\ UNCHANGED <<args, loopVars, display, doomed, current, endVars>>

CreateContext == Creates("context", "surface", context) /\ UNCHANGED surface
CreateSurface == Creates("surface", "current", surface) /\ UNCHANGED context

\* Mutant: the result of eglMakeCurrent is not looked at.
MakeCurrentOrNot ==
    /\ pc = "current"
    /\ pc' = "functions"
    /\ \/ current' = device /\ live' = live \ doomed /\ doomed' = {}
       \/ UNCHANGED eglVars
    /\ UNCHANGED <<args, loopVars, dataVars, endVars>>

\* What an earlier device left current is replaced, and goes away with it.
MakeCurrent ==
    /\ pc = "current"
    /\ \/ /\ pc' = "functions"
          /\ current' = device
          /\ live' = live \ doomed
          /\ doomed' = {}
       \/ pc' = "release" /\ UNCHANGED eglVars
    /\ UNCHANGED <<args, loopVars, dataVars, endVars>>

\* The four glGetString: a std::string is made of each before glGetError is asked,
\* and of a null pointer it cannot be.
ReadStrings ==
    /\ pc = "strings"
    /\ pc' \in {"match", "release", "crashed"}
    /\ UNCHANGED <<args, loopVars, dataVars, eglVars, endVars>>

\* Every string contains the empty one.
MatchSubstring ==
    /\ pc = "match"
    /\ \/ pc' = "run"
       \/ substring # "" /\ pc' = "release"
    /\ UNCHANGED <<args, loopVars, dataVars, eglVars, endVars>>

\* Mutant: a script that fails is tried on the next device.
RunScriptUntilItPasses ==
    /\ pc = "run"
    /\ \/ /\ pc' = "release"
          /\ \/ result' = "passed" /\ exitCode' = 0
             \/ UNCHANGED endVars
       \/ pc' = "crashed" /\ result' = "crashed" /\ UNCHANGED exitCode
    /\ UNCHANGED <<args, loopVars, dataVars, eglVars>>

\* checker_and_executor.VisitCommands, in one step: module ShaderTrap.
RunScript ==
    /\ pc = "run"
    /\ \/ pc' = "release" /\ result' = "passed" /\ exitCode' = 0
       \/ pc' = "release" /\ result' = "failed" /\ UNCHANGED exitCode
       \/ pc' = "crashed" /\ result' = "crashed" /\ UNCHANGED exitCode
    /\ UNCHANGED <<args, loopVars, dataVars, eglVars>>

\* Mutant: the destructor does not terminate the display.
ReleaseWithoutTerminate ==
    /\ pc = "release"
    /\ LET destroyed == {<<"surface", surface>>, <<"context", context>>} \cap live
       IN  IF current = display
           THEN live' = live /\ doomed' = doomed \cup destroyed
           ELSE live' = live \ destroyed /\ doomed' = doomed
    /\ display' = Null /\ context' = Null /\ surface' = Null
    /\ pc' = IF result = "none" THEN "next" ELSE "returned"
    /\ UNCHANGED <<args, loopVars, current, endVars>>

\* ~EglData, at each continue and return of the loop's body.  Terminating a display
\* destroys what is left on it.  Nothing makes the current context current no more,
\* so that context and its surface live on, doomed.
Release ==
    /\ pc = "release"
    /\ LET destroyed ==
             {<<"surface", surface>>, <<"context", context>>, <<"display", display>>}
               \cap live
           lingering == IF current = display THEN destroyed \ Made("display", display)
                                             ELSE {}
       IN  /\ live' = live \ (destroyed \ lingering)
           /\ doomed' = doomed \cup lingering
    /\ display' = Null /\ context' = Null /\ surface' = Null
    /\ pc' = IF result = "none" THEN "next" ELSE "returned"
    /\ UNCHANGED <<args, loopVars, current, endVars>>

\* Mutant: the loop's condition is <= instead of <.
OneDeviceTooMany ==
    /\ pc = "next"
    /\ pc' = IF device <= numDevices THEN "display" ELSE "returned"
    /\ device' = IF device <= numDevices THEN device + 1 ELSE device
    /\ UNCHANGED <<args, numDevices, dataVars, eglVars, endVars>>

NextDevice ==
    /\ pc = "next"
    /\ pc' = IF device < numDevices THEN "display" ELSE "returned"
    /\ device' = IF device < numDevices THEN device + 1 ELSE device
    /\ UNCHANGED <<args, numDevices, dataVars, eglVars, endVars>>

Next ==
    \/ ReadArguments \/ ParseScript \/ QueryDevices
    \/ OpenDisplay \/ ReadBeyondDevices
    \/ CheckEglVersion \/ BindApi \/ ChooseConfig
    \/ CreateContext \/ CreateSurface \/ MakeCurrent
    \/ LoadFunctions \/ ReadStrings \/ MatchSubstring
    \/ RunScript \/ Release \/ NextDevice

\* One thread; the script's own run ends (ShaderTrap), and so does every EGL call.
Spec == Init /\ [][Next]_mainVars /\ WF_mainVars(Next)

-----------------------------------------------------------------------------
Attempt == {"display", "version", "api", "config", "context", "surface", "current",
            "functions", "strings", "match", "run", "release", "next"}
Ended == {"returned", "crashed"}
Handle == 0 .. OutOfBounds
EglObject == {"display", "context", "surface"} \X (1 .. OutOfBounds)

\* Every variable keeps its type, and the loop's index stays within num_devices.
TypeOK ==
    /\ pc \in {"arguments", "script", "query"} \cup Attempt \cup Ended
    /\ numDevices \in Handle
    /\ device \in 0 .. numDevices
    /\ pc \in Attempt => device > 0
    /\ display \in Handle /\ context \in Handle /\ surface \in Handle
    /\ result \in {"none", "passed", "failed", "crashed"}
    /\ exitCode \in {0, 1}
    /\ live \subseteq EglObject
    /\ doomed \subseteq live
    /\ current \in Handle

\* What egl_data will release.
HeldByData ==
    {<<"display", display>>, <<"context", context>>, <<"surface", surface>>}

\* Whatever exists is in the hands of egl_data, or has been destroyed while it was
\* current: a device that is skipped, at whichever call, leaves nothing else behind,
\* and neither does a return of main.
NothingLeaks ==
    /\ live \subseteq HeldByData \cup doomed
    /\ \A o \in doomed : o[1] # "display" /\ o[2] = current
    /\ pc = "next" \/ pc = "returned" => HeldByData \cap EglObject = {}

\* OpenGL is asked for strings, and the script is run, on the context and surface of
\* the device being tried, which exist and have not been destroyed; never on what an
\* earlier device left current.
RunsOnItsOwnContext ==
    pc \in {"functions", "strings", "match", "run"} =>
        /\ current = device
        /\ HeldByData = {<<"display", device>>, <<"context", device>>, <<"surface", device>>}
        /\ HeldByData \subseteq live \ doomed

\* When the script is parsed every argument has had its effect: there is one script
\* name and at most one string to look for, empty ones aside.
NothingIsIgnored ==
    pc \notin {"arguments", "returned"} =>
        /\ NamesIn(args) \ {""} = {CommandLineOf(args).script}
        /\ ValuesIn(args) \ {""} \subseteq {substring}

-----------------------------------------------------------------------------
(***************************************************************************)
(* Refinement: devices are tried in order and the script runs once.        *)
(***************************************************************************)
IsChosen(d) == d = device /\ (pc = "run" \/ result # "none")
IsSkipped(d) ==
    \/ d < device
    \/ d = device /\ pc \in {"release", "next", "returned"} /\ ~IsChosen(d)

Verdict(d) ==
    IF IsChosen(d) THEN "chosen" ELSE IF IsSkipped(d) THEN "skipped" ELSE "untried"

Outcome ==
    IF pc = "crashed" THEN "killed"
    ELSE IF pc # "returned" THEN "undecided"
    ELSE IF exitCode = 0 THEN "success" ELSE "failure"

Promise == INSTANCE FirstSuitableDevice WITH
    MostDevices <- OutOfBounds,
    devices <- numDevices,
    verdict <- [d \in 1 .. OutOfBounds |-> Verdict(d)],
    outcome <- Outcome

\* Whatever fails, main runs the script on the first device that can run it and on no
\* other, ends, and its exit code says how that run went.
KeepsItsPromise == Promise!Spec

\* The part of it that is proved.
KeepsItsPromiseSafely == Promise!Init /\ [][Promise!Next]_(Promise!promiseVars)
==============================================================================
