---------------------------- MODULE EglMainProofs ----------------------------
(***************************************************************************)
(* Proofs about the device loop, for every number of devices, every list   *)
(* of arguments, either API, with and without assertions; and about what   *)
(* main makes of the arguments.                                            *)
(***************************************************************************)
EXTENDS EglMain, Recursion

Calling == Attempt \ {"release", "next"}
HasDisplay == Calling \ {"display"}
HasContext == {"surface", "current", "functions", "strings", "match", "run"}
HasSurface == HasContext \ {"surface"}
IsCurrent == HasSurface \ {"current"}

\* The members of egl_data belong to one device, and a call is reached only with
\* what the earlier calls made.
Handles ==
    /\ display \in {Null, device}
    /\ context \in {Null, display}
    /\ surface \in {Null, display}
    /\ pc \notin (Attempt \ {"display", "next"}) \cup {"crashed"} => display = Null
    /\ pc \in HasDisplay => display = device /\ <<"display", device>> \in live
    /\ pc \in HasContext => context = device /\ <<"context", device>> \in live
    /\ pc \in HasSurface => surface = device /\ <<"surface", device>> \in live

\* What is current was made so by this device or by an earlier one.
Currency ==
    /\ current <= device
    /\ pc \in Calling \ IsCurrent => current < device
    /\ pc \in IsCurrent => current = device /\ doomed = {}

\* Where main is tells whether there has been a run, and where the loop is.
Progress ==
    /\ pc \in {"arguments", "script", "query"} => numDevices = 0
    /\ pc \in Calling \cup {"arguments", "script", "query", "next"} => result = "none"
    /\ result = "none" /\ pc = "returned" => device = numDevices
    /\ pc \in {"release", "returned"} => result # "crashed"
    /\ result # "none" => device > 0
    /\ exitCode = 0 <=> result = "passed"

\* The inductive invariant.
MainInv ==
    /\ TypeOK
    /\ Handles
    /\ Currency
    /\ NothingLeaks
    /\ Progress

\* Before the first device nothing is held.
LEMMA MainInit == Init => MainInv
<1> SUFFICES ASSUME Init PROVE MainInv
  OBVIOUS
<1> USE DevicesAssumption DEF Init, Null
<1>1. TypeOK
  BY DEF TypeOK, Handle, OutOfBounds, Attempt, Ended
<1>2. Handles
  BY DEF Handles, Attempt, Calling, HasDisplay, HasContext, HasSurface
<1>3. Currency
  BY DEF Currency, Calling, Attempt, IsCurrent, HasContext, HasSurface
<1>4. NothingLeaks
  BY DEF NothingLeaks
<1>5. Progress
  BY DEF Progress, Calling, Attempt
<1> QED
  BY <1>1, <1>2, <1>3, <1>4, <1>5 DEF MainInv

\* Every EGL call, failed or not, and every release keep the invariant.
LEMMA MainStep == MainInv /\ [Next]_mainVars => MainInv'
<1> SUFFICES ASSUME MainInv, [Next]_mainVars PROVE MainInv'
  OBVIOUS
<1> USE DevicesAssumption
    DEF MainInv, TypeOK, Handles, Currency, NothingLeaks, Progress, HeldByData, Handle,
        EglObject, Null, OutOfBounds, Attempt, Calling, HasDisplay, HasContext, HasSurface,
        IsCurrent, Ended, loopVars, dataVars, eglVars, endVars, Made
<1>1. CASE ReadArguments
  BY <1>1 DEF ReadArguments
<1>2. CASE ParseScript
  BY <1>2 DEF ParseScript
<1>3. CASE QueryDevices
  BY <1>3 DEF QueryDevices
<1>4. CASE OpenDisplay
  BY <1>4 DEF OpenDisplay
<1>5. CASE ReadBeyondDevices
  BY <1>5 DEF ReadBeyondDevices
<1>6. CASE CheckEglVersion
  BY <1>6 DEF CheckEglVersion, Passes
<1>7. CASE BindApi
  BY <1>7 DEF BindApi, Passes
<1>8. CASE ChooseConfig
  BY <1>8 DEF ChooseConfig, Passes
<1>9. CASE CreateContext
  BY <1>9 DEF CreateContext, Creates
<1>10. CASE CreateSurface
  BY <1>10 DEF CreateSurface, Creates
<1>11. CASE MakeCurrent
  BY <1>11 DEF MakeCurrent
<1>12. CASE LoadFunctions
  BY <1>12 DEF LoadFunctions, Passes
<1>13. CASE ReadStrings
  BY <1>13 DEF ReadStrings
<1>14. CASE MatchSubstring
  BY <1>14 DEF MatchSubstring
<1>15. CASE RunScript
  BY <1>15 DEF RunScript
<1>16. CASE Release
  BY <1>16 DEF Release
<1>17. CASE NextDevice
  BY <1>17 DEF NextDevice
<1>18. CASE UNCHANGED mainVars
  BY <1>18 DEF mainVars
<1> QED
  BY <1>1, <1>2, <1>3, <1>4, <1>5, <1>6, <1>7, <1>8, <1>9, <1>10, <1>11, <1>12, <1>13, <1>14, <1>15, <1>16, <1>17, <1>18 DEF Next

\* MainInv holds throughout.
THEOREM MainInvariant == Spec => []MainInv
BY MainInit, MainStep, PTL DEF Spec

\* The loop's index stays within num_devices and every handle is a device's.
THEOREM MainTypeCorrect == Spec => []TypeOK
<1>1. MainInv => TypeOK
  BY DEF MainInv
<1> QED
  BY MainInvariant, <1>1, PTL

\* Whichever calls fail on however many devices, what exists is in the hands of
\* egl_data or was destroyed while current.
THEOREM NothingLeaksHolds == Spec => []NothingLeaks
<1>1. MainInv => NothingLeaks
  BY DEF MainInv
<1> QED
  BY MainInvariant, <1>1, PTL

\* The script runs on the context of the device being tried.
THEOREM RunsOnItsOwnContextHolds == Spec => []RunsOnItsOwnContext
<1>1. MainInv => RunsOnItsOwnContext
  BY DEF MainInv, Handles, Currency, RunsOnItsOwnContext, HasDisplay, HasContext,
         HasSurface, IsCurrent, Calling, Attempt, HeldByData
<1> QED
  BY MainInvariant, <1>1, PTL

-----------------------------------------------------------------------------
(***************************************************************************)
(* Refinement.  A step of main is a step of the promise or none: skipping  *)
(* a device is reaching the destructor without a run, choosing one is      *)
(* passing the last test.                                                  *)
(***************************************************************************)
LEMMA PromiseInit == Init => Promise!Init
BY DevicesAssumption
   DEF Init, Promise!Init, Promise!Device, Verdict, IsChosen, IsSkipped, Outcome,
       OutOfBounds, Null

\* The loop's index is a device.
LEMMA DeviceInRange ==
    ASSUME MainInv, device > 0
    PROVE  device \in 1 .. OutOfBounds /\ device <= numDevices
BY DevicesAssumption DEF MainInv, TypeOK, Handle, OutOfBounds

\* A step that moves no verdict, not the number of devices and not the outcome.
LEMMA NoNews ==
    ASSUME numDevices' = numDevices, Outcome' = Outcome,
           \A d \in 1 .. OutOfBounds : Verdict(d)' = Verdict(d)
    PROVE  UNCHANGED Promise!promiseVars
BY DEF Promise!promiseVars, OutOfBounds

\* While a device is being tried, it is the one the promise comes to next.
LEMMA TriesTheNext ==
    ASSUME MainInv, pc \in Calling \ {"run"}
    PROVE  Promise!IsNext(device) /\ device \in 1 .. OutOfBounds
<1>1. device \in 1 .. OutOfBounds /\ device <= numDevices /\ result = "none"
  BY DeviceInRange DEF MainInv, Progress, TypeOK, Calling
<1>2. /\ Outcome = "undecided"
      /\ \A d \in 1 .. OutOfBounds : d < device => Verdict(d) = "skipped"
      /\ Verdict(device) = "untried"
  BY <1>1, DevicesAssumption
     DEF Outcome, Verdict, IsChosen, IsSkipped, Calling, Attempt, OutOfBounds
<1>3. \A d \in 1 .. (device - 1) : d \in 1 .. OutOfBounds /\ d < device
  BY <1>1, DevicesAssumption DEF OutOfBounds
<1> QED
  BY <1>1, <1>2, <1>3 DEF Promise!IsNext

\* A call that fails, and a device that is refused.
LEMMA SkipsDevice ==
    ASSUME MainInv, pc \in Calling \ {"run"}, pc' = "release",
           UNCHANGED <<numDevices, device, result, exitCode>>
    PROVE  Promise!Skip(device)
<1>1. Promise!IsNext(device) /\ device \in 1 .. OutOfBounds
  BY TriesTheNext
<1>2. result = "none" /\ Outcome' = Outcome
  BY DEF MainInv, Progress, Outcome, Calling, Attempt
<1>3. \A d \in 1 .. OutOfBounds :
        Verdict(d)' = IF d = device THEN "skipped" ELSE Verdict(d)
  BY <1>1, <1>2, DevicesAssumption
     DEF Verdict, IsChosen, IsSkipped, Calling, Attempt, OutOfBounds
<1> QED
  BY <1>1, <1>2, <1>3 DEF Promise!Skip

\* The last test is passed.
LEMMA ChoosesDevice ==
    ASSUME MainInv, pc = "match", pc' = "run",
           UNCHANGED <<numDevices, device, result, exitCode>>
    PROVE  Promise!Choose(device)
<1>1. Promise!IsNext(device) /\ device \in 1 .. OutOfBounds
  BY TriesTheNext DEF Calling, Attempt
<1>2. result = "none" /\ Outcome' = Outcome
  BY DEF MainInv, Progress, Outcome, Calling, Attempt
<1>3. \A d \in 1 .. OutOfBounds :
        Verdict(d)' = IF d = device THEN "chosen" ELSE Verdict(d)
  BY <1>1, <1>2, DevicesAssumption DEF Verdict, IsChosen, IsSkipped, OutOfBounds
<1> QED
  BY <1>1, <1>2, <1>3 DEF Promise!Choose

\* One call after another, and a crash wherever the model has one.
LEMMA CallsGoOn ==
    ASSUME MainInv, pc \in Calling \ {"run"},
           pc' \in (Calling \ {"run"}) \cup {"crashed"},
           UNCHANGED <<numDevices, device, result, exitCode>>
    PROVE  [Promise!Next]_(Promise!promiseVars)
<1>1. \A d \in 1 .. OutOfBounds : Verdict(d)' = Verdict(d)
  BY DEF Verdict, IsChosen, IsSkipped, Calling, Attempt
<1>2. CASE pc' = "crashed"
  <2>1. Outcome = "undecided" /\ Outcome' = "killed"
    BY <1>2 DEF Outcome, Calling, Attempt
  <2> QED
    BY <1>1, <2>1 DEF Promise!Next, Promise!Decide, OutOfBounds
<1>3. CASE pc' # "crashed"
  <2>1. Outcome' = Outcome
    BY <1>3 DEF Outcome, Calling, Attempt
  <2> QED
    BY <1>1, <2>1, NoNews
<1> QED
  BY <1>2, <1>3

\* A call of the loop's body that leaves the loop alone, whatever becomes of it.
LEMMA CallRefines ==
    ASSUME MainInv, pc \in Calling \ {"match", "run"},
           pc' \in (Calling \ {"run"}) \cup {"release", "crashed"},
           UNCHANGED <<numDevices, device, result, exitCode>>
    PROVE  [Promise!Next]_(Promise!promiseVars)
<1>1. CASE pc' = "release"
  <2>1. device \in Promise!Device
    BY DeviceInRange DEF MainInv, TypeOK, Calling, Promise!Device
  <2> QED
    BY <1>1, <2>1, SkipsDevice DEF Promise!Next
<1>2. CASE pc' # "release"
  BY <1>2, CallsGoOn
<1> QED
  BY <1>1, <1>2

\* Every step of main is one of the abstract loop or is not seen by it.
LEMMA PromiseStep == MainInv /\ [Next]_mainVars => [Promise!Next]_(Promise!promiseVars)
<1> SUFFICES ASSUME MainInv, [Next]_mainVars
             PROVE  [Promise!Next]_(Promise!promiseVars)
  OBVIOUS
<1> USE DEF loopVars, endVars
<1>1. ASSUME pc' = "returned" \/ pc' = "crashed", pc \in {"arguments", "script"},
             UNCHANGED <<numDevices, device, result, exitCode>>
      PROVE  Promise!Decide
  <2>1. numDevices = 0 /\ device = 0 /\ result = "none" /\ exitCode # 0
    BY <1>1 DEF MainInv, TypeOK, Progress
  <2>2. Outcome = "undecided" /\ Outcome' \in {"failure", "killed"}
    BY <1>1, <2>1 DEF Outcome
  <2>3. \A d \in 1 .. OutOfBounds : Verdict(d)' = Verdict(d)
    BY <1>1, <2>1 DEF Verdict, IsChosen, IsSkipped
  <2> QED
    BY <1>1, <2>1, <2>2, <2>3, DevicesAssumption DEF Promise!Decide, OutOfBounds
<1>2. ASSUME pc \in {"arguments", "script"}, pc' \in {"script", "query"},
             UNCHANGED <<numDevices, device, result, exitCode>>
      PROVE  UNCHANGED Promise!promiseVars
  BY <1>2, NoNews DEF Verdict, IsChosen, IsSkipped, Outcome
<1>3. CASE ReadArguments \/ ParseScript
  BY <1>1, <1>2, <1>3 DEF ReadArguments, ParseScript, Promise!Next
<1>4. CASE QueryDevices
  <2>1. numDevices = 0 /\ device = 0 /\ result = "none" /\ exitCode # 0 /\ Outcome = "undecided"
    BY <1>4 DEF MainInv, TypeOK, Progress, QueryDevices, Outcome
  <2>2. \A d \in 1 .. OutOfBounds : Verdict(d)' = Verdict(d)
    BY <1>4, <2>1 DEF QueryDevices, Verdict, IsChosen, IsSkipped
  <2>3. CASE numDevices' = 0
    <3>1. Outcome' = "failure"
      BY <1>4, <2>1, <2>3 DEF QueryDevices, Outcome
    <3> QED
      BY <2>1, <2>2, <2>3, <3>1, DevicesAssumption
         DEF Promise!Next, Promise!Decide, OutOfBounds
  <2>4. CASE numDevices' # 0
    <3>1. Outcome' = "undecided" /\ numDevices' \in 1 .. OutOfBounds
      BY <1>4, <2>4, DevicesAssumption DEF QueryDevices, Outcome, OutOfBounds
    <3> QED
      BY <2>1, <2>2, <3>1, DevicesAssumption
         DEF Promise!Next, Promise!Enumerate, Promise!Device, OutOfBounds
  <2> QED
    BY <2>3, <2>4
<1>5. CASE \/ OpenDisplay \/ ReadBeyondDevices \/ CheckEglVersion \/ BindApi
           \/ ChooseConfig \/ CreateContext \/ CreateSurface \/ MakeCurrent
           \/ LoadFunctions \/ ReadStrings
  <2>1. /\ pc \in Calling \ {"match", "run"}
        /\ pc' \in (Calling \ {"run"}) \cup {"release", "crashed"}
        /\ UNCHANGED <<numDevices, device, result, exitCode>>
    BY <1>5 DEF OpenDisplay, ReadBeyondDevices, CheckEglVersion, BindApi, ChooseConfig,
                CreateContext, CreateSurface, MakeCurrent, LoadFunctions, ReadStrings,
                Passes, Creates, Calling, Attempt
  <2> QED
    BY <2>1, CallRefines
<1>6. CASE MatchSubstring
  <2>1. device \in Promise!Device
    BY <1>6, DeviceInRange DEF MatchSubstring, MainInv, TypeOK, Attempt, Promise!Device
  <2>2. Promise!Skip(device) \/ Promise!Choose(device)
    BY <1>6, SkipsDevice, ChoosesDevice DEF MatchSubstring, Calling, Attempt
  <2> QED
    BY <2>1, <2>2 DEF Promise!Next
<1>7. CASE RunScript
  <2>1. device \in 1 .. OutOfBounds /\ result = "none" /\ Outcome = "undecided"
    BY <1>7, DeviceInRange
       DEF RunScript, MainInv, TypeOK, Progress, Attempt, Calling, Outcome
  <2>2. \A d \in 1 .. OutOfBounds : Verdict(d)' = Verdict(d)
    BY <1>7, <2>1 DEF RunScript, Verdict, IsChosen, IsSkipped
  <2>3. numDevices' = numDevices /\ Outcome' \in {"undecided", "killed"}
    BY <1>7 DEF RunScript, Outcome
  <2>4. CASE Outcome' = "undecided"
    BY <2>1, <2>2, <2>3, <2>4, NoNews
  <2>5. CASE Outcome' = "killed"
    BY <2>1, <2>2, <2>3, <2>5 DEF Promise!Next, Promise!Decide, OutOfBounds
  <2> QED
    BY <2>3, <2>4, <2>5
<1>8. CASE Release /\ result = "none"
  BY <1>8, NoNews DEF Release, Verdict, IsChosen, IsSkipped, Outcome
<1>9. CASE Release /\ result # "none"
  <2>1. device \in 1 .. OutOfBounds /\ Outcome = "undecided"
    BY <1>9, DeviceInRange DEF Release, MainInv, Progress, Outcome
  <2>2. \A d \in 1 .. OutOfBounds : Verdict(d)' = Verdict(d)
    BY <1>9 DEF Release, Verdict, IsChosen, IsSkipped
  <2>3. Verdict(device) = "chosen" /\ Outcome' \in {"success", "failure"}
    BY <1>9 DEF Release, Verdict, IsChosen, Outcome
  <2>4. Promise!IsChosen
    BY <2>1, <2>3 DEF Promise!IsChosen, Promise!Device
  <2> QED
    BY <1>9, <2>1, <2>2, <2>3, <2>4
       DEF Release, Promise!Next, Promise!Decide, OutOfBounds
<1>10. CASE NextDevice /\ device < numDevices
  <2>1. result = "none" /\ device \in Nat /\ numDevices \in Nat
    BY <1>10, DevicesAssumption
       DEF NextDevice, MainInv, Progress, TypeOK, Handle, OutOfBounds
  <2>2. Outcome' = Outcome /\ numDevices' = numDevices
    BY <1>10 DEF NextDevice, Outcome
  <2>3. \A d \in 1 .. OutOfBounds : Verdict(d)' = Verdict(d)
    BY <1>10, <2>1, DevicesAssumption
       DEF NextDevice, Verdict, IsChosen, IsSkipped, OutOfBounds
  <2> QED
    BY <2>2, <2>3, NoNews
<1>11. CASE NextDevice /\ ~(device < numDevices)
  <2>1. /\ result = "none" /\ device \in Nat /\ device = numDevices /\ exitCode # 0
        /\ Outcome = "undecided"
    BY <1>11, DevicesAssumption
       DEF NextDevice, MainInv, Progress, TypeOK, Handle, OutOfBounds, Outcome
  <2>2. Outcome' = "failure" /\ numDevices' = numDevices
    BY <1>11, <2>1 DEF NextDevice, Outcome
  <2>3. \A d \in 1 .. OutOfBounds : Verdict(d)' = Verdict(d)
    BY <1>11, <2>1 DEF NextDevice, Verdict, IsChosen, IsSkipped
  <2>4. \A d \in 1 .. numDevices : d \in 1 .. OutOfBounds /\ Verdict(d) = "skipped"
    BY <1>11, <2>1, DeviceInRange, DevicesAssumption
       DEF NextDevice, Verdict, IsChosen, IsSkipped, OutOfBounds, MainInv, TypeOK, Attempt
  <2> QED
    BY <2>1, <2>2, <2>3, <2>4 DEF Promise!Next, Promise!Decide, OutOfBounds
<1>12. CASE UNCHANGED mainVars
  BY <1>12, NoNews DEF mainVars, Verdict, IsChosen, IsSkipped, Outcome
<1> QED
  BY <1>3, <1>4, <1>5, <1>6, <1>7, <1>8, <1>9, <1>10, <1>11, <1>12 DEF Next

\* Whatever fails, main tries the devices in order, runs the script on the first that
\* can run it and on no other, and succeeds only if that run did.
THEOREM KeepsItsPromiseHolds == Spec => KeepsItsPromiseSafely
<1>1. Spec => []MainInv /\ [][Next]_mainVars /\ Init
  BY MainInvariant, PTL DEF Spec
<1> QED
  BY <1>1, PromiseInit, PromiseStep, PTL DEF KeepsItsPromiseSafely

-----------------------------------------------------------------------------
(***************************************************************************)
(* The command line.                                                       *)
(***************************************************************************)
LineState ==
    [expects : {"argument", "value", "nothing"}, substring : Argument, script : Argument]

\* The options are different strings.
LEMMA OptionsDiffer ==
    /\ ShowGlInfo # RequireSubstring /\ UnknownOption # RequireSubstring
    /\ ShowGlInfo # UnknownOption
BY DEF ShowGlInfo, RequireSubstring, UnknownOption

\* The loop starts in one of its states.
LEMMA StartType == Start \in LineState
BY DEF Start, LineState, Argument

\* What taking an argument comes to, and that it is done so.
TakenAs(l, a, m) ==
    /\ l.expects = "nothing" => m = l
    /\ l.expects = "value" =>
         m.expects = "argument" /\ m.substring = a /\ m.script = l.script
    /\ l.expects = "argument" /\ a = RequireSubstring =>
         \/ l.substring # "" /\ m.expects = "nothing"
         \/ /\ l.substring = "" /\ m.expects = "value"
            /\ m.substring = l.substring /\ m.script = l.script
    /\ l.expects = "argument" /\ a \in Options \ {RequireSubstring} =>
         m = l \/ m.expects = "nothing"
    /\ l.expects = "argument" /\ a \notin Options =>
         \/ l.script # "" /\ m.expects = "nothing"
         \/ /\ l.script = "" /\ m.expects = "argument"
            /\ m.substring = l.substring /\ m.script = a

\* Taking any argument, in any state.
LEMMA TakesArgument ==
    ASSUME NEW l \in LineState, NEW a \in Argument
    PROVE  TakeArgument(l, a) \in LineState /\ TakenAs(l, a, TakeArgument(l, a))
<1> DEFINE m == TakeArgument(l, a)
<1> USE DEF TakenAs
<1>1. l.expects \in {"argument", "value", "nothing"}
  BY DEF LineState
<1>2. CASE l.expects = "nothing"
  BY <1>2 DEF TakeArgument
<1>3. CASE l.expects = "value"
  <2>1. m = [l EXCEPT !.expects = "argument", !.substring = a]
    BY <1>3 DEF TakeArgument
  <2> QED
    BY <1>3, <2>1 DEF LineState
<1>4. CASE l.expects = "argument" /\ a = RequireSubstring
  <2>1. m = IF l.substring # "" THEN Refused(l) ELSE [l EXCEPT !.expects = "value"]
    BY <1>4, OptionsDiffer DEF TakeArgument, Options
  <2> QED
    BY <1>4, <2>1 DEF LineState, Refused, Options
<1>5. CASE l.expects = "argument" /\ a \in Options \ {RequireSubstring}
  <2>1. m = l \/ m = Refused(l)
    BY <1>5, OptionsDiffer DEF TakeArgument, Options
  <2> QED
    BY <1>5, <2>1 DEF LineState, Refused
<1>6. CASE l.expects = "argument" /\ a \notin Options
  <2>1. m = TakeName(l, a) /\ a # RequireSubstring
    BY <1>6 DEF TakeArgument, Options
  <2> QED
    BY <1>6, <2>1 DEF LineState, TakeName, Refused
<1> QED
  BY <1>1, <1>2, <1>3, <1>4, <1>5, <1>6

\* The loop takes one argument after the other.
LEMMA LineTakesArguments ==
    ASSUME NEW list \in Seq(Argument)
    PROVE  /\ \A i \in 1 .. Len(list) + 1 : LineBefore(list)[i] \in LineState
           /\ LineBefore(list)[1] = Start
           /\ \A i \in 1 .. Len(list) :
                LineBefore(list)[i + 1] = TakeArgument(LineBefore(list)[i], list[i])
<1> DEFINE n == Len(list) + 1
           step == [p \in Nat \X LineState |->
                      IF p[1] \in 2 .. n THEN TakeArgument(p[2], list[p[1] - 1]) ELSE Start]
           Body(f) == [i \in 1 .. n |->
                         IF i = 1 THEN Start ELSE TakeArgument(f[i - 1], list[i - 1])]
<1>1. n \in Nat /\ \A i \in 1 .. Len(list) : list[i] \in Argument
  OBVIOUS
<1>2. step \in [Nat \X LineState -> LineState]
  <2>1. ASSUME NEW p \in Nat \X LineState, p[1] \in 2 .. n
        PROVE  TakeArgument(p[2], list[p[1] - 1]) \in LineState
    <3>1. p[2] \in LineState /\ list[p[1] - 1] \in Argument
      BY <1>1, <2>1
    <3> QED
      BY <3>1, TakesArgument
  <2> QED
    BY <2>1, StartType
<1>3. \A i \in 2 .. n : \A v \in LineState : step[<<i, v>>] = TakeArgument(v, list[i - 1])
  OBVIOUS
<1> HIDE DEF step
<1>4. PICK g \in [1 .. n -> LineState] : Iterates(g, n, Start, step)
  <2> HIDE DEF n
  <2> QED
    BY <1>1, <1>2, StartType, IterationExists, Zenon
<1>5. g = Body(g)
  <2>1. ASSUME NEW i \in 1 .. n
        PROVE  g[i] = IF i = 1 THEN Start ELSE TakeArgument(g[i - 1], list[i - 1])
    <3>1. i # 1 => i \in 2 .. n /\ g[i - 1] \in LineState
      OBVIOUS
    <3>2. g[i] = IF i = 1 THEN Start ELSE step[<<i, g[i - 1]>>]
      BY <1>4 DEF Iterates
    <3> QED
      BY <1>3, <3>1, <3>2
  <2> QED
    BY <2>1
<1> DEFINE before == LineBefore(list)
<1>6. before = Body(before)
  <2>1. LineBefore(list) = CHOOSE f : f = Body(f)
    BY DEF LineBefore
  <2>2. \E f : f = Body(f)
    BY <1>5
  <2> HIDE DEF Body
  <2> QED
    BY <2>1, <2>2, Zenon
<1> HIDE DEF before
<1>7. /\ before[1] = Start
      /\ \A i \in 2 .. n : before[i] = TakeArgument(before[i - 1], list[i - 1])
  <2>1. \A i \in 1 .. n :
          before[i] = IF i = 1 THEN Start ELSE TakeArgument(before[i - 1], list[i - 1])
    BY <1>6
  <2> QED
    BY <1>1, <2>1
<1>8. \A i \in 1 .. n : before[i] \in LineState
  <2>1. \A i \in 2 .. n : before[i - 1] \in LineState => before[i] = step[<<i, before[i - 1]>>]
    BY <1>3, <1>7
  <2> HIDE DEF n
  <2> QED
    BY <1>1, <1>2, <1>7, <2>1, StartType, IterationTyped
<1>9. ASSUME NEW i \in 1 .. Len(list)
      PROVE  before[i + 1] = TakeArgument(before[i], list[i])
  <2>1. i + 1 \in 2 .. n /\ (i + 1) - 1 = i
    BY <1>1
  <2> QED
    BY <1>7, <2>1
<1> QED
  BY <1>7, <1>8, <1>9 DEF before

\* An argument is a value if the one before it is the option, and no value itself.
LEMMA ValueFollowsOption ==
    ASSUME NEW list \in Seq(Argument), NEW i \in 1 .. Len(list)
    PROVE  IsValue(list)[i] <=>
             i > 1 /\ list[i - 1] = RequireSubstring /\ ~IsValue(list)[i - 1]
<1> DEFINE n == Len(list)
           step == [p \in Nat \X BOOLEAN |->
                      p[1] > 1 /\ list[p[1] - 1] = RequireSubstring /\ ~p[2]]
           Body(f) == [j \in 1 .. n |->
                         j > 1 /\ list[j - 1] = RequireSubstring /\ ~f[j - 1]]
<1>1. n \in Nat /\ FALSE \in BOOLEAN
  OBVIOUS
<1>2. step \in [Nat \X BOOLEAN -> BOOLEAN]
  OBVIOUS
<1>3. \A j \in 1 .. n : \A v \in BOOLEAN :
        step[<<j, v>>] = (j > 1 /\ list[j - 1] = RequireSubstring /\ ~v)
  OBVIOUS
<1> HIDE DEF step
<1>4. PICK g \in [1 .. n -> BOOLEAN] : Iterates(g, n, FALSE, step)
  <2> HIDE DEF n
  <2> QED
    BY <1>1, <1>2, IterationExists, Zenon
<1>5. g = Body(g)
  <2>1. ASSUME NEW j \in 1 .. n
        PROVE  g[j] = (j > 1 /\ list[j - 1] = RequireSubstring /\ ~g[j - 1])
    <3>1. CASE j = 1
      <4>1. g[j] = FALSE
        BY <1>4, <3>1 DEF Iterates
      <4> QED
        BY <3>1, <4>1
    <3>2. CASE j # 1
      <4>1. j - 1 \in 1 .. n /\ j > 1 /\ g[j - 1] \in BOOLEAN
        BY <3>2
      <4>2. g[j] = step[<<j, g[j - 1]>>]
        BY <1>4, <3>2 DEF Iterates
      <4> QED
        BY <1>3, <4>1, <4>2
    <3> QED
      BY <3>1, <3>2
  <2> QED
    BY <2>1
<1>6. IsValue(list) = Body(IsValue(list))
  <2>1. IsValue(list) = CHOOSE f : f = Body(f)
    BY DEF IsValue
  <2>2. \E f : f = Body(f)
    BY <1>5
  <2> HIDE DEF Body
  <2> QED
    BY <2>1, <2>2, Zenon
<1> QED
  BY <1>6

\* The arguments before one of them that are names, and those that are values.
NamesUpTo(list, n) == {list[i] : i \in {j \in 1 .. n : ~IsValue(list)[j] /\ list[j] \notin Options}}
ValuesUpTo(list, n) == {list[i] : i \in {j \in 1 .. n : IsValue(list)[j]}}

\* One more argument is a value, a name or an option.
LEMMA OneMoreArgument ==
    ASSUME NEW list \in Seq(Argument), NEW n \in Nat
    PROVE  /\ IsValue(list)[n + 1] =>
                /\ ValuesUpTo(list, n + 1) = ValuesUpTo(list, n) \cup {list[n + 1]}
                /\ NamesUpTo(list, n + 1) = NamesUpTo(list, n)
           /\ ~IsValue(list)[n + 1] =>
                ValuesUpTo(list, n + 1) = ValuesUpTo(list, n)
           /\ ~IsValue(list)[n + 1] /\ list[n + 1] \in Options =>
                NamesUpTo(list, n + 1) = NamesUpTo(list, n)
           /\ ~IsValue(list)[n + 1] /\ list[n + 1] \notin Options =>
                NamesUpTo(list, n + 1) = NamesUpTo(list, n) \cup {list[n + 1]}
<1>1. 1 .. n + 1 = (1 .. n) \cup {n + 1}
  OBVIOUS
<1> QED
  BY <1>1 DEF NamesUpTo, ValuesUpTo

\* What the loop has filled in says what the arguments so far mean, as long as it has
\* refused none.
Understood(list, i) ==
    LET l == LineBefore(list)[i + 1]
    IN  l.expects # "nothing" =>
          /\ NamesUpTo(list, i) \ {""} = {l.script} \ {""}
          /\ ValuesUpTo(list, i) \ {""} = {l.substring} \ {""}
          /\ l.expects = "value" <=> i > 0 /\ list[i] = RequireSubstring /\ ~IsValue(list)[i]
          /\ l.expects = "value" => l.substring = ""

\* Nothing is understood before the first argument.
LEMMA UnderstoodAtStart == ASSUME NEW list \in Seq(Argument) PROVE Understood(list, 0)
<1> DEFINE l == LineBefore(list)[0 + 1]
<1>1. l = Start
  BY LineTakesArguments
<1>2. l.expects = "argument" /\ l.script = "" /\ l.substring = ""
  <2>1. Start.expects = "argument" /\ Start.script = "" /\ Start.substring = ""
    BY DEF Start
  <2> HIDE DEF l
  <2> QED
    BY <1>1, <2>1
<1>3. NamesUpTo(list, 0) = {} /\ ValuesUpTo(list, 0) = {} /\ ~(0 > 0)
  BY DEF NamesUpTo, ValuesUpTo
<1> HIDE DEF l
<1>4. /\ NamesUpTo(list, 0) \ {""} = {l.script} \ {""}
      /\ ValuesUpTo(list, 0) \ {""} = {l.substring} \ {""}
  BY <1>2, <1>3
<1> QED
  BY <1>2, <1>3, <1>4 DEF Understood, l

\* Each argument is understood as it is meant, or refused.
LEMMA UnderstoodStep ==
    ASSUME NEW list \in Seq(Argument), NEW i \in 0 .. Len(list) - 1, Understood(list, i)
    PROVE  Understood(list, i + 1)
<1> DEFINE l == LineBefore(list)[i + 1]
           a == list[i + 1]
           m == LineBefore(list)[i + 1 + 1]
           value == IsValue(list)[i + 1]
<1>1. /\ i + 1 \in 1 .. Len(list) /\ i + 1 \in 1 .. Len(list) + 1 /\ i \in Nat
      /\ a \in Argument
  OBVIOUS
<1>2. l \in LineState /\ TakenAs(l, a, m)
  BY <1>1, LineTakesArguments, TakesArgument
<1>3. value <=> i > 0 /\ list[i] = RequireSubstring /\ ~IsValue(list)[i]
  <2>1. i + 1 > 1 <=> i > 0
    BY <1>1
  <2>2. (i + 1) - 1 = i
    BY <1>1
  <2> QED
    BY <1>1, <2>1, <2>2, ValueFollowsOption
<1>4. CASE l.expects = "nothing"
  <2>1. m.expects = "nothing"
    BY <1>1, <1>2, <1>4 DEF TakenAs
  <2> QED
    BY <2>1 DEF Understood
<1>5. CASE l.expects = "value"
  <2>1. m.expects = "argument" /\ m.substring = a /\ m.script = l.script
    BY <1>1, <1>2, <1>5 DEF TakenAs
  <2>2. value /\ l.substring = ""
    BY <1>3, <1>5 DEF Understood
  <2>3. /\ NamesUpTo(list, i + 1) \ {""} = {m.script} \ {""}
        /\ ValuesUpTo(list, i + 1) \ {""} = {m.substring} \ {""}
    BY <1>1, <1>5, <2>1, <2>2, OneMoreArgument DEF Understood
  <2> QED
    BY <2>1, <2>2, <2>3 DEF Understood
<1>6. CASE l.expects = "argument"
  <2>1. ~value
    BY <1>3, <1>6 DEF Understood
  <2>2. CASE a = RequireSubstring
    <3>1. CASE l.substring # ""
      <4>1. m.expects = "nothing"
        BY <1>1, <1>2, <1>6, <2>2, <3>1 DEF TakenAs
      <4> QED
        BY <4>1 DEF Understood
    <3>2. CASE l.substring = ""
      <4>1. m.expects = "value" /\ m.substring = l.substring /\ m.script = l.script
        BY <1>1, <1>2, <1>6, <2>2, <3>2 DEF TakenAs
      <4>2. a \in Options
        BY <2>2 DEF Options
      <4>3. /\ NamesUpTo(list, i + 1) \ {""} = {m.script} \ {""}
            /\ ValuesUpTo(list, i + 1) \ {""} = {m.substring} \ {""}
        BY <1>1, <1>6, <2>1, <4>1, <4>2, OneMoreArgument DEF Understood
      <4>4. i + 1 > 0
        BY <1>1
      <4> QED
        BY <2>1, <2>2, <3>2, <4>1, <4>3, <4>4 DEF Understood
    <3> QED
      BY <3>1, <3>2
  <2>3. CASE a \in Options \ {RequireSubstring}
    <3>1. m = l \/ m.expects = "nothing"
      BY <1>1, <1>2, <1>6, <2>3 DEF TakenAs
    <3>2. /\ NamesUpTo(list, i + 1) = NamesUpTo(list, i)
          /\ ValuesUpTo(list, i + 1) = ValuesUpTo(list, i)
      BY <1>1, <2>1, <2>3, OneMoreArgument
    <3> QED
      BY <1>6, <2>3, <3>1, <3>2 DEF Understood
  <2>4. CASE a \notin Options
    <3>1. CASE l.script # ""
      <4>1. m.expects = "nothing"
        BY <1>1, <1>2, <1>6, <2>4, <3>1 DEF TakenAs
      <4> QED
        BY <4>1 DEF Understood
    <3>2. CASE l.script = ""
      <4>1. m.expects = "argument" /\ m.substring = l.substring /\ m.script = a
        BY <1>1, <1>2, <1>6, <2>4, <3>2 DEF TakenAs
      <4>2. /\ NamesUpTo(list, i + 1) \ {""} = {m.script} \ {""}
            /\ ValuesUpTo(list, i + 1) \ {""} = {m.substring} \ {""}
        BY <1>1, <1>6, <2>1, <2>4, <3>2, <4>1, OneMoreArgument DEF Understood
      <4>3. a # RequireSubstring
        BY <2>4 DEF Options
      <4> QED
        BY <4>1, <4>2, <4>3 DEF Understood
    <3> QED
      BY <3>1, <3>2
  <2> QED
    BY <2>2, <2>3, <2>4
<1> QED
  BY <1>2, <1>4, <1>5, <1>6 DEF LineState

\* However many arguments there are.
LEMMA AllUnderstood ==
    ASSUME NEW list \in Seq(Argument)
    PROVE  Understood(list, Len(list))
<1> DEFINE S == {i \in Nat : i <= Len(list) => Understood(list, i)}
<1>1. Len(list) \in Nat
  OBVIOUS
<1>2. 0 \in S
  BY UnderstoodAtStart
<1>3. ASSUME NEW i \in Nat, i \in S PROVE i + 1 \in S
  <2>1. SUFFICES ASSUME i + 1 <= Len(list) PROVE Understood(list, i + 1)
    OBVIOUS
  <2>2. i \in 0 .. Len(list) - 1 /\ Understood(list, i)
    BY <1>1, <1>3, <2>1
  <2> QED
    BY <2>2, UnderstoodStep
<1> HIDE DEF S
<1>4. \A i \in Nat : i \in S
  BY <1>2, <1>3, NumbersInduction
<1> QED
  BY <1>1, <1>4 DEF S

\* A command line that can be used has had all its arguments taken.
LEMMA UsableIsUnderstood ==
    ASSUME NEW list \in Seq(Argument), Usable(CommandLineOf(list))
    PROVE  /\ NamesIn(list) \ {""} = {CommandLineOf(list).script}
           /\ ValuesIn(list) \ {""} \subseteq {CommandLineOf(list).substring}
<1>1. /\ CommandLineOf(list).expects = "argument"
      /\ CommandLineOf(list).script # ""
  BY DEF Usable
<1>2. NamesIn(list) = NamesUpTo(list, Len(list)) /\ ValuesIn(list) = ValuesUpTo(list, Len(list))
  BY DEF NamesIn, ValuesIn, NamesUpTo, ValuesUpTo
<1>3. /\ NamesUpTo(list, Len(list)) \ {""} = {CommandLineOf(list).script} \ {""}
      /\ ValuesUpTo(list, Len(list)) \ {""} = {CommandLineOf(list).substring} \ {""}
  BY <1>1, AllUnderstood DEF Understood, CommandLineOf
<1> QED
  BY <1>1, <1>2, <1>3

\* Main gets past the arguments only with a command line that it can use.
LineInv ==
    /\ args \in Seq(Argument)
    /\ pc \notin {"arguments", "returned"} => Usable(CommandLineOf(args))

\* It holds of any list of arguments at first.
LEMMA LineInit == Init => LineInv
BY ArgumentsAssumption DEF Init, LineInv

\* Nothing changes the arguments, and only they decide whether main goes on.
LEMMA LineStep == LineInv /\ [Next]_mainVars => LineInv'
<1> SUFFICES ASSUME LineInv, [Next]_mainVars PROVE LineInv'
  OBVIOUS
<1>1. args' = args
  BY DEF Next, mainVars, ReadArguments, ParseScript, QueryDevices, OpenDisplay,
         ReadBeyondDevices, CheckEglVersion, BindApi, ChooseConfig, CreateContext,
         CreateSurface, MakeCurrent, LoadFunctions, ReadStrings, MatchSubstring, RunScript,
         Release, NextDevice, Passes, Creates
<1>2. CASE ReadArguments
  <2>1. pc' \notin {"arguments", "returned"} => Usable(CommandLineOf(args))
    BY <1>2 DEF ReadArguments
  <2> QED
    BY <1>1, <2>1 DEF LineInv
<1>3. CASE ~ReadArguments
  <2>1. pc' = pc \/ pc \notin {"arguments", "returned"}
    BY <1>3
    DEF Next, mainVars, ParseScript, QueryDevices, OpenDisplay,
        ReadBeyondDevices, CheckEglVersion, BindApi, ChooseConfig, CreateContext,
        CreateSurface, MakeCurrent, LoadFunctions, ReadStrings, MatchSubstring, RunScript,
        Release, NextDevice, Passes, Creates
  <2> QED
    BY <1>1, <2>1 DEF LineInv
<1> QED
  BY <1>2, <1>3

\* Once the arguments are read, each of them has had its effect.
THEOREM NothingIsIgnoredHolds == Spec => []NothingIsIgnored
<1>1. LineInv => NothingIsIgnored
  BY UsableIsUnderstood DEF LineInv, NothingIsIgnored, substring
<1> QED
  BY LineInit, LineStep, <1>1, PTL DEF Spec

-----------------------------------------------------------------------------
(***************************************************************************)
(* Main ends.  Of KeepsItsPromise this is the part that is about main and  *)
(* not about the scheduler: a number that every step makes smaller.        *)
(***************************************************************************)
\* The steps of an attempt that are still to come: one for each call from opening the display
\* on, the run of the script, the destructor and the loop's condition.
AttemptLeft ==
    CASE pc = "display" -> 13 [] pc = "version" -> 12 [] pc = "api" -> 11
      [] pc = "config" -> 10 [] pc = "context" -> 9 [] pc = "surface" -> 8
      [] pc = "current" -> 7 [] pc = "functions" -> 6 [] pc = "strings" -> 5
      [] pc = "match" -> 4 [] pc = "run" -> 3 [] pc = "release" -> 2 [] pc = "next" -> 1

StepsLeft ==
    CASE pc \in Ended -> 0
      [] pc = "arguments" -> 13 * OutOfBounds + 3
      [] pc = "script" -> 13 * OutOfBounds + 2
      [] pc = "query" -> 13 * OutOfBounds + 1
      [] pc \in Attempt -> 13 * (numDevices - device) + AttemptLeft

\* Every device tried is one less to try, and each step of an attempt is one less of it.
LEMMA StepsLeftAre ==
    ASSUME TypeOK
    PROVE  /\ pc \in Attempt => AttemptLeft \in 1 .. 13
           /\ StepsLeft \in 0 .. (13 * OutOfBounds + 3)
<1>1. /\ OutOfBounds \in Nat /\ numDevices \in 0 .. OutOfBounds /\ device \in 0 .. numDevices
  BY DevicesAssumption DEF OutOfBounds, TypeOK, Handle
<1>2. pc \in Attempt => AttemptLeft \in 1 .. 13
  BY DEF Attempt, AttemptLeft
<1>3. CASE pc \in Attempt
  <2>1. StepsLeft = 13 * (numDevices - device) + AttemptLeft /\ device > 0
    BY <1>3 DEF StepsLeft, Attempt, Ended, TypeOK
  <2> QED
    BY <1>1, <1>2, <1>3, <2>1
<1>4. CASE pc \in {"arguments", "script", "query"} \cup Ended
  BY <1>1, <1>4 DEF StepsLeft, Ended, Attempt
<1> QED
  BY <1>2, <1>3, <1>4 DEF TypeOK

\* An attempt goes on, and leaves the loop where it is.
LEMMA AttemptsGetOn ==
    ASSUME TypeOK, TypeOK', pc \in Attempt, UNCHANGED loopVars,
           pc' \in Ended \/ (pc' \in Attempt /\ AttemptLeft' < AttemptLeft)
    PROVE  StepsLeft' < StepsLeft
<1>1. /\ OutOfBounds \in Nat /\ numDevices \in 0 .. OutOfBounds /\ device \in 0 .. numDevices
  BY DevicesAssumption DEF OutOfBounds, TypeOK, Handle
<1>2. StepsLeft = 13 * (numDevices - device) + AttemptLeft /\ AttemptLeft \in 1 .. 13
  BY StepsLeftAre DEF StepsLeft, Attempt, Ended
<1>3. CASE pc' \in Ended
  <2>1. StepsLeft' = 0
    BY <1>3 DEF StepsLeft, Ended, Attempt
  <2> QED
    BY <1>1, <1>2, <2>1
<1>4. CASE pc' \in Attempt /\ AttemptLeft' < AttemptLeft
  <2>1. StepsLeft' = 13 * (numDevices - device) + AttemptLeft'
    BY <1>4 DEF StepsLeft, Attempt, Ended, loopVars
  <2>2. AttemptLeft' \in 1 .. 13
    BY <1>4 DEF Attempt, AttemptLeft
  <2>3. \A k \in Int : \A a, b \in 1 .. 13 : b < a => 13 * k + b < 13 * k + a
    OBVIOUS
  <2>4. numDevices - device \in Int
    BY <1>1
  <2> QED
    BY <1>2, <1>4, <2>1, <2>2, <2>3, <2>4
<1> QED
  BY <1>3, <1>4

\* Every step makes the number smaller.
LEMMA StepsGetOn ==
    ASSUME TypeOK, TypeOK', Next
    PROVE  StepsLeft' < StepsLeft
<1>0. OutOfBounds \in Nat
  BY DevicesAssumption DEF OutOfBounds
<1>1. CASE ReadArguments \/ ParseScript
  BY <1>0, <1>1 DEF ReadArguments, ParseScript, StepsLeft, Ended, Attempt
<1>2. CASE QueryDevices
  <2>1. PICK n \in 0 .. OutOfBounds :
          /\ numDevices' = n
          /\ IF n = 0 THEN pc' = "returned" ELSE pc' = "display" /\ device' = 1
    BY <1>2 DEF QueryDevices
  <2>2. StepsLeft = 13 * OutOfBounds + 1
    BY <1>2 DEF QueryDevices, StepsLeft, Ended, Attempt
  <2>3. CASE n = 0
    <3>1. StepsLeft' = 0
      BY <2>1, <2>3 DEF StepsLeft, Ended, Attempt
    <3> QED
      BY <1>0, <2>2, <3>1
  <2>4. CASE n # 0
    <3>1. StepsLeft' = 13 * (n - 1) + 13
      BY <2>1, <2>4 DEF StepsLeft, AttemptLeft, Ended, Attempt
    <3> QED
      BY <1>0, <2>1, <2>2, <3>1
  <2> QED
    BY <2>3, <2>4
<1>3. CASE OpenDisplay \/ ReadBeyondDevices
  BY <1>3, AttemptsGetOn DEF OpenDisplay, ReadBeyondDevices, AttemptLeft, Attempt, Ended
<1>4. CASE CheckEglVersion \/ BindApi \/ ChooseConfig \/ LoadFunctions
  BY <1>4, AttemptsGetOn
  DEF CheckEglVersion, BindApi, ChooseConfig, LoadFunctions, Passes, AttemptLeft, Attempt
<1>5. CASE CreateContext \/ CreateSurface
  BY <1>5, AttemptsGetOn
  DEF CreateContext, CreateSurface, Creates, AttemptLeft, Attempt, Ended
<1>6. CASE MakeCurrent
  BY <1>6, AttemptsGetOn DEF MakeCurrent, AttemptLeft, Attempt
<1>7. CASE ReadStrings \/ MatchSubstring \/ RunScript
  <2>1. /\ UNCHANGED loopVars
        /\ \/ pc = "strings" /\ pc' \in {"match", "release", "crashed"}
           \/ pc = "match" /\ pc' \in {"run", "release"}
           \/ pc = "run" /\ pc' \in {"release", "crashed"}
    BY <1>7 DEF ReadStrings, MatchSubstring, RunScript
  <2> QED
    BY <2>1, AttemptsGetOn DEF AttemptLeft, Attempt, Ended
<1>8. CASE Release
  <2>1. /\ pc = "release" /\ pc' \in {"next", "returned"} /\ UNCHANGED loopVars
    BY <1>8 DEF Release
  <2> QED
    BY <2>1, AttemptsGetOn DEF AttemptLeft, Attempt, Ended
<1>9. CASE NextDevice
  <2>1. /\ numDevices \in 0 .. OutOfBounds /\ device \in 0 .. numDevices
    BY DEF TypeOK, Handle
  <2>2. StepsLeft = 13 * (numDevices - device) + 1
    BY <1>9 DEF NextDevice, StepsLeft, AttemptLeft, Ended, Attempt
  <2>3. CASE device < numDevices
    <3>1. StepsLeft' = 13 * (numDevices - (device + 1)) + 13
      BY <1>9, <2>3 DEF NextDevice, StepsLeft, AttemptLeft, Ended, Attempt
    <3> QED
      BY <1>0, <2>1, <2>2, <3>1
  <2>4. CASE ~(device < numDevices)
    <3>1. StepsLeft' = 0
      BY <1>9, <2>4 DEF NextDevice, StepsLeft, Ended, Attempt
    <3> QED
      BY <1>0, <2>1, <2>2, <3>1
  <2> QED
    BY <2>3, <2>4
<1> QED
  BY <1>1, <1>2, <1>3, <1>4, <1>5, <1>6, <1>7, <1>8, <1>9 DEF Next

\* Main ends however its calls fail: every step leaves fewer than it found, and there are
\* never more than 13 for each device, the one beyond the array included, and 3.
THEOREM EveryStepIsOneLess ==
    Spec => /\ [](StepsLeft \in 0 .. (13 * OutOfBounds + 3))
            /\ [][StepsLeft' < StepsLeft]_mainVars
<1>1. TypeOK => StepsLeft \in 0 .. (13 * OutOfBounds + 3)
  BY StepsLeftAre
<1>2. TypeOK /\ TypeOK' /\ [Next]_mainVars => [StepsLeft' < StepsLeft]_mainVars
  BY StepsGetOn
<1> QED
  BY <1>1, <1>2, MainTypeCorrect, PTL DEF Spec
=============================================================================
