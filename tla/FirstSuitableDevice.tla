------------------------ MODULE FirstSuitableDevice ------------------------
(***************************************************************************)
(* What the shadertrap tool promises about devices: it looks at them in    *)
(* order, runs the script on the first suitable one and on no other, and   *)
(* succeeds only by the success of that run.  Nothing is said of EGL.      *)
(***************************************************************************)
EXTENDS Naturals

CONSTANT MostDevices

VARIABLES
    devices,    \* how many there are; 0 until they have been enumerated
    verdict,    \* of each device
    outcome     \* of the program

Device == 1 .. MostDevices
promiseVars == <<devices, verdict, outcome>>

Init ==
    /\ devices = 0
    /\ verdict = [d \in Device |-> "untried"]
    /\ outcome = "undecided"

Enumerate ==
    /\ outcome = "undecided"
    /\ devices = 0
    /\ devices' \in Device
    /\ UNCHANGED <<verdict, outcome>>

IsNext(d) ==
    /\ outcome = "undecided"
    /\ d <= devices
    /\ verdict[d] = "untried"
    /\ \A e \in 1 .. (d - 1) : verdict[e] = "skipped"

Skip(d) ==
    /\ IsNext(d)
    /\ verdict' = [verdict EXCEPT ![d] = "skipped"]
    /\ UNCHANGED <<devices, outcome>>

Choose(d) ==
    /\ IsNext(d)
    /\ verdict' = [verdict EXCEPT ![d] = "chosen"]
    /\ UNCHANGED <<devices, outcome>>

IsChosen == \E d \in Device : verdict[d] = "chosen"

\* Success takes a run of the script, and so does failure once there is a device
\* that has not been skipped; the process may be killed at any time.
Decide ==
    /\ outcome = "undecided"
    /\ \/ outcome' \in {"success", "failure"} /\ IsChosen
       \/ outcome' = "failure" /\ \A d \in 1 .. devices : verdict[d] = "skipped"
       \/ outcome' = "killed"
    /\ UNCHANGED <<devices, verdict>>

Next == Enumerate \/ Decide \/ \E d \in Device : Skip(d) \/ Choose(d)

Spec == Init /\ [][Next]_promiseVars /\ <>(outcome # "undecided")
=============================================================================
