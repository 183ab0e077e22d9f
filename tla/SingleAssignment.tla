-------------------------- MODULE SingleAssignment --------------------------
(***************************************************************************)
(* What the language promises a script writer about its identifiers        *)
(* (docs/shadertrap_language.md, "Commands"): one global scope, each       *)
(* identifier produced by at most one command, and from then on denoting   *)
(* the one object that command made, which nothing else denotes.  A run    *)
(* ends in an outcome and denotes nothing new after it.                    *)
(***************************************************************************)
CONSTANT Identifier

VARIABLES
    denotes,    \* the objects an identifier stands for: none, or one
    outcome     \* "running", or how the run ended

vars == <<denotes, outcome>>

Init ==
    /\ denotes = [id \in Identifier |-> {}]
    /\ outcome = "running"

\* Objects are of any sort: the one produced is whatever the identifier denotes next.
Produce(id) ==
    /\ outcome = "running"
    /\ denotes[id] = {}
    /\ \E object \in denotes'[id] :
         /\ denotes' = [denotes EXCEPT ![id] = {object}]
         /\ \A other \in Identifier : object \notin denotes[other]
    /\ UNCHANGED outcome

End(result) ==
    /\ outcome = "running"
    /\ outcome' = result
    /\ UNCHANGED denotes

Next ==
    \/ \E id \in Identifier : Produce(id)
    \/ \E result \in {"passed", "failed", "crashed"} : End(result)

Spec == Init /\ [][Next]_vars /\ <>(outcome # "running")
=============================================================================
