----------------------------- MODULE CommandLine -----------------------------
(***************************************************************************)
(* The command line of the shadertrap tool (main.cc): options, the value   *)
(* of --require-vendor-renderer-substring, and one script name.  Arguments *)
(* are strings of which only the kind matters; "" is a legal argument.     *)
(***************************************************************************)
EXTENDS Naturals, Sequences

ShowGlInfo == "--show-gl-info"
RequireSubstring == "--require-vendor-renderer-substring"
UnknownOption == "--other"
Options == {ShowGlInfo, RequireSubstring, UnknownOption}
Argument == Options \cup {"", "name", "other"}

\* The loop's state: what it expects next, and the two strings it fills in.
Start == [expects |-> "argument", substring |-> "", script |-> ""]
Refused(line) == [line EXCEPT !.expects = "nothing"]

\* Mutant: a second script name replaces the first.
TakeLastName(line, argument) == [line EXCEPT !.script = argument]

TakeName(line, argument) ==
    IF line.script # "" THEN Refused(line) ELSE [line EXCEPT !.script = argument]

\* One iteration, or the i++ that takes the option's value.  That an option was
\* given before shows only by its value, so an empty value does not count.
TakeArgument(line, argument) ==
    CASE line.expects = "nothing" -> line
      [] line.expects = "value" ->
           [line EXCEPT !.expects = "argument", !.substring = argument]
      [] line.expects = "argument" /\ argument = ShowGlInfo -> line
      [] line.expects = "argument" /\ argument = RequireSubstring ->
           IF line.substring # "" THEN Refused(line) ELSE [line EXCEPT !.expects = "value"]
      [] line.expects = "argument" /\ argument = UnknownOption -> Refused(line)
      [] line.expects = "argument" /\ argument \notin Options -> TakeName(line, argument)

\* The state before each argument, and behind the last.
LineBefore(args) ==
    LET line[i \in 1 .. Len(args) + 1] ==
          IF i = 1 THEN Start ELSE TakeArgument(line[i - 1], args[i - 1])
    IN  line

CommandLineOf(args) == LineBefore(args)[Len(args) + 1]

Usable(line) == line.expects = "argument" /\ line.script # ""

-----------------------------------------------------------------------------
(***************************************************************************)
(* What the arguments mean, position by position.                          *)
(***************************************************************************)
\* Is argument i the value of the option before it?
IsValue(args) ==
    LET value[i \in 1..Len(args)] ==
          i > 1 /\ args[i - 1] = RequireSubstring /\ ~value[i - 1]
    IN  value

ValuesIn(args) == {args[i] : i \in {j \in DOMAIN args : IsValue(args)[j]}}
NamesIn(args) ==
    {args[i] : i \in {j \in DOMAIN args :
        ~IsValue(args)[j] /\ args[j] \notin Options}}
==============================================================================
