--------------------------- MODULE GlslangMessages ---------------------------
(***************************************************************************)
(* FixLinesInGlslangOutput of the checker: in what glslang has to say      *)
(* about a shader, the place "file:line" that follows the prefix of a      *)
(* message is replaced by the line of the script.                          *)
(*                                                                         *)
(* A log is a sequence of items: a prefix ("ERROR: " and the like), a      *)
(* number (all its digits), a colon, the end of a line, any other          *)
(* character.                                                              *)
(***************************************************************************)
EXTENDS Naturals, SequencesExt

CONSTANTS
    Logs,           \* what glslang may have to say
    LineOffset      \* the line the shader's text follows in the script

\* Each is a sequence.
ASSUME LogsAssumption == \A text \in Logs : text \in Seq(Range(text))

VARIABLES
    log,            \* glslang_output
    pos, isLineStart, result

messageVars == <<log, pos, isLineStart, result>>

Digits(n) == [kind |-> "number", value |-> n]
Line(n) == [kind |-> "line", value |-> n]
OfKind(kind) == [kind |-> kind]

MessagesInit ==
    /\ log \in Logs
    /\ pos = 0
    /\ isLineStart = TRUE
    /\ result = <<>>

\* Is there an item of the kind at this distance?
Comes(distance, kind) ==
    pos + distance <= Len(log) /\ log[pos + distance].kind = kind

CopyCharacter ==
    /\ pos < Len(log)
    /\ ~isLineStart
    /\ isLineStart' = Comes(1, "newline")
    /\ result' = Append(result, log[pos + 1])
    /\ pos' = pos + 1
    /\ UNCHANGED log

\* The next items become others in the result.
Replace(many, by) == pos' = pos + many /\ result' = result \o by

\* How many of the items after the prefix match the pattern of a place.
Matched ==
    IF ~Comes(2, "number") THEN 0
    ELSE IF ~Comes(3, "colon") THEN 1
    ELSE IF ~Comes(4, "number") THEN 2 ELSE 3

\* Mutant: what matches the pattern in part is left out.
LookForMessageAndDrop ==
    /\ pos < Len(log)
    /\ isLineStart
    /\ isLineStart' = FALSE
    /\ \/ ~Comes(1, "prefix") /\ Replace(0, <<>>)
       \/ /\ Comes(1, "prefix") /\ Matched < 3
          /\ Replace(1 + Matched, <<log[pos + 1]>>)
       \/ /\ Comes(1, "prefix") /\ Matched = 3
          /\ Replace(4, <<log[pos + 1], Line(log[pos + 4].value + LineOffset)>>)
    /\ UNCHANGED log

\* At the start of a line.  What matches the pattern only in part is copied.
LookForMessage ==
    /\ pos < Len(log)
    /\ isLineStart
    /\ isLineStart' = FALSE
    /\ \/ ~Comes(1, "prefix") /\ Replace(0, <<>>)
       \/ /\ Comes(1, "prefix") /\ Matched < 3
          /\ Replace(1 + Matched, SubSeq(log, pos + 1, pos + 1 + Matched))
       \/ /\ Comes(1, "prefix") /\ Matched = 3
          /\ Replace(4, <<log[pos + 1], Line(log[pos + 4].value + LineOffset)>>)
    /\ UNCHANGED log

MessagesNext == CopyCharacter \/ LookForMessage

MessagesSpec == MessagesInit /\ [][MessagesNext]_messageVars

-----------------------------------------------------------------------------
KindAt(i) == IF i \in DOMAIN log THEN log[i].kind ELSE "newline"

\* Does a place start here?
IsPlace(i) ==
    /\ KindAt(i - 2) = "newline" /\ KindAt(i - 1) = "prefix"
    /\ KindAt(i) = "number" /\ KindAt(i + 1) = "colon" /\ KindAt(i + 2) = "number"

\* What an item should become.
Fixed(i) ==
    IF IsPlace(i) THEN <<Line(log[i + 2].value + LineOffset)>>
    ELSE IF IsPlace(i - 1) \/ IsPlace(i - 2) THEN <<>>
    ELSE <<log[i]>>

\* A message that starts a line names a line of the script; all else of the log is passed
\* on, what only looks like the place of a message included (checker.h, the comment on
\* FixLinesInGlslangOutput).
OnlyPlacesAreRewritten == result = FlattenSeq([i \in 1 .. pos |-> Fixed(i)])
=============================================================================
