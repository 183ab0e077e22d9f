----------------------------- MODULE Tokenizer -----------------------------
(***************************************************************************)
(* libshadertrap/tokenizer.cc.  A character is read, and the position      *)
(* moved, one at a time; the methods are the control points they stand at. *)
(* Characters that are treated alike are one: " " is any white space but   *)
(* the end of the line, "n" a letter or underscore that is also an escape, *)
(* "x" one that is not, "0" a digit, "," any of the three marks, "?" what  *)
(* starts no token.                                                        *)
(***************************************************************************)
EXTENDS Naturals, FiniteSets, SequencesExt

CONSTANTS
    Scripts,    \* contents of script files
    Builds      \* are C++ assertions compiled in (a Debug build)?

ASSUME ScriptsAssumption == \A script \in Scripts : script \in Seq(STRING)
ASSUME BuildsAssumption == Builds \subseteq BOOLEAN

VARIABLES
    data, position, line, column,   \* the members
    call,       \* the method called last
    backup,     \* position, line and column when it was called
    pc,         \* where in it the tokenizer is
    start,      \* position, line and column where the token starts
    type,       \* the type it will have
    token,      \* the token returned last
    ahead       \* the token that PeekNextToken returned, if nothing was called since

here == [position |-> position, line |-> line, column |-> column]
place == <<position, line, column>>
tokenizerVars == <<data, place, call, backup, pc, start, type, token, ahead>>

NoToken == [type |-> "none"]

\* PeekNextToken(false) and SkipSingleLineOfWhitespaceAndComments have names of their own.
Calls == {"NextToken", "PeekNextToken", "PeekHere", "SkipRestOfLine", "SkipLine"}
Peeks == {"PeekNextToken", "PeekHere"}

Marks == {","}
Letters == {"n", "x"}
Blanks == {" "}

TokenizerInit ==
    /\ data \in Scripts
    /\ position = 0 /\ line = 1 /\ column = 1
    /\ call = "none"
    /\ backup = here
    /\ pc = "idle"
    /\ start = here
    /\ type = "none"
    /\ token = NoToken
    /\ ahead = NoToken

More == position < Len(data)

\* data_[position_], which at the end of a std::string is '\0'.
Char == IF More THEN data[position + 1] ELSE "end"

Follows(char) == position + 1 < Len(data) /\ data[position + 2] = char

AdvanceCharacter ==
    /\ position' = position + 1
    /\ line' = IF Char = "\n" THEN line + 1 ELSE line
    /\ column' = IF Char = "\n" THEN 1 ELSE column + 1

Go(to) == pc' = to

Read(to) == AdvanceCharacter /\ Go(to)
Stay(to) == UNCHANGED place /\ Go(to)

skipVars == <<data, call, backup, start, type, token, ahead>>
scanVars == <<data, call, backup, start, token, ahead>>

(***************************************************************************)
(* White space and comments.                                               *)
(***************************************************************************)
Call ==
    /\ pc = "idle"
    /\ \E c \in Calls :
         /\ call' = c
         /\ Go(CASE c \in {"NextToken", "PeekNextToken"} -> "whitespace"
                 [] c = "PeekHere" -> "token"
                 [] c = "SkipRestOfLine" -> "blanks"
                 [] c = "SkipLine" -> "line")
         /\ ahead' = IF c = "NextToken" THEN ahead ELSE NoToken
    /\ backup' = here
    /\ token' = NoToken
    /\ UNCHANGED <<data, place, start, type>>

SkipWhitespace ==
    /\ pc = "whitespace"
    /\ \/ Char \in Blanks \cup {"\n"} /\ Read("whitespace")
       \/ Char = "#" /\ Stay("line")
       \/ Char \notin Blanks \cup {"\n", "#"} /\ Stay("token")
    /\ UNCHANGED skipVars

SkipBlanks ==
    /\ pc = "blanks"
    /\ \/ Char \in Blanks /\ Read("blanks")
       \/ Char = "#" /\ Stay("line")
       \/ Char = "\n" /\ Read("idle")
       \/ Char \notin Blanks \cup {"\n", "#"} /\ Stay("idle")
    /\ UNCHANGED skipVars

\* What called SkipLine.
caller == IF call = "NextToken" \/ call = "PeekNextToken" THEN "whitespace" ELSE "idle"

\* Mutant: only the end of the script ends a line.
SkipEveryLine ==
    /\ pc = "line"
    /\ \/ More /\ Read("line")
       \/ ~More /\ Stay(caller)
    /\ UNCHANGED skipVars

\* Mutant: only a newline ends a line.
SkipLineToItsNewline ==
    /\ pc = "line"
    /\ \/ Char = "\n" /\ Read(caller)
       \/ Char # "\n" /\ More /\ Read("line")
       \/ ~More /\ Stay("line")
    /\ UNCHANGED skipVars

SkipLine ==
    /\ pc = "line"
    /\ \/ Char = "\n" /\ Read(caller)
       \/ Char # "\n" /\ More /\ Read("line")
       \/ ~More /\ Stay(caller)
    /\ UNCHANGED skipVars

(***************************************************************************)
(* NextToken, once layout has been skipped.                                *)
(***************************************************************************)
Starts(t, to) == type' = t /\ Read(to)

StartToken ==
    /\ pc = "token"
    /\ start' = here
    /\ \/ ~More /\ type' = "EOS" /\ Stay("return")
       \/ Char \in Marks /\ Starts("mark", "return")
       \/ Char = "-" /\ Follows(">") /\ Starts("arrow", "arrow")
       \/ Char \in Letters /\ Starts("word", "word")
       \/ Char \in {"0", "-"} /\ ~(Char = "-" /\ Follows(">")) /\ Starts("int", "number")
       \/ Char = "." /\ Starts("float", "number")
       \/ Char = "\"" /\ Starts("string", "string")
       \/ /\ More /\ Char \notin Marks \cup Letters \cup {"0", "-", ".", "\""}
          /\ type' = "unknown" /\ Stay("return")
    /\ UNCHANGED <<data, call, backup, token, ahead>>

EndArrow == pc = "arrow" /\ Read("return") /\ UNCHANGED skipVars

ReadWord ==
    /\ pc = "word"
    /\ \/ Char \in Letters \cup {"0"} /\ Read("word")
       \/ Char \notin Letters \cup {"0"} /\ Stay("return")
    /\ UNCHANGED skipVars

ReadNumber ==
    /\ pc = "number"
    /\ \/ Char = "0" /\ Read("number") /\ UNCHANGED type
       \/ Char = "." /\ Read("number") /\ type' = "float"
       \/ Char \notin {"0", "."} /\ Stay("return") /\ UNCHANGED type
    /\ UNCHANGED scanVars

\* Mutant: the column stays behind the opening quote.
GiveUpStringInPlace ==
    /\ type' = "unknown"
    /\ position' = start.position /\ UNCHANGED <<line, column>>
    /\ Go("return")

\* The string is not closed on its line: back to its quote.
GiveUpString ==
    /\ type' = "unknown"
    /\ position' = start.position /\ column' = start.column /\ UNCHANGED line
    /\ Go("return")

ReadString ==
    /\ pc = "string"
    /\ \/ Char = "\"" /\ Read("return") /\ UNCHANGED type
       \/ Char = "\\" /\ Read("escape") /\ UNCHANGED type
       \/ Char \in {"end", "\n"} /\ GiveUpString
       \/ Char \notin {"\"", "\\", "end", "\n"} /\ Read("string") /\ UNCHANGED type
    /\ UNCHANGED scanVars

\* Mutant: the quote is looked at before the escape.
EscapeWithoutQuote ==
    /\ pc = "escape"
    /\ \/ Char = "\"" /\ Read("return") /\ UNCHANGED type
       \/ Char \in {"n", "\\"} /\ Read("string") /\ UNCHANGED type
       \/ Char \in {"end", "\n"} /\ GiveUpString
    /\ UNCHANGED scanVars

\* The character after a backslash.  One that makes no escape sequence is passed, and
\* fails an assertion or ends an unknown token.
ReadEscape ==
    /\ pc = "escape"
    /\ \/ Char \in {"n", "\\", "\""} /\ Read("string") /\ UNCHANGED type
       \/ Char \in {"end", "\n"} /\ GiveUpString
       \/ /\ Char \notin {"n", "\\", "\"", "end", "\n"}
          /\ AdvanceCharacter
          /\ \/ TRUE \in Builds /\ Go("aborted") /\ UNCHANGED type
             \/ FALSE \in Builds /\ Go("return") /\ type' = "unknown"
    /\ UNCHANGED scanVars

Token ==
    [type |-> type, line |-> start.line, column |-> start.column,
     from |-> start.position, to |-> position]

\* Mutant: PeekNextToken restores the position alone.
ReturnWithoutLine ==
    /\ pc = "return"
    /\ token' = Token
    /\ ahead' = IF call \in Peeks THEN Token ELSE NoToken
    /\ position' = IF call \in Peeks THEN backup.position ELSE position
    /\ UNCHANGED <<line, column>>
    /\ Go("idle")
    /\ UNCHANGED <<data, call, backup, start, type>>

\* A token is returned; a peek puts the position, the line and the column back.
Return ==
    /\ pc = "return"
    /\ token' = Token
    /\ \/ /\ call \in Peeks
          /\ ahead' = Token
          /\ position' = backup.position /\ line' = backup.line /\ column' = backup.column
       \/ call \notin Peeks /\ ahead' = NoToken /\ UNCHANGED place
    /\ Go("idle")
    /\ UNCHANGED <<data, call, backup, start, type>>

Step ==
    \/ SkipWhitespace \/ SkipBlanks \/ SkipLine \/ StartToken \/ EndArrow \/ ReadWord
    \/ ReadNumber \/ ReadString \/ ReadEscape \/ Return

TokenizerNext == Call \/ Step

\* A call runs until it returns; whether another is made is up to the parser.
TokenizerSpec == TokenizerInit /\ [][TokenizerNext]_tokenizerVars /\ WF_tokenizerVars(Step)

-----------------------------------------------------------------------------
Newlines(before) == {i \in 1 .. before : data[i] = "\n"}
LastOf(set) == CHOOSE i \in set \cup {0} : \A j \in set : j <= i

\* The line and the column are those of the position, at every step: that of a string
\* given up and that of a token put back by a peek included.  Every message quotes them,
\* and where a shader's text starts is told by the line alone.  The position never
\* passes the end.
PlaceIsReal ==
    /\ position \in 0 .. Len(data)
    /\ line = 1 + Cardinality(Newlines(position))
    /\ column = position - LastOf(Newlines(position)) + 1

Ignoring == call \in {"NextToken", "PeekNextToken"}

\* Is the character white space, or within a comment that starts after "from"?
IsLayout(i, from) ==
    \/ data[i] \in Blanks \cup {"\n"}
    \/ \E j \in (from + 1) .. i :
         data[j] = "#" /\ \A k \in j .. i : data[k] # "\n"

\* Layout is all that is skipped before a token, and all of it is: the token starts at
\* the first character that is neither white space nor part of a comment.
OnlyLayoutIsSkipped ==
    pc = "return" /\ Ignoring =>
        /\ \A i \in (backup.position + 1) .. start.position : IsLayout(i, backup.position)
        /\ start.position < Len(data) => ~IsLayout(start.position + 1, backup.position)

\* The backslashes just before character i, within the token.
Escapes(i) ==
    {j \in (start.position + 1) .. (i - 1) : \A k \in j .. (i - 1) : data[k] = "\\"}

\* A string lies on one line, and ends with the first quote that is not escaped: one
\* behind an even number of backslashes.
StringsEndAtTheirQuote ==
    pc = "return" /\ type = "string" =>
        /\ \A i \in (start.position + 1) .. position : data[i] # "\n"
        /\ \A i \in (start.position + 2) .. position :
             data[i] = "\"" /\ Cardinality(Escapes(i)) % 2 = 0 <=> i = position

\* The token that PeekNextToken has shown is the one that NextToken returns, its place in
\* the script included.  The parser decides by the one and consumes the other.  (With
\* white space or a comment ahead, PeekNextToken(false) finds an unknown token, which
\* NextToken then skips.)
PeekedTokenComesNext ==
    [][call = "NextToken" /\ pc = "return" /\ ahead # NoToken
         => token' = ahead \/ ahead.type = "unknown"]_tokenizerVars

\* Every call returns, also at the end of a script without a newline or within a
\* comment or a string that is not closed.
CallsReturn == (pc # "idle") ~> (pc \in {"idle", "aborted"})
=============================================================================
