--------------------------- MODULE TokenizerProofs ---------------------------
(***************************************************************************)
(* Proofs about the tokenizer, for every script and every sequence of      *)
(* calls.                                                                  *)
(***************************************************************************)
EXTENDS Tokenizer, Recursion

-----------------------------------------------------------------------------
(***************************************************************************)
(* PlaceIsReal.  A string that is given up and a peek put an earlier place *)
(* back, so the places remembered are part of the invariant; the string's  *)
(* line is not put back, so it must not have changed.                      *)
(***************************************************************************)
NewlinesOf(text, before) == {i \in 1 .. before : text[i] = "\n"}

Real(text, p, l, c) ==
    /\ p \in 0 .. Len(text)
    /\ LastOf(NewlinesOf(text, p)) \in Nat
    /\ l = 1 + Cardinality(NewlinesOf(text, p))
    /\ c = p - LastOf(NewlinesOf(text, p)) + 1

PlaceInv ==
    /\ data \in Seq(STRING)
    /\ Real(data, position, line, column)
    /\ Real(data, start.position, start.line, start.column)
    /\ Real(data, backup.position, backup.line, backup.column)
    /\ pc = "arrow" => More
    /\ pc \in {"string", "escape"} => line = start.line

\* One character on, the line and the column follow the position.
LEMMA AdvanceIsReal ==
    ASSUME NEW text \in Seq(STRING), NEW p, NEW l, NEW c, Real(text, p, l, c), p < Len(text)
    PROVE  Real(text, p + 1, IF text[p + 1] = "\n" THEN l + 1 ELSE l,
                             IF text[p + 1] = "\n" THEN 1 ELSE c + 1)
<1> DEFINE before == NewlinesOf(text, p)
           after == NewlinesOf(text, p + 1)
<1>1. p \in Nat /\ p + 1 \in 0 .. Len(text)
  BY DEF Real
<1>2. IsFiniteSet(before) /\ Cardinality(before) \in Nat
  <2>1. IsFiniteSet(1 .. p) /\ before \subseteq 1 .. p
    BY <1>1, FS_Interval DEF NewlinesOf
  <2> QED
    BY <2>1, FS_Subset, FS_CardinalityType
<1>3. CASE text[p + 1] = "\n"
  <2>1. after = before \cup {p + 1} /\ p + 1 \notin before
    BY <1>1, <1>3 DEF NewlinesOf
  <2>2. Cardinality(after) = Cardinality(before) + 1
    BY <1>2, <2>1, FS_AddElement
  <2>3. LastOf(after) = p + 1
    BY <1>1, <2>1 DEF LastOf, NewlinesOf
  <2> QED
    BY <1>1, <1>2, <1>3, <2>2, <2>3 DEF Real
<1>4. CASE text[p + 1] # "\n"
  <2>1. after = before
    BY <1>1, <1>4 DEF NewlinesOf
  <2> QED
    BY <1>1, <1>4, <2>1 DEF Real
<1> QED
  BY <1>3, <1>4

\* So does AdvanceCharacter, where there is a character.
LEMMA AdvanceCharacterIsReal ==
    ASSUME PlaceInv, More, AdvanceCharacter, data' = data
    PROVE  Real(data', position', line', column')
<1>1. Char = data[position + 1]
  BY DEF Char
<1>2. Real(data, position + 1, IF data[position + 1] = "\n" THEN line + 1 ELSE line,
                              IF data[position + 1] = "\n" THEN 1 ELSE column + 1)
  BY AdvanceIsReal DEF PlaceInv, More
<1> QED
  BY <1>1, <1>2 DEF AdvanceCharacter

\* Past the end there is nothing to read.
LEMMA OnlyCharactersAreRead ==
    /\ Char # "end" => More
    /\ Char \in Blanks => Char # "end" /\ Char # "\n"
    /\ Char \in {"n", "\\", "\"", "0", ".", "#", "-"} => Char # "end" /\ Char # "\n"
    /\ Char \in Letters => Char # "end" /\ Char # "\n"
    /\ Char \in Marks => Char # "end" /\ Char # "\n"
    /\ Char = "\n" => Char # "end"
<1>1. Char # "end" => More
  BY DEF Char
<1>2. Char \in Blanks => Char # "end" /\ Char # "\n"
  BY Zenon DEF Blanks
<1>3. Char \in {"n", "\\", "\"", "0", ".", "#", "-"} => Char # "end" /\ Char # "\n"
  BY Zenon
<1>4. Char \in Letters => Char # "end" /\ Char # "\n"
  BY Zenon DEF Letters
<1>5. Char \in Marks => Char # "end" /\ Char # "\n"
  BY Zenon DEF Marks
<1>6. Char = "\n" => Char # "end"
  BY Zenon
<1> QED
  BY <1>1, <1>2, <1>3, <1>4, <1>5, <1>6

\* A script starts on line 1, in column 1.
LEMMA PlaceInitially == TokenizerInit => PlaceInv
<1> SUFFICES ASSUME TokenizerInit PROVE PlaceInv
  OBVIOUS
<1>1. data \in Seq(STRING) /\ position = 0 /\ line = 1 /\ column = 1 /\ pc = "idle"
      /\ start = here /\ backup = here
  BY ScriptsAssumption DEF TokenizerInit
<1>2. NewlinesOf(data, 0) = {}
  BY DEF NewlinesOf
<1>3. Cardinality(NewlinesOf(data, 0)) = 0 /\ LastOf(NewlinesOf(data, 0)) = 0
  <2>1. Cardinality({}) = 0 /\ LastOf({}) = 0
    BY FS_EmptySet DEF LastOf
  <2> QED
    BY <1>2, <2>1, Zenon
<1>4. Len(data) \in Nat
  BY <1>1
<1>5. Real(data, 0, 1, 1)
  BY <1>3, <1>4 DEF Real
<1> QED
  BY <1>1, <1>5 DEF PlaceInv, here

\* Every step leaves the place, and those remembered, real.
LEMMA PlaceStep == PlaceInv /\ [TokenizerNext]_tokenizerVars => PlaceInv'
<1> SUFFICES ASSUME PlaceInv, [TokenizerNext]_tokenizerVars PROVE PlaceInv'
  OBVIOUS
<1>0. data' = data /\ data \in Seq(STRING) /\ data' \in Seq(STRING)
  <2>1. data' = data
    BY DEF tokenizerVars, TokenizerNext, Call, Step, SkipWhitespace, SkipBlanks, SkipLine,
           StartToken, EndArrow, ReadWord, ReadNumber, ReadString, ReadEscape, Return,
           skipVars, scanVars
  <2> QED
    BY <2>1 DEF PlaceInv
<1>r. ASSUME NEW to, Read(to), More PROVE Real(data', position', line', column') /\ pc' = to
  BY <1>0, <1>r, AdvanceCharacterIsReal DEF Read, Go
<1>s. ASSUME NEW to, Stay(to)
      PROVE  Real(data', position', line', column') /\ pc' = to /\ UNCHANGED place
  BY <1>0, <1>s DEF Stay, Go, place, PlaceInv
\* A step that reads on or stays, and not into an arrow or a string.
<1>k. ASSUME NEW to, (Read(to) /\ More) \/ Stay(to), UNCHANGED <<start, backup>>,
             to \notin {"arrow", "string", "escape"}
      PROVE  PlaceInv'
  <2>1. Real(data', position', line', column') /\ pc' = to
    BY <1>k, <1>r, <1>s
  <2> QED
    BY <2>1, <1>0, <1>k DEF PlaceInv
<1>1. CASE Call
  <2>1. UNCHANGED <<place, start>> /\ backup' = here
    BY <1>1 DEF Call
  <2>2. pc' \notin {"arrow", "string", "escape"}
    BY <1>1 DEF Call, Go, Calls
  <2> QED
    BY <2>1, <2>2, <1>0 DEF PlaceInv, here, place
<1>2. CASE SkipWhitespace
  <2>1. UNCHANGED <<start, backup>>
    BY <1>2 DEF SkipWhitespace, skipVars
  <2>2. \/ (Read("whitespace") /\ More) \/ Stay("whitespace")
        \/ Stay("line") \/ Stay("token")
    BY <1>2, OnlyCharactersAreRead, Zenon DEF SkipWhitespace
  <2> QED
    BY <2>1, <2>2, <1>k
<1>3. CASE SkipBlanks
  <2>1. UNCHANGED <<start, backup>>
    BY <1>3 DEF SkipBlanks, skipVars
  <2>2. \/ (Read("blanks") /\ More) \/ Stay("line") \/ (Read("idle") /\ More) \/ Stay("idle")
    BY <1>3, OnlyCharactersAreRead, Zenon DEF SkipBlanks
  <2> QED
    BY <2>1, <2>2, <1>k
<1>4. CASE SkipLine
  <2>1. UNCHANGED <<start, backup>>
    BY <1>4 DEF SkipLine, skipVars
  <2>2. (Read(caller) /\ More) \/ (Read("line") /\ More) \/ Stay(caller)
    BY <1>4, OnlyCharactersAreRead, Zenon DEF SkipLine
  <2>3. caller \in {"whitespace", "idle"}
    BY DEF caller
  <2> QED
    BY <2>1, <2>2, <2>3, <1>k
<1>5. CASE StartToken
  <2>1. start' = here /\ UNCHANGED backup
    BY <1>5 DEF StartToken
  <2>2. Real(data', start'.position, start'.line, start'.column)
    BY <2>1, <1>0 DEF PlaceInv, here
  <2>3. \/ Stay("return") \/ (Read("return") /\ More) \/ (Read("word") /\ More)
        \/ (Read("number") /\ More)
        \/ (Read("arrow") /\ More /\ Char = "-" /\ Follows(">"))
        \/ (Read("string") /\ More /\ Char = "\"")
    BY <1>5, OnlyCharactersAreRead, Zenon DEF StartToken, Starts
  <2>4. Real(data', position', line', column')
    BY <2>3, <1>r, <1>s
  <2>5. CASE Read("arrow") /\ More /\ Char = "-" /\ Follows(">")
    <3>1. pc' = "arrow" /\ position' = position + 1 /\ position + 1 < Len(data')
      BY <2>5, <1>0 DEF Read, AdvanceCharacter, Go, Follows
    <3> QED
      BY <3>1, <2>1, <2>2, <2>4, <1>0 DEF PlaceInv, More
  <2>6. CASE Read("string") /\ More /\ Char = "\""
    <3>1. Char # "\n"
      BY <2>6, OnlyCharactersAreRead, Zenon
    <3>2. pc' = "string" /\ line' = line /\ start'.line = line
      BY <3>1, <2>6, <2>1 DEF Read, AdvanceCharacter, Go, here
    <3> QED
      BY <3>2, <2>1, <2>2, <2>4, <1>0 DEF PlaceInv
  <2>7. CASE pc' \in {"return", "word", "number"}
    BY <2>7, <2>1, <2>2, <2>4, <1>0 DEF PlaceInv
  <2> QED
    BY <2>3, <2>5, <2>6, <2>7 DEF Read, Stay, Go
<1>6. CASE EndArrow
  <2>1. Read("return") /\ More /\ UNCHANGED <<start, backup>>
    BY <1>6 DEF EndArrow, skipVars, PlaceInv
  <2> QED
    BY <2>1, <1>k
<1>7. CASE ReadWord
  <2>1. UNCHANGED <<start, backup>>
    BY <1>7 DEF ReadWord, skipVars
  <2>2. (Read("word") /\ More) \/ Stay("return")
    BY <1>7, OnlyCharactersAreRead, Zenon DEF ReadWord
  <2> QED
    BY <2>1, <2>2, <1>k
<1>8. CASE ReadNumber
  <2>1. UNCHANGED <<start, backup>>
    BY <1>8 DEF ReadNumber, scanVars
  <2>2. (Read("number") /\ More) \/ Stay("return")
    BY <1>8, OnlyCharactersAreRead, Zenon DEF ReadNumber
  <2> QED
    BY <2>1, <2>2, <1>k
\* A string is given up on the line it started on.
<1>g. ASSUME GiveUpString, UNCHANGED <<start, backup>>, line = start.line
      PROVE  PlaceInv'
  BY <1>0, <1>g DEF GiveUpString, PlaceInv, Go
\* A character of the string is not the end of its line.
<1>c. ASSUME NEW to, Read(to), More, Char # "\n", UNCHANGED <<start, backup>>,
             line = start.line, to # "arrow"
      PROVE  PlaceInv'
  <2>1. line' = line /\ Real(data', position', line', column') /\ pc' = to
    BY <1>c, <1>r DEF Read, AdvanceCharacter
  <2> QED
    BY <2>1, <1>0, <1>c DEF PlaceInv
<1>9. CASE ReadString
  <2>1. UNCHANGED <<start, backup>> /\ line = start.line
    BY <1>9 DEF ReadString, scanVars, PlaceInv
  <2>2. \/ GiveUpString
        \/ /\ More /\ Char # "\n"
           /\ Read("return") \/ Read("escape") \/ Read("string")
    BY <1>9, OnlyCharactersAreRead, Zenon DEF ReadString
  <2> QED
    BY <2>1, <2>2, <1>g, <1>c
<1>10. CASE ReadEscape
  <2>1. UNCHANGED <<start, backup>> /\ line = start.line
    BY <1>10 DEF ReadEscape, scanVars, PlaceInv
  <2>2. \/ GiveUpString
        \/ /\ More /\ Char # "\n"
           /\ Read("string") \/ Read("aborted") \/ Read("return")
    BY <1>10, OnlyCharactersAreRead, Zenon DEF ReadEscape, Read
  <2> QED
    BY <2>1, <2>2, <1>g, <1>c
<1>11. CASE Return
  BY <1>11, <1>0, <1>k DEF Return, PlaceInv, Go, place
<1>12. CASE UNCHANGED tokenizerVars
  BY <1>12, <1>0 DEF tokenizerVars, place, PlaceInv, More
<1> QED
  BY <1>1, <1>2, <1>3, <1>4, <1>5, <1>6, <1>7, <1>8, <1>9, <1>10, <1>11, <1>12
  DEF TokenizerNext, Step

\* The place, the start of the token and the place at the time of the call are real.
THEOREM PlaceInvariant == TokenizerSpec => []PlaceInv
<1> QED
  BY PlaceInitially, PlaceStep, PTL DEF TokenizerSpec

\* The line and the column that messages quote, and by which the text of a shader is
\* found, are those of the position, through every string that is given up and every peek;
\* the position never passes the end.
THEOREM PlaceIsRealHolds == TokenizerSpec => []PlaceIsReal
<1>1. PlaceInv => PlaceIsReal
  BY DEF PlaceInv, PlaceIsReal, Real, NewlinesOf, Newlines
<1> QED
  BY <1>1, PlaceInvariant, PTL

-----------------------------------------------------------------------------
(***************************************************************************)
(* OnlyLayoutIsSkipped.  What has been passed since the call is layout, and *)
(* whether the position is within a comment is told by where the tokenizer *)
(* stands, except at the end of a script that ends with a comment.         *)
(***************************************************************************)
InComment(text, from, n) ==
    \E j \in (from + 1) .. n : text[j] = "#" /\ \A k \in j .. n : text[k] # "\n"

LayoutAt(text, from, n) == text[n] \in Blanks \cup {"\n"} \/ InComment(text, from, n)

LayoutTo(text, from, n) ==
    /\ from \in Nat /\ n \in Nat /\ from <= n
    /\ \A i \in (from + 1) .. n : LayoutAt(text, from, i)

TokenAt(text, from, n) ==
    LayoutTo(text, from, n) /\ (n < Len(text) => ~LayoutAt(text, from, n + 1))

LayoutInv ==
    Ignoring =>
        /\ pc = "whitespace" =>
             /\ LayoutTo(data, backup.position, position)
             /\ More => ~InComment(data, backup.position, position)
        /\ pc = "line" =>
             /\ LayoutTo(data, backup.position, position)
             /\ (More /\ Char = "#") \/ InComment(data, backup.position, position)
        /\ pc = "token" => TokenAt(data, backup.position, position)
        /\ pc \in {"arrow", "word", "number", "string", "escape", "return"} =>
             TokenAt(data, backup.position, start.position)
        /\ pc # "blanks"

\* One more character of layout.
LEMMA LayoutGrows ==
    ASSUME NEW text, NEW from, NEW n, LayoutTo(text, from, n), LayoutAt(text, from, n + 1)
    PROVE  LayoutTo(text, from, n + 1)
<1>1. \A i \in (from + 1) .. (n + 1) : i \in (from + 1) .. n \/ i = n + 1
  BY DEF LayoutTo
<1> QED
  BY <1>1 DEF LayoutTo

\* A character other than "#" starts no comment.
LEMMA NoCommentStarts ==
    ASSUME NEW text, NEW from \in Nat, NEW n \in Nat, ~InComment(text, from, n),
           text[n + 1] # "#"
    PROVE  ~InComment(text, from, n + 1)
<1> SUFFICES ASSUME NEW j \in (from + 1) .. (n + 1), text[j] = "#",
                    \A k \in j .. (n + 1) : text[k] # "\n"
             PROVE  FALSE
  BY DEF InComment
<1>1. j \in (from + 1) .. n
  OBVIOUS
<1>2. \A k \in j .. n : text[k] # "\n"
  OBVIOUS
<1> QED
  BY <1>1, <1>2 DEF InComment

\* A comment goes on until the end of its line.
LEMMA CommentGoesOn ==
    ASSUME NEW text, NEW from \in Nat, NEW n \in Nat, from <= n, text[n + 1] # "\n",
           text[n + 1] = "#" \/ InComment(text, from, n)
    PROVE  InComment(text, from, n + 1)
<1>1. CASE text[n + 1] = "#"
  <2>1. n + 1 \in (from + 1) .. (n + 1) /\ \A k \in (n + 1) .. (n + 1) : text[k] # "\n"
    OBVIOUS
  <2> QED
    BY <1>1, <2>1 DEF InComment
<1>2. CASE InComment(text, from, n)
  <2>1. PICK j \in (from + 1) .. n : text[j] = "#" /\ \A k \in j .. n : text[k] # "\n"
    BY <1>2 DEF InComment
  <2>2. j \in (from + 1) .. (n + 1) /\ \A k \in j .. (n + 1) : text[k] # "\n"
    BY <2>1
  <2> QED
    BY <2>1, <2>2 DEF InComment
<1> QED
  BY <1>1, <1>2

\* No comment reaches over the end of a line.
LEMMA CommentEndsWithItsLine ==
    ASSUME NEW text, NEW from \in Nat, NEW n \in Nat, text[n + 1] = "\n"
    PROVE  ~InComment(text, from, n + 1)
BY DEF InComment

\* Before the first call nothing has been skipped.
LEMMA LayoutInitially == TokenizerInit => LayoutInv
BY DEF TokenizerInit, LayoutInv, Ignoring

\* Every step skips layout only, and stops at the first character that is none.
LEMMA LayoutStep == PlaceInv /\ LayoutInv /\ [TokenizerNext]_tokenizerVars => LayoutInv'
<1> SUFFICES ASSUME PlaceInv, LayoutInv, [TokenizerNext]_tokenizerVars PROVE LayoutInv'
  OBVIOUS
<1> DEFINE from == backup.position
           n == position
<1>0. data' = data /\ from \in Nat /\ n \in Nat /\ n <= Len(data) /\ Len(data) \in Nat
  <2>1. data' = data
    BY DEF tokenizerVars, TokenizerNext, Call, Step, SkipWhitespace, SkipBlanks, SkipLine,
           StartToken, EndArrow, ReadWord, ReadNumber, ReadString, ReadEscape, Return,
           skipVars, scanVars
  <2> QED
    BY <2>1 DEF PlaceInv, Real
<1>c. More => Char = data[n + 1]
  BY DEF Char
\* Where the tokenizer stands next, when it reads on and when it stays.
<1>r. ASSUME NEW to, Read(to) PROVE pc' = to /\ position' = n + 1
  BY <1>r DEF Read, AdvanceCharacter, Go
<1>s. ASSUME NEW to, Stay(to) PROVE pc' = to /\ position' = n
  BY <1>s DEF Stay, Go, place
\* Within a token its start does not change.
<1>t. ASSUME pc \in {"arrow", "word", "number", "string", "escape"},
             pc' \in {"word", "number", "string", "escape", "return", "aborted"},
             UNCHANGED <<start, backup, call>>
      PROVE  LayoutInv'
  BY <1>0, <1>t DEF LayoutInv, Ignoring
<1>1. CASE Call
  <2>1. SUFFICES ASSUME call' \in {"NextToken", "PeekNextToken"} PROVE LayoutInv'
    BY DEF LayoutInv, Ignoring
  <2>2. pc' = "whitespace"
    BY <1>1, <2>1 DEF Call, Go, Calls
  <2>3. backup'.position = n /\ position' = n
    BY <1>1 DEF Call, here, place
  <2>4. LayoutTo(data, n, n) /\ ~InComment(data, n, n)
    BY <1>0 DEF LayoutTo, InComment
  <2> QED
    BY <2>2, <2>3, <2>4, <1>0 DEF LayoutInv
<1> DEFINE Kept == UNCHANGED <<start, backup, call>>
<1>2. CASE SkipWhitespace /\ Ignoring
  <2>1. Kept /\ pc = "whitespace"
    BY <1>2 DEF SkipWhitespace, skipVars
  <2>2. LayoutTo(data, from, n) /\ (More => ~InComment(data, from, n)) /\ from <= n
    BY <2>1, <1>2 DEF LayoutInv, LayoutTo
  <2>3. CASE Char \in Blanks \cup {"\n"} /\ Read("whitespace")
    <3>1. More /\ data[n + 1] \in Blanks \cup {"\n"} /\ data[n + 1] # "#"
      <4>1. Char # "end" /\ Char # "#"
        BY <2>3, Zenon DEF Blanks
      <4> QED
        BY <4>1, <2>3, <1>c, OnlyCharactersAreRead
    <3>2. LayoutTo(data, from, n + 1)
      BY <3>1, <2>2, LayoutGrows DEF LayoutAt
    <3>3. ~InComment(data, from, n + 1)
      BY <3>1, <2>2, <1>0, NoCommentStarts
    <3>4. pc' = "whitespace" /\ position' = n + 1
      BY <2>3, <1>r
    <3> QED
      BY <3>2, <3>3, <3>4, <2>1, <1>0 DEF LayoutInv
  <2>4. CASE Char = "#" /\ Stay("line")
    <3>1. More
      BY <2>4, OnlyCharactersAreRead
    <3>2. pc' = "line" /\ position' = n /\ More' /\ Char' = Char
      BY <3>1, <2>4, <1>s, <1>0 DEF More, Char
    <3> QED
      BY <3>2, <2>1, <2>2, <2>4, <1>0 DEF LayoutInv
  <2>5. CASE Char \notin Blanks \cup {"\n", "#"} /\ Stay("token")
    <3>1. ASSUME n < Len(data) PROVE ~LayoutAt(data, from, n + 1)
      <4>1. More /\ Char = data[n + 1]
        BY <3>1, <1>c DEF More
      <4>2. ~InComment(data, from, n + 1)
        BY <4>1, <2>2, <2>5, <1>0, NoCommentStarts
      <4> QED
        BY <4>1, <4>2, <2>5 DEF LayoutAt
    <3>2. pc' = "token" /\ position' = n
      BY <2>5, <1>s
    <3> QED
      BY <3>1, <3>2, <2>1, <2>2, <1>0 DEF LayoutInv, TokenAt
  <2> QED
    BY <1>2, <2>3, <2>4, <2>5 DEF SkipWhitespace
<1>3. CASE SkipLine /\ Ignoring
  <2>1. Kept /\ pc = "line"
    BY <1>3 DEF SkipLine, skipVars
  <2>2. LayoutTo(data, from, n) /\ from <= n
        /\ ((More /\ Char = "#") \/ InComment(data, from, n))
    BY <2>1, <1>3 DEF LayoutInv, LayoutTo
  <2>3. caller = "whitespace"
    BY <1>3 DEF caller, Ignoring
  <2>4. CASE Char = "\n" /\ Read(caller)
    <3>1. More /\ data[n + 1] = "\n"
      BY <2>4, <1>c, OnlyCharactersAreRead
    <3>2. LayoutTo(data, from, n + 1)
      BY <3>1, <2>2, LayoutGrows DEF LayoutAt
    <3>3. ~InComment(data, from, n + 1)
      BY <3>1, <1>0, CommentEndsWithItsLine
    <3>4. pc' = "whitespace" /\ position' = n + 1
      BY <2>3, <2>4, <1>r
    <3> QED
      BY <3>2, <3>3, <3>4, <2>1, <1>0 DEF LayoutInv
  <2>5. CASE Char # "\n" /\ More /\ Read("line")
    <3>1. data[n + 1] # "\n" /\ (data[n + 1] = "#" \/ InComment(data, from, n))
      BY <2>2, <2>5, <1>c
    <3>2. InComment(data, from, n + 1)
      BY <3>1, <2>2, <1>0, CommentGoesOn
    <3>3. LayoutTo(data, from, n + 1)
      BY <3>2, <2>2, LayoutGrows DEF LayoutAt
    <3>4. pc' = "line" /\ position' = n + 1
      BY <2>5, <1>r
    <3> QED
      BY <3>2, <3>3, <3>4, <2>1, <1>0 DEF LayoutInv
  <2>6. CASE ~More /\ Stay(caller)
    <3>1. pc' = "whitespace" /\ position' = n /\ ~More'
      BY <2>3, <2>6, <1>s, <1>0 DEF More
    <3> QED
      BY <3>1, <2>1, <2>2, <1>0 DEF LayoutInv
  <2> QED
    BY <1>3, <2>4, <2>5, <2>6 DEF SkipLine
<1>4. CASE StartToken /\ Ignoring
  <2>1. UNCHANGED <<backup, call>> /\ pc = "token" /\ start'.position = n
    BY <1>4 DEF StartToken, here
  <2>2. TokenAt(data, from, n)
    BY <2>1, <1>4 DEF LayoutInv
  <2>3. pc' \in {"return", "arrow", "word", "number", "string"}
    BY <1>4 DEF StartToken, Starts, Read, Stay, Go
  <2> QED
    BY <2>1, <2>2, <2>3, <1>0 DEF LayoutInv
<1>5. CASE EndArrow \/ ReadWord \/ ReadNumber \/ ReadString \/ ReadEscape
  <2>1. Kept
    BY <1>5 DEF EndArrow, ReadWord, ReadNumber, ReadString, ReadEscape, skipVars, scanVars
  <2>2. pc \in {"arrow", "word", "number", "string", "escape"}
    BY <1>5 DEF EndArrow, ReadWord, ReadNumber, ReadString, ReadEscape
  <2>3. pc' \in {"word", "number", "string", "escape", "return", "aborted"}
    BY <1>5 DEF EndArrow, ReadWord, ReadNumber, ReadString, ReadEscape, GiveUpString,
                Read, Stay, Go
  <2> QED
    BY <2>1, <2>2, <2>3, <1>t
<1>6. CASE Return
  BY <1>6 DEF Return, Go, LayoutInv
<1>7. CASE SkipBlanks /\ Ignoring
  BY <1>7 DEF SkipBlanks, LayoutInv
<1>8. CASE ~Ignoring /\ (SkipWhitespace \/ SkipBlanks \/ SkipLine \/ StartToken)
  <2>1. UNCHANGED call
    BY <1>8 DEF SkipWhitespace, SkipBlanks, SkipLine, StartToken, skipVars
  <2> QED
    BY <2>1, <1>8 DEF LayoutInv, Ignoring
<1>9. CASE UNCHANGED tokenizerVars
  BY <1>9 DEF tokenizerVars, place, LayoutInv, Ignoring, More, Char
<1> QED
  BY <1>1, <1>2, <1>3, <1>4, <1>5, <1>6, <1>7, <1>8, <1>9 DEF TokenizerNext, Step

\* Layout is all that is skipped before a token, and all of it is, comments at the end of
\* the script or without a newline included.
THEOREM OnlyLayoutIsSkippedHolds == TokenizerSpec => []OnlyLayoutIsSkipped
<1>1. TokenizerSpec => []LayoutInv
  BY LayoutInitially, LayoutStep, PlaceInvariant, PlaceInitially, PTL DEF TokenizerSpec
<1>2. LayoutInv => OnlyLayoutIsSkipped
  BY DEF LayoutInv, OnlyLayoutIsSkipped, TokenAt, LayoutTo, LayoutAt, InComment, IsLayout
<1> QED
  BY <1>1, <1>2, PTL

-----------------------------------------------------------------------------
(***************************************************************************)
(* StringsEndAtTheirQuote.  Before a string is closed no newline and no    *)
(* closing quote has been passed, and the number of backslashes just       *)
(* passed is even, but odd where the character after one is expected.      *)
(***************************************************************************)
BackslashesIn(text, from, i) ==
    {j \in (from + 1) .. (i - 1) : \A k \in j .. (i - 1) : text[k] = "\\"}

Backslashes(text, from, i) == Cardinality(BackslashesIn(text, from, i))

IsQuote(text, i) == text[i] = "\""

\* The string that starts after "from" is still open at n.
OpenTo(text, from, n) ==
    /\ from \in Nat /\ n \in Nat /\ from < n
    /\ IsQuote(text, from + 1)
    /\ \A i \in (from + 1) .. n : text[i] # "\n"
    /\ \A i \in (from + 2) .. n : ~(IsQuote(text, i) /\ Backslashes(text, from, i) % 2 = 0)

\* The string that starts after "from" ends at n.
ClosedAt(text, from, n) ==
    /\ \A i \in (from + 1) .. n : text[i] # "\n"
    /\ \A i \in (from + 2) .. n :
         IsQuote(text, i) /\ Backslashes(text, from, i) % 2 = 0 <=> i = n

StringInv ==
    /\ pc = "string" =>
         OpenTo(data, start.position, position)
         /\ Backslashes(data, start.position, position + 1) % 2 = 0
    /\ pc = "escape" =>
         OpenTo(data, start.position, position)
         /\ Backslashes(data, start.position, position + 1) % 2 = 1
    /\ pc \in {"arrow", "word", "number"} => type # "string"
    /\ pc = "return" /\ type = "string" => ClosedAt(data, start.position, position)

\* A backslash makes one more, any other character makes them none.
LEMMA BackslashesChange ==
    ASSUME NEW text, NEW from \in Nat, NEW i \in Nat, from < i
    PROVE  /\ Backslashes(text, from, i) \in Nat
           /\ text[i] = "\\" =>
                Backslashes(text, from, i + 1) = Backslashes(text, from, i) + 1
           /\ text[i] # "\\" => Backslashes(text, from, i + 1) = 0
<1> DEFINE before == BackslashesIn(text, from, i)
           after == BackslashesIn(text, from, i + 1)
<1>1. IsFiniteSet(before) /\ Cardinality(before) \in Nat /\ i \notin before
  <2>1. IsFiniteSet((from + 1) .. (i - 1)) /\ before \subseteq (from + 1) .. (i - 1)
    BY FS_Interval DEF BackslashesIn
  <2> QED
    BY <2>1, FS_Subset, FS_CardinalityType
<1>2. CASE text[i] = "\\"
  <2>1. after = before \cup {i}
    BY <1>2 DEF BackslashesIn
  <2> QED
    BY <1>1, <1>2, <2>1, FS_AddElement DEF Backslashes
<1>3. CASE text[i] # "\\"
  <2>1. after = {}
    BY <1>3 DEF BackslashesIn
  <2>2. Cardinality(after) = 0
    BY <2>1, FS_EmptySet
  <2> QED
    BY <1>1, <1>3, <2>2 DEF Backslashes
<1> QED
  BY <1>2, <1>3

\* A quote is neither a backslash nor the end of a line.
LEMMA QuotesAreThemselves ==
    ASSUME NEW text, NEW i
    PROVE  /\ IsQuote(text, i) => text[i] # "\n" /\ text[i] # "\\"
           /\ Char = "\"" => Char # "end"
           /\ Char = text[i] => (IsQuote(text, i) <=> Char = "\"")
BY Zenon DEF IsQuote

\* One more character of a string that stays open.
LEMMA OpenGrows ==
    ASSUME NEW text, NEW from, NEW n, OpenTo(text, from, n), text[n + 1] # "\n",
           ~(IsQuote(text, n + 1) /\ Backslashes(text, from, n + 1) % 2 = 0)
    PROVE  OpenTo(text, from, n + 1)
<1>1. \A i \in (from + 1) .. (n + 1) : i \in (from + 1) .. n \/ i = n + 1
  BY DEF OpenTo
<1>2. \A i \in (from + 2) .. (n + 1) : i \in (from + 2) .. n \/ i = n + 1
  BY DEF OpenTo
<1>3. IsQuote(text, from + 1) /\ from \in Nat /\ n + 1 \in Nat /\ from < n + 1
  BY DEF OpenTo
<1>4. \A i \in (from + 1) .. (n + 1) : text[i] # "\n"
  BY <1>1 DEF OpenTo
<1>5. \A i \in (from + 2) .. (n + 1) :
        ~(IsQuote(text, i) /\ Backslashes(text, from, i) % 2 = 0)
  BY <1>2 DEF OpenTo
<1> QED
  BY <1>3, <1>4, <1>5 DEF OpenTo

\* A string is closed by a quote behind an even number of backslashes, and by no earlier one.
LEMMA QuoteCloses ==
    ASSUME NEW text, NEW from, NEW n, OpenTo(text, from, n), IsQuote(text, n + 1),
           Backslashes(text, from, n + 1) % 2 = 0
    PROVE  ClosedAt(text, from, n + 1)
<1>1. \A i \in (from + 1) .. (n + 1) : i \in (from + 1) .. n \/ i = n + 1
  BY DEF OpenTo
<1>2. \A i \in (from + 2) .. (n + 1) : (i \in (from + 2) .. n /\ i # n + 1) \/ i = n + 1
  BY DEF OpenTo
<1>3. text[n + 1] # "\n"
  BY QuotesAreThemselves
<1>4. \A i \in (from + 1) .. (n + 1) : text[i] # "\n"
  BY <1>1, <1>3 DEF OpenTo
<1>5. \A i \in (from + 2) .. (n + 1) :
        IsQuote(text, i) /\ Backslashes(text, from, i) % 2 = 0 <=> i = n + 1
  BY <1>2 DEF OpenTo
<1> QED
  BY <1>4, <1>5 DEF ClosedAt

\* Before the first call no string is open.
LEMMA StringsInitially == TokenizerInit => StringInv
BY DEF TokenizerInit, StringInv

\* Every step keeps count of the backslashes, by where the tokenizer stands.
LEMMA StringsStep == PlaceInv /\ StringInv /\ [TokenizerNext]_tokenizerVars => StringInv'
<1> SUFFICES ASSUME PlaceInv, StringInv, [TokenizerNext]_tokenizerVars PROVE StringInv'
  OBVIOUS
<1> DEFINE from == start.position
           n == position
<1>0. data' = data /\ n \in Nat /\ Len(data) \in Nat
  <2>1. data' = data
    BY DEF tokenizerVars, TokenizerNext, Call, Step, SkipWhitespace, SkipBlanks, SkipLine,
           StartToken, EndArrow, ReadWord, ReadNumber, ReadString, ReadEscape, Return,
           skipVars, scanVars
  <2> QED
    BY <2>1 DEF PlaceInv, Real
<1>c. More => Char = data[n + 1]
  BY DEF Char
<1>r. ASSUME NEW to, Read(to) PROVE pc' = to /\ position' = n + 1
  BY <1>r DEF Read, AdvanceCharacter, Go
\* Elsewhere no string is read, and none is returned.
<1>e. ASSUME pc' \notin {"string", "escape", "arrow", "word", "number", "return"}
      PROVE  StringInv'
  BY <1>e DEF StringInv
<1>n. ASSUME pc' \notin {"string", "escape"}, type' # "string" PROVE StringInv'
  BY <1>n DEF StringInv
\* A character within a string.
<1>g. ASSUME OpenTo(data, from, n), data[n + 1] # "\n",
             ~(IsQuote(data, n + 1) /\ Backslashes(data, from, n + 1) % 2 = 0),
             start' = start, position' = n + 1,
             \/ pc' = "string" /\ Backslashes(data, from, n + 2) % 2 = 0
             \/ pc' = "escape" /\ Backslashes(data, from, n + 2) % 2 = 1
      PROVE  StringInv'
  <2>1. OpenTo(data', start'.position, position')
    BY <1>g, <1>0, OpenGrows
  <2>2. position' + 1 = n + 2
    BY <1>g, <1>0
  <2> QED
    BY <2>1, <2>2, <1>g, <1>0 DEF StringInv
<1>b. ASSUME OpenTo(data, from, n)
      PROVE  /\ Backslashes(data, from, n + 1) \in Nat
             /\ data[n + 1] = "\\" =>
                  Backslashes(data, from, n + 2) = Backslashes(data, from, n + 1) + 1
             /\ data[n + 1] # "\\" => Backslashes(data, from, n + 2) = 0
  <2>1. from \in Nat /\ n + 1 \in Nat /\ from < n + 1 /\ (n + 1) + 1 = n + 2
    BY <1>b DEF OpenTo
  <2> QED
    BY <2>1, BackslashesChange
<1>1. CASE Call
  <2>1. pc' \notin {"string", "escape", "arrow", "word", "number", "return"}
    BY <1>1 DEF Call, Go, Calls
  <2> QED
    BY <2>1, <1>e
<1>2. CASE SkipWhitespace \/ SkipBlanks \/ SkipLine \/ Return
  <2>1. pc' \notin {"string", "escape", "arrow", "word", "number", "return"}
    BY <1>2 DEF SkipWhitespace, SkipBlanks, SkipLine, caller, Return, Read, Stay, Go
  <2> QED
    BY <2>1, <1>e
<1>3. CASE StartToken
  <2>1. CASE Char = "\"" /\ Starts("string", "string")
    <3>1. start'.position = n /\ position' = n + 1 /\ pc' = "string"
      BY <1>3, <2>1, <1>r DEF StartToken, Starts, here
    <3>2. IsQuote(data, n + 1) /\ data[n + 1] # "\n" /\ data[n + 1] # "\\"
      <4>1. More /\ Char = data[n + 1]
        BY <2>1, <1>c, OnlyCharactersAreRead, QuotesAreThemselves, Zenon
      <4> QED
        BY <4>1, <2>1, QuotesAreThemselves, Zenon
    <3>3. OpenTo(data, n, n + 1)
      BY <3>2, <1>0 DEF OpenTo
    <3>4. Backslashes(data, n, n + 2) = 0
      <4>1. data[n + 1] # "\\" /\ n + 1 \in Nat /\ n < n + 1 /\ (n + 1) + 1 = n + 2
        BY <3>2, <1>0
      <4> QED
        BY <4>1, <1>0, BackslashesChange
    <3>5. position' + 1 = n + 2 /\ Backslashes(data, n, n + 2) % 2 = 0
      BY <3>1, <3>4, <1>0
    <3> QED
      BY <3>1, <3>3, <3>5, <1>0 DEF StringInv
  <2>2. CASE ~(Char = "\"" /\ Starts("string", "string"))
    <3>1. pc' \notin {"string", "escape"} /\ type' # "string"
      BY <1>3, <2>2, Zenon DEF StartToken, Starts, Read, Stay, Go
    <3> QED
      BY <3>1, <1>n
  <2> QED
    BY <2>1, <2>2
<1>4. CASE EndArrow \/ ReadWord \/ ReadNumber
  <2>1. type # "string"
    BY <1>4 DEF EndArrow, ReadWord, ReadNumber, StringInv
  <2>2. type' \in {type, "float"}
    BY <1>4 DEF EndArrow, ReadWord, ReadNumber, skipVars
  <2>3. pc' \notin {"string", "escape"}
    BY <1>4 DEF EndArrow, ReadWord, ReadNumber, Read, Stay, Go
  <2> QED
    BY <2>1, <2>2, <2>3, <1>n
<1>u. ASSUME GiveUpString PROVE StringInv'
  <2>1. pc' = "return" /\ type' = "unknown"
    BY <1>u DEF GiveUpString, Go
  <2> QED
    BY <2>1, <1>n
<1>5. CASE ReadString
  <2>1. pc = "string" /\ start' = start
    BY <1>5 DEF ReadString, scanVars
  <2>2. OpenTo(data, from, n) /\ Backslashes(data, from, n + 1) % 2 = 0
    BY <2>1 DEF StringInv
  <2>3. CASE Char = "\"" /\ Read("return")
    <3>0. More /\ Char = data[n + 1]
      BY <2>3, <1>c, OnlyCharactersAreRead, QuotesAreThemselves, Zenon
    <3>1. IsQuote(data, n + 1) /\ pc' = "return" /\ position' = n + 1
      BY <3>0, <2>3, <1>r, QuotesAreThemselves, Zenon
    <3>2. ClosedAt(data, from, n + 1)
      BY <3>1, <2>2, QuoteCloses
    <3> QED
      BY <3>1, <3>2, <2>1, <1>0 DEF StringInv
  <2>4. CASE Char = "\\" /\ Read("escape")
    <3>0. More /\ Char = data[n + 1] /\ Char # "\n" /\ Char # "\""
      BY <2>4, <1>c, OnlyCharactersAreRead, Zenon
    <3>1. /\ data[n + 1] = "\\" /\ data[n + 1] # "\n" /\ ~IsQuote(data, n + 1)
          /\ pc' = "escape" /\ position' = n + 1
      BY <3>0, <2>4, <1>r, QuotesAreThemselves, Zenon
    <3>2. Backslashes(data, from, n + 2) % 2 = 1
      BY <3>1, <2>2, <1>b
    <3> QED
      BY <3>1, <3>2, <2>1, <2>2, <1>g
  <2>5. CASE Char \notin {"\"", "\\", "end", "\n"} /\ Read("string")
    <3>0. More /\ Char = data[n + 1]
      BY <2>5, <1>c, OnlyCharactersAreRead, Zenon
    <3>1. /\ data[n + 1] # "\\" /\ data[n + 1] # "\n" /\ ~IsQuote(data, n + 1)
          /\ pc' = "string" /\ position' = n + 1
      BY <3>0, <2>5, <1>r, QuotesAreThemselves, Zenon
    <3>2. Backslashes(data, from, n + 2) % 2 = 0
      BY <3>1, <2>2, <1>b
    <3> QED
      BY <3>1, <3>2, <2>1, <2>2, <1>g
  <2> QED
    BY <1>5, <1>u, <2>3, <2>4, <2>5 DEF ReadString
<1>6. CASE ReadEscape
  <2>1. pc = "escape" /\ start' = start
    BY <1>6 DEF ReadEscape, scanVars
  <2>2. OpenTo(data, from, n) /\ Backslashes(data, from, n + 1) % 2 = 1
    BY <2>1 DEF StringInv
  <2>3. CASE Char \in {"n", "\\", "\""} /\ Read("string")
    <3>1. Char = data[n + 1] /\ data[n + 1] # "\n" /\ pc' = "string" /\ position' = n + 1
      BY <2>3, <1>c, <1>r, OnlyCharactersAreRead, Zenon
    <3>2. Backslashes(data, from, n + 2) % 2 = 0
      BY <3>1, <2>2, <1>b
    <3> QED
      BY <3>1, <3>2, <2>1, <2>2, <1>g
  <2>4. CASE AdvanceCharacter /\ Go("aborted")
    BY <2>4, <1>e DEF Go
  <2>5. CASE AdvanceCharacter /\ Go("return") /\ type' = "unknown"
    BY <2>5, <1>n DEF Go
  <2> QED
    BY <1>6, <1>u, <2>3, <2>4, <2>5 DEF ReadEscape
<1>7. CASE UNCHANGED tokenizerVars
  BY <1>7 DEF tokenizerVars, place, StringInv
<1> QED
  BY <1>1, <1>2, <1>3, <1>4, <1>5, <1>6, <1>7 DEF TokenizerNext, Step

\* A string token lies on one line and ends with the first quote that no backslash escapes,
\* however many backslashes there are.
THEOREM StringsEndAtTheirQuoteHolds == TokenizerSpec => []StringsEndAtTheirQuote
<1>1. TokenizerSpec => []StringInv
  BY StringsInitially, StringsStep, PlaceInvariant, PTL DEF TokenizerSpec
<1>2. StringInv => StringsEndAtTheirQuote
  BY DEF StringInv, ClosedAt, IsQuote, Backslashes, BackslashesIn, StringsEndAtTheirQuote,
         Escapes
<1> QED
  BY <1>1, <1>2, PTL

-----------------------------------------------------------------------------
(***************************************************************************)
(* PeekedTokenComesNext.  What token there is at a place is determined by  *)
(* the script: the control points passed from the first character of a     *)
(* token on are the same whenever it is read.                              *)
(***************************************************************************)
CharAt(text, i) == IF i < Len(text) THEN text[i + 1] ELSE "end"

FollowsAt(text, i, char) == i + 1 < Len(text) /\ text[i + 2] = char

Quote == "\""

Point(at, of) == <<at, of>>

\* At position i and control point p, which is a pc and a type, a character of a token is
\* read, and q is next.
Reads(text, i, p, q) ==
    \/ p[1] = "token" /\ CharAt(text, i) \in Marks /\ q = Point("return", "mark")
    \/ p[1] = "token" /\ CharAt(text, i) = "-" /\ FollowsAt(text, i, ">")
         /\ q = Point("arrow", "arrow")
    \/ p[1] = "token" /\ CharAt(text, i) \in Letters /\ q = Point("word", "word")
    \/ p[1] = "token" /\ CharAt(text, i) \in {"0", "-"}
         /\ ~(CharAt(text, i) = "-" /\ FollowsAt(text, i, ">")) /\ q = Point("number", "int")
    \/ p[1] = "token" /\ CharAt(text, i) = "." /\ q = Point("number", "float")
    \/ p[1] = "token" /\ CharAt(text, i) = Quote /\ q = Point("string", "string")
    \/ p[1] = "arrow" /\ q = Point("return", p[2])
    \/ p[1] = "word" /\ CharAt(text, i) \in Letters \cup {"0"} /\ q = p
    \/ p[1] = "number" /\ CharAt(text, i) = "0" /\ q = p
    \/ p[1] = "number" /\ CharAt(text, i) = "." /\ q = Point("number", "float")
    \/ p[1] = "string" /\ CharAt(text, i) = Quote /\ q = Point("return", p[2])
    \/ p[1] = "string" /\ CharAt(text, i) = "\\" /\ q = Point("escape", p[2])
    \/ p[1] = "string" /\ CharAt(text, i) \notin {Quote, "\\", "end", "\n"} /\ q = p
    \/ p[1] = "escape" /\ CharAt(text, i) \in {"n", "\\", Quote} /\ q = Point("string", p[2])

\* A token of type t that starts at s ends where i has been reached, at "to".
Ends(text, s, i, p, t, to) ==
    \/ p[1] = "return" /\ t = p[2] /\ to = i
    \/ p[1] = "token" /\ ~(i < Len(text)) /\ t = "EOS" /\ to = i
    \/ p[1] = "token" /\ i < Len(text)
         /\ CharAt(text, i) \notin Marks \cup Letters \cup {"0", "-", ".", Quote}
         /\ t = "unknown" /\ to = i
    \/ p[1] = "word" /\ CharAt(text, i) \notin Letters \cup {"0"} /\ t = p[2] /\ to = i
    \/ p[1] = "number" /\ CharAt(text, i) \notin {"0", "."} /\ t = p[2] /\ to = i
    \/ p[1] \in {"string", "escape"} /\ CharAt(text, i) \in {"end", "\n"}
         /\ t = "unknown" /\ to = s
    \/ p[1] = "escape" /\ CharAt(text, i) \notin {"n", "\\", Quote, "end", "\n"}
         /\ t = "unknown" /\ to = i + 1

\* The control points from the start of a token to n.
Passes(text, s, n, points) ==
    /\ s \in Nat /\ n \in Nat /\ s <= n
    /\ points[s] = Point("token", "none")
    /\ \A i \in s .. (n - 1) : Reads(text, i, points[i], points[i + 1])

ScannedTo(text, s, n, p) == \E points : Passes(text, s, n, points) /\ points[n] = p

IsToken(text, s, t, to) ==
    \E n, p : ScannedTo(text, s, n, p) /\ Ends(text, s, n, p, t, to)

\* A quote is no other character that a token is made of.
LEMMA QuoteIsNoOther ==
    /\ Quote \notin Marks /\ Quote \notin Letters
    /\ Quote \notin {"0", "-", ".", "\\", "end", "\n", "#"} /\ Quote \notin Blanks
BY Zenon DEF Quote, Marks, Letters, Blanks

\* No control point reads a character in two ways.
LEMMA ReadsIsDetermined ==
    ASSUME NEW text, NEW i, NEW p, NEW q, NEW r, Reads(text, i, p, q), Reads(text, i, p, r)
    PROVE  q = r
<1>1. CASE p[1] = "token"
  <2> DEFINE c == CharAt(text, i)
  <2>0. ASSUME NEW u, Reads(text, i, p, u)
        PROVE  /\ c \in Marks => u = Point("return", "mark")
               /\ c \in Letters => u = Point("word", "word")
               /\ c = "-" /\ FollowsAt(text, i, ">") => u = Point("arrow", "arrow")
               /\ c = "0" \/ (c = "-" /\ ~FollowsAt(text, i, ">")) => u = Point("number", "int")
               /\ c = "." => u = Point("number", "float")
               /\ c = Quote => u = Point("string", "string")
    BY <1>1, <2>0, QuoteIsNoOther DEF Reads, Marks, Letters
  <2>6. c \in Marks \cup Letters \cup {"-", "0", ".", Quote}
    BY <1>1 DEF Reads
  <2> QED
    BY <2>0, <2>6
<1>2. CASE p[1] = "string"
  BY <1>2, QuoteIsNoOther DEF Reads
<1>3. CASE p[1] \in {"arrow", "word", "number", "escape"}
  BY <1>3, QuoteIsNoOther DEF Reads
<1>4. p[1] \in {"token", "string", "arrow", "word", "number", "escape"}
  BY DEF Reads
<1> QED
  BY <1>1, <1>2, <1>3, <1>4

\* No control point both reads on and ends the token.
LEMMA EndsReadsNoMore ==
    ASSUME NEW text, NEW s, NEW i, NEW p, NEW q, NEW t, NEW to, Reads(text, i, p, q)
    PROVE  ~Ends(text, s, i, p, t, to)
BY QuoteIsNoOther DEF Reads, Ends, Marks, Letters, CharAt

\* No control point ends a token in two ways.
LEMMA EndsIsDetermined ==
    ASSUME NEW text, NEW s, NEW i, NEW p, NEW t, NEW to, NEW u, NEW uo,
           Ends(text, s, i, p, t, to), Ends(text, s, i, p, u, uo)
    PROVE  t = u /\ to = uo
BY QuoteIsNoOther DEF Ends

\* As far as two passages go, they are the same.
LEMMA PassagesAgree ==
    ASSUME NEW text, NEW s, NEW n, NEW m, NEW points, NEW others,
           Passes(text, s, n, points), Passes(text, s, m, others)
    PROVE  \A i \in s .. n : i <= m => points[i] = others[i]
<1> DEFINE S == {k \in Nat : s + k <= n /\ s + k <= m => points[s + k] = others[s + k]}
<1>0. s \in Nat /\ n \in Nat /\ m \in Nat
  BY DEF Passes
<1>1. 0 \in S
  BY <1>0 DEF Passes
<1>2. ASSUME NEW k \in Nat, k \in S PROVE k + 1 \in S
  <2> SUFFICES ASSUME s + (k + 1) <= n, s + (k + 1) <= m
               PROVE  points[s + (k + 1)] = others[s + (k + 1)]
    OBVIOUS
  <2>1. /\ s + k \in s .. (n - 1) /\ s + k \in s .. (m - 1) /\ (s + k) + 1 = s + (k + 1)
        /\ points[s + k] = others[s + k]
    BY <1>0, <1>2
  <2>2. Reads(text, s + k, points[s + k], points[s + (k + 1)])
    BY <2>1 DEF Passes
  <2>3. Reads(text, s + k, points[s + k], others[s + (k + 1)])
    BY <2>1 DEF Passes
  <2> QED
    BY <2>2, <2>3, ReadsIsDetermined
<1>3. \A k \in Nat : k \in S
  <2> HIDE DEF S
  <2> QED
    BY <1>1, <1>2, NumbersInduction
<1> SUFFICES ASSUME NEW i \in s .. n, i <= m PROVE points[i] = others[i]
  OBVIOUS
<1>4. i - s \in Nat /\ s + (i - s) = i
  BY <1>0
<1> QED
  BY <1>3, <1>4

\* One end is not before the other.
LEMMA NoLaterEnd ==
    ASSUME NEW text, NEW s, NEW n, NEW m, NEW p, NEW q, NEW t, NEW to,
           ScannedTo(text, s, n, p), Ends(text, s, n, p, t, to), ScannedTo(text, s, m, q),
           n <= m
    PROVE  n = m /\ p = q
<1>1. PICK points : Passes(text, s, n, points) /\ points[n] = p
  BY DEF ScannedTo
<1>2. PICK others : Passes(text, s, m, others) /\ others[m] = q
  BY DEF ScannedTo
<1>3. s \in Nat /\ n \in Nat /\ m \in Nat /\ s <= n
  BY <1>1, <1>2 DEF Passes
<1>4. others[n] = p
  BY <1>1, <1>2, <1>3, PassagesAgree
<1>5. CASE n < m
  <2>1. Reads(text, n, p, others[n + 1])
    <3>1. n \in s .. (m - 1)
      BY <1>3, <1>5
    <3> QED
      BY <3>1, <1>2, <1>4 DEF Passes
  <2> QED
    BY <2>1, EndsReadsNoMore
<1> QED
  BY <1>2, <1>3, <1>4, <1>5

\* At one place there is one token.
LEMMA TokenIsDetermined ==
    ASSUME NEW text, NEW s, NEW t, NEW to, NEW u, NEW uo,
           IsToken(text, s, t, to), IsToken(text, s, u, uo)
    PROVE  t = u /\ to = uo
<1>1. PICK n, p : ScannedTo(text, s, n, p) /\ Ends(text, s, n, p, t, to)
  BY DEF IsToken
<1>2. PICK m, q : ScannedTo(text, s, m, q) /\ Ends(text, s, m, q, u, uo)
  BY DEF IsToken
<1>3. n <= m \/ m <= n
  BY <1>1, <1>2 DEF ScannedTo, Passes
<1>4. n = m /\ p = q
  BY <1>1, <1>2, <1>3, NoLaterEnd
<1> QED
  BY <1>1, <1>2, <1>4, EndsIsDetermined

\* One character more.
LEMMA ScannedFurther ==
    ASSUME NEW text, NEW s, NEW n, NEW p, NEW q,
           ScannedTo(text, s, n, p), Reads(text, n, p, q)
    PROVE  ScannedTo(text, s, n + 1, q)
<1>1. PICK points : Passes(text, s, n, points) /\ points[n] = p
  BY DEF ScannedTo
<1>2. s \in Nat /\ n \in Nat /\ s <= n
  BY <1>1 DEF Passes
<1> DEFINE further == [i \in s .. (n + 1) |-> IF i = n + 1 THEN q ELSE points[i]]
<1>3. further[n + 1] = q /\ \A i \in s .. n : further[i] = points[i]
  BY <1>2
<1> HIDE DEF further
<1>4. Passes(text, s, n + 1, further)
  <2>1. further[s] = Point("token", "none")
    BY <1>1, <1>2, <1>3 DEF Passes
  <2>2. ASSUME NEW i \in s .. n PROVE Reads(text, i, further[i], further[i + 1])
    <3>1. CASE i = n
      BY <3>1, <1>1, <1>2, <1>3
    <3>2. CASE i # n
      <4>1. i \in s .. (n - 1) /\ i + 1 \in s .. n
        BY <3>2, <1>2
      <4>2. Reads(text, i, points[i], points[i + 1])
        BY <4>1, <1>1 DEF Passes
      <4> QED
        BY <4>1, <4>2, <1>3
    <3> QED
      BY <3>1, <3>2
  <2>3. (n + 1) - 1 = n /\ n + 1 \in Nat /\ s <= n + 1
    BY <1>2
  <2> QED
    BY <2>1, <2>2, <2>3, <1>2 DEF Passes
<1> QED
  BY <1>3, <1>4 DEF ScannedTo

\* Nothing of a token has been read.
LEMMA ScannedToItsStart ==
    ASSUME NEW text, NEW s \in Nat
    PROVE  ScannedTo(text, s, s, Point("token", "none"))
<1> DEFINE points == [i \in {s} |-> Point("token", "none")]
<1>1. points[s] = Point("token", "none")
  OBVIOUS
<1>2. s .. (s - 1) = {} /\ s <= s
  OBVIOUS
<1> HIDE DEF points
<1>3. Passes(text, s, s, points)
  BY <1>1, <1>2 DEF Passes
<1> QED
  BY <1>1, <1>3 DEF ScannedTo

\* What is no unknown token starts with a character that is not layout.
LEMMA TokensStartNoLayout ==
    ASSUME NEW text, NEW s, NEW t, NEW to, IsToken(text, s, t, to), t # "unknown",
           s < Len(text)
    PROVE  s \in Nat /\ text[s + 1] \notin Blanks \cup {"\n", "#"}
<1>1. PICK n, p : ScannedTo(text, s, n, p) /\ Ends(text, s, n, p, t, to)
  BY DEF IsToken
<1>2. PICK points : Passes(text, s, n, points) /\ points[n] = p
  BY <1>1 DEF ScannedTo
<1>3. s \in Nat /\ n \in Nat /\ s <= n /\ points[s] = Point("token", "none")
      /\ CharAt(text, s) = text[s + 1]
  BY <1>2 DEF Passes, CharAt
<1>4. points[s][1] = "token"
  BY <1>3 DEF Point
<1>5. CharAt(text, s) \in Marks \cup Letters \cup {"0", "-", ".", Quote}
  <2>1. CASE n = s
    BY <2>1, <1>1, <1>2, <1>4 DEF Ends
  <2>2. CASE n # s
    <3>1. Reads(text, s, points[s], points[s + 1])
      <4>1. s \in s .. (n - 1)
        BY <2>2, <1>3
      <4> QED
        BY <4>1, <1>2 DEF Passes
    <3> QED
      BY <3>1, <1>4 DEF Reads
  <2> QED
    BY <2>1, <2>2
<1>6. CharAt(text, s) \notin Blanks \cup {"\n", "#"}
  BY <1>5, QuoteIsNoOther DEF Marks, Letters, Blanks
<1> QED
  BY <1>3, <1>6

ScanInv ==
    /\ pc \in {"arrow", "word", "number", "string", "escape"} =>
         ScannedTo(data, start.position, position, Point(pc, type))
    /\ pc = "return" => IsToken(data, start.position, type, position)

\* Before the first call nothing has been scanned.
LEMMA ScanInitially == TokenizerInit => ScanInv
BY DEF TokenizerInit, ScanInv

\* The components of a control point.
LEMMA PointsHaveTwoParts ==
    ASSUME NEW at, NEW of
    PROVE  Point(at, of)[1] = at /\ Point(at, of)[2] = of
BY DEF Point

\* A token that has been read up to its end is one.
LEMMA EndsAToken ==
    ASSUME NEW text, NEW s, NEW n, NEW p, NEW t, NEW to,
           ScannedTo(text, s, n, p), Ends(text, s, n, p, t, to)
    PROVE  IsToken(text, s, t, to)
BY DEF IsToken

\* Every step passes the control points that the script determines.
LEMMA ScanStep == PlaceInv /\ ScanInv /\ [TokenizerNext]_tokenizerVars => ScanInv'
<1> SUFFICES ASSUME PlaceInv, ScanInv, [TokenizerNext]_tokenizerVars PROVE ScanInv'
  OBVIOUS
<1> DEFINE from == start.position
           n == position
           now == Point(pc, type)
<1>0. data' = data /\ n \in Nat /\ Len(data) \in Nat
  <2>1. data' = data
    BY DEF tokenizerVars, TokenizerNext, Call, Step, SkipWhitespace, SkipBlanks, SkipLine,
           StartToken, EndArrow, ReadWord, ReadNumber, ReadString, ReadEscape, Return,
           skipVars, scanVars
  <2> QED
    BY <2>1 DEF PlaceInv, Real
<1>c. Char = CharAt(data, n) /\ (More <=> n < Len(data))
      /\ \A char : Follows(char) <=> FollowsAt(data, n, char)
  BY DEF Char, CharAt, More, Follows, FollowsAt
<1>p. now[1] = pc /\ now[2] = type
  BY PointsHaveTwoParts
<1>r. ASSUME NEW to, Read(to) PROVE pc' = to /\ position' = n + 1
  BY <1>r DEF Read, AdvanceCharacter, Go
<1>s. ASSUME NEW to, Stay(to) PROVE pc' = to /\ position' = n
  BY <1>s DEF Stay, Go, place
<1> HIDE DEF now
\* A character is read within a token, and perhaps the token ends with it.
<1>k. ASSUME NEW s, NEW p, ScannedTo(data, s, n, p), Reads(data, n, p, Point(pc', type')),
             start'.position = s, position' = n + 1
      PROVE  ScanInv'
  <2>1. ScannedTo(data, s, n + 1, Point(pc', type'))
    BY <1>k, ScannedFurther
  <2>2. pc' = "return" => IsToken(data, s, type', n + 1)
    <3> SUFFICES ASSUME pc' = "return" PROVE IsToken(data, s, type', n + 1)
      OBVIOUS
    <3>1. Ends(data, s, n + 1, Point(pc', type'), type', n + 1)
      BY PointsHaveTwoParts DEF Ends
    <3> QED
      BY <2>1, <3>1, EndsAToken
  <2> QED
    BY <2>1, <2>2, <1>k, <1>0 DEF ScanInv
\* A token ends at a character that is not read.
<1>e. ASSUME NEW s, NEW p, ScannedTo(data, s, n, p), Ends(data, s, n, p, type', position'),
             start'.position = s, pc' = "return"
      PROVE  ScanInv'
  <2>1. IsToken(data, s, type', position')
    BY <1>e, EndsAToken
  <2> QED
    BY <2>1, <1>e, <1>0 DEF ScanInv
<1>n. ASSUME pc' \notin {"arrow", "word", "number", "string", "escape", "return"}
      PROVE  ScanInv'
  BY <1>n DEF ScanInv
<1>1. CASE Call
  <2>1. pc' \notin {"arrow", "word", "number", "string", "escape", "return"}
    BY <1>1 DEF Call, Go, Calls
  <2> QED
    BY <2>1, <1>n
<1>2. CASE SkipWhitespace \/ SkipBlanks \/ SkipLine \/ Return
  <2>1. pc' \notin {"arrow", "word", "number", "string", "escape", "return"}
    BY <1>2 DEF SkipWhitespace, SkipBlanks, SkipLine, caller, Return, Read, Stay, Go
  <2> QED
    BY <2>1, <1>n
<1>3. CASE StartToken
  <2> DEFINE first == Point("token", "none")
  <2>1. ScannedTo(data, n, n, first) /\ first[1] = "token" /\ start'.position = n
    BY <1>3, <1>0, ScannedToItsStart, PointsHaveTwoParts DEF StartToken, here
  <2> HIDE DEF first
  <2>2. \/ ~More /\ type' = "EOS" /\ Stay("return")
        \/ Char \in Marks /\ Starts("mark", "return")
        \/ Char = "-" /\ Follows(">") /\ Starts("arrow", "arrow")
        \/ Char \in Letters /\ Starts("word", "word")
        \/ Char \in {"0", "-"} /\ ~(Char = "-" /\ Follows(">")) /\ Starts("int", "number")
        \/ Char = "." /\ Starts("float", "number")
        \/ Char = Quote /\ Starts("string", "string")
        \/ /\ More /\ Char \notin Marks \cup Letters \cup {"0", "-", ".", Quote}
           /\ type' = "unknown" /\ Stay("return")
    BY <1>3, Zenon DEF StartToken, Quote
  <2>3. CASE Stay("return")
    <3>1. (~More /\ type' = "EOS")
          \/ (/\ More /\ Char \notin Marks \cup Letters \cup {"0", "-", ".", Quote}
              /\ type' = "unknown")
          \/ position' = n + 1
      BY <2>2, <1>r DEF Starts
    <3>2. pc' = "return" /\ position' = n
      BY <2>3, <1>s
    <3>3. Ends(data, n, n, first, type', n)
      BY <3>1, <3>2, <2>1, <1>c, <1>0 DEF Ends
    <3> QED
      BY <3>2, <3>3, <2>1, <1>e
  <2>4. ASSUME NEW t, NEW to, Starts(t, to), Reads(data, n, first, Point(to, t))
        PROVE  ScanInv'
    <3>1. type' = t /\ pc' = to /\ position' = n + 1
      BY <2>4, <1>r DEF Starts
    <3> QED
      BY <3>1, <2>1, <2>4, <1>k
  <2>5. CASE Char \in Marks /\ Starts("mark", "return")
    <3>1. Reads(data, n, first, Point("return", "mark"))
      BY <2>1, <2>5, <1>c DEF Reads
    <3> QED
      BY <3>1, <2>4, <2>5
  <2>6. CASE Char = "-" /\ Follows(">") /\ Starts("arrow", "arrow")
    <3>1. Reads(data, n, first, Point("arrow", "arrow"))
      BY <2>1, <2>6, <1>c DEF Reads
    <3> QED
      BY <3>1, <2>4, <2>6
  <2>7. CASE Char \in Letters /\ Starts("word", "word")
    <3>1. Reads(data, n, first, Point("word", "word"))
      BY <2>1, <2>7, <1>c DEF Reads
    <3> QED
      BY <3>1, <2>4, <2>7
  <2>8. CASE Char \in {"0", "-"} /\ ~(Char = "-" /\ Follows(">")) /\ Starts("int", "number")
    <3>1. Reads(data, n, first, Point("number", "int"))
      BY <2>1, <2>8, <1>c DEF Reads
    <3> QED
      BY <3>1, <2>4, <2>8
  <2>9. CASE Char = "." /\ Starts("float", "number")
    <3>1. Reads(data, n, first, Point("number", "float"))
      BY <2>1, <2>9, <1>c DEF Reads
    <3> QED
      BY <3>1, <2>4, <2>9
  <2>10. CASE Char = Quote /\ Starts("string", "string")
    <3>1. Reads(data, n, first, Point("string", "string"))
      BY <2>1, <2>10, <1>c DEF Reads
    <3> QED
      BY <3>1, <2>4, <2>10
  <2> QED
    BY <2>2, <2>3, <2>5, <2>6, <2>7, <2>8, <2>9, <2>10
\* Within a token.
<1>w. ASSUME pc \in {"arrow", "word", "number", "string", "escape"}, start' = start
      PROVE  ScannedTo(data, from, n, now) /\ start'.position = from
  BY <1>w DEF ScanInv, now
<1>4. CASE EndArrow
  <2>1. pc = "arrow" /\ start' = start /\ type' = type /\ pc' = "return" /\ position' = n + 1
    BY <1>4, <1>r DEF EndArrow, skipVars
  <2>2. Reads(data, n, now, Point(pc', type'))
    BY <2>1, <1>p DEF Reads
  <2> QED
    BY <2>1, <2>2, <1>w, <1>k
<1>5. CASE ReadWord
  <2>1. pc = "word" /\ start' = start /\ type' = type
    BY <1>5 DEF ReadWord, skipVars
  <2>2. CASE Char \in Letters \cup {"0"} /\ Read("word")
    <3>1. pc' = "word" /\ position' = n + 1 /\ Point(pc', type') = now
      BY <2>1, <2>2, <1>r DEF now
    <3>2. Reads(data, n, now, now)
      BY <2>1, <2>2, <1>c, <1>p DEF Reads
    <3> QED
      BY <3>1, <3>2, <2>1, <1>w, <1>k
  <2>3. CASE Char \notin Letters \cup {"0"} /\ Stay("return")
    <3>1. pc' = "return" /\ position' = n
      BY <2>3, <1>s
    <3>2. Ends(data, from, n, now, type', position')
      BY <3>1, <2>1, <2>3, <1>c, <1>p DEF Ends
    <3> QED
      BY <3>1, <3>2, <2>1, <1>w, <1>e
  <2> QED
    BY <1>5, <2>2, <2>3 DEF ReadWord
<1>6. CASE ReadNumber
  <2>1. pc = "number" /\ start' = start
    BY <1>6 DEF ReadNumber, scanVars
  <2>2. CASE Char = "0" /\ Read("number") /\ UNCHANGED type
    <3>1. pc' = "number" /\ position' = n + 1 /\ Point(pc', type') = now
      BY <2>1, <2>2, <1>r DEF now
    <3>2. Reads(data, n, now, now)
      BY <2>1, <2>2, <1>c, <1>p DEF Reads
    <3> QED
      BY <3>1, <3>2, <2>1, <1>w, <1>k
  <2>3. CASE Char = "." /\ Read("number") /\ type' = "float"
    <3>1. pc' = "number" /\ position' = n + 1
      BY <2>3, <1>r
    <3>2. Reads(data, n, now, Point(pc', type'))
      BY <3>1, <2>1, <2>3, <1>c, <1>p DEF Reads
    <3> QED
      BY <3>1, <3>2, <2>1, <1>w, <1>k
  <2>4. CASE Char \notin {"0", "."} /\ Stay("return") /\ UNCHANGED type
    <3>1. pc' = "return" /\ position' = n
      BY <2>4, <1>s
    <3>2. Ends(data, from, n, now, type', position')
      BY <3>1, <2>1, <2>4, <1>c, <1>p DEF Ends
    <3> QED
      BY <3>1, <3>2, <2>1, <1>w, <1>e
  <2> QED
    BY <1>6, <2>2, <2>3, <2>4 DEF ReadNumber
\* A string that is not closed on its line.
<1>g. ASSUME pc \in {"string", "escape"}, start' = start, Char \in {"end", "\n"}, GiveUpString
      PROVE  ScanInv'
  <2>1. pc' = "return" /\ position' = from /\ type' = "unknown"
    BY <1>g DEF GiveUpString, Go
  <2>2. Ends(data, from, n, now, type', position')
    BY <2>1, <1>g, <1>c, <1>p DEF Ends
  <2> QED
    BY <2>1, <2>2, <1>g, <1>w, <1>e
<1>7. CASE ReadString
  <2>1. pc = "string" /\ start' = start
    BY <1>7 DEF ReadString, scanVars
  <2>2. \/ Char = Quote /\ Read("return") /\ UNCHANGED type
        \/ Char = "\\" /\ Read("escape") /\ UNCHANGED type
        \/ Char \in {"end", "\n"} /\ GiveUpString
        \/ Char \notin {Quote, "\\", "end", "\n"} /\ Read("string") /\ UNCHANGED type
    BY <1>7, Zenon DEF ReadString, Quote
  <2>3. CASE Char = Quote /\ Read("return") /\ UNCHANGED type
    <3>1. pc' = "return" /\ position' = n + 1
      BY <2>3, <1>r
    <3>2. Reads(data, n, now, Point(pc', type'))
      BY <3>1, <2>1, <2>3, <1>c, <1>p DEF Reads
    <3> QED
      BY <3>1, <3>2, <2>1, <1>w, <1>k
  <2>4. CASE Char = "\\" /\ Read("escape") /\ UNCHANGED type
    <3>1. pc' = "escape" /\ position' = n + 1
      BY <2>4, <1>r
    <3>2. Reads(data, n, now, Point(pc', type'))
      BY <3>1, <2>1, <2>4, <1>c, <1>p DEF Reads
    <3> QED
      BY <3>1, <3>2, <2>1, <1>w, <1>k
  <2>5. CASE Char \notin {Quote, "\\", "end", "\n"} /\ Read("string") /\ UNCHANGED type
    <3>1. pc' = "string" /\ position' = n + 1 /\ Point(pc', type') = now
      BY <2>1, <2>5, <1>r DEF now
    <3>2. Reads(data, n, now, now)
      BY <2>1, <2>5, <1>c, <1>p DEF Reads
    <3> QED
      BY <3>1, <3>2, <2>1, <1>w, <1>k
  <2> QED
    BY <2>1, <2>2, <2>3, <2>4, <2>5, <1>g
<1>8. CASE ReadEscape
  <2>1. pc = "escape" /\ start' = start
    BY <1>8 DEF ReadEscape, scanVars
  <2>2. \/ Char \in {"n", "\\", Quote} /\ Read("string") /\ UNCHANGED type
        \/ Char \in {"end", "\n"} /\ GiveUpString
        \/ AdvanceCharacter /\ Go("aborted")
        \/ /\ Char \notin {"n", "\\", Quote, "end", "\n"}
           /\ AdvanceCharacter /\ Go("return") /\ type' = "unknown"
    BY <1>8, Zenon DEF ReadEscape, Quote
  <2>3. CASE Char \in {"n", "\\", Quote} /\ Read("string") /\ UNCHANGED type
    <3>1. pc' = "string" /\ position' = n + 1
      BY <2>3, <1>r
    <3>2. Reads(data, n, now, Point(pc', type'))
      BY <3>1, <2>1, <2>3, <1>c, <1>p DEF Reads
    <3> QED
      BY <3>1, <3>2, <2>1, <1>w, <1>k
  <2>4. CASE AdvanceCharacter /\ Go("aborted")
    BY <2>4, <1>n DEF Go
  <2>5. CASE /\ Char \notin {"n", "\\", Quote, "end", "\n"}
             /\ AdvanceCharacter /\ Go("return") /\ type' = "unknown"
    <3>1. pc' = "return" /\ position' = n + 1
      BY <2>5 DEF AdvanceCharacter, Go
    <3>2. Ends(data, from, n, now, type', position')
      BY <3>1, <2>1, <2>5, <1>c, <1>p DEF Ends
    <3> QED
      BY <3>1, <3>2, <2>1, <1>w, <1>e
  <2> QED
    BY <2>1, <2>2, <2>3, <2>4, <2>5, <1>g
<1>9. CASE UNCHANGED tokenizerVars
  BY <1>9 DEF tokenizerVars, place, ScanInv
<1> QED
  BY <1>1, <1>2, <1>3, <1>4, <1>5, <1>6, <1>7, <1>8, <1>9 DEF TokenizerNext, Step

-----------------------------------------------------------------------------
\* The token that a call finds at place p of the script, layout skipped.
TokenFrom(text, p, t) ==
    /\ TokenAt(text, p, t.from) /\ IsToken(text, t.from, t.type, t.to)
    /\ Real(text, t.from, t.line, t.column)
    /\ t = [type |-> t.type, line |-> t.line, column |-> t.column, from |-> t.from, to |-> t.to]

\* The calls that return a token.
TokenCalls == {"NextToken", "PeekNextToken", "PeekHere"}

Scanning == pc \in {"arrow", "word", "number", "string", "escape", "return"}
InToken == Scanning \/ pc = "token"

\* PeekNextToken(false) starts at its place; what is ahead was found at the place where the
\* next call of NextToken starts.
AheadInv ==
    /\ InToken \/ pc = "whitespace" => call \in TokenCalls
    /\ call = "PeekHere" =>
         /\ pc # "whitespace"
         /\ pc = "token" => backup.position = position
         /\ Scanning => backup.position = start.position
    /\ ahead # NoToken =>
         /\ pc = "idle" \/ call = "NextToken"
         /\ ahead.type = "unknown"
              \/ TokenFrom(data, IF pc = "idle" THEN position ELSE backup.position, ahead)

\* Before the first call there is nothing ahead.
LEMMA AheadInitially == TokenizerInit => AheadInv
BY DEF TokenizerInit, AheadInv, InToken, Scanning

\* Layout is skipped up to one place.
LEMMA TokenPlaceIsDetermined ==
    ASSUME NEW text, Len(text) \in Nat, NEW p, NEW n, NEW m, n <= Len(text), m <= Len(text),
           TokenAt(text, p, n), TokenAt(text, p, m)
    PROVE  n = m
<1>1. p \in Nat /\ n \in Nat /\ m \in Nat /\ p <= n /\ p <= m
  BY DEF TokenAt, LayoutTo
<1>2. ASSUME n < m PROVE FALSE
  <2>1. n + 1 \in (p + 1) .. m /\ n < Len(text)
    BY <1>1, <1>2
  <2> QED
    BY <2>1 DEF TokenAt, LayoutTo
<1>3. ASSUME m < n PROVE FALSE
  <2>1. m + 1 \in (p + 1) .. n /\ m < Len(text)
    BY <1>1, <1>3
  <2> QED
    BY <2>1 DEF TokenAt, LayoutTo
<1> QED
  BY <1>1, <1>2, <1>3

\* From one place, one token is found.
LEMMA OneTokenFrom ==
    ASSUME NEW text \in Seq(STRING), NEW p, NEW t, NEW u,
           TokenFrom(text, p, t), TokenFrom(text, p, u)
    PROVE  t = u
<1>1. t.from = u.from
  BY TokenPlaceIsDetermined DEF TokenFrom, Real
<1>2. t.type = u.type /\ t.to = u.to
  BY <1>1, TokenIsDetermined DEF TokenFrom
<1>3. t.line = u.line /\ t.column = u.column
  BY <1>1 DEF TokenFrom, Real
<1> QED
  BY <1>1, <1>2, <1>3, Zenon DEF TokenFrom

\* The token to be returned is the one found from the place of the call, but an unknown
\* one that PeekNextToken(false) finds where there is layout.
LEMMA ReturnedTokenIsThere ==
    ASSUME PlaceInv, LayoutInv, ScanInv, AheadInv, pc = "return",
           call \in {"NextToken", "PeekNextToken", "PeekHere"}
    PROVE  Token.type = "unknown" \/ TokenFrom(data, backup.position, Token)
<1> SUFFICES ASSUME type # "unknown" PROVE TokenFrom(data, backup.position, Token)
  BY DEF Token
<1>1. /\ Token.type = type /\ Token.line = start.line /\ Token.column = start.column
      /\ Token.from = start.position /\ Token.to = position
  BY DEF Token
<1>2. IsToken(data, start.position, type, position)
  BY DEF ScanInv
<1>3. Real(data, start.position, start.line, start.column)
  BY DEF PlaceInv
<1>4. TokenAt(data, backup.position, start.position)
  <2>1. CASE call = "PeekHere"
    <3>1. backup.position = start.position /\ start.position \in Nat
      BY <2>1, <1>3 DEF AheadInv, Real, Scanning
    <3>2. start.position < Len(data) =>
            ~LayoutAt(data, start.position, start.position + 1)
      <4> SUFFICES ASSUME start.position < Len(data),
                          LayoutAt(data, start.position, start.position + 1)
                   PROVE  FALSE
        OBVIOUS
      <4>1. data[start.position + 1] \notin Blanks \cup {"\n", "#"}
        BY <1>2, TokensStartNoLayout
      <4>2. InComment(data, start.position, start.position + 1)
        BY <4>1 DEF LayoutAt
      <4> QED
        BY <4>1, <4>2, <3>1 DEF InComment
    <3> QED
      BY <3>1, <3>2 DEF TokenAt, LayoutTo
  <2>2. CASE call # "PeekHere"
    BY <2>2 DEF LayoutInv, Ignoring, TokenCalls
  <2> QED
    BY <2>1, <2>2
<1>5. Token = [type |-> Token.type, line |-> Token.line, column |-> Token.column,
               from |-> Token.from, to |-> Token.to]
  BY <1>1 DEF Token
<1> QED
  BY <1>1, <1>2, <1>3, <1>4, <1>5 DEF TokenFrom

\* Every step keeps what is ahead where it was found.
LEMMA AheadStep ==
    PlaceInv /\ LayoutInv /\ ScanInv /\ AheadInv /\ [TokenizerNext]_tokenizerVars => AheadInv'
<1> SUFFICES ASSUME PlaceInv, LayoutInv, ScanInv, AheadInv, [TokenizerNext]_tokenizerVars
             PROVE  AheadInv'
  OBVIOUS
<1>0. data' = data
  BY DEF tokenizerVars, TokenizerNext, Call, Step, SkipWhitespace, SkipBlanks, SkipLine,
         StartToken, EndArrow, ReadWord, ReadNumber, ReadString, ReadEscape, Return,
         skipVars, scanVars
\* A step of NextToken, or one with nothing ahead.
<1>a. ASSUME UNCHANGED <<ahead, call, backup>>, pc # "idle",
             pc' # "idle" \/ call # "NextToken", ahead' # NoToken
      PROVE  /\ pc' = "idle" \/ call' = "NextToken"
             /\ ahead'.type = "unknown"
                  \/ TokenFrom(data', IF pc' = "idle" THEN position' ELSE backup'.position, ahead')
  BY <1>a, <1>0 DEF AheadInv
<1>1. CASE Call
  <2>1. PICK c \in Calls :
          /\ call' = c
          /\ c = "PeekHere" => pc' = "token"
          /\ c \in {"NextToken", "PeekNextToken"} => pc' = "whitespace"
          /\ c \notin TokenCalls => pc' \in {"blanks", "line"}
          /\ ahead' = IF c = "NextToken" THEN ahead ELSE NoToken
    BY <1>1 DEF Call, Calls, Go, TokenCalls
  <2>2. pc = "idle" /\ backup'.position = position /\ position' = position
    BY <1>1 DEF Call, here, place
  <2>3. ASSUME ahead' # NoToken
        PROVE  call' = "NextToken" /\ pc' = "whitespace" /\ ahead' = ahead
    BY <2>1, <2>3
  <2>4. ASSUME ahead' # NoToken
        PROVE  ahead'.type = "unknown" \/ TokenFrom(data', backup'.position, ahead')
    BY <2>2, <2>3, <2>4, <1>0 DEF AheadInv
  <2>5. /\ InToken' \/ pc' = "whitespace" => call' \in TokenCalls
        /\ call' = "PeekHere" => pc' # "whitespace" /\ ~Scanning'
    BY <2>1 DEF InToken, Scanning, TokenCalls
  <2> QED
    BY <2>2, <2>3, <2>4, <2>5 DEF AheadInv
<1>2. CASE SkipWhitespace
  <2>1. pc = "whitespace" /\ pc' \in {"whitespace", "line", "token"}
        /\ UNCHANGED <<ahead, call, backup>>
    BY <1>2 DEF SkipWhitespace, skipVars, Read, Stay, Go
  <2>2. call' \in TokenCalls /\ call' # "PeekHere"
    BY <2>1 DEF AheadInv
  <2> QED
    BY <2>1, <2>2, <1>a DEF AheadInv
<1>3. CASE SkipBlanks
  <2>1. pc = "blanks" /\ pc' \in {"blanks", "line", "idle"}
        /\ UNCHANGED <<ahead, call, backup>>
    BY <1>3 DEF SkipBlanks, skipVars, Read, Stay, Go
  <2>2. call # "NextToken"
    BY <2>1 DEF LayoutInv, Ignoring
  <2> QED
    BY <2>1, <2>2, <1>a DEF AheadInv, InToken, Scanning
<1>4. CASE SkipLine
  <2>1. pc = "line" /\ pc' \in {"line", caller} /\ UNCHANGED <<ahead, call, backup>>
    BY <1>4 DEF SkipLine, skipVars, Read, Stay, Go
  <2>2. /\ call \in {"NextToken", "PeekNextToken"} => caller = "whitespace"
        /\ call \notin {"NextToken", "PeekNextToken"} => caller = "idle"
    BY DEF caller
  <2> QED
    BY <2>1, <2>2, <1>a DEF AheadInv, InToken, Scanning, TokenCalls
<1>5. CASE StartToken
  <2>1. pc = "token" /\ pc' \in {"return", "arrow", "word", "number", "string"}
        /\ UNCHANGED <<ahead, call, backup>> /\ start'.position = position
    BY <1>5 DEF StartToken, Starts, Read, Stay, Go, here
  <2>2. call' \in TokenCalls /\ (call' = "PeekHere" => backup'.position = start'.position)
    BY <2>1 DEF AheadInv, InToken
  <2> QED
    BY <2>1, <2>2, <1>a DEF AheadInv
<1>6. CASE EndArrow \/ ReadWord \/ ReadNumber \/ ReadString \/ ReadEscape
  <2>1. UNCHANGED <<ahead, call, backup, start>>
    BY <1>6 DEF EndArrow, ReadWord, ReadNumber, ReadString, ReadEscape, skipVars, scanVars
  <2>2. pc \in {"arrow", "word", "number", "string", "escape"}
    BY <1>6 DEF EndArrow, ReadWord, ReadNumber, ReadString, ReadEscape
  <2>3. pc' \in {"word", "number", "string", "escape", "return", "aborted"}
    BY <1>6 DEF EndArrow, ReadWord, ReadNumber, ReadString, ReadEscape, GiveUpString,
                Read, Stay, Go
  <2>4. call' \in TokenCalls /\ (call' = "PeekHere" => backup'.position = start'.position)
    BY <2>1, <2>2 DEF AheadInv, InToken, Scanning
  <2> QED
    BY <2>1, <2>2, <2>3, <2>4, <1>a DEF AheadInv
<1>7. CASE Return
  <2>1. pc = "return" /\ pc' = "idle" /\ call' = call
    BY <1>7 DEF Return, Go
  <2>2. ASSUME ahead' # NoToken
        PROVE  ahead' = Token /\ position' = backup.position /\ call \in Peeks
    BY <1>7, <2>2 DEF Return
  <2>3. ASSUME ahead' # NoToken
        PROVE  ahead'.type = "unknown" \/ TokenFrom(data', position', ahead')
    BY <2>1, <2>2, <2>3, <1>0, ReturnedTokenIsThere DEF Peeks, TokenCalls
  <2> QED
    BY <2>1, <2>3 DEF AheadInv, InToken, Scanning
<1>8. CASE UNCHANGED tokenizerVars
  BY <1>8, Zenon DEF tokenizerVars, place, AheadInv, InToken, Scanning
<1> QED
  BY <1>1, <1>2, <1>3, <1>4, <1>5, <1>6, <1>7, <1>8 DEF TokenizerNext, Step

\* The token that a peek has shown is the one that the next call of NextToken returns, with
\* its type, its extent and its place, whatever else the tokenizer did before.
THEOREM PeekedTokenComesNextHolds == TokenizerSpec => PeekedTokenComesNext
<1> DEFINE Same == call = "NextToken" /\ pc = "return" /\ ahead # NoToken
                     => token' = ahead \/ ahead.type = "unknown"
<1>1. PlaceInv /\ LayoutInv /\ ScanInv /\ AheadInv /\ [TokenizerNext]_tokenizerVars
        => [Same]_tokenizerVars
  <2> SUFFICES ASSUME PlaceInv, LayoutInv, ScanInv, AheadInv, TokenizerNext,
                      call = "NextToken", pc = "return", ahead # NoToken,
                      ahead.type # "unknown"
               PROVE  token' = ahead
    OBVIOUS
  <2>1. TokenFrom(data, backup.position, ahead)
    BY DEF AheadInv
  <2>2. token' = Token
    BY DEF TokenizerNext, Call, Step, SkipWhitespace, SkipBlanks, SkipLine, StartToken,
           EndArrow, ReadWord, ReadNumber, ReadString, ReadEscape, Return
  <2>3. Token.type = "unknown" \/ TokenFrom(data, backup.position, Token)
    BY ReturnedTokenIsThere DEF TokenCalls
  <2>4. IsToken(data, start.position, Token.type, position)
    BY DEF ScanInv, Token
  <2>5. TokenAt(data, backup.position, start.position)
    BY DEF LayoutInv, Ignoring
  <2>6. ahead.from = start.position
    BY <2>1, <2>5, TokenPlaceIsDetermined DEF TokenFrom, PlaceInv, Real
  <2>7. Token.type = ahead.type
    BY <2>1, <2>4, <2>6, TokenIsDetermined DEF TokenFrom
  <2>8. data \in Seq(STRING)
    BY DEF PlaceInv
  <2>9. TokenFrom(data, backup.position, Token)
    BY <2>3, <2>7
  <2> QED
    BY <2>1, <2>2, <2>8, <2>9, OneTokenFrom
<1>2. TokenizerSpec => [](PlaceInv /\ LayoutInv /\ ScanInv /\ AheadInv)
  <2>1. TokenizerInit => PlaceInv /\ LayoutInv /\ ScanInv /\ AheadInv
    BY PlaceInitially, LayoutInitially, ScanInitially, AheadInitially
  <2>2. PlaceInv /\ LayoutInv /\ ScanInv /\ AheadInv /\ [TokenizerNext]_tokenizerVars
          => PlaceInv' /\ LayoutInv' /\ ScanInv' /\ AheadInv'
    BY PlaceStep, LayoutStep, ScanStep, AheadStep
  <2> QED
    BY <2>1, <2>2, PTL DEF TokenizerSpec
<1> QED
  BY <1>1, <1>2, PTL DEF TokenizerSpec, PeekedTokenComesNext

-----------------------------------------------------------------------------
(***************************************************************************)
(* Calls are short.  Of CallsReturn this is the part that is about the     *)
(* tokenizer and not about the scheduler: a number that every step of a    *)
(* call makes smaller.                                                     *)
(***************************************************************************)
Rest == Len(data) - position

\* White space may be followed by a comment on each line, and a comment by white space; the
\* characters of a token are read once, and a string given up is not read again.
StepsLeft ==
    CASE pc \in {"idle", "aborted"} -> 0
      [] pc = "return" -> 1
      [] pc = "arrow" -> 2
      [] pc \in {"word", "number", "string", "escape"} -> Rest + 2
      [] pc = "token" -> Rest + 3
      [] pc = "line" -> 2 * Rest + 5
      [] pc \in {"whitespace", "blanks"} -> IF Rest = 0 THEN 4 ELSE 2 * Rest + 6

Points == {"idle", "aborted", "return", "arrow", "word", "number", "string", "escape",
           "token", "line", "whitespace", "blanks"}

\* A character that is read was there, and leaves one less; otherwise the rest is what it was.
LEMMA RestShrinks ==
    ASSUME PlaceInv
    PROVE  /\ Rest \in Nat
           /\ More <=> Rest > 0
           /\ AdvanceCharacter /\ UNCHANGED data => Rest' = Rest - 1
           /\ UNCHANGED <<place, data>> => Rest' = Rest
<1>1. position \in 0 .. Len(data) /\ Len(data) \in Nat
  BY DEF PlaceInv, Real
<1>2. Rest \in Nat /\ (More <=> Rest > 0)
  BY <1>1 DEF Rest, More
<1>3. AdvanceCharacter /\ UNCHANGED data => Rest' = Rest - 1
  BY <1>1 DEF Rest, AdvanceCharacter
<1>4. UNCHANGED <<place, data>> => Rest' = Rest
  BY DEF Rest, place
<1> QED
  BY <1>2, <1>3, <1>4

\* The number, and that it is one, where the tokenizer stands.
LEMMA StepsLeftAre ==
    ASSUME Rest \in Nat, pc \in Points
    PROVE  /\ StepsLeft \in 0 .. (2 * Rest + 6)
           /\ pc \in {"idle", "aborted"} => StepsLeft = 0
           /\ pc = "return" => StepsLeft = 1
           /\ pc = "arrow" => StepsLeft = 2
           /\ pc \in {"word", "number", "string", "escape"} => StepsLeft = Rest + 2
           /\ pc = "token" => StepsLeft = Rest + 3
           /\ pc = "line" => StepsLeft = 2 * Rest + 5
           /\ pc \in {"whitespace", "blanks"} =>
                StepsLeft = IF Rest = 0 THEN 4 ELSE 2 * Rest + 6
<1>1. CASE pc \in {"idle", "aborted"}
  BY <1>1 DEF StepsLeft
<1>2. CASE pc = "return"
  BY <1>2 DEF StepsLeft
<1>3. CASE pc = "arrow"
  BY <1>3 DEF StepsLeft
<1>4. CASE pc \in {"word", "number", "string", "escape"}
  BY <1>4 DEF StepsLeft
<1>5. CASE pc = "token"
  BY <1>5 DEF StepsLeft
<1>6. CASE pc = "line"
  BY <1>6 DEF StepsLeft
<1>7. CASE pc \in {"whitespace", "blanks"}
  BY <1>7 DEF StepsLeft
<1> QED
  BY <1>1, <1>2, <1>3, <1>4, <1>5, <1>6, <1>7 DEF Points

\* The tokenizer stands at one of its points.
LEMMA PointsStep == pc \in Points /\ [TokenizerNext]_tokenizerVars => pc' \in Points
<1> SUFFICES ASSUME pc \in Points, [TokenizerNext]_tokenizerVars
             PROVE  pc' \in Points
  OBVIOUS
<1>1. CASE Call
  BY <1>1 DEF Call, Calls, Go, Points
<1>2. CASE SkipWhitespace \/ SkipBlanks \/ SkipLine
  BY <1>2 DEF SkipWhitespace, SkipBlanks, SkipLine, Read, Stay, Go, caller, Points
<1>3. CASE StartToken
  BY <1>3 DEF StartToken, Starts, Read, Stay, Go, Points
<1>4. CASE EndArrow \/ ReadWord \/ ReadNumber \/ ReadString \/ ReadEscape
  BY <1>4
  DEF EndArrow, ReadWord, ReadNumber, ReadString, ReadEscape, GiveUpString, Read, Stay, Go,
      Points
<1>5. CASE Return
  BY <1>5 DEF Return, Go, Points
<1>6. CASE UNCHANGED tokenizerVars
  BY <1>6 DEF tokenizerVars
<1> QED
  BY <1>1, <1>2, <1>3, <1>4, <1>5, <1>6 DEF TokenizerNext, Step

\* A step from point p to point q with so much of the script left makes the number smaller.
LEMMA StepsShorten ==
    PlaceInv /\ PlaceInv' /\ pc \in Points /\ pc' \in Points /\ Step => StepsLeft' < StepsLeft
<1> SUFFICES ASSUME PlaceInv, PlaceInv', pc \in Points, pc' \in Points, Step
             PROVE  StepsLeft' < StepsLeft
  OBVIOUS
<1> DEFINE r == Rest
           s == Rest'
<1>1. r \in Nat /\ s \in Nat /\ (More <=> r > 0)
  <2>1. position' \in 0 .. Len(data') /\ Len(data') \in Nat
    BY DEF PlaceInv, Real
  <2>2. Rest' \in Nat
    BY <2>1 DEF Rest
  <2> QED
    BY <2>2, RestShrinks
<1>2. UNCHANGED data
  BY DEF Step, SkipWhitespace, SkipBlanks, SkipLine, StartToken, EndArrow, ReadWord,
         ReadNumber, ReadString, ReadEscape, Return, skipVars, scanVars
<1>3. AdvanceCharacter => s = r - 1 /\ r > 0
  BY <1>1, <1>2, RestShrinks
<1>4. UNCHANGED place => s = r
  BY <1>2, RestShrinks
<1>5. \A to : (Read(to) => pc' = to /\ s = r - 1 /\ r > 0) /\ (Stay(to) => pc' = to /\ s = r)
  BY <1>3, <1>4 DEF Read, Stay, Go
<1>6. StepsLeft' = CASE pc' \in {"idle", "aborted"} -> 0
           [] pc' = "return" -> 1
           [] pc' = "arrow" -> 2
           [] pc' \in {"word", "number", "string", "escape"} -> s + 2
           [] pc' = "token" -> s + 3
           [] pc' = "line" -> 2 * s + 5
           [] pc' \in {"whitespace", "blanks"} -> IF s = 0 THEN 4 ELSE 2 * s + 6
  BY DEF StepsLeft
<1>7. CASE SkipWhitespace
  <2>1. StepsLeft = IF r = 0 THEN 4 ELSE 2 * r + 6
    BY <1>1, <1>7, StepsLeftAre DEF SkipWhitespace
  <2>2. \/ pc' = "whitespace" /\ s = r - 1 /\ r > 0
        \/ pc' = "line" /\ s = r /\ r > 0
        \/ pc' = "token" /\ s = r
    BY <1>1, <1>5, <1>7, OnlyCharactersAreRead DEF SkipWhitespace
  <2> QED
    BY <1>1, <1>6, <2>1, <2>2
<1>8. CASE SkipBlanks
  <2>1. StepsLeft = IF r = 0 THEN 4 ELSE 2 * r + 6
    BY <1>1, <1>8, StepsLeftAre DEF SkipBlanks
  <2>2. \/ pc' = "blanks" /\ s = r - 1 /\ r > 0
        \/ pc' = "line" /\ s = r /\ r > 0
        \/ pc' = "idle"
    BY <1>1, <1>5, <1>8, OnlyCharactersAreRead DEF SkipBlanks
  <2> QED
    BY <1>1, <1>6, <2>1, <2>2
<1>9. CASE SkipLine
  <2>1. StepsLeft = 2 * r + 5
    BY <1>1, <1>9, StepsLeftAre DEF SkipLine
  <2>2. \/ pc' \in {"whitespace", "idle", "line"} /\ s = r - 1 /\ r > 0
        \/ pc' \in {"whitespace", "idle"} /\ s = r /\ r = 0
    BY <1>1, <1>5, <1>9 DEF SkipLine, caller
  <2> QED
    BY <1>1, <1>6, <2>1, <2>2
<1>10. CASE StartToken
  <2>1. StepsLeft = r + 3
    BY <1>1, <1>10, StepsLeftAre DEF StartToken
  <2>2. \/ pc' \in {"return", "arrow"}
        \/ pc' \in {"word", "number", "string"} /\ s = r - 1 /\ r > 0
    BY <1>5, <1>10 DEF StartToken, Starts
  <2> QED
    BY <1>1, <1>6, <2>1, <2>2
<1>11. CASE EndArrow
  <2>1. StepsLeft = 2 /\ pc' = "return"
    BY <1>1, <1>5, <1>11, StepsLeftAre DEF EndArrow
  <2> QED
    BY <1>6, <2>1
<1>12. CASE ReadWord \/ ReadNumber \/ ReadString \/ ReadEscape
  <2>1. StepsLeft = r + 2
    BY <1>1, <1>12, StepsLeftAre DEF ReadWord, ReadNumber, ReadString, ReadEscape
  <2>2. \/ pc' \in {"return", "aborted"}
        \/ pc' \in {"word", "number", "string", "escape"} /\ s = r - 1 /\ r > 0
    BY <1>5, <1>12
    DEF ReadWord, ReadNumber, ReadString, ReadEscape, GiveUpString, Go
  <2> QED
    BY <1>1, <1>6, <2>1, <2>2
<1>13. CASE Return
  <2>1. StepsLeft = 1 /\ pc' = "idle"
    BY <1>1, <1>13, StepsLeftAre DEF Return, Go
  <2> QED
    BY <1>6, <2>1
<1> QED
  BY <1>7, <1>8, <1>9, <1>10, <1>11, <1>12, <1>13 DEF Step

\* A call is never stuck in a loop: it has at most twice as many steps left as what is left of
\* the script has characters, and six, and every step it makes leaves fewer, at the end of the script, in a
\* comment and in an open string too.
THEOREM CallsGetShorter ==
    TokenizerSpec =>
        /\ [](StepsLeft \in 0 .. (2 * Rest + 6))
        /\ [][pc # "idle" => StepsLeft' < StepsLeft]_tokenizerVars
<1>1. TokenizerSpec => [](PlaceInv /\ pc \in Points)
  <2>1. TokenizerInit => pc \in Points
    BY DEF TokenizerInit, Points
  <2>2. (PlaceInv /\ pc \in Points) /\ [TokenizerNext]_tokenizerVars
          => (PlaceInv /\ pc \in Points)'
    BY PlaceStep, PointsStep
  <2> QED
    BY <2>1, <2>2, PlaceInitially, PTL DEF TokenizerSpec
<1>2. PlaceInv /\ pc \in Points => StepsLeft \in 0 .. (2 * Rest + 6)
  BY RestShrinks, StepsLeftAre
<1>3. (PlaceInv /\ pc \in Points) /\ (PlaceInv /\ pc \in Points)' /\ [TokenizerNext]_tokenizerVars
        => [pc # "idle" => StepsLeft' < StepsLeft]_tokenizerVars
  BY StepsShorten DEF TokenizerNext, Call
<1> QED
  BY <1>1, <1>2, <1>3, PTL DEF TokenizerSpec

=============================================================================
