----------------------- MODULE GlslangMessagesProofs -------------------------
(***************************************************************************)
(* Proofs about FixLinesInGlslangOutput, for every output of glslang.      *)
(***************************************************************************)
EXTENDS GlslangMessages, Recursion, SequenceTheorems

-----------------------------------------------------------------------------
\* Concatenation, so that it can be left unexpanded.
Joined(a, b) == a \o b

\* A set whose members, joined, are members again.
Pieces(V) ==
    /\ <<>> \in V
    /\ \A v \in V : \A w \in V : Joined(v, w) \in V
    /\ \A w \in V : Joined(<<>>, w) = w

\* t is s without its last element.
AllButLast(t, s) ==
    /\ Len(t) \in Nat /\ Len(s) = Len(t) + 1
    /\ \A i \in 1 .. Len(t) : t[i] = s[i]

\* FlattenSeq goes through its sequences like a loop that appends them.
LEMMA FlattenIterates ==
    ASSUME NEW V, NEW u \in Seq(V), Len(u) > 0,
           NEW step \in [Nat \X V -> V],
           \A i \in 1 .. Len(u) : \A v \in V : step[<<i, v>>] = Joined(v, u[i])
    PROVE  \E g : /\ Iterates(g, Len(u), u[1], step)
                  /\ \A i \in 1 .. Len(u) : g[i] \in V
                  /\ FlattenSeq(u) = g[Len(u)]
<1> DEFINE n == Len(u)
           Body(f) == [i \in 1 .. n |-> IF i = 1 THEN u[i] ELSE Joined(f[i - 1], u[i])]
           made == CHOOSE f : f = Body(f)
<1>1. n \in Nat /\ n > 0 /\ u[1] \in V
  OBVIOUS
<1>2. PICK g \in [1 .. n -> V] : Iterates(g, n, u[1], step)
  <2> HIDE DEF n
  <2> QED
    BY <1>1, IterationExists, Zenon
<1>3. g = Body(g)
  <2>1. ASSUME NEW i \in 1 .. n
        PROVE  g[i] = IF i = 1 THEN u[i] ELSE Joined(g[i - 1], u[i])
    <3>1. g[i] = IF i = 1 THEN u[1] ELSE step[<<i, g[i - 1]>>]
      BY <1>2 DEF Iterates
    <3>2. i # 1 => g[i - 1] \in V
      BY <1>2
    <3> QED
      BY <3>1, <3>2
  <2> QED
    BY <2>1
<1>4. made = Body(made)
  <2> HIDE DEF Body
  <2> QED
    BY <1>3, Zenon
<1>5. FlattenSeq(u) = made[n]
  <2>1. Len(u) # 0
    OBVIOUS
  <2> QED
    BY <2>1, Zenon DEF FlattenSeq, Joined
<1> HIDE DEF made
<1>6. /\ made[1] = u[1]
      /\ \A i \in 2 .. n : made[i] = Joined(made[i - 1], u[i])
  <2>1. \A i \in 1 .. n : made[i] = IF i = 1 THEN u[i] ELSE Joined(made[i - 1], u[i])
    BY <1>4
  <2> QED
    BY <1>1, <2>1
<1>7. \A i \in 2 .. n : made[i - 1] \in V => made[i] = step[<<i, made[i - 1]>>]
  BY <1>6
<1>8. (\A i \in 1 .. n : made[i] \in V) /\ Iterates(made, n, u[1], step)
  <2>1. n > 0 => made[1] = u[1]
    BY <1>6
  <2> HIDE DEF n
  <2> QED
    BY <1>1, <1>7, <2>1, IterationTyped
<1> QED
  BY <1>5, <1>8

\* One more sequence is one more piece at the end of what FlattenSeq makes of them:
\* first for any set of pieces, ...
LEMMA FlattenOneMorePiece ==
    ASSUME NEW V, Pieces(V), NEW s \in Seq(V), NEW t \in Seq(V), AllButLast(t, s)
    PROVE  /\ FlattenSeq(t) \in V /\ FlattenSeq(s) \in V
           /\ FlattenSeq(s) = Joined(FlattenSeq(t), s[Len(s)])
<1> USE DEF Pieces, AllButLast
<1> DEFINE n == Len(t)
<1>0. n \in Nat /\ Len(t) = n /\ Len(s) = n + 1 /\ \A i \in 1 .. n : t[i] = s[i]
  OBVIOUS
<1> HIDE DEF n
<1> USE <1>0
<1> DEFINE step == [p \in Nat \X V |->
                      IF p[1] \in 1 .. n + 1 THEN Joined(p[2], s[p[1]]) ELSE <<>>]
<1>1. n + 1 \in Nat /\ \A i \in 1 .. n + 1 : s[i] \in V
  OBVIOUS
<1>2. step \in [Nat \X V -> V]
  BY <1>1
<1>3. \A i \in 1 .. n + 1 : \A v \in V : step[<<i, v>>] = Joined(v, s[i])
  BY <1>1
<1> HIDE DEF step
<1>4. PICK g : /\ Iterates(g, n + 1, s[1], step)
               /\ \A i \in 1 .. n + 1 : g[i] \in V
               /\ FlattenSeq(s) = g[n + 1]
  <2>1. Len(s) > 0 /\ \A i \in 1 .. Len(s) : \A v \in V : step[<<i, v>>] = Joined(v, s[i])
    BY <1>3
  <2>2. \E g : /\ Iterates(g, Len(s), s[1], step)
               /\ \A i \in 1 .. Len(s) : g[i] \in V
               /\ FlattenSeq(s) = g[Len(s)]
    BY <1>2, <2>1, FlattenIterates
  <2> QED
    BY <2>2
<1>5. CASE n = 0
  <2>1. FlattenSeq(t) = <<>>
    <3>1. t = <<>>
      BY <1>5
    <3> QED
      BY <3>1 DEF FlattenSeq
  <2>2. FlattenSeq(s) = s[1] /\ s[1] \in V
    BY <1>1, <1>4, <1>5 DEF Iterates
  <2> QED
    BY <1>5, <2>1, <2>2
<1>6. CASE n > 0
  <2>1. 1 \in 1 .. n /\ n \in 1 .. n /\ n \in 1 .. n + 1 /\ n + 1 \in 1 .. n + 1
    BY <1>6
  <2>2. ASSUME NEW i \in 1 .. n, NEW v \in V PROVE step[<<i, v>>] = Joined(v, t[i])
    <3>1. i \in 1 .. n + 1 /\ t[i] = s[i]
      OBVIOUS
    <3>2. step[<<i, v>>] = Joined(v, s[i])
      BY <1>3, <3>1
    <3> QED
      BY <3>1, <3>2
  <2>3. PICK h : /\ Iterates(h, n, s[1], step)
                 /\ \A i \in 1 .. n : h[i] \in V
                 /\ FlattenSeq(t) = h[n]
    <3>1. Len(t) > 0 /\ t[1] = s[1]
      BY <2>1
    <3>2. \A i \in 1 .. Len(t) : \A v \in V : step[<<i, v>>] = Joined(v, t[i])
      BY <2>2
    <3>3. \E h : /\ Iterates(h, Len(t), t[1], step)
                 /\ \A i \in 1 .. Len(t) : h[i] \in V
                 /\ FlattenSeq(t) = h[Len(t)]
      BY <1>2, <3>1, <3>2, FlattenIterates
    <3> QED
      BY <3>1, <3>3
  <2>4. h[n] = g[n]
    <3>1. \A i \in 1 .. n : i <= n + 1 => h[i] = g[i]
      BY <1>1, <1>4, <2>3, IterationUnique
    <3> QED
      BY <2>1, <3>1
  <2>5. g[n + 1] = step[<<n + 1, g[n]>>]
    <3>1. n + 1 # 1 /\ (n + 1) - 1 = n
      BY <1>6
    <3> QED
      BY <1>4, <2>1, <3>1 DEF Iterates
  <2>6. g[n] \in V /\ g[n + 1] \in V
    BY <1>4, <2>1
  <2>7. step[<<n + 1, g[n]>>] = Joined(g[n], s[n + 1])
    BY <1>3, <2>1, <2>6
  <2>8. FlattenSeq(t) = g[n]
    <3>1. FlattenSeq(t) = h[n]
      BY <2>3
    <3>2. h[n] = g[n]
      BY <2>4
    <3> QED
      BY <3>1, <3>2
  <2>9. FlattenSeq(s) = Joined(g[n], s[n + 1])
    BY <1>4, <2>5, <2>7
  <2>10. FlattenSeq(s) \in V
    BY <1>4, <2>6
  <2> QED
    BY <2>6, <2>8, <2>9, <2>10
<1> QED
  BY <1>5, <1>6

\* ... then for sequences.
LEMMA FlattenOneMore ==
    ASSUME NEW T, NEW s \in Seq(Seq(T)), NEW t \in Seq(Seq(T)), AllButLast(t, s)
    PROVE  /\ FlattenSeq(t) \in Seq(T) /\ FlattenSeq(s) \in Seq(T)
           /\ FlattenSeq(s) = FlattenSeq(t) \o s[Len(s)]
<1>1. Pieces(Seq(T))
  BY DEF Pieces, Joined
<1>2. /\ FlattenSeq(t) \in Seq(T) /\ FlattenSeq(s) \in Seq(T)
      /\ FlattenSeq(s) = Joined(FlattenSeq(t), s[Len(s)])
  BY <1>1, FlattenOneMorePiece, Zenon
<1> QED
  BY <1>2, Zenon DEF Joined

-----------------------------------------------------------------------------
(***************************************************************************)
(* The places in a log.                                                    *)
(***************************************************************************)
\* KindAt, IsPlace and Fixed, of a text that is given.
KindIn(text, i) == IF i \in DOMAIN text THEN text[i].kind ELSE "newline"
IsPlaceIn(text, i) ==
    /\ KindIn(text, i - 2) = "newline" /\ KindIn(text, i - 1) = "prefix"
    /\ KindIn(text, i) = "number" /\ KindIn(text, i + 1) = "colon"
    /\ KindIn(text, i + 2) = "number"
FixedIn(text, i) ==
    IF IsPlaceIn(text, i) THEN <<Line(text[i + 2].value + LineOffset)>>
    ELSE IF IsPlaceIn(text, i - 1) \/ IsPlaceIn(text, i - 2) THEN <<>>
    ELSE <<text[i]>>
Rewritten(text, n) == FlattenSeq([i \in 1 .. n |-> FixedIn(text, i)])

\* What a rewritten text consists of.
ItemsOf(text) == Range(text) \cup {Line(text[i].value + LineOffset) : i \in DOMAIN text}

\* What stands for one item is a sequence of items.
LEMMA FixedType ==
    ASSUME NEW text, NEW i \in DOMAIN text
    PROVE  FixedIn(text, i) \in Seq(ItemsOf(text))
<1>1. text[i] \in ItemsOf(text)
  BY DEF ItemsOf, Range
<1>2. ASSUME IsPlaceIn(text, i) PROVE Line(text[i + 2].value + LineOffset) \in ItemsOf(text)
  <2>1. i + 2 \in DOMAIN text
    BY <1>2 DEF IsPlaceIn, KindIn
  <2> QED
    BY <2>1 DEF ItemsOf
<1> QED
  BY <1>1, <1>2 DEF FixedIn

\* One more item is rewritten.
LEMMA RewrittenOneMore ==
    ASSUME NEW text, text \in Seq(Range(text)), NEW n \in Nat, n < Len(text)
    PROVE  /\ Rewritten(text, n) \in Seq(ItemsOf(text))
           /\ Rewritten(text, n + 1) \in Seq(ItemsOf(text))
           /\ Rewritten(text, n + 1) = Rewritten(text, n) \o FixedIn(text, n + 1)
<1> DEFINE V == Seq(ItemsOf(text))
           t == [i \in 1 .. n |-> FixedIn(text, i)]
           s == [i \in 1 .. n + 1 |-> FixedIn(text, i)]
<1>1. DOMAIN text = 1 .. Len(text) /\ Len(text) \in Nat
  OBVIOUS
<1>2. \A i \in 1 .. n + 1 : FixedIn(text, i) \in V
  BY <1>1, FixedType
<1> HIDE DEF V
<1>3. t \in Seq(V) /\ s \in Seq(V) /\ Len(t) = n /\ Len(s) = n + 1
  <2>1. t \in [1 .. n -> V] /\ s \in [1 .. n + 1 -> V]
    BY <1>2
  <2> QED
    BY <2>1
<1>4. AllButLast(t, s)
  BY <1>3 DEF AllButLast
<1>5. s[Len(s)] = FixedIn(text, n + 1)
  BY <1>3
<1> QED
  <2> HIDE DEF t, s
  <2>1. /\ FlattenSeq(t) \in Seq(ItemsOf(text)) /\ FlattenSeq(s) \in Seq(ItemsOf(text))
        /\ FlattenSeq(s) = FlattenSeq(t) \o s[Len(s)]
    BY <1>3, <1>4, FlattenOneMore, Zenon DEF V
  <2> QED
    BY <1>5, <2>1, Zenon DEF Rewritten, t, s

\* Nothing is rewritten before the first item.
LEMMA RewrittenNothing ==
    ASSUME NEW text PROVE Rewritten(text, 0) = <<>>
<1>1. [i \in 1 .. 0 |-> FixedIn(text, i)] = <<>>
  OBVIOUS
<1>2. FlattenSeq(<<>>) = <<>>
  BY DEF FlattenSeq
<1> QED
  BY <1>1, <1>2, Zenon DEF Rewritten

\* The items behind the first n are copied, many of them.
Copied(text, n, many) ==
    /\ Rewritten(text, n + many) \in Seq(ItemsOf(text))
    /\ Rewritten(text, n + many) = Rewritten(text, n) \o SubSeq(text, n + 1, n + many)

\* One more item is copied.
LEMMA CopiedOneMore ==
    ASSUME NEW text, text \in Seq(Range(text)), NEW n \in Nat, NEW k \in Nat,
           n + k < Len(text), Copied(text, n, k),
           FixedIn(text, n + (k + 1)) = <<text[n + (k + 1)]>>
    PROVE  Copied(text, n, k + 1)
<1> DEFINE V == ItemsOf(text)
           m == n + k
<1>0. /\ \A i \in 1 .. Len(text) : text[i] \in V
      /\ text \in Seq(V) /\ Len(text) \in Nat
  BY DEF ItemsOf, Range
<1>1. /\ m \in Nat /\ m < Len(text) /\ n + (k + 1) = m + 1
      /\ m + 1 \in n + 1 .. Len(text) /\ m + 1 \in 1 .. Len(text)
      /\ n + 1 \in 1 .. Len(text) /\ n < Len(text) /\ (m + 1) - 1 = m
  BY <1>0
<1>2. /\ Rewritten(text, m) \in Seq(V)
      /\ Rewritten(text, m) = Rewritten(text, n) \o SubSeq(text, n + 1, m)
  BY Zenon DEF Copied
<1>3. FixedIn(text, m + 1) = <<text[m + 1]>>
  BY <1>1, Zenon
<1> HIDE DEF m
<1>4. /\ Rewritten(text, m + 1) \in Seq(V) /\ Rewritten(text, n) \in Seq(V)
      /\ Rewritten(text, m + 1) = Rewritten(text, m) \o FixedIn(text, m + 1)
  BY <1>1, RewrittenOneMore
<1> HIDE DEF V
<1>5. SubSeq(text, n + 1, m + 1) = SubSeq(text, n + 1, m) \o <<text[m + 1]>>
  BY <1>0, <1>1, SubSeqRecursiveSecond
<1>6. SubSeq(text, n + 1, m) \in Seq(V) /\ <<text[m + 1]>> \in Seq(V)
  BY <1>0, <1>1
<1>7. (Rewritten(text, n) \o SubSeq(text, n + 1, m)) \o <<text[m + 1]>>
        = Rewritten(text, n) \o (SubSeq(text, n + 1, m) \o <<text[m + 1]>>)
  <2>1. \A x \in Seq(V) : \A y \in Seq(V) : \A z \in Seq(V) :
          (x \o y) \o z = x \o (y \o z)
    BY ConcatAssociative
  <2>2. Rewritten(text, n) \in Seq(V)
    BY <1>4
  <2> QED
    BY <1>6, <2>1, <2>2, Zenon
<1>8. Rewritten(text, m + 1) = Rewritten(text, n) \o SubSeq(text, n + 1, m + 1)
  BY <1>2, <1>3, <1>4, <1>5, <1>7, Zenon
<1> QED
  BY <1>1, <1>4, <1>8, Zenon DEF Copied, V

\* Items that belong to no place are copied.
LEMMA RewrittenCopies ==
    ASSUME NEW text, text \in Seq(Range(text)), NEW n \in Nat, NEW many \in Nat,
           n + many <= Len(text),
           \A i \in n + 1 .. n + many : FixedIn(text, i) = <<text[i]>>
    PROVE  Copied(text, n, many)
<1> DEFINE S == {k \in Nat : k <= many => Copied(text, n, k)}
<1>0. Len(text) \in Nat
  OBVIOUS
<1>1. 0 \in S
  <2> DEFINE V == ItemsOf(text)
  <2>1. Rewritten(text, n) \in Seq(V)
    <3>1. CASE n < Len(text)
      BY <3>1, RewrittenOneMore
    <3>2. CASE n = Len(text) /\ n > 0
      <4>1. n - 1 \in Nat /\ n - 1 < Len(text) /\ (n - 1) + 1 = n
        BY <3>2
      <4> QED
        BY <4>1, RewrittenOneMore
    <3>3. CASE n = 0
      <4>1. Rewritten(text, 0) = <<>> /\ <<>> \in Seq(V)
        BY RewrittenNothing
      <4> QED
        BY <3>3, <4>1, Zenon
    <3> QED
      BY <1>0, <3>1, <3>2, <3>3
  <2>2. SubSeq(text, n + 1, n) = <<>> /\ n + 0 = n
    BY <1>0
  <2>3. Rewritten(text, n) \o <<>> = Rewritten(text, n)
    BY <2>1, ConcatEmptySeq
  <2>4. Copied(text, n, 0)
    BY <2>1, <2>2, <2>3, Zenon DEF Copied
  <2> QED
    BY <2>4
<1>2. ASSUME NEW k \in Nat, k \in S PROVE k + 1 \in S
  <2> SUFFICES ASSUME k + 1 <= many PROVE Copied(text, n, k + 1)
    OBVIOUS
  <2>1. n + k < Len(text) /\ n + (k + 1) \in n + 1 .. n + many /\ Copied(text, n, k)
    BY <1>0, <1>2
  <2>2. FixedIn(text, n + (k + 1)) = <<text[n + (k + 1)]>>
    BY <2>1, Zenon
  <2> QED
    BY <2>1, <2>2, CopiedOneMore
<1>3. \A k \in Nat : k \in S
  <2> HIDE DEF S
  <2> QED
    BY <1>1, <1>2, NumbersInduction
<1> QED
  BY <1>3

-----------------------------------------------------------------------------
\* Between lines the loop is past every place that begins near by, and the result is what
\* the log up to here should become.
PlacesInv ==
    /\ log \in Seq(Range(log))
    /\ pos \in 0 .. Len(log)
    /\ isLineStart \in BOOLEAN
    /\ isLineStart => KindIn(log, pos) = "newline"
    /\ ~isLineStart => \A j \in pos - 1 .. pos + 2 : ~IsPlaceIn(log, j)
    /\ result = Rewritten(log, pos)

\* Nothing is copied or rewritten at first.
LEMMA PlacesStart ==
    ASSUME MessagesInit PROVE PlacesInv
<1>1. log \in Seq(Range(log)) /\ pos = 0 /\ isLineStart = TRUE /\ result = <<>>
  BY LogsAssumption DEF MessagesInit
<1>2. Len(log) \in Nat /\ KindIn(log, 0) = "newline"
  BY <1>1 DEF KindIn
<1>3. result = Rewritten(log, 0)
  BY <1>1, RewrittenNothing, Zenon
<1> QED
  BY <1>1, <1>2, <1>3 DEF PlacesInv

\* A match at a distance is a kind at a position.
LEMMA ComesIsKind ==
    ASSUME PlacesInv, NEW distance \in Nat \ {0}, NEW kind, kind # "newline"
    PROVE  /\ Comes(distance, kind) <=> KindIn(log, pos + distance) = kind
           /\ Comes(distance, kind) => pos + distance <= Len(log)
<1>1. DOMAIN log = 1 .. Len(log) /\ Len(log) \in Nat /\ pos \in Nat
  BY DEF PlacesInv
<1> QED
  BY <1>1 DEF Comes, KindIn

\* Copying an item is right, wherever CopyCharacter does it.
LEMMA CopyKeepsPlaces ==
    ASSUME PlacesInv, CopyCharacter
    PROVE  PlacesInv'
<1>1. /\ pos < Len(log) /\ isLineStart = FALSE /\ isLineStart' = Comes(1, "newline")
      /\ result' = Append(result, log[pos + 1]) /\ pos' = pos + 1 /\ log' = log
      /\ isLineStart' \in BOOLEAN
  BY DEF CopyCharacter, Comes, PlacesInv
<1>2. /\ log \in Seq(Range(log)) /\ pos \in Nat /\ Len(log) \in Nat
      /\ DOMAIN log = 1 .. Len(log)
      /\ \A j \in pos - 1 .. pos + 2 : ~IsPlaceIn(log, j)
      /\ result = Rewritten(log, pos)
  BY <1>1 DEF PlacesInv
<1>3. FixedIn(log, pos + 1) = <<log[pos + 1]>>
  <2>1. /\ ~IsPlaceIn(log, pos + 1) /\ ~IsPlaceIn(log, (pos + 1) - 1)
        /\ ~IsPlaceIn(log, (pos + 1) - 2)
    BY <1>2
  <2> QED
    BY <2>1 DEF FixedIn
<1>4. result' = Rewritten(log, pos + 1)
  <2>1. /\ Rewritten(log, pos) \in Seq(ItemsOf(log))
        /\ Rewritten(log, pos + 1) = Rewritten(log, pos) \o FixedIn(log, pos + 1)
    BY <1>1, <1>2, RewrittenOneMore
  <2>2. log[pos + 1] \in ItemsOf(log)
    BY <1>1, <1>2 DEF ItemsOf, Range
  <2>3. Append(Rewritten(log, pos), log[pos + 1]) = Rewritten(log, pos) \o <<log[pos + 1]>>
    BY <2>1, <2>2, AppendIsConcat
  <2> QED
    BY <1>1, <1>2, <1>3, <2>1, <2>3, Zenon
<1>5. isLineStart' => KindIn(log, pos + 1) = "newline"
  BY <1>1, <1>2 DEF Comes, KindIn
<1>6. ASSUME ~isLineStart', NEW j \in (pos + 1) - 1 .. (pos + 1) + 2 PROVE ~IsPlaceIn(log, j)
  <2>1. CASE j \in pos - 1 .. pos + 2
    BY <1>2, <2>1
  <2>2. CASE j = pos + 3
    <3>1. j - 2 = pos + 1 /\ pos + 1 \in DOMAIN log
      BY <1>1, <1>2, <2>2
    <3>2. ~Comes(1, "newline")
      BY <1>1, <1>6, Zenon
    <3>3. KindIn(log, pos + 1) # "newline"
      BY <1>1, <1>2, <3>1, <3>2 DEF Comes, KindIn
    <3> QED
      BY <3>1, <3>3 DEF IsPlaceIn
  <2> QED
    BY <1>2, <2>1, <2>2
<1>7. pos + 1 \in 0 .. Len(log)
  BY <1>1, <1>2
<1>8. /\ log' \in Seq(Range(log'))
      /\ pos' \in 0 .. Len(log')
      /\ isLineStart' \in BOOLEAN
      /\ isLineStart' => KindIn(log', pos') = "newline"
      /\ result' = Rewritten(log', pos')
  BY <1>1, <1>2, <1>4, <1>5, <1>7, Zenon
<1>9. ~isLineStart' => \A j \in pos' - 1 .. pos' + 2 : ~IsPlaceIn(log', j)
  BY <1>1, <1>6
<1> QED
  BY <1>8, <1>9, Zenon DEF PlacesInv

\* How far the next items look like a prefix and a place.
Reaches(far) ==
    /\ far >= 1 <=> Comes(1, "prefix")
    /\ far >= 2 <=> Comes(1, "prefix") /\ Comes(2, "number")
    /\ far >= 3 <=> Comes(1, "prefix") /\ Comes(2, "number") /\ Comes(3, "colon")
    /\ far >= 4 <=> /\ Comes(1, "prefix") /\ Comes(2, "number")
                   /\ Comes(3, "colon") /\ Comes(4, "number")

\* The pattern that is matched is within the log.
LEMMA MatchedReaches ==
    /\ ~Comes(1, "prefix") => Reaches(0)
    /\ Comes(1, "prefix") => 1 + Matched \in 1 .. 4 /\ Reaches(1 + Matched)
    /\ Matched \in 0 .. 3
<1>1. CASE ~Comes(2, "number")
  BY <1>1 DEF Matched, Reaches
<1>2. CASE Comes(2, "number") /\ ~Comes(3, "colon")
  BY <1>2 DEF Matched, Reaches
<1>3. CASE Comes(2, "number") /\ Comes(3, "colon") /\ ~Comes(4, "number")
  BY <1>3 DEF Matched, Reaches
<1>4. CASE Comes(2, "number") /\ Comes(3, "colon") /\ Comes(4, "number")
  BY <1>4 DEF Matched, Reaches
<1> QED
  BY <1>1, <1>2, <1>3, <1>4

\* At the start of a line, nothing near by is a place but what follows a prefix and
\* matches the pattern.
LEMMA NearTheStart ==
    ASSUME PlacesInv, isLineStart, NEW far \in 0 .. 4, Reaches(far)
    PROVE  /\ \A j \in pos - 1 .. pos + far + 2 :
                IsPlaceIn(log, j) <=> far = 4 /\ j = pos + 2
           /\ far > 1 => pos + far <= Len(log)
<1> DEFINE K(d) == KindIn(log, pos + d)
<1>1. /\ pos \in Nat /\ Len(log) \in Nat /\ K(0) = "newline"
  BY DEF PlacesInv
<1>2. /\ Comes(1, "prefix") <=> K(1) = "prefix"
      /\ Comes(2, "number") <=> K(2) = "number"
      /\ Comes(3, "colon") <=> K(3) = "colon"
      /\ Comes(4, "number") <=> K(4) = "number"
      /\ Comes(2, "number") => pos + 2 <= Len(log)
      /\ Comes(3, "colon") => pos + 3 <= Len(log)
      /\ Comes(4, "number") => pos + 4 <= Len(log)
  BY ComesIsKind
<1>3. ASSUME NEW d \in -1 .. 6
      PROVE  IsPlaceIn(log, pos + d) <=>
               /\ K(d - 2) = "newline" /\ K(d - 1) = "prefix"
               /\ K(d) = "number" /\ K(d + 1) = "colon" /\ K(d + 2) = "number"
  <2>1. /\ (pos + d) - 2 = pos + (d - 2) /\ (pos + d) - 1 = pos + (d - 1)
        /\ (pos + d) + 1 = pos + (d + 1) /\ (pos + d) + 2 = pos + (d + 2)
    BY <1>1
  <2> QED
    BY <2>1, Zenon DEF IsPlaceIn
<1>5. /\ far >= 1 => K(1) = "prefix"
      /\ far >= 2 => K(2) = "number"
      /\ far >= 3 => K(3) = "colon"
      /\ far >= 4 => K(4) = "number"
      /\ ~(/\ K(1) = "prefix" /\ K(2) = "number" /\ K(3) = "colon" /\ K(4) = "number")
           \/ far = 4
      /\ far > 1 => pos + far <= Len(log)
  BY <1>1, <1>2 DEF Reaches
<1> HIDE DEF K
<1>4. ASSUME NEW d \in -1 .. far + 2 PROVE IsPlaceIn(log, pos + d) <=> far = 4 /\ d = 2
  <2>1. d \in -1 .. 6
    OBVIOUS
  <2>2. IsPlaceIn(log, pos + d) <=>
          /\ K(d - 2) = "newline" /\ K(d - 1) = "prefix"
          /\ K(d) = "number" /\ K(d + 1) = "colon" /\ K(d + 2) = "number"
    BY <1>3, <2>1
  <2>3. CASE d = -1
    BY <1>1, <2>2, <2>3
  <2>4. CASE d = 0
    BY <1>1, <2>2, <2>4
  <2>5. CASE d = 1
    BY <1>1, <2>2, <2>5
  <2>6. CASE d = 2
    BY <1>1, <1>5, <2>2, <2>6
  <2>7. CASE d = 3
    BY <1>5, <2>2, <2>7
  <2>8. CASE d = 4
    BY <1>5, <2>2, <2>8
  <2>9. CASE d = 5
    BY <1>5, <2>2, <2>9
  <2>10. CASE d = 6
    BY <1>5, <2>2, <2>10
  <2> QED
    BY <2>1, <2>3, <2>4, <2>5, <2>6, <2>7, <2>8, <2>9, <2>10
<1>6. ASSUME NEW j \in pos - 1 .. pos + far + 2
      PROVE  IsPlaceIn(log, j) <=> far = 4 /\ j = pos + 2
  <2> DEFINE d == j - pos
  <2>1. d \in -1 .. far + 2 /\ j = pos + d /\ (d = 2 <=> j = pos + 2)
    BY <1>1
  <2> HIDE DEF d
  <2> QED
    BY <1>4, <2>1
<1> QED
  BY <1>5, <1>6

\* What is not a place is copied, if some of it matches the pattern or not, ...
LEMMA LookCopies ==
    ASSUME PlacesInv, isLineStart, NEW many \in Nat, pos + many <= Len(log), many <= 3,
           \A j \in pos - 1 .. pos + many + 2 : ~IsPlaceIn(log, j)
    PROVE  Rewritten(log, pos + many) = result \o SubSeq(log, pos + 1, pos + many)
<1>1. log \in Seq(Range(log)) /\ pos \in Nat /\ result = Rewritten(log, pos)
  BY DEF PlacesInv
<1>2. ASSUME NEW i \in pos + 1 .. pos + many PROVE FixedIn(log, i) = <<log[i]>>
  <2>1. ~IsPlaceIn(log, i) /\ ~IsPlaceIn(log, i - 1) /\ ~IsPlaceIn(log, i - 2)
    BY <1>1
  <2> QED
    BY <2>1 DEF FixedIn
<1>3. Copied(log, pos, many)
  BY <1>1, <1>2, RewrittenCopies
<1> QED
  BY <1>1, <1>3, Zenon DEF Copied

\* ... and a place is replaced.
LEMMA LookRewrites ==
    ASSUME PlacesInv, isLineStart, pos + 4 <= Len(log),
           \A j \in pos - 1 .. pos + 6 : IsPlaceIn(log, j) <=> j = pos + 2
    PROVE  Rewritten(log, pos + 4)
             = result \o <<log[pos + 1], Line(log[pos + 4].value + LineOffset)>>
<1> DEFINE V == ItemsOf(log)
           r(d) == Rewritten(log, pos + d)
           number == Line(log[pos + 4].value + LineOffset)
<1>1. /\ log \in Seq(Range(log)) /\ pos \in Nat /\ Len(log) \in Nat
      /\ DOMAIN log = 1 .. Len(log) /\ result = Rewritten(log, pos)
  BY DEF PlacesInv
<1>2. /\ FixedIn(log, pos + 1) = <<log[pos + 1]>>
      /\ FixedIn(log, pos + 2) = <<number>>
      /\ FixedIn(log, pos + 3) = <<>>
      /\ FixedIn(log, pos + 4) = <<>>
  <2>1. /\ ~IsPlaceIn(log, pos + 1) /\ ~IsPlaceIn(log, (pos + 1) - 1)
        /\ ~IsPlaceIn(log, (pos + 1) - 2)
        /\ IsPlaceIn(log, pos + 2) /\ (pos + 2) + 2 = pos + 4
        /\ ~IsPlaceIn(log, pos + 3) /\ IsPlaceIn(log, (pos + 3) - 1)
        /\ ~IsPlaceIn(log, pos + 4) /\ IsPlaceIn(log, (pos + 4) - 2)
    BY <1>1
  <2> QED
    BY <2>1, Zenon DEF FixedIn
<1>3. /\ pos + 1 = pos + 1 /\ (pos + 1) + 1 = pos + 2 /\ (pos + 2) + 1 = pos + 3
      /\ (pos + 3) + 1 = pos + 4
      /\ pos + 1 \in Nat /\ pos + 2 \in Nat /\ pos + 3 \in Nat
      /\ pos < Len(log) /\ pos + 1 < Len(log) /\ pos + 2 < Len(log) /\ pos + 3 < Len(log)
  BY <1>1
<1>4. /\ Rewritten(log, pos) \in Seq(V)
      /\ Rewritten(log, pos + 1) = Rewritten(log, pos) \o FixedIn(log, pos + 1)
  BY <1>1, <1>3, RewrittenOneMore
<1>5. /\ Rewritten(log, pos + 1) \in Seq(V)
      /\ Rewritten(log, (pos + 1) + 1) = Rewritten(log, pos + 1) \o FixedIn(log, (pos + 1) + 1)
  BY <1>1, <1>3, RewrittenOneMore
<1>6. /\ Rewritten(log, pos + 2) \in Seq(V)
      /\ Rewritten(log, (pos + 2) + 1) = Rewritten(log, pos + 2) \o FixedIn(log, (pos + 2) + 1)
  BY <1>1, <1>3, RewrittenOneMore
<1>7. /\ Rewritten(log, pos + 3) \in Seq(V)
      /\ Rewritten(log, (pos + 3) + 1) = Rewritten(log, pos + 3) \o FixedIn(log, (pos + 3) + 1)
  BY <1>1, <1>3, RewrittenOneMore
<1>8. log[pos + 1] \in V /\ number \in V
  BY <1>1, <1>3 DEF ItemsOf, Range
<1> HIDE DEF V, number
<1>9. \A x \in Seq(V) : x \o <<>> = x
  BY ConcatEmptySeq
<1>10. \A x \in Seq(V) : \A a \in V : \A b \in V : (x \o <<a>>) \o <<b>> = x \o <<a, b>>
  <2> SUFFICES ASSUME NEW x \in Seq(V), NEW a \in V, NEW b \in V
               PROVE  (x \o <<a>>) \o <<b>> = x \o <<a, b>>
    OBVIOUS
  <2>1. (x \o <<a>>) \o <<b>> = x \o (<<a>> \o <<b>>)
    BY ConcatAssociative
  <2> DEFINE both == <<a>> \o <<b>>
             pair == <<a, b>>
  <2>2. /\ both \in Seq(V) /\ Len(both) = 2 /\ both[1] = a /\ both[2] = b
        /\ pair \in Seq(V) /\ Len(pair) = 2 /\ pair[1] = a /\ pair[2] = b
    OBVIOUS
  <2> HIDE DEF both, pair
  <2>3. both = pair
    BY <2>2, SeqEqual
  <2> QED
    BY <2>1, <2>3, Zenon DEF both, pair
<1>11. Rewritten(log, pos + 2) = Rewritten(log, pos) \o <<log[pos + 1], number>>
  BY <1>2, <1>3, <1>4, <1>5, <1>8, <1>10, Zenon
<1>12. /\ Rewritten(log, pos + 3) = Rewritten(log, pos + 2)
       /\ Rewritten(log, pos + 4) = Rewritten(log, pos + 3)
  BY <1>2, <1>3, <1>6, <1>7, <1>9, Zenon
<1> QED
  BY <1>1, <1>11, <1>12, Zenon DEF number

\* Looking for a message at the start of a line is right, found or not.
LEMMA LookKeepsPlaces ==
    ASSUME PlacesInv, LookForMessage
    PROVE  PlacesInv'
<1>1. /\ pos < Len(log) /\ isLineStart = TRUE /\ isLineStart' = FALSE /\ log' = log
  BY DEF LookForMessage, PlacesInv
<1>2. /\ log \in Seq(Range(log)) /\ pos \in Nat /\ Len(log) \in Nat
      /\ result = Rewritten(log, pos)
  BY DEF PlacesInv
<1>3. PICK many \in Nat :
        /\ pos' = pos + many /\ pos + many <= Len(log)
        /\ \A j \in pos + many - 1 .. pos + many + 2 : ~IsPlaceIn(log, j)
        /\ result' = Rewritten(log, pos + many)
  <2>1. ASSUME NEW far \in 0 .. 3, Reaches(far), pos + far <= Len(log),
               Replace(far, SubSeq(log, pos + 1, pos + far))
        PROVE  /\ pos' = pos + far
               /\ \A j \in pos + far - 1 .. pos + far + 2 : ~IsPlaceIn(log, j)
               /\ result' = Rewritten(log, pos + far)
    <3>1. \A j \in pos - 1 .. pos + far + 2 : ~IsPlaceIn(log, j)
      BY <1>1, <2>1, NearTheStart
    <3>2. far \in Nat /\ far <= 3
      OBVIOUS
    <3>3. Rewritten(log, pos + far) = result \o SubSeq(log, pos + 1, pos + far)
      BY <1>1, <2>1, <3>1, <3>2, LookCopies, Zenon
    <3>4. result' = Rewritten(log, pos + far) /\ pos' = pos + far
      BY <2>1, <3>3, Zenon DEF Replace
    <3> QED
      BY <1>2, <3>1, <3>4
  <2>2. CASE ~Comes(1, "prefix") /\ Replace(0, <<>>)
    <3>1. Reaches(0) /\ pos + 0 <= Len(log) /\ 0 \in Nat
      BY <1>1, <1>2, <2>2, MatchedReaches
    <3>2. SubSeq(log, pos + 1, pos + 0) = <<>>
      BY <1>2
    <3>3. Replace(0, SubSeq(log, pos + 1, pos + 0))
      BY <2>2, <3>2, Zenon
    <3>4. 0 \in 0 .. 3
      OBVIOUS
    <3> QED
      BY <2>1, <3>1, <3>3, <3>4, Zenon
  <2>4. CASE /\ Comes(1, "prefix") /\ Matched < 3
             /\ Replace(1 + Matched, SubSeq(log, pos + 1, pos + 1 + Matched))
    <3> DEFINE far == 1 + Matched
    <3>1. /\ far \in 0 .. 3 /\ far \in 0 .. 4 /\ Reaches(far) /\ pos + 1 + Matched = pos + far
          /\ far \in Nat
      BY <1>2, <2>4, MatchedReaches
    <3>2. Replace(far, SubSeq(log, pos + 1, pos + far))
      BY <2>4, <3>1, Zenon
    <3> HIDE DEF far
    <3>3. pos + far <= Len(log)
      <4>1. far > 1 => pos + far <= Len(log)
        BY <1>1, <3>1, NearTheStart
      <4> QED
        BY <1>1, <1>2, <3>1, <4>1
    <3> QED
      BY <2>1, <3>1, <3>2, <3>3, Zenon
  <2>3. CASE /\ Comes(1, "prefix") /\ Matched = 3
             /\ Replace(4, <<log[pos + 1], Line(log[pos + 4].value + LineOffset)>>)
    <3>1. Reaches(4) /\ 4 \in 0 .. 4
      BY <2>3, MatchedReaches
    <3>2. /\ \A j \in pos - 1 .. pos + 4 + 2 : IsPlaceIn(log, j) <=> j = pos + 2
          /\ pos + 4 <= Len(log) /\ pos + 4 + 2 = pos + 6
      BY <1>1, <1>2, <2>3, <3>1, NearTheStart
    <3>3. Rewritten(log, pos + 4)
            = result \o <<log[pos + 1], Line(log[pos + 4].value + LineOffset)>>
      BY <1>1, <3>2, LookRewrites
    <3>4. result' = Rewritten(log, pos + 4) /\ pos' = pos + 4
      BY <2>3, <3>3, Zenon DEF Replace
    <3> QED
      BY <1>1, <1>2, <3>2, <3>4
  <2> QED
    BY <2>2, <2>3, <2>4 DEF LookForMessage
<1>4. /\ log' \in Seq(Range(log')) /\ pos' \in 0 .. Len(log')
      /\ isLineStart' \in BOOLEAN /\ ~isLineStart'
      /\ \A j \in pos' - 1 .. pos' + 2 : ~IsPlaceIn(log', j)
  <2>1. pos + many \in 0 .. Len(log)
    BY <1>2, <1>3
  <2>2. isLineStart' \in BOOLEAN /\ ~isLineStart'
    BY <1>1
  <2>3. \A j \in pos' - 1 .. pos' + 2 : ~IsPlaceIn(log, j)
    <3>1. /\ pos' - 1 = pos + many - 1 /\ pos' + 2 = pos + many + 2
      BY <1>2, <1>3
    <3>2. \A j \in pos + many - 1 .. pos + many + 2 : ~IsPlaceIn(log, j)
      BY <1>3
    <3> QED
      BY <3>1, <3>2, Zenon
  <2> QED
    BY <1>1, <1>2, <1>3, <2>1, <2>2, <2>3, Zenon
<1>5. result' = Rewritten(log', pos')
  BY <1>1, <1>3, Zenon
<1> QED
  BY <1>4, <1>5, Zenon DEF PlacesInv

\* Of what glslang says, nothing is lost and nothing but places is changed.
THEOREM MessagesArePassedOn == MessagesSpec => []OnlyPlacesAreRewritten
<1>1. MessagesInit => PlacesInv
  BY PlacesStart
<1>2. PlacesInv /\ [MessagesNext]_messageVars => PlacesInv'
  <2>1. ASSUME PlacesInv, UNCHANGED messageVars PROVE PlacesInv'
    BY <2>1 DEF PlacesInv, messageVars
  <2> QED
    BY <2>1, CopyKeepsPlaces, LookKeepsPlaces DEF MessagesNext
<1>3. ASSUME PlacesInv PROVE OnlyPlacesAreRewritten
  <2>1. Rewritten(log, pos) = FlattenSeq([i \in 1 .. pos |-> Fixed(i)])
    BY Zenon DEF Rewritten, FixedIn, Fixed, IsPlaceIn, IsPlace, KindIn, KindAt
  <2> QED
    BY <1>3, <2>1, Zenon DEF PlacesInv, OnlyPlacesAreRewritten
<1> QED
  BY <1>1, <1>2, <1>3, PTL DEF MessagesSpec
==============================================================================
