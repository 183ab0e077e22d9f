--------------------------- MODULE ContentsProofs ----------------------------
(***************************************************************************)
(* Proofs about the executor's loops over contents: those of ASSERT_EQUAL  *)
(* and DUMP_BUFFER_TEXT over a format, for every format, every size of     *)
(* buffer and every place where the buffers differ, and that of            *)
(* ASSERT_SIMILAR_EMD_HISTOGRAM over the bins of two histograms, for every *)
(* two images.                                                             *)
(***************************************************************************)
EXTENDS FormattedBuffers, EmdHistogram, Recursion

-----------------------------------------------------------------------------
(***************************************************************************)
(* The bytes before each entry.                                            *)
(***************************************************************************)
\* An entry covers a number of bytes.
LEMMA EntryBytesType ==
    ASSUME NEW e \in FormatEntry PROVE EntryBytes(e) \in Nat
BY DEF EntryBytes, FormatEntry, FormatKind

\* BytesBefore starts at 0 and adds the bytes of one entry after the other.
LEMMA BytesBeforeAdds ==
    ASSUME NEW given \in Seq(FormatEntry)
    PROVE  /\ BytesBefore(given) \in [1 .. Len(given) + 1 -> Nat]
           /\ BytesBefore(given)[1] = 0
           /\ \A i \in 1 .. Len(given) :
                BytesBefore(given)[i + 1] = BytesBefore(given)[i] + EntryBytes(given[i])
<1> DEFINE n == Len(given) + 1
           step == [p \in Nat \X Nat |->
                      IF p[1] \in 2 .. n THEN p[2] + EntryBytes(given[p[1] - 1]) ELSE 0]
           Body(f) == [i \in 1 .. n |->
                         IF i = 1 THEN 0 ELSE f[i - 1] + EntryBytes(given[i - 1])]
<1>1. n \in Nat /\ \A i \in 1 .. Len(given) : given[i] \in FormatEntry
  OBVIOUS
<1>2. step \in [Nat \X Nat -> Nat]
  <2>1. ASSUME NEW p \in Nat \X Nat, p[1] \in 2 .. n
        PROVE  EntryBytes(given[p[1] - 1]) \in Nat
    BY <1>1, <2>1, EntryBytesType
  <2> QED
    BY <2>1
<1>3. PICK g \in [1 .. n -> Nat] : Iterates(g, n, 0, step)
  <2> HIDE DEF step, n
  <2> QED
    BY <1>1, <1>2, IterationExists, Zenon
<1>4. g = Body(g)
  <2>1. ASSUME NEW i \in 1 .. n
        PROVE  g[i] = IF i = 1 THEN 0 ELSE g[i - 1] + EntryBytes(given[i - 1])
    <3>1. i # 1 => i - 1 \in 1 .. n /\ g[i - 1] \in Nat /\ <<i, g[i - 1]>> \in Nat \X Nat
      OBVIOUS
    <3>2. g[i] = IF i = 1 THEN 0 ELSE step[<<i, g[i - 1]>>]
      BY <1>3 DEF Iterates
    <3> QED
      BY <3>1, <3>2
  <2> QED
    BY <2>1
<1>5. BytesBefore(given) = Body(BytesBefore(given))
  <2>1. BytesBefore(given) = CHOOSE f : f = Body(f)
    BY DEF BytesBefore
  <2>2. \E f : f = Body(f)
    BY <1>4
  <2> HIDE DEF Body
  <2> QED
    BY <2>1, <2>2, Zenon
<1> DEFINE before == BytesBefore(given)
<1> HIDE DEF before
<1>6. /\ before[1] = 0
      /\ \A i \in 2 .. n : before[i] = before[i - 1] + EntryBytes(given[i - 1])
  <2>1. \A i \in 1 .. n :
          before[i] = IF i = 1 THEN 0 ELSE before[i - 1] + EntryBytes(given[i - 1])
    BY <1>5 DEF before
  <2> QED
    BY <1>1, <2>1
<1>7. \A i \in 1 .. n : before[i] \in Nat
  <2>1. ASSUME NEW i \in 2 .. n, before[i - 1] \in Nat
        PROVE  before[i] = step[<<i, before[i - 1]>>]
    <3>1. before[i] = before[i - 1] + EntryBytes(given[i - 1])
      BY <1>6
    <3>2. <<i, before[i - 1]>> \in Nat \X Nat /\ i \in 2 .. n
      BY <2>1
    <3> QED
      BY <3>1, <3>2
  <2>2. before[1] = 0
    BY <1>6
  <2> HIDE DEF step, n
  <2> QED
    BY <1>1, <1>2, <2>1, <2>2, IterationTyped
<1>8. ASSUME NEW i \in 1 .. Len(given)
      PROVE  before[i + 1] = before[i] + EntryBytes(given[i])
  <2>1. i + 1 \in 2 .. n /\ (i + 1) - 1 = i
    BY <1>1
  <2> QED
    BY <1>6, <2>1
<1>9. before[1] = 0 /\ before \in [1 .. n -> Nat]
  <2>1. Body(BytesBefore(given)) = [i \in 1 .. n |-> Body(BytesBefore(given))[i]]
    OBVIOUS
  <2>2. before = [i \in 1 .. n |-> before[i]]
    BY <1>5, <2>1 DEF before
  <2>3. [i \in 1 .. n |-> before[i]] \in [1 .. n -> Nat]
    BY <1>7
  <2> QED
    BY <1>6, <2>2, <2>3
<1> QED
  BY <1>8, <1>9 DEF before

\* It never goes down.
LEMMA BytesBeforeGrows ==
    ASSUME NEW given \in Seq(FormatEntry),
           NEW i \in 1 .. Len(given) + 1, NEW j \in i .. Len(given) + 1
    PROVE  BytesBefore(given)[i] <= BytesBefore(given)[j]
<1> DEFINE before == BytesBefore(given)
           S == {d \in Nat : i + d <= Len(given) + 1 => before[i] <= before[i + d]}
<1>0. /\ Len(given) \in Nat
      /\ before \in [1 .. Len(given) + 1 -> Nat]
      /\ \A k \in 1 .. Len(given) : before[k + 1] = before[k] + EntryBytes(given[k])
  BY BytesBeforeAdds
<1> HIDE DEF before
<1>1. 0 \in S
  BY <1>0
<1>2. ASSUME NEW d \in Nat, d \in S PROVE d + 1 \in S
  <2> SUFFICES ASSUME i + (d + 1) <= Len(given) + 1
               PROVE  before[i] <= before[i + (d + 1)]
    OBVIOUS
  <2>1. /\ i + d \in 1 .. Len(given) /\ i + d <= Len(given) + 1
        /\ i \in 1 .. Len(given) + 1 /\ i + (d + 1) = (i + d) + 1
    BY <1>0
  <2>2. EntryBytes(given[i + d]) \in Nat
    BY <2>1, EntryBytesType
  <2>3. before[(i + d) + 1] = before[i + d] + EntryBytes(given[i + d])
    BY <1>0, <2>1
  <2>4. before[i] <= before[i + d]
    BY <1>2, <2>1
  <2>5. before[i] \in Nat /\ before[i + d] \in Nat
    BY <1>0, <2>1
  <2>6. before[i + (d + 1)] = before[i + d] + EntryBytes(given[i + d])
    BY <2>1, <2>3
  <2> QED
    BY <2>2, <2>4, <2>5, <2>6
<1>3. j - i \in Nat /\ i + (j - i) = j /\ j <= Len(given) + 1
  BY <1>0
<1>4. \A d \in Nat : d \in S
  <2> HIDE DEF S
  <2> QED
    BY <1>1, <1>2, NumbersInduction
<1>5. before[i] <= before[i + (j - i)]
  <2> DEFINE d == j - i
  <2>1. d \in S /\ i + d <= Len(given) + 1
    BY <1>3, <1>4
  <2> HIDE DEF d
  <2>2. before[i] <= before[i + d]
    BY <2>1
  <2> QED
    BY <2>2 DEF d
<1> QED
  BY <1>3, <1>5 DEF before

-----------------------------------------------------------------------------
(***************************************************************************)
(* The walk over a format.                                                 *)
(***************************************************************************)
\* Extent and Covered, of a format and a number of entries that are given.
Span(given, i) == Positions(BytesBefore(given)[i], EntryBytes(given[i]))
CoveredBy(given, n, kinds) ==
    UNION {Span(given, i) : i \in {k \in 1 .. n : given[k].kind \in kinds}}

\* One more entry covers its bytes, if it is of the kinds.
LEMMA CoveredByOneMore ==
    ASSUME NEW given, NEW n \in Nat, NEW kinds
    PROVE  /\ given[n + 1].kind \in kinds =>
                CoveredBy(given, n + 1, kinds) = CoveredBy(given, n, kinds) \cup Span(given, n + 1)
           /\ given[n + 1].kind \notin kinds =>
                CoveredBy(given, n + 1, kinds) = CoveredBy(given, n, kinds)
<1> DEFINE K(m) == {k \in 1 .. m : given[k].kind \in kinds}
<1>1. CASE given[n + 1].kind \in kinds
  <2>1. K(n + 1) = K(n) \cup {n + 1}
    BY <1>1
  <2> HIDE DEF K
  <2>2. UNION {Span(given, i) : i \in K(n) \cup {n + 1}}
          = (UNION {Span(given, i) : i \in K(n)}) \cup Span(given, n + 1)
    OBVIOUS
  <2>3. CoveredBy(given, n + 1, kinds) = UNION {Span(given, i) : i \in K(n + 1)}
    BY DEF CoveredBy, K
  <2>4. CoveredBy(given, n, kinds) = UNION {Span(given, i) : i \in K(n)}
    BY DEF CoveredBy, K
  <2> QED
    BY <1>1, <2>1, <2>2, <2>3, <2>4
<1>2. CASE given[n + 1].kind \notin kinds
  <2>1. K(n + 1) = K(n)
    BY <1>2
  <2> QED
    BY <1>2, <2>1 DEF CoveredBy
<1> QED
  BY <1>1, <1>2

\* What the entries cover lies before the entries that come after them.
LEMMA CoveredLiesBefore ==
    ASSUME NEW given \in Seq(FormatEntry), NEW n \in 0 .. Len(given), NEW kinds
    PROVE  CoveredBy(given, n, kinds) \subseteq Positions(0, BytesBefore(given)[n + 1])
<1> SUFFICES ASSUME NEW k \in 1 .. n, NEW x \in Span(given, k)
             PROVE  x \in Positions(0, BytesBefore(given)[n + 1])
  BY DEF CoveredBy
<1>0. Len(given) \in Nat
  OBVIOUS
<1>1. /\ k \in 1 .. Len(given) /\ k + 1 \in 1 .. Len(given) + 1
      /\ k \in 1 .. Len(given) + 1
      /\ n + 1 \in (k + 1) .. Len(given) + 1 /\ n + 1 \in 1 .. Len(given) + 1
  BY <1>0
<1>2. EntryBytes(given[k]) \in Nat
  BY <1>1, EntryBytesType
<1>3. /\ BytesBefore(given)[k] \in Nat /\ BytesBefore(given)[n + 1] \in Nat
      /\ BytesBefore(given)[k + 1] = BytesBefore(given)[k] + EntryBytes(given[k])
  BY <1>1, BytesBeforeAdds
<1>4. BytesBefore(given)[k + 1] <= BytesBefore(given)[n + 1]
  BY <1>1, BytesBeforeGrows
<1>5. x \in BytesBefore(given)[k] .. (BytesBefore(given)[k] + EntryBytes(given[k]) - 1)
  BY DEF Span, Positions
<1> QED
  BY <1>2, <1>3, <1>4, <1>5 DEF Positions

\* The offset is where the next entry's bytes begin, by the format alone.
WalkInv ==
    /\ format \in Seq(FormatEntry)
    /\ FormatBytes(format) = size
    /\ done \in 0 .. Len(format)
    /\ offset = BytesBefore(format)[done + 1]

\* What the code that handles an entry may rely on.
LEMMA NextEntry ==
    ASSUME WalkInv, done < Len(format)
    PROVE  /\ done \in Nat /\ done + 1 \in 1 .. Len(format)
           /\ entry = format[done + 1] /\ entry \in FormatEntry
           /\ offset \in Nat /\ EntryBytes(entry) \in Nat
           /\ Span(format, done + 1) = Positions(offset, EntryBytes(entry))
           /\ BytesBefore(format)[done + 2] = offset + EntryBytes(entry)
<1>1. /\ done \in Nat /\ Len(format) \in Nat /\ done + 1 \in 1 .. Len(format)
      /\ done + 1 \in 1 .. Len(format) + 1 /\ done + 2 = (done + 1) + 1
  BY DEF WalkInv
<1>2. entry = format[done + 1] /\ entry \in FormatEntry
  BY <1>1 DEF WalkInv, entry
<1>3. EntryBytes(entry) \in Nat
  BY <1>2, EntryBytesType
<1>4. /\ offset \in Nat
      /\ BytesBefore(format)[(done + 1) + 1] = offset + EntryBytes(entry)
  BY <1>1, <1>2, BytesBeforeAdds DEF WalkInv
<1>5. Span(format, done + 1) = Positions(offset, EntryBytes(entry))
  BY <1>2 DEF Span, WalkInv
<1> QED
  BY <1>1, <1>2, <1>3, <1>4, <1>5

\* Every action processes the next entry and moves the offset behind its bytes.
LEMMA ProcessesAnEntry ==
    ASSUME WalkInv, FormattedNext
    PROVE  done < Len(format) /\ Advance(EntryBytes(entry))
<1>1. CASE SkipBytes
  BY <1>1 DEF SkipBytes, At, EntryBytes
<1>2. CASE PutString
  BY <1>2 DEF PutString, At, EntryBytes
<1>3. CASE CompareBytes
  BY <1>3 DEF CompareBytes, At, EntryBytes
<1>4. CASE CompareWords
  BY <1>4 DEF CompareWords, At, EntryBytes, Words
<1>5. CASE DumpBytes
  BY <1>5 DEF DumpBytes, At, EntryBytes
<1>6. CASE DumpWords
  BY <1>6 DEF DumpWords, At, EntryBytes, Words
<1> QED
  BY <1>1, <1>2, <1>3, <1>4, <1>5, <1>6 DEF FormattedNext

\* Before the first entry nothing is read and the offset is 0.
LEMMA WalkStart ==
    ASSUME FormattedInit PROVE WalkInv
<1> USE FormattedInit
<1>1. PICK given \in Formats : format = Entries(given, size) /\ FormatBytes(format) = size
  BY DEF FormattedInit
<1>2. size \in Nat
  BY SizesAssumption DEF FormattedInit
<1>3. format \in Seq(FormatEntry)
  <2>1. [kind |-> "byte", count |-> size] \in FormatEntry
    BY <1>2 DEF FormatEntry, FormatKind
  <2>2. given \in Seq(FormatEntry)
    BY FormatsAssumption
  <2> QED
    BY <1>1, <2>1, <2>2 DEF Entries
<1>4. Len(format) \in Nat /\ BytesBefore(format)[1] = 0
  BY <1>3, BytesBeforeAdds
<1> QED
  BY <1>1, <1>3, <1>4 DEF WalkInv, FormattedInit

\* Each entry keeps the offset at the bytes before the next.
LEMMA WalkGoesOn ==
    ASSUME WalkInv, [FormattedNext]_formattedVars PROVE WalkInv'
<1>1. CASE FormattedNext
  <2>1. /\ done < Len(format) /\ done' = done + 1 /\ offset' = offset + EntryBytes(entry)
        /\ format' = format /\ size' = size
    BY <1>1, ProcessesAnEntry DEF Advance, givenVars
  <2>2. /\ done + 1 \in 1 .. Len(format) /\ done' + 1 = done + 2
        /\ BytesBefore(format)[done + 2] = offset + EntryBytes(entry)
    BY <2>1, NextEntry
  <2>3. FormatBytes(format') = size'
    BY <2>1 DEF WalkInv
  <2> QED
    BY <2>1, <2>2, <2>3 DEF WalkInv
<1>2. CASE UNCHANGED formattedVars
  <2>1. format' = format /\ size' = size /\ done' = done /\ offset' = offset
    BY <1>2 DEF formattedVars, givenVars
  <2> QED
    BY <2>1 DEF WalkInv
<1> QED
  BY <1>1, <1>2

\* The loops over a format account for the bytes of the buffers exactly: wherever they
\* are, the offset is the sum of the entries behind them and within the buffers.
THEOREM OffsetFollowsTheFormat == FormattedSpec => []WalkInv
BY WalkStart, WalkGoesOn, PTL DEF FormattedSpec

-----------------------------------------------------------------------------
\* The kinds of entries that have the bytes of a buffer processed.
Data == Words \cup {"byte"}

\* What an entry reads lies within its bytes, and only the data entries read.
ComparedInv ==
    /\ command = "DUMP_BUFFER_TEXT" => differing = {}
    /\ read \subseteq CoveredBy(format, done, Data)
    /\ ~equal => differing \cap CoveredBy(format, done, Data) # {}
    /\ \A i \in 1 .. done :
         /\ format[i].kind \in Words \/ (format[i].kind = "byte" /\ i = 1)
         /\ Span(format, i) \cap differing # {}
         => ~equal

\* Before the first entry nothing is compared, and buffers count as equal.
LEMMA ComparedStart ==
    ASSUME FormattedInit PROVE ComparedInv
<1>1. done = 0 /\ equal = TRUE /\ read = {}
  BY DEF FormattedInit
<1>2. command = "DUMP_BUFFER_TEXT" => differing = {}
  <2>1. ASSUME command = "DUMP_BUFFER_TEXT" PROVE Cardinality(differing) <= 0
    BY <2>1 DEF FormattedInit
  <2>2. IsFiniteSet(differing)
    <3>1. CASE differing = {}
      BY <3>1, FS_EmptySet
    <3>2. ASSUME NEW a, NEW b PROVE IsFiniteSet({a, b})
      <4>1. IsFiniteSet({a})
        BY FS_Singleton
      <4>2. IsFiniteSet({a} \cup {b})
        BY <4>1, FS_AddElement
      <4>3. {a} \cup {b} = {a, b}
        OBVIOUS
      <4> QED
        BY <4>2, <4>3
    <3>3. differing = {} \/ \E a, b \in Positions(0, size) : differing = {a, b}
      BY DEF FormattedInit
    <3> QED
      BY <3>1, <3>2, <3>3
  <2> QED
    BY <2>1, <2>2, FS_CardinalityType, FS_EmptySet
<1> QED
  BY <1>1, <1>2 DEF ComparedInv

\* The next entry is skipped ...
LEMMA SkipKeepsCompared ==
    ASSUME WalkInv, ComparedInv, SkipBytes \/ PutString
    PROVE  ComparedInv'
<1>1. /\ done < Len(format) /\ entry.kind \in {"SKIP_BYTES", "string"}
      /\ done' = done + 1 /\ format' = format /\ command' = command
      /\ differing' = differing /\ read' = read /\ equal' = equal
  BY DEF SkipBytes, PutString, At, Advance, givenVars
<1>2. done \in Nat /\ format[done + 1].kind \notin Data /\ format[done + 1].kind \notin Words
      /\ format[done + 1].kind # "byte"
  BY <1>1, NextEntry DEF Data, Words
<1>3. CoveredBy(format, done + 1, Data) = CoveredBy(format, done, Data)
  BY <1>2, CoveredByOneMore
<1>4. 1 .. (done + 1) = (1 .. done) \cup {done + 1}
  BY <1>2
<1> QED
  BY <1>1, <1>2, <1>3, <1>4 DEF ComparedInv

\* ... or compared, all of it unless it is bytes behind another entry ...
LEMMA CompareKeepsCompared ==
    ASSUME WalkInv, ComparedInv, CompareBytes \/ CompareWords
    PROVE  ComparedInv'
<1> DEFINE span == Span(format, done + 1)
<1>1. /\ done < Len(format) /\ entry.kind \in Data /\ command = "ASSERT_EQUAL"
      /\ done' = done + 1 /\ format' = format /\ command' = command
      /\ differing' = differing
  BY DEF CompareBytes, CompareWords, Compare, At, Advance, givenVars, Data
<1>2. /\ done \in Nat /\ format[done + 1].kind \in Data /\ entry = format[done + 1]
      /\ entry \in FormatEntry /\ offset \in Nat
      /\ span = Positions(offset, EntryBytes(entry))
  BY <1>1, NextEntry
<1>3. PICK positions :
        /\ read' = read \cup positions
        /\ equal' = (equal /\ positions \cap differing = {})
        /\ positions \subseteq span
        /\ entry.kind \in Words \/ (entry.kind = "byte" /\ done = 0) => positions = span
  <2>1. CASE CompareBytes
    <3>1. entry.kind = "byte" /\ EntryBytes(entry) = entry.count /\ entry.count \in Nat
      BY <2>1, <1>2 DEF CompareBytes, At, EntryBytes, FormatEntry
    <3>2. done = 0 => offset = 0
      BY BytesBeforeAdds DEF WalkInv
    <3>3. /\ offset .. (entry.count - 1) \subseteq span
          /\ done = 0 => offset .. (entry.count - 1) = span
      BY <1>2, <3>1, <3>2 DEF Positions
    <3>4. /\ read' = read \cup (offset .. (entry.count - 1))
          /\ equal' = (equal /\ (offset .. (entry.count - 1)) \cap differing = {})
      BY <2>1 DEF CompareBytes, Compare
    <3> QED
      BY <3>1, <3>3, <3>4 DEF Words
  <2>2. CASE CompareWords
    <3>1. EntryBytes(entry) = 4 * entry.count
      BY <2>2 DEF CompareWords, At, EntryBytes, Words
    <3>2. /\ read' = read \cup Positions(offset, 4 * entry.count)
          /\ equal' = (equal /\ Positions(offset, 4 * entry.count) \cap differing = {})
      BY <2>2 DEF CompareWords, Compare
    <3> QED
      BY <1>2, <3>1, <3>2
  <2> QED
    BY <2>1, <2>2
<1>4. CoveredBy(format, done + 1, Data) = CoveredBy(format, done, Data) \cup span
  BY <1>2, CoveredByOneMore
<1>5. 1 .. (done + 1) = (1 .. done) \cup {done + 1}
  BY <1>2
<1>6. command' # "DUMP_BUFFER_TEXT" /\ read' \subseteq CoveredBy(format', done', Data)
  BY <1>1, <1>3, <1>4 DEF ComparedInv
<1>7. ~equal' => differing' \cap CoveredBy(format', done', Data) # {}
  <2> HIDE DEF span
  <2> QED
    BY <1>1, <1>3, <1>4 DEF ComparedInv
<1>8. ASSUME NEW i \in 1 .. done',
             format'[i].kind \in Words \/ (format'[i].kind = "byte" /\ i = 1),
             Span(format', i) \cap differing' # {}
      PROVE  ~equal'
  <2>1. CASE i \in 1 .. done
    <3>1. ~equal
      BY <1>1, <1>8, <2>1 DEF ComparedInv
    <3> QED
      BY <3>1, <1>3
  <2>2. CASE i = done + 1
    <3>1. positions = span
      BY <1>1, <1>2, <1>3, <1>8, <2>2
    <3>2. span \cap differing # {}
      BY <1>1, <1>8, <2>2
    <3> QED
      BY <1>3, <3>1, <3>2
  <2> QED
    BY <1>1, <1>5, <2>1, <2>2
<1> QED
  BY <1>6, <1>7, <1>8 DEF ComparedInv

\* ... or printed, and then there is nothing to compare with.
LEMMA DumpKeepsCompared ==
    ASSUME WalkInv, ComparedInv, DumpBytes \/ DumpWords
    PROVE  ComparedInv'
<1>1. /\ done < Len(format) /\ entry.kind \in Data /\ command = "DUMP_BUFFER_TEXT"
      /\ done' = done + 1 /\ format' = format /\ command' = command
      /\ differing' = differing /\ equal' = equal
  BY DEF DumpBytes, DumpWords, DumpEntry, At, Advance, givenVars, Data
<1>2. /\ done \in Nat /\ format[done + 1].kind \in Data
      /\ Span(format, done + 1) = Positions(offset, EntryBytes(entry))
  BY <1>1, NextEntry
<1>3. read' = read \cup Span(format, done + 1)
  <2>1. CASE DumpBytes
    <3>1. EntryBytes(entry) = entry.count /\ 1 * entry.count = entry.count
      BY <2>1, <1>1, NextEntry DEF DumpBytes, At, EntryBytes, FormatEntry
    <3>2. read' = read \cup Positions(offset, 1 * entry.count)
      BY <2>1 DEF DumpBytes, DumpEntry
    <3> QED
      BY <1>2, <3>1, <3>2
  <2>2. CASE DumpWords
    BY <2>2, <1>2 DEF DumpWords, DumpEntry, At, EntryBytes, Words
  <2> QED
    BY <2>1, <2>2
<1>4. CoveredBy(format, done + 1, Data)
        = CoveredBy(format, done, Data) \cup Span(format, done + 1)
  BY <1>2, CoveredByOneMore
<1>5. differing = {}
  BY <1>1 DEF ComparedInv
<1> QED
  BY <1>1, <1>3, <1>4, <1>5 DEF ComparedInv

\* Each entry, compared or skipped, keeps the comparison true to the bytes covered.
LEMMA ComparedGoesOn ==
    ASSUME WalkInv, ComparedInv, [FormattedNext]_formattedVars PROVE ComparedInv'
<1>1. CASE UNCHANGED formattedVars
  BY <1>1 DEF ComparedInv, formattedVars, givenVars
<1> QED
  BY <1>1, SkipKeepsCompared, CompareKeepsCompared, DumpKeepsCompared DEF FormattedNext

\* The two hold throughout.
LEMMA ComparedAlways == FormattedSpec => [](WalkInv /\ ComparedInv)
<1>1. FormattedInit => WalkInv /\ ComparedInv
  BY WalkStart, ComparedStart
<1>2. WalkInv /\ ComparedInv /\ [FormattedNext]_formattedVars => (WalkInv /\ ComparedInv)'
  BY WalkGoesOn, ComparedGoesOn
<1> QED
  BY <1>1, <1>2, PTL DEF FormattedSpec

\* Covered speaks of the format that is being walked.
LEMMA CoveredIsCoveredBy ==
    ASSUME NEW kinds PROVE Covered(kinds) = CoveredBy(format, done, kinds)
BY DEF Covered, Processed, Extent, CoveredBy, Span

\* Neither command reads outside of its buffers.
THEOREM BuffersAreReadWithin == FormattedSpec => []ReadsStayInBuffers
<1>1. ASSUME WalkInv, ComparedInv PROVE ReadsStayInBuffers
  <2>1. /\ done \in 0 .. Len(format) /\ Len(format) \in Nat
        /\ done + 1 \in 1 .. Len(format) + 1
        /\ Len(format) + 1 \in (done + 1) .. Len(format) + 1
        /\ Len(format) + 1 \in 1 .. Len(format) + 1
    BY <1>1 DEF WalkInv
  <2>2. offset \in Nat /\ size \in Nat /\ offset <= size
    BY <1>1, <2>1, BytesBeforeAdds, BytesBeforeGrows DEF WalkInv, FormatBytes
  <2>3. read \subseteq Positions(0, offset)
    BY <1>1, <2>1, CoveredLiesBefore DEF ComparedInv, WalkInv
  <2>4. Positions(0, offset) \subseteq Positions(0, size)
    BY <2>2 DEF Positions
  <2> QED
    BY <2>1, <2>2, <2>3, <2>4 DEF ReadsStayInBuffers
<1> QED
  BY <1>1, ComparedAlways, PTL

\* What SKIP_BYTES stands for is neither read nor compared.
THEOREM SkippedBytesHaveNoEffect == FormattedSpec => []SkippedBytesAreIgnored
<1>1. ASSUME WalkInv, ComparedInv PROVE SkippedBytesAreIgnored
  BY <1>1, CoveredIsCoveredBy DEF ComparedInv, SkippedBytesAreIgnored, Data
<1> QED
  BY <1>1, ComparedAlways, PTL

\* A difference within words, or within bytes at the start, is never missed.
THEOREM EveryDifferenceIsReported == FormattedSpec => []DifferencesAreReported
<1>1. ASSUME WalkInv, ComparedInv PROVE DifferencesAreReported
  BY <1>1 DEF ComparedInv, DifferencesAreReported, Processed, Extent, Span
<1> QED
  BY <1>1, ComparedAlways, PTL

-----------------------------------------------------------------------------
\* What a dump has written, of a sequence of values that is given.
Value == [at : Nat, bytes : {1, 4}]
BytesOf(values) == UNION {Positions(values[k].at, values[k].bytes) : k \in 1 .. Len(values)}
InOrder(values) ==
    \A k \in 2 .. Len(values) : values[k - 1].at + values[k - 1].bytes <= values[k].at
EndBy(values, end) == \A k \in 1 .. Len(values) : values[k].at + values[k].bytes <= end

\* The values of one entry.
ValuesFrom(from, width, count) ==
    [i \in 1 .. count |-> [at |-> from + width * (i - 1), bytes |-> width]]

\* The values of an entry take up its bytes, one behind the other.
LEMMA ValuesOfAnEntry ==
    ASSUME NEW from \in Nat, NEW width \in {1, 4}, NEW count \in Nat
    PROVE  LET values == ValuesFrom(from, width, count)
           IN  /\ values \in Seq(Value) /\ Len(values) = count
               /\ BytesOf(values) = Positions(from, width * count)
               /\ InOrder(values)
               /\ EndBy(values, from + width * count)
               /\ \A k \in 1 .. count : from <= values[k].at
<1> DEFINE values == ValuesFrom(from, width, count)
<1>1. /\ width = 1 \/ width = 4
      /\ \A i \in 1 .. count : values[i] = [at |-> from + width * (i - 1), bytes |-> width]
  BY DEF ValuesFrom
<1>2. /\ \A i \in 1 .. count : values[i].at = from + width * (i - 1)
      /\ \A i \in 1 .. count : values[i].bytes = width
  <2> SUFFICES ASSUME NEW i \in 1 .. count
               PROVE  values[i].at = from + width * (i - 1) /\ values[i].bytes = width
    OBVIOUS
  <2>1. values[i] = [at |-> from + width * (i - 1), bytes |-> width]
    BY <1>1
  <2> HIDE DEF values
  <2> QED
    BY <2>1
<1>3. values \in Seq(Value) /\ Len(values) = count
  <2>1. \A i \in 1 .. count : [at |-> from + width * (i - 1), bytes |-> width] \in Value
    BY <1>1 DEF Value
  <2>2. values \in [1 .. count -> Value]
    BY <2>1 DEF ValuesFrom
  <2> QED
    BY <2>2
<1> HIDE DEF values
<1>4. BytesOf(values) = Positions(from, width * count)
  <2>1. ASSUME NEW x, x \in BytesOf(values) PROVE x \in Positions(from, width * count)
    <3>1. PICK k \in 1 .. count : x \in Positions(values[k].at, values[k].bytes)
      BY <1>3, <2>1 DEF BytesOf
    <3>2. x \in Positions(from + width * (k - 1), width)
      BY <1>2, <3>1
    <3> QED
      BY <1>1, <3>2 DEF Positions
  <2>2. ASSUME NEW x \in Positions(from, width * count) PROVE x \in BytesOf(values)
    <3>1. x \in Int /\ from <= x /\ x <= from + width * count - 1
      BY <1>1 DEF Positions
    <3>2. PICK k \in 1 .. count : x \in Positions(from + width * (k - 1), width)
      <4>1. CASE width = 1
        <5>1. (x - from) + 1 \in 1 .. count
          BY <3>1, <4>1
        <5>2. x \in Positions(from + width * (((x - from) + 1) - 1), width)
          BY <3>1, <4>1 DEF Positions
        <5> QED
          BY <5>1, <5>2
      <4>2. CASE width = 4
        <5> DEFINE k == ((x - from) \div 4) + 1
        <5>1. k \in 1 .. count
          BY <3>1, <4>2
        <5>2. from + 4 * (k - 1) <= x /\ x <= from + 4 * (k - 1) + 3 /\ k \in Int
          BY <3>1, <4>2
        <5> HIDE DEF k
        <5>3. x \in Positions(from + width * (k - 1), width)
          BY <3>1, <4>2, <5>2 DEF Positions
        <5> QED
          BY <5>1, <5>3
      <4> QED
        BY <1>1, <4>1, <4>2
    <3>3. x \in Positions(values[k].at, values[k].bytes)
      BY <1>2, <3>2
    <3> QED
      BY <1>3, <3>3 DEF BytesOf
  <2> QED
    BY <2>1, <2>2
<1>5. InOrder(values)
  <2> SUFFICES ASSUME NEW k \in 2 .. count
               PROVE  values[k - 1].at + values[k - 1].bytes <= values[k].at
    BY <1>3 DEF InOrder
  <2>1. /\ values[k].at = from + width * (k - 1)
        /\ values[k - 1].at = from + width * ((k - 1) - 1) /\ values[k - 1].bytes = width
    BY <1>2
  <2> QED
    BY <1>1, <2>1
<1>6. ASSUME NEW k \in 1 .. count
      PROVE  /\ values[k].at + values[k].bytes <= from + width * count
             /\ from <= values[k].at
  <2>1. values[k].at = from + width * (k - 1) /\ values[k].bytes = width
    BY <1>2
  <2> QED
    BY <1>1, <2>1
<1> QED
  BY <1>3, <1>4, <1>5, <1>6 DEF EndBy, values

\* Values behind others.
LEMMA ValuesAppended ==
    ASSUME NEW p \in Seq(Value), NEW q \in Seq(Value), NEW from \in Nat, NEW end \in Nat,
           InOrder(p), EndBy(p, from), InOrder(q), EndBy(q, end), from <= end,
           \A k \in 1 .. Len(q) : from <= q[k].at
    PROVE  /\ p \o q \in Seq(Value)
           /\ BytesOf(p \o q) = BytesOf(p) \cup BytesOf(q)
           /\ InOrder(p \o q)
           /\ EndBy(p \o q, end)
<1> DEFINE both == p \o q
<1>1. /\ both \in Seq(Value) /\ Len(both) = Len(p) + Len(q)
      /\ Len(p) \in Nat /\ Len(q) \in Nat
      /\ \A k \in 1 .. Len(p) : both[k] = p[k]
      /\ \A k \in 1 .. Len(q) : both[Len(p) + k] = q[k]
      /\ \A k \in 1 .. Len(p) : p[k].at \in Nat /\ p[k].bytes \in Nat
      /\ \A k \in 1 .. Len(q) : q[k].at \in Nat /\ q[k].bytes \in Nat
  <2>1. \A v \in Value : v.at \in Nat /\ v.bytes \in Nat
    BY DEF Value
  <2> QED
    BY <2>1
<1> HIDE DEF both
<1>2. ASSUME NEW k \in 1 .. Len(both)
      PROVE  \/ k \in 1 .. Len(p) /\ both[k] = p[k]
             \/ k - Len(p) \in 1 .. Len(q) /\ both[k] = q[k - Len(p)]
  <2>1. CASE k \in 1 .. Len(p)
    BY <1>1, <2>1
  <2>2. CASE k \notin 1 .. Len(p)
    <3>1. k - Len(p) \in 1 .. Len(q) /\ Len(p) + (k - Len(p)) = k
      BY <1>1, <2>2
    <3>2. both[Len(p) + (k - Len(p))] = q[k - Len(p)]
      BY <1>1, <3>1
    <3> QED
      BY <3>1, <3>2
  <2> QED
    BY <2>1, <2>2
<1>3. BytesOf(both) = BytesOf(p) \cup BytesOf(q)
  <2>1. ASSUME NEW x, x \in BytesOf(both) PROVE x \in BytesOf(p) \cup BytesOf(q)
    BY <1>2, <2>1 DEF BytesOf
  <2>2. ASSUME NEW x, x \in BytesOf(p) PROVE x \in BytesOf(both)
    <3>1. PICK k \in 1 .. Len(p) : x \in Positions(p[k].at, p[k].bytes)
      BY <2>2 DEF BytesOf
    <3>2. k \in 1 .. Len(both) /\ x \in Positions(both[k].at, both[k].bytes)
      BY <1>1, <3>1
    <3> QED
      BY <3>2 DEF BytesOf
  <2>3. ASSUME NEW x, x \in BytesOf(q) PROVE x \in BytesOf(both)
    <3>1. PICK k \in 1 .. Len(q) : x \in Positions(q[k].at, q[k].bytes)
      BY <2>3 DEF BytesOf
    <3>2. /\ Len(p) + k \in 1 .. Len(both)
          /\ x \in Positions(both[Len(p) + k].at, both[Len(p) + k].bytes)
      BY <1>1, <3>1
    <3> QED
      BY <3>2 DEF BytesOf
  <2> QED
    BY <2>1, <2>2, <2>3
<1>4. ASSUME NEW k \in 1 .. Len(both) PROVE both[k].at + both[k].bytes <= end
  <2>1. CASE k \in 1 .. Len(p) /\ both[k] = p[k]
    <3>1. p[k].at + p[k].bytes <= from /\ (p[k].at + p[k].bytes) \in Nat
      BY <1>1, <2>1 DEF EndBy
    <3> QED
      BY <2>1, <3>1
  <2>2. CASE k - Len(p) \in 1 .. Len(q) /\ both[k] = q[k - Len(p)]
    BY <2>2 DEF EndBy
  <2> QED
    BY <1>2, <2>1, <2>2
<1>5. ASSUME NEW k \in 2 .. Len(both)
      PROVE  both[k - 1].at + both[k - 1].bytes <= both[k].at
  <2>1. CASE k \in 1 .. Len(p)
    BY <1>1, <2>1 DEF InOrder
  <2>2. CASE k = Len(p) + 1
    <3>1. both[k - 1] = p[k - 1] /\ both[k] = q[1] /\ k - 1 \in 1 .. Len(p) /\ 1 \in 1 .. Len(q)
      BY <1>1, <2>2
    <3>2. p[k - 1].at + p[k - 1].bytes <= from /\ from <= q[1].at
      BY <3>1 DEF EndBy
    <3>3. (p[k - 1].at + p[k - 1].bytes) \in Nat /\ q[1].at \in Nat
      BY <1>1, <3>1
    <3> QED
      BY <3>1, <3>2, <3>3
  <2>3. CASE k > Len(p) + 1
    <3> DEFINE j == k - Len(p)
    <3>1. /\ j \in 2 .. Len(q) /\ j \in 1 .. Len(q) /\ j - 1 \in 1 .. Len(q)
          /\ Len(p) + j = k /\ Len(p) + (j - 1) = k - 1
      BY <1>1, <2>3
    <3> HIDE DEF j
    <3>2. both[Len(p) + j] = q[j] /\ both[Len(p) + (j - 1)] = q[j - 1]
      BY <1>1, <3>1
    <3>3. q[j - 1].at + q[j - 1].bytes <= q[j].at
      BY <3>1 DEF InOrder
    <3> QED
      BY <3>1, <3>2, <3>3
  <2> QED
    BY <1>1, <2>1, <2>2, <2>3
<1> QED
  BY <1>1, <1>3, <1>4, <1>5 DEF InOrder, EndBy, both

\* What a dump has written ends where the next entry begins.
PrintedInv ==
    command = "DUMP_BUFFER_TEXT" =>
        /\ printed \in Seq(Value)
        /\ BytesOf(printed) = CoveredBy(format, done, Data)
        /\ InOrder(printed)
        /\ EndBy(printed, offset)

\* Before the first entry nothing is printed.
LEMMA PrintedStart ==
    ASSUME FormattedInit PROVE PrintedInv
<1>1. printed = <<>> /\ done = 0
  BY DEF FormattedInit
<1>2. CoveredBy(format, 0, Data) = {}
  BY DEF CoveredBy
<1>3. printed \in Seq(Value) /\ BytesOf(printed) = {} /\ Len(printed) = 0
  BY <1>1 DEF BytesOf
<1>4. InOrder(printed) /\ EndBy(printed, offset)
  BY <1>3 DEF InOrder, EndBy
<1>5. BytesOf(printed) = CoveredBy(format, done, Data)
  BY <1>1, <1>2, <1>3
<1> QED
  BY <1>3, <1>4, <1>5 DEF PrintedInv

\* An entry that prints nothing leaves what is printed.
LEMMA SkipKeepsPrinted ==
    ASSUME WalkInv, PrintedInv, SkipBytes \/ PutString
    PROVE  PrintedInv'
<1>1. /\ done < Len(format) /\ entry.kind \in {"SKIP_BYTES", "string"}
      /\ done' = done + 1 /\ format' = format /\ command' = command /\ printed' = printed
  BY DEF SkipBytes, PutString, At, Advance, givenVars
<1>2. FormattedNext
  BY DEF FormattedNext
<1>3. /\ done \in Nat /\ format[done + 1].kind \notin Data
      /\ offset' \in Nat /\ offset \in Nat /\ offset <= offset'
  BY <1>1, <1>2, NextEntry, ProcessesAnEntry DEF Data, Words, Advance
<1>4. CoveredBy(format, done + 1, Data) = CoveredBy(format, done, Data)
  BY <1>3, CoveredByOneMore
<1>5. ASSUME command = "DUMP_BUFFER_TEXT" PROVE EndBy(printed, offset')
  <2>1. printed \in Seq(Value) /\ EndBy(printed, offset)
    BY <1>5 DEF PrintedInv
  <2> SUFFICES ASSUME NEW k \in 1 .. Len(printed)
               PROVE  printed[k].at + printed[k].bytes <= offset'
    BY DEF EndBy
  <2>2. printed[k] \in Value
    BY <2>1
  <2>3. (printed[k].at + printed[k].bytes) \in Nat
    BY <2>2 DEF Value
  <2>4. printed[k].at + printed[k].bytes <= offset
    BY <2>1 DEF EndBy
  <2> QED
    BY <1>3, <2>3, <2>4
<1>6. EndBy(printed, offset)' <=> EndBy(printed, offset')
  BY <1>1 DEF EndBy
<1> QED
  BY <1>1, <1>4, <1>5, <1>6 DEF PrintedInv

\* An entry that is dumped appends its bytes.
LEMMA DumpKeepsPrinted ==
    ASSUME WalkInv, PrintedInv, NEW width \in {1, 4},
           done < Len(format), entry.kind \in Data, EntryBytes(entry) = width * entry.count,
           DumpEntry(width), Advance(EntryBytes(entry))
    PROVE  PrintedInv'
<1> DEFINE more == ValuesFrom(offset, width, entry.count)
           end == offset + width * entry.count
<1>1. /\ command = "DUMP_BUFFER_TEXT" /\ command' = command /\ format' = format
      /\ done' = done + 1 /\ offset' = offset + EntryBytes(entry)
      /\ printed' = printed \o more
  BY DEF DumpEntry, Advance, givenVars, ValuesFrom
<1>2. /\ done \in Nat /\ format[done + 1].kind \in Data /\ entry \in FormatEntry
      /\ offset \in Nat /\ EntryBytes(entry) \in Nat
      /\ Span(format, done + 1) = Positions(offset, width * entry.count)
  BY NextEntry
<1>3. entry.count \in Nat /\ end \in Nat /\ offset <= end
  BY <1>2 DEF FormatEntry
<1>4. /\ more \in Seq(Value) /\ Len(more) = entry.count
      /\ BytesOf(more) = Positions(offset, width * entry.count)
      /\ InOrder(more) /\ EndBy(more, end)
      /\ \A k \in 1 .. entry.count : offset <= more[k].at
  BY <1>2, <1>3, ValuesOfAnEntry
<1>5. /\ printed \in Seq(Value) /\ BytesOf(printed) = CoveredBy(format, done, Data)
      /\ InOrder(printed) /\ EndBy(printed, offset)
  BY <1>1 DEF PrintedInv
<1>6. \A k \in 1 .. Len(more) : offset <= more[k].at
  BY <1>4
<1>7. /\ printed \o more \in Seq(Value)
      /\ BytesOf(printed \o more) = BytesOf(printed) \cup BytesOf(more)
      /\ InOrder(printed \o more)
      /\ EndBy(printed \o more, end)
  <2> HIDE DEF more, end
  <2> QED
    BY <1>2, <1>3, <1>4, <1>5, <1>6, ValuesAppended
<1>8. CoveredBy(format, done + 1, Data)
        = CoveredBy(format, done, Data) \cup Span(format, done + 1)
  BY <1>2, CoveredByOneMore
<1>9. offset' = end
  BY <1>1
<1> HIDE DEF more, end
<1>10. /\ printed' \in Seq(Value)
       /\ BytesOf(printed') = CoveredBy(format', done', Data)
       /\ InOrder(printed') /\ EndBy(printed', offset')
  BY <1>1, <1>2, <1>4, <1>5, <1>7, <1>8, <1>9
<1> QED
  BY <1>10 DEF PrintedInv

\* Each entry keeps what is printed in order and complete.
LEMMA PrintedGoesOn ==
    ASSUME WalkInv, PrintedInv, [FormattedNext]_formattedVars PROVE PrintedInv'
<1>1. CASE UNCHANGED formattedVars
  BY <1>1 DEF PrintedInv, formattedVars, givenVars
<1>2. CASE SkipBytes \/ PutString
  BY <1>2, SkipKeepsPrinted
<1>3. CASE CompareBytes \/ CompareWords
  <2>1. command' # "DUMP_BUFFER_TEXT"
    BY <1>3 DEF CompareBytes, CompareWords, Compare, Advance, givenVars
  <2> QED
    BY <2>1 DEF PrintedInv
<1>4. CASE DumpBytes
  <2>1. done < Len(format) /\ Advance(EntryBytes(entry)) /\ entry \in FormatEntry
    BY <1>4, ProcessesAnEntry, NextEntry DEF FormattedNext
  <2>2. /\ entry.kind \in Data /\ DumpEntry(1)
        /\ EntryBytes(entry) = entry.count
    BY <1>4 DEF DumpBytes, At, EntryBytes, Data
  <2>3. EntryBytes(entry) = 1 * entry.count
    BY <2>1, <2>2 DEF FormatEntry
  <2> QED
    BY <2>1, <2>2, <2>3, DumpKeepsPrinted
<1>5. CASE DumpWords
  <2>1. done < Len(format) /\ Advance(EntryBytes(entry))
    BY <1>5, ProcessesAnEntry DEF FormattedNext
  <2>2. /\ entry.kind \in Data /\ DumpEntry(4)
        /\ EntryBytes(entry) = 4 * entry.count
    BY <1>5 DEF DumpWords, At, EntryBytes, Data, Words
  <2> QED
    BY <2>1, <2>2, DumpKeepsPrinted
<1> QED
  BY <1>1, <1>2, <1>3, <1>4, <1>5 DEF FormattedNext

\* A dump prints every byte of its data entries once, and in order.
THEOREM DumpsPrintOnceInOrder == FormattedSpec => []DumpedOnceInOrder
<1>1. FormattedInit => WalkInv /\ PrintedInv
  BY WalkStart, PrintedStart
<1>2. WalkInv /\ PrintedInv /\ [FormattedNext]_formattedVars => (WalkInv /\ PrintedInv)'
  BY WalkGoesOn, PrintedGoesOn
<1>3. ASSUME PrintedInv PROVE DumpedOnceInOrder
  <2> SUFFICES ASSUME command = "DUMP_BUFFER_TEXT"
               PROVE  /\ UNION {Positions(printed[k].at, printed[k].bytes) :
                                  k \in DOMAIN printed}
                            = Covered(Words \cup {"byte"})
                      /\ \A k \in 2 .. Len(printed) :
                           printed[k - 1].at + printed[k - 1].bytes <= printed[k].at
    BY DEF DumpedOnceInOrder
  <2>1. /\ printed \in Seq(Value) /\ InOrder(printed)
        /\ BytesOf(printed) = CoveredBy(format, done, Data)
    BY <1>3 DEF PrintedInv
  <2>2. DOMAIN printed = 1 .. Len(printed)
    BY <2>1
  <2>3. UNION {Positions(printed[k].at, printed[k].bytes) : k \in DOMAIN printed}
          = BytesOf(printed)
    BY <2>2 DEF BytesOf
  <2> QED
    BY <2>1, <2>3, CoveredIsCoveredBy DEF Data, InOrder
<1> QED
  BY <1>1, <1>2, <1>3, PTL DEF FormattedSpec

-----------------------------------------------------------------------------
(***************************************************************************)
(* The least cost of moving.  Cut off at a bin, each image is as the loop  *)
(* over the bins has seen it: the cost of moving the one to the other      *)
(* grows with each bin by the number of pixels moved across it.            *)
(***************************************************************************)
Least(n, m) == IF n < m THEN n ELSE m

\* How far the pixel at p is moved, in the bins before "below".
Moved(one, other, moves, below) ==
    [p \in Pixels |-> Size(Least(one[p], below) - Least(other[moves[p]], below))]

Values == [Pixels -> 0 .. NumBins - 1]
Moves == Bijection(Pixels, Pixels)

Total(g) == MapThenSumSet(LAMBDA p : g[p], Pixels)

\* The fold of the library is a sum of numbers.
LEMMA TotalIsASum ==
    ASSUME NEW g \in [Pixels -> Nat]
    PROVE  \E sum : SumsUp(sum, g, SUBSET Pixels) /\ Total(g) = sum[Pixels]
<1> DEFINE Body(f) == [s \in SUBSET Pixels |->
                         IF s = {} THEN 0 ELSE g[FirstOf(s)] + f[s \ {FirstOf(s)}]]
           sum == CHOOSE f : f = Body(f)
<1>1. PICK any \in [SUBSET Pixels -> Nat] : SumsUp(any, g, SUBSET Pixels)
  BY PixelsAssumption, SumExists
<1>2. any = Body(any)
  BY <1>1 DEF SumsUp
<1>3. sum = Body(sum)
  <2> HIDE DEF Body
  <2> QED
    BY <1>2, Zenon
<1>4. Total(g) = sum[Pixels]
  BY Zenon DEF Total, MapThenSumSet, MapThenFoldSet, FirstOf
<1>5. SumsUp(sum, g, SUBSET Pixels)
  <2> HIDE DEF sum
  <2> QED
    BY <1>3 DEF SumsUp
<1> QED
  BY <1>4, <1>5

\* The cost of moving is the total of what the pixels are moved.
LEMMA CostIsTheTotal ==
    ASSUME NEW moves \in Moves, NEW c, first[c] \in Values, second[c] \in Values
    PROVE  CostOfMoving(moves, c) = Total(Moved(first[c], second[c], moves, NumBins))
<1> DEFINE g == Moved(first[c], second[c], moves, NumBins)
           Far(p) == Size(first[c][p] - second[c][moves[p]])
           Body(f) == [s \in SUBSET Pixels |->
                         IF s = {} THEN 0 ELSE Far(FirstOf(s)) + f[s \ {FirstOf(s)}]]
           Other(f) == [s \in SUBSET Pixels |->
                         IF s = {} THEN 0 ELSE g[FirstOf(s)] + f[s \ {FirstOf(s)}]]
<1>1. moves \in [Pixels -> Pixels]
  BY DEF Moves, Bijection, Injection
<1>2. \A p \in Pixels : g[p] = Far(p)
  <2> SUFFICES ASSUME NEW p \in Pixels PROVE g[p] = Far(p)
    OBVIOUS
  <2>1. first[c][p] \in 0 .. NumBins - 1 /\ second[c][moves[p]] \in 0 .. NumBins - 1
    BY <1>1 DEF Values
  <2>2. /\ Least(first[c][p], NumBins) = first[c][p]
        /\ Least(second[c][moves[p]], NumBins) = second[c][moves[p]]
    BY <2>1, NumBinsAssumption DEF Least
  <2> QED
    BY <2>2 DEF Moved
<1>3. \A f : Body(f) = Other(f)
  <2> SUFFICES ASSUME NEW f PROVE Body(f) = Other(f)
    OBVIOUS
  <2>1. \A s \in SUBSET Pixels : s # {} => g[FirstOf(s)] = Far(FirstOf(s))
    BY <1>2 DEF FirstOf
  <2> HIDE DEF g, Far
  <2> QED
    BY <2>1
<1>4. CostOfMoving(moves, c) = (CHOOSE f : f = Body(f))[Pixels]
  BY Zenon DEF CostOfMoving, MapThenSumSet, MapThenFoldSet, FirstOf
<1>5. Total(g) = (CHOOSE f : f = Other(f))[Pixels]
  <2> HIDE DEF g
  <2> QED
    BY Zenon DEF Total, MapThenSumSet, MapThenFoldSet, FirstOf
<1>6. (CHOOSE f : f = Body(f)) = (CHOOSE f : f = Other(f))
  <2> HIDE DEF Body, Other
  <2> QED
    BY <1>3, Zenon
<1> HIDE DEF g, Body, Other
<1> QED
  BY <1>4, <1>5, <1>6, Zenon DEF g

\* A sum to which 1 is added for some of the pixels.
LEMMA SumOfMore ==
    ASSUME NEW S, IsFiniteSet(S), NEW g \in [S -> Nat], NEW k \in [S -> Nat], NEW X \in SUBSET S,
           \A p \in S : k[p] = g[p] + (IF p \in X THEN 1 ELSE 0),
           NEW f, NEW h, SumsUp(f, g, SUBSET S), SumsUp(h, k, SUBSET S)
    PROVE  h[S] = f[S] + Cardinality(X) /\ f[S] \in Nat
<1> DEFINE Z == {s \in SUBSET S : h[s] = f[s] + Cardinality(s \cap X)}
<1>1. {} \in Z
  <2>1. h[{}] = 0 /\ f[{}] = 0
    BY DEF SumsUp
  <2>2. {} \cap X = {} /\ Cardinality({}) = 0
    BY FS_EmptySet
  <2>3. Cardinality({} \cap X) = 0
    BY <2>2, Zenon
  <2> QED
    BY <2>1, <2>3
<1>2. ASSUME NEW s \in SUBSET S, NEW y \in S \ s, s \in Z PROVE s \cup {y} \in Z
  <2> DEFINE t == s \cup {y}
  <2>1. t \in SUBSET S /\ y \in t /\ t \ {y} = s
    OBVIOUS
  <2>2. f[t] = g[y] + f[s] /\ h[t] = k[y] + h[s]
    <3>1. TakesAny(f, g, SUBSET S) /\ TakesAny(h, k, SUBSET S)
      BY SumTakesAny
    <3> HIDE DEF t
    <3> QED
      BY <2>1, <3>1 DEF TakesAny
  <2>3. f[s] \in Nat /\ h[s] \in Nat
    BY SumTyped
  <2>4. IsFiniteSet(s \cap X) /\ Cardinality(s \cap X) \in Nat
    <3>1. s \cap X \in SUBSET S
      OBVIOUS
    <3> QED
      BY <3>1, SubsetsAreFinite
  <2>5. Cardinality(t \cap X) = Cardinality(s \cap X) + (IF y \in X THEN 1 ELSE 0)
    <3>1. CASE y \in X
      <4>1. t \cap X = (s \cap X) \cup {y} /\ y \notin s \cap X
        BY <3>1
      <4> QED
        BY <2>4, <3>1, <4>1, FS_AddElement
    <3>2. CASE y \notin X
      <4>1. t \cap X = s \cap X
        BY <3>2
      <4>2. Cardinality(t \cap X) = Cardinality(s \cap X)
        BY <4>1, Zenon
      <4> HIDE DEF t
      <4> QED
        BY <2>4, <3>2, <4>2
    <3> QED
      BY <3>1, <3>2
  <2>6. k[y] = g[y] + (IF y \in X THEN 1 ELSE 0) /\ g[y] \in Nat
    OBVIOUS
  <2>7. h[s] = f[s] + Cardinality(s \cap X)
    BY <1>2
  <2>8. h[t] = f[t] + Cardinality(t \cap X)
    <3> HIDE DEF t
    <3> QED
      BY <2>2, <2>3, <2>4, <2>5, <2>6, <2>7
  <2> QED
    BY <2>1, <2>8
<1>3. S \in Z
  <2>1. S \in SUBSET S
    OBVIOUS
  <2> HIDE DEF Z
  <2> QED
    BY <1>1, <1>2, <2>1, SetsInduction
<1>4. S \cap X = X
  OBVIOUS
<1>5. f[S] \in Nat
  <2>1. S \in SUBSET S
    OBVIOUS
  <2> QED
    BY <2>1, SumTyped
<1> QED
  BY <1>3, <1>4, <1>5

-----------------------------------------------------------------------------
Below(image, bound) == {p \in Pixels : image[p] < bound}
MovedBelow(image, moves, bound) == {p \in Pixels : image[moves[p]] < bound}

\* The pixels that are moved over the end of a bin.
Across(X, Y) == (X \ Y) \cup (Y \ X)

\* As many more are in one set as in the other are in only one of them, at least.
LEMMA AcrossAtLeast ==
    ASSUME NEW X, NEW Y, IsFiniteSet(X), IsFiniteSet(Y)
    PROVE  /\ Cardinality(X) \in Nat /\ Cardinality(Y) \in Nat
           /\ Cardinality(Across(X, Y)) \in Nat
           /\ Size(Cardinality(X) - Cardinality(Y)) <= Cardinality(Across(X, Y))
           /\ X \subseteq Y \/ Y \subseteq X =>
                Size(Cardinality(X) - Cardinality(Y)) = Cardinality(Across(X, Y))
<1> DEFINE a == Cardinality(X \ Y)
           b == Cardinality(Y \ X)
           both == Cardinality(X \cap Y)
<1>1. Cardinality(X) \in Nat /\ Cardinality(Y) \in Nat /\ both \in Nat
  BY FS_CardinalityType, FS_Intersection
<1>2. IsFiniteSet(X \ Y) /\ a = Cardinality(X) - both /\ a \in Nat
  BY FS_Difference, FS_CardinalityType
<1>3. IsFiniteSet(Y \ X) /\ b = Cardinality(Y) - both /\ b \in Nat
  <2>1. Y \cap X = X \cap Y
    OBVIOUS
  <2> QED
    BY <2>1, FS_Difference, FS_CardinalityType
<1>4. Cardinality(Across(X, Y)) = a + b
  <2>1. (X \ Y) \cap (Y \ X) = {} /\ Cardinality({}) = 0
    BY FS_EmptySet
  <2>2. Cardinality((X \ Y) \cap (Y \ X)) = 0
    BY <2>1, Zenon
  <2>3. Cardinality((X \ Y) \cup (Y \ X)) = a + b - Cardinality((X \ Y) \cap (Y \ X))
    BY <1>2, <1>3, FS_Union
  <2> QED
    BY <1>2, <1>3, <2>2, <2>3 DEF Across
<1>5. X \subseteq Y => a = 0
  <2> SUFFICES ASSUME X \subseteq Y PROVE a = 0
    OBVIOUS
  <2>1. X \ Y = {} /\ Cardinality({}) = 0
    BY FS_EmptySet
  <2> QED
    BY <2>1, Zenon
<1>6. Y \subseteq X => b = 0
  <2> SUFFICES ASSUME Y \subseteq X PROVE b = 0
    OBVIOUS
  <2>1. Y \ X = {} /\ Cardinality({}) = 0
    BY FS_EmptySet
  <2> QED
    BY <2>1, Zenon
<1> HIDE DEF a, b, both
<1> QED
  BY <1>1, <1>2, <1>3, <1>4, <1>5, <1>6 DEF Size

\* As many pixels are moved to one below the bound as there are.
LEMMA MovesKeepCounts ==
    ASSUME NEW image \in Values, NEW moves \in Moves, NEW bound
    PROVE  Cardinality(MovedBelow(image, moves, bound)) = Cardinality(Below(image, bound))
<1> DEFINE S == MovedBelow(image, moves, bound)
           T == Below(image, bound)
           there == [p \in S |-> moves[p]]
<1>1. moves \in [Pixels -> Pixels] /\ IsInjective(moves)
      /\ \A t \in Pixels : \E s \in Pixels : moves[s] = t
  BY DEF Moves, Bijection, Injection, Surjection
<1>2. S \subseteq Pixels /\ IsFiniteSet(S)
  BY PixelsAssumption, FS_Subset DEF MovedBelow
<1>3. there \in [S -> T]
  BY <1>1 DEF MovedBelow, Below
<1>4. IsInjective(there)
  BY <1>1, <1>2, <1>3 DEF IsInjective
<1>5. \A t \in T : \E s \in S : there[s] = t
  BY <1>1 DEF MovedBelow, Below
<1>6. ExistsBijection(S, T)
  <2>1. there \in Bijection(S, T)
    BY <1>3, <1>4, <1>5 DEF Bijection, Injection, Surjection
  <2> QED
    BY <2>1 DEF ExistsBijection
<1> HIDE DEF S, T
<1>7. Cardinality(T) = Cardinality(S)
  BY <1>2, <1>6, FS_Bijection
<1> QED
  BY <1>7 DEF S, T

\* One bin more: those moved across its end are moved one further.
LEMMA CostGrows ==
    ASSUME NEW one \in Values, NEW other \in Values, NEW moves \in Moves, NEW below \in Nat
    PROVE  /\ Total(Moved(one, other, moves, below)) \in Nat
           /\ Total(Moved(one, other, moves, below + 1)) =
                Total(Moved(one, other, moves, below))
                  + Cardinality(Across(Below(one, below + 1), MovedBelow(other, moves, below + 1)))
<1> DEFINE g == Moved(one, other, moves, below)
           k == Moved(one, other, moves, below + 1)
           X == Across(Below(one, below + 1), MovedBelow(other, moves, below + 1))
<1>1. moves \in [Pixels -> Pixels]
  BY DEF Moves, Bijection, Injection
<1>2. \A p \in Pixels : one[p] \in Nat /\ other[moves[p]] \in Nat
  BY <1>1 DEF Values
<1>3. \A n, m \in Nat :
        /\ Size(Least(n, below) - Least(m, below)) \in Nat
        /\ Size(Least(n, below + 1) - Least(m, below + 1)) \in Nat
        /\ Size(Least(n, below + 1) - Least(m, below + 1)) =
             Size(Least(n, below) - Least(m, below))
               + (IF (n < below + 1 /\ ~(m < below + 1)) \/ (m < below + 1 /\ ~(n < below + 1))
                  THEN 1 ELSE 0)
  BY DEF Size, Least
<1>4. g \in [Pixels -> Nat] /\ k \in [Pixels -> Nat]
  BY <1>2, <1>3 DEF Moved
<1>5. X \in SUBSET Pixels
  BY DEF Across, Below, MovedBelow
<1>6. \A p \in Pixels : p \in X <=>
        \/ one[p] < below + 1 /\ ~(other[moves[p]] < below + 1)
        \/ other[moves[p]] < below + 1 /\ ~(one[p] < below + 1)
  BY DEF Across, Below, MovedBelow
<1>7. \A p \in Pixels : k[p] = g[p] + (IF p \in X THEN 1 ELSE 0)
  <2> SUFFICES ASSUME NEW p \in Pixels PROVE k[p] = g[p] + (IF p \in X THEN 1 ELSE 0)
    OBVIOUS
  <2>1. /\ k[p] = Size(Least(one[p], below + 1) - Least(other[moves[p]], below + 1))
        /\ g[p] = Size(Least(one[p], below) - Least(other[moves[p]], below))
    BY DEF Moved
  <2> DEFINE n == one[p]
             m == other[moves[p]]
  <2>2. n \in Nat /\ m \in Nat
    BY <1>2
  <2>3. p \in X <=> (n < below + 1 /\ ~(m < below + 1)) \/ (m < below + 1 /\ ~(n < below + 1))
    BY <1>6
  <2> HIDE DEF k, g, X, n, m
  <2> QED
    BY <2>1, <2>2, <2>3, <1>3 DEF n, m
<1> HIDE DEF k, g, X
<1>8. PICK f : SumsUp(f, g, SUBSET Pixels) /\ Total(g) = f[Pixels]
  BY <1>4, TotalIsASum
<1>9. PICK h : SumsUp(h, k, SUBSET Pixels) /\ Total(k) = h[Pixels]
  BY <1>4, TotalIsASum
<1>10. h[Pixels] = f[Pixels] + Cardinality(X) /\ f[Pixels] \in Nat
  BY <1>4, <1>5, <1>7, <1>8, <1>9, PixelsAssumption, SumOfMore
<1> QED
  BY <1>8, <1>9, <1>10 DEF g, k, X

\* Before the first bin nothing is moved.
LEMMA CostStarts ==
    ASSUME NEW one \in Values, NEW other \in Values, NEW moves \in Moves
    PROVE  Total(Moved(one, other, moves, 0)) = 0
<1> DEFINE g == Moved(one, other, moves, 0)
<1>1. moves \in [Pixels -> Pixels]
  BY DEF Moves, Bijection, Injection
<1>2. \A p \in Pixels : one[p] \in Nat /\ other[moves[p]] \in Nat
  BY <1>1 DEF Values
<1>3. \A p \in Pixels : g[p] = 0
  BY <1>2 DEF Moved, Size, Least
<1>4. g \in [Pixels -> Nat]
  BY <1>3 DEF Moved
<1> HIDE DEF g
<1>5. PICK f : SumsUp(f, g, SUBSET Pixels) /\ Total(g) = f[Pixels]
  BY <1>4, TotalIsASum
<1> DEFINE zeros == {s \in SUBSET Pixels : f[s] = 0}
<1>6. {} \in zeros
  BY <1>5 DEF SumsUp
<1>7. ASSUME NEW s \in SUBSET Pixels, NEW y \in Pixels \ s, s \in zeros PROVE s \cup {y} \in zeros
  <2> DEFINE t == s \cup {y}
  <2>1. t \in SUBSET Pixels /\ y \in t /\ t \ {y} = s
    OBVIOUS
  <2> HIDE DEF t
  <2>2. f[t] = g[y] + f[t \ {y}]
    <3>1. TakesAny(f, g, SUBSET Pixels)
      BY <1>4, <1>5, PixelsAssumption, SumTakesAny
    <3> QED
      BY <2>1, <3>1 DEF TakesAny
  <2> QED
    BY <1>3, <1>7, <2>1, <2>2 DEF t
<1>8. Pixels \in zeros
  <2>1. Pixels \in SUBSET Pixels
    OBVIOUS
  <2> HIDE DEF zeros
  <2> QED
    BY <1>6, <1>7, <2>1, PixelsAssumption, SetsInduction
<1> QED
  BY <1>5, <1>8 DEF g

-----------------------------------------------------------------------------
(***************************************************************************)
(* Moves that keep the order of the pixels cost no more than the distance, *)
(* and there are such moves.                                               *)
(***************************************************************************)
OrderedOn(S, one, other, moves) ==
    \A p, q \in S : one[p] < one[q] => other[moves[p]] <= other[moves[q]]

Ordered(one, other, moves) == OrderedOn(Pixels, one, other, moves)

\* Of finitely many pixels one has the greatest value.
LEMMA GreatestPixel ==
    ASSUME NEW one \in Values, NEW S \in SUBSET Pixels, S # {}
    PROVE  \E x \in S : \A y \in S : one[y] <= one[x]
<1> DEFINE Z == {s \in SUBSET Pixels : s # {} => \E x \in s : \A y \in s : one[y] <= one[x]}
<1>0. \A p \in Pixels : one[p] \in Nat
  BY DEF Values
<1>1. {} \in Z
  OBVIOUS
<1>2. ASSUME NEW s \in SUBSET Pixels, NEW y \in Pixels \ s, s \in Z PROVE s \cup {y} \in Z
  <2>1. CASE s = {}
    <3>1. \A z \in s \cup {y} : one[z] <= one[y]
      BY <2>1, <1>0
    <3> QED
      BY <3>1
  <2>2. CASE s # {}
    <3>1. PICK x \in s : \A z \in s : one[z] <= one[x]
      BY <1>2, <2>2
    <3>2. CASE one[y] <= one[x]
      <4>1. \A z \in s \cup {y} : one[z] <= one[x]
        BY <3>1, <3>2
      <4> QED
        BY <4>1
    <3>3. CASE ~(one[y] <= one[x])
      <4>1. \A z \in s \cup {y} : one[z] <= one[y]
        BY <3>1, <3>3, <1>0
      <4> QED
        BY <4>1
    <3> QED
      BY <3>2, <3>3
  <2> QED
    BY <2>1, <2>2
<1>3. S \in Z
  <2> HIDE DEF Z
  <2> QED
    BY <1>1, <1>2, PixelsAssumption, SetsInduction
<1> QED
  BY <1>3

\* Two sets of as many pixels can be matched in order: first the two with the greatest values.
LEMMA OrderedMatching ==
    ASSUME NEW one \in Values, NEW other \in Values
    PROVE  \A n \in Nat : \A S, T \in SUBSET Pixels :
             Cardinality(S) = n /\ Cardinality(T) = n =>
               \E moves \in Bijection(S, T) : OrderedOn(S, one, other, moves)
<1> DEFINE N == {n \in Nat : \A S, T \in SUBSET Pixels :
                               Cardinality(S) = n /\ Cardinality(T) = n =>
                                 \E moves \in Bijection(S, T) : OrderedOn(S, one, other, moves)}
<1>0. \A s \in SUBSET Pixels :
        /\ Cardinality(s) \in Nat /\ (Cardinality(s) = 0 <=> s = {})
        /\ \A y \in s : s \ {y} \in SUBSET Pixels /\ Cardinality(s \ {y}) + 1 = Cardinality(s)
  BY PixelsAssumption, SubsetsAreFinite
<1>1. 0 \in N
  <2> SUFFICES ASSUME NEW S \in SUBSET Pixels, NEW T \in SUBSET Pixels,
                      Cardinality(S) = 0, Cardinality(T) = 0
               PROVE  \E moves \in Bijection(S, T) : OrderedOn(S, one, other, moves)
    OBVIOUS
  <2> DEFINE moves == [p \in S |-> p]
  <2>1. S = {} /\ T = {}
    BY <1>0
  <2>2. moves \in Bijection(S, T)
    BY <2>1 DEF Bijection, Injection, Surjection, IsInjective
  <2>3. OrderedOn(S, one, other, moves)
    BY <2>1 DEF OrderedOn
  <2> QED
    BY <2>2, <2>3
<1>2. ASSUME NEW n \in Nat, n \in N PROVE n + 1 \in N
  <2> SUFFICES ASSUME NEW S \in SUBSET Pixels, NEW T \in SUBSET Pixels,
                      Cardinality(S) = n + 1, Cardinality(T) = n + 1
               PROVE  \E moves \in Bijection(S, T) : OrderedOn(S, one, other, moves)
    OBVIOUS
  <2>1. S # {} /\ T # {}
    BY <1>0
  <2>2. PICK s \in S : \A y \in S : one[y] <= one[s]
    BY <2>1, GreatestPixel
  <2>3. PICK t \in T : \A y \in T : other[y] <= other[t]
    BY <2>1, GreatestPixel
  <2>4. /\ S \ {s} \in SUBSET Pixels /\ Cardinality(S \ {s}) = n
        /\ T \ {t} \in SUBSET Pixels /\ Cardinality(T \ {t}) = n
    BY <1>0
  <2>5. PICK before \in Bijection(S \ {s}, T \ {t}) : OrderedOn(S \ {s}, one, other, before)
    BY <1>2, <2>4
  <2> DEFINE moves == [p \in S |-> IF p = s THEN t ELSE before[p]]
  <2>6. /\ before \in [S \ {s} -> T \ {t}]
        /\ \A a, b \in S \ {s} : before[a] = before[b] => a = b
        /\ \A b \in T \ {t} : \E a \in S \ {s} : before[a] = b
    BY <2>5 DEF Bijection, Injection, Surjection, IsInjective
  <2>7. moves \in [S -> T] /\ moves[s] = t /\ \A p \in S \ {s} : moves[p] = before[p]
    BY <2>6
  <2> HIDE DEF moves
  <2>8. \A a, b \in S : moves[a] = moves[b] => a = b
    BY <2>6, <2>7
  <2>9. \A b \in T : \E a \in S : moves[a] = b
    BY <2>6, <2>7
  <2>10. moves \in Bijection(S, T)
    BY <2>7, <2>8, <2>9 DEF Bijection, Injection, Surjection, IsInjective
  <2>11. OrderedOn(S, one, other, moves)
    <3> SUFFICES ASSUME NEW p \in S, NEW q \in S, one[p] < one[q]
                 PROVE  other[moves[p]] <= other[moves[q]]
      BY DEF OrderedOn
    <3>1. CASE q = s
      BY <3>1, <2>3, <2>7
    <3>2. CASE p = s
      <4>1. one[q] <= one[s] /\ one[q] \in Nat /\ one[s] \in Nat
        BY <2>2 DEF Values
      <4> QED
        BY <4>1, <3>2
    <3>3. CASE p \in S \ {s} /\ q \in S \ {s}
      BY <3>3, <2>5, <2>7 DEF OrderedOn
    <3> QED
      BY <3>1, <3>2, <3>3
  <2> QED
    BY <2>10, <2>11
<1> QED
  <2> HIDE DEF N
  <2>1. \A n \in Nat : n \in N
    BY <1>1, <1>2, NumbersInduction
  <2> QED
    BY <2>1 DEF N

\* So some moves keep the order.
LEMMA OrderedMovesExist ==
    ASSUME NEW one \in Values, NEW other \in Values
    PROVE  \E moves \in Moves : Ordered(one, other, moves)
<1>1. Cardinality(Pixels) \in Nat /\ Pixels \in SUBSET Pixels
  BY PixelsAssumption, FS_CardinalityType
<1> QED
  BY <1>1, OrderedMatching DEF Moves, Ordered

\* They never move pixels across the same end of a bin in both directions.
LEMMA OrderedMovesOneWay ==
    ASSUME NEW one \in Values, NEW other \in Values, NEW moves \in Moves,
           Ordered(one, other, moves), NEW bound \in Nat
    PROVE  \/ Below(one, bound) \subseteq MovedBelow(other, moves, bound)
           \/ MovedBelow(other, moves, bound) \subseteq Below(one, bound)
<1> SUFFICES ASSUME NEW p \in Pixels, one[p] < bound, ~(other[moves[p]] < bound),
                    NEW q \in Pixels, other[moves[q]] < bound, ~(one[q] < bound)
             PROVE  FALSE
  BY DEF Below, MovedBelow
<1>1. moves[p] \in Pixels /\ moves[q] \in Pixels
  BY DEF Moves, Bijection, Injection
<1>2. /\ one[p] \in Nat /\ one[q] \in Nat
      /\ other[moves[p]] \in Nat /\ other[moves[q]] \in Nat
  BY <1>1 DEF Values
<1>3. one[p] < one[q]
  BY <1>2
<1>4. other[moves[p]] <= other[moves[q]]
  BY <1>3 DEF Ordered, OrderedOn
<1> QED
  BY <1>2, <1>4

\* One bin more: no moves cost less than the difference there, and those in order just that.
LEMMA CostGrowsByDifference ==
    ASSUME NEW one \in Values, NEW other \in Values, NEW moves \in Moves, NEW below \in Nat
    PROVE  LET more == Size(Cardinality(Below(one, below + 1))
                              - Cardinality(Below(other, below + 1)))
               before == Total(Moved(one, other, moves, below))
               after == Total(Moved(one, other, moves, below + 1))
           IN  /\ more \in Nat /\ before \in Nat /\ after \in Nat
               /\ before + more <= after
               /\ Ordered(one, other, moves) => before + more = after
<1> DEFINE X == Below(one, below + 1)
           Y == MovedBelow(other, moves, below + 1)
           before == Total(Moved(one, other, moves, below))
           after == Total(Moved(one, other, moves, below + 1))
<1>1. IsFiniteSet(X) /\ IsFiniteSet(Y)
  <2>1. X \in SUBSET Pixels /\ Y \in SUBSET Pixels
    BY DEF Below, MovedBelow
  <2> QED
    BY <2>1, PixelsAssumption, FS_Subset
<1>2. before \in Nat /\ after = before + Cardinality(Across(X, Y))
  BY CostGrows
<1>3. Cardinality(Y) = Cardinality(Below(other, below + 1))
  BY MovesKeepCounts
<1>4. Ordered(one, other, moves) => X \subseteq Y \/ Y \subseteq X
  <2>1. below + 1 \in Nat
    OBVIOUS
  <2> QED
    BY <2>1, OrderedMovesOneWay
<1> HIDE DEF X, Y, before, after
<1>5. /\ Cardinality(X) \in Nat /\ Cardinality(Y) \in Nat
      /\ Cardinality(Across(X, Y)) \in Nat
      /\ Size(Cardinality(X) - Cardinality(Y)) <= Cardinality(Across(X, Y))
      /\ X \subseteq Y \/ Y \subseteq X =>
           Size(Cardinality(X) - Cardinality(Y)) = Cardinality(Across(X, Y))
  BY <1>1, AcrossAtLeast
<1>6. Size(Cardinality(X) - Cardinality(Y)) \in Nat
  BY <1>5 DEF Size
<1>7. /\ before + Size(Cardinality(X) - Cardinality(Y)) <= after
      /\ Ordered(one, other, moves) =>
           before + Size(Cardinality(X) - Cardinality(Y)) = after
      /\ after \in Nat
  BY <1>2, <1>4, <1>5, <1>6
<1> QED
  BY <1>2, <1>3, <1>6, <1>7 DEF X, before, after

-----------------------------------------------------------------------------
(***************************************************************************)
(* DistanceIsTheLeastCost: the loop over the bins adds up what the moves   *)
(* that keep the order cost.                                               *)
(***************************************************************************)
LeastTotal(one, other) == Min({Total(Moved(one, other, moves, NumBins)) : moves \in Moves})

\* The total so far: what moves in order cost, and no moves cost less.
AddedUp(one, other, below, total) ==
    \A moves \in Moves :
        /\ total <= Total(Moved(one, other, moves, below))
        /\ Ordered(one, other, moves) => total = Total(Moved(one, other, moves, below))

GreatestOf(max, images, others, channels) ==
    /\ max \in Nat /\ (channels = {} => max = 0)
    /\ \A c \in channels :
         LeastTotal(images[c], others[c]) \in Nat /\ LeastTotal(images[c], others[c]) <= max
    /\ channels # {} => \E c \in channels : max = LeastTotal(images[c], others[c])

DistanceInv ==
    /\ first \in Images /\ second \in Images
    /\ channel \in 1 .. (Channels + 1) /\ bin \in 0 .. NumBins
    /\ channel <= Channels =>
         /\ diffAccum = Cardinality(Below(first[channel], bin))
                          - Cardinality(Below(second[channel], bin))
         /\ diffTotal \in Nat
         /\ AddedUp(first[channel], second[channel], bin, diffTotal)
    /\ GreatestOf(maxEmd, first, second, 1 .. (channel - 1))

\* No pixel lies before the first bin, and one bin more has the pixels of that bin.
LEMMA BelowGrows ==
    ASSUME NEW image \in Values, NEW bound \in Nat
    PROVE  /\ Cardinality(Below(image, 0)) = 0
           /\ Cardinality(Below(image, bound)) \in Nat
           /\ Cardinality({p \in Pixels : image[p] = bound}) \in Nat
           /\ Cardinality(Below(image, bound + 1)) =
                Cardinality(Below(image, bound)) + Cardinality({p \in Pixels : image[p] = bound})
<1> DEFINE at == {p \in Pixels : image[p] = bound}
<1>0. \A p \in Pixels : image[p] \in Nat
  BY DEF Values
<1>1. Cardinality(Below(image, 0)) = 0
  <2>1. Below(image, 0) = {} /\ Cardinality({}) = 0
    BY <1>0, FS_EmptySet DEF Below
  <2> QED
    BY <2>1, Zenon
<1>2. IsFiniteSet(Below(image, bound)) /\ Cardinality(Below(image, bound)) \in Nat
  <2>1. Below(image, bound) \in SUBSET Pixels
    BY DEF Below
  <2> QED
    BY <2>1, PixelsAssumption, SubsetsAreFinite
<1>3. IsFiniteSet(at) /\ Cardinality(at) \in Nat
  <2>1. at \in SUBSET Pixels
    OBVIOUS
  <2> HIDE DEF at
  <2> QED
    BY <2>1, PixelsAssumption, SubsetsAreFinite
<1>4. Below(image, bound + 1) = Below(image, bound) \cup at
  BY <1>0 DEF Below
<1>5. Cardinality(Below(image, bound) \cap at) = 0
  <2>1. Below(image, bound) \cap at = {} /\ Cardinality({}) = 0
    BY <1>0, FS_EmptySet DEF Below
  <2> QED
    BY <2>1, Zenon
<1> HIDE DEF at
<1>6. Cardinality(Below(image, bound) \cup at) =
        Cardinality(Below(image, bound)) + Cardinality(at)
          - Cardinality(Below(image, bound) \cap at)
  BY <1>2, <1>3, FS_Union
<1>7. Cardinality(Below(image, bound + 1)) = Cardinality(Below(image, bound)) + Cardinality(at)
  <2>1. Cardinality(Below(image, bound + 1)) = Cardinality(Below(image, bound) \cup at)
    BY <1>4, Zenon
  <2> QED
    BY <1>2, <1>3, <1>5, <1>6, <2>1
<1> QED
  BY <1>1, <1>2, <1>3, <1>7 DEF at

\* Before the first bin of a channel nothing has been added up.
LEMMA NothingAddedUp ==
    ASSUME NEW one \in Values, NEW other \in Values
    PROVE  /\ Cardinality(Below(one, 0)) - Cardinality(Below(other, 0)) = 0
           /\ AddedUp(one, other, 0, 0)
<1>1. Cardinality(Below(one, 0)) = 0 /\ Cardinality(Below(other, 0)) = 0
  <2>1. 0 \in Nat
    OBVIOUS
  <2> QED
    BY <2>1, BelowGrows
<1>2. \A moves \in Moves : Total(Moved(one, other, moves, 0)) = 0
  BY CostStarts
<1> QED
  BY <1>1, <1>2 DEF AddedUp

\* At the end of the loop over the bins the total is the least there can be.
LEMMA AddedUpIsLeast ==
    ASSUME NEW one \in Values, NEW other \in Values, NEW total \in Nat,
           AddedUp(one, other, NumBins, total)
    PROVE  LeastTotal(one, other) = total
<1> DEFINE costs == {Total(Moved(one, other, moves, NumBins)) : moves \in Moves}
<1>1. PICK ordered \in Moves : Ordered(one, other, ordered)
  BY OrderedMovesExist
<1>2. \A moves \in Moves : Total(Moved(one, other, moves, NumBins)) \in Nat
  BY NumBinsAssumption, CostGrows
<1>3. total \in costs /\ costs \subseteq Nat /\ \A x \in costs : total <= x
  BY <1>1, <1>2 DEF AddedUp
<1>4. LeastTotal(one, other) = Min(costs)
  BY DEF LeastTotal
<1> HIDE DEF costs
<1>5. \A x \in costs : (\A y \in costs : x <= y) => x = total
  BY <1>3
<1>6. \E x \in costs : \A y \in costs : x <= y
  BY <1>3
<1> QED
  BY <1>4, <1>5, <1>6 DEF Min

\* That is the least cost of moving.
LEMMA LeastCostIsTheLeastTotal ==
    ASSUME NEW c, first[c] \in Values, second[c] \in Values
    PROVE  LeastCost(c) = LeastTotal(first[c], second[c])
<1>1. \A moves \in Moves :
        CostOfMoving(moves, c) = Total(Moved(first[c], second[c], moves, NumBins))
  BY CostIsTheTotal
<1>2. {CostOfMoving(moves, c) : moves \in Moves} =
        {Total(Moved(first[c], second[c], moves, NumBins)) : moves \in Moves}
  BY <1>1
<1> QED
  BY <1>2, Zenon DEF LeastCost, LeastTotal, Moves

\* The greatest so far, with one channel more.
LEMMA GreatestOfOneMore ==
    ASSUME NEW max, NEW images, NEW others, NEW n \in Nat \ {0}, NEW total \in Nat,
           GreatestOf(max, images, others, 1 .. (n - 1)),
           LeastTotal(images[n], others[n]) = total
    PROVE  GreatestOf(Max({max, total}), images, others, 1 .. n)
<1> DEFINE most == Max({max, total})
<1>1. max \in Nat
  BY DEF GreatestOf
<1>2. most \in {max, total} /\ most >= max /\ most >= total
  <2>1. \E x \in {max, total} : \A y \in {max, total} : x >= y
    BY <1>1
  <2> QED
    BY <2>1 DEF Max
<1> HIDE DEF most
<1>3. \A c \in 1 .. n : c \in 1 .. (n - 1) \/ c = n
  OBVIOUS
<1>4. \A c \in 1 .. n :
        LeastTotal(images[c], others[c]) \in Nat /\ LeastTotal(images[c], others[c]) <= most
  BY <1>1, <1>2, <1>3 DEF GreatestOf
<1>5. \E c \in 1 .. n : most = LeastTotal(images[c], others[c])
  <2>1. CASE most = total
    BY <2>1
  <2>2. CASE most = max /\ n = 1
    <3>1. max = 0
      BY <2>2 DEF GreatestOf
    <3>2. most = total
      BY <1>2, <2>2, <3>1
    <3> QED
      BY <2>2, <3>2
  <2>3. CASE most = max /\ n # 1
    <3>1. 1 \in 1 .. (n - 1)
      BY <2>3
    <3>2. PICK c \in 1 .. (n - 1) : max = LeastTotal(images[c], others[c])
      BY <3>1 DEF GreatestOf
    <3> QED
      BY <2>3, <3>2
  <2> QED
    BY <1>2, <2>1, <2>2, <2>3
<1>6. 1 .. n # {} /\ most \in Nat
  BY <1>1, <1>2
<1> QED
  BY <1>4, <1>5, <1>6 DEF GreatestOf, most

\* The values of the pixels of a channel.
LEMMA ChannelsHaveValues ==
    ASSUME DistanceInv
    PROVE  \A c \in 1 .. Channels : first[c] \in Values /\ second[c] \in Values
BY ImagesAssumption DEF DistanceInv, Values

\* Before the first bin of the first channel.
LEMMA DistanceInitially == EmdInit => DistanceInv
<1> SUFFICES ASSUME EmdInit PROVE DistanceInv
  OBVIOUS
<1>1. /\ first \in Images /\ second \in Images /\ channel = 1 /\ bin = 0
      /\ diffAccum = 0 /\ diffTotal = 0 /\ maxEmd = 0
  BY DEF EmdInit
<1>2. first[1] \in Values /\ second[1] \in Values
  BY <1>1, ImagesAssumption, ChannelsAssumption DEF Values
<1>3. AddedUp(first[1], second[1], 0, 0)
      /\ Cardinality(Below(first[1], 0)) - Cardinality(Below(second[1], 0)) = 0
  BY <1>2, NothingAddedUp
<1>4. 1 \in 1 .. (Channels + 1) /\ 0 \in 0 .. NumBins /\ 1 .. (1 - 1) = {}
  BY ChannelsAssumption, NumBinsAssumption
<1>5. GreatestOf(maxEmd, first, second, 1 .. (channel - 1))
  BY <1>1, <1>4 DEF GreatestOf
<1> QED
  BY <1>1, <1>3, <1>4, <1>5 DEF DistanceInv

\* One bin more.
LEMMA AddBinKeepsDistance == DistanceInv /\ AddBin => DistanceInv'
<1> SUFFICES ASSUME DistanceInv, AddBin PROVE DistanceInv'
  OBVIOUS
<1> DEFINE one == first[channel]
           other == second[channel]
<1>1. /\ channel \in 1 .. Channels /\ channel \in 1 .. (Channels + 1)
      /\ first' = first /\ second' = second /\ channel' = channel /\ maxEmd' = maxEmd
      /\ bin \in Nat /\ bin' = bin + 1 /\ bin' \in 0 .. NumBins
      /\ diffAccum' = diffAccum + InBin(first) - InBin(second)
      /\ diffTotal' = diffTotal + Size(diffAccum')
  BY ChannelsAssumption, NumBinsAssumption DEF AddBin, DistanceInv
<1>2. one \in Values /\ other \in Values
  BY <1>1, ChannelsHaveValues
<1>3. /\ InBin(first) = Cardinality({p \in Pixels : one[p] = bin})
      /\ InBin(second) = Cardinality({p \in Pixels : other[p] = bin})
  BY DEF InBin
<1>4. /\ diffAccum = Cardinality(Below(one, bin)) - Cardinality(Below(other, bin))
      /\ diffTotal \in Nat /\ AddedUp(one, other, bin, diffTotal)
  BY <1>1 DEF DistanceInv
<1>5. first'[channel'] = one /\ second'[channel'] = other
  BY <1>1
<1> HIDE DEF one, other
<1> DEFINE more == Size(Cardinality(Below(one, bin + 1)) - Cardinality(Below(other, bin + 1)))
<1>6. diffAccum' = Cardinality(Below(one, bin + 1)) - Cardinality(Below(other, bin + 1))
  <2>1. /\ Cardinality(Below(one, bin)) \in Nat /\ InBin(first) \in Nat
        /\ Cardinality(Below(one, bin + 1)) = Cardinality(Below(one, bin)) + InBin(first)
    BY <1>1, <1>2, <1>3, BelowGrows
  <2>2. /\ Cardinality(Below(other, bin)) \in Nat /\ InBin(second) \in Nat
        /\ Cardinality(Below(other, bin + 1)) = Cardinality(Below(other, bin)) + InBin(second)
    BY <1>1, <1>2, <1>3, BelowGrows
  <2> QED
    BY <1>1, <1>4, <2>1, <2>2
<1>7. diffTotal' = diffTotal + more
  BY <1>1, <1>6
<1>8. more \in Nat
  <2>1. Cardinality(Below(one, bin + 1)) \in Nat /\ Cardinality(Below(other, bin + 1)) \in Nat
    <3>1. bin + 1 \in Nat
      BY <1>1
    <3> QED
      BY <1>2, <3>1, BelowGrows
  <2> QED
    BY <2>1 DEF Size
<1>9. AddedUp(one, other, bin + 1, diffTotal')
  <2> SUFFICES ASSUME NEW moves \in Moves
               PROVE  /\ diffTotal' <= Total(Moved(one, other, moves, bin + 1))
                      /\ Ordered(one, other, moves) =>
                           diffTotal' = Total(Moved(one, other, moves, bin + 1))
    BY DEF AddedUp
  <2> DEFINE before == Total(Moved(one, other, moves, bin))
             after == Total(Moved(one, other, moves, bin + 1))
  <2>1. diffTotal <= before /\ (Ordered(one, other, moves) => diffTotal = before)
    BY <1>4 DEF AddedUp
  <2>2. /\ before \in Nat /\ after \in Nat /\ before + more <= after
        /\ Ordered(one, other, moves) => before + more = after
    BY <1>1, <1>2, CostGrowsByDifference
  <2> HIDE DEF before, after, more
  <2>3. diffTotal' <= after /\ (Ordered(one, other, moves) => diffTotal' = after)
    BY <1>4, <1>7, <1>8, <2>1, <2>2
  <2> QED
    BY <2>3 DEF after
<1>10. diffTotal' \in Nat
  BY <1>4, <1>7, <1>8
<1>11. GreatestOf(maxEmd', first', second', 1 .. (channel' - 1))
  BY <1>1 DEF DistanceInv
<1>12. first' \in Images /\ second' \in Images
  BY <1>1 DEF DistanceInv
<1> QED
  BY <1>1, <1>5, <1>6, <1>9, <1>10, <1>11, <1>12 DEF DistanceInv

\* One channel more.
LEMMA EndChannelKeepsDistance == DistanceInv /\ EndChannel => DistanceInv'
<1> SUFFICES ASSUME DistanceInv, EndChannel PROVE DistanceInv'
  OBVIOUS
<1>1. /\ channel \in 1 .. Channels /\ bin = NumBins
      /\ first' = first /\ second' = second /\ channel' = channel + 1
      /\ maxEmd' = Max({maxEmd, diffTotal})
      /\ bin' = 0 /\ diffAccum' = 0 /\ diffTotal' = 0
  BY ChannelsAssumption DEF EndChannel, DistanceInv
<1>2. \A c \in 1 .. Channels : first[c] \in Values /\ second[c] \in Values
  BY ChannelsHaveValues
<1>3. diffTotal \in Nat /\ AddedUp(first[channel], second[channel], NumBins, diffTotal)
  BY <1>1 DEF DistanceInv
<1>4. LeastTotal(first[channel], second[channel]) = diffTotal
  BY <1>1, <1>2, <1>3, AddedUpIsLeast
<1>6. GreatestOf(maxEmd', first', second', 1 .. channel)
  <2>1. channel \in Nat \ {0} /\ GreatestOf(maxEmd, first, second, 1 .. (channel - 1))
    BY <1>1 DEF DistanceInv
  <2>2. GreatestOf(Max({maxEmd, diffTotal}), first, second, 1 .. channel)
    BY <1>3, <1>4, <2>1, GreatestOfOneMore
  <2> QED
    BY <1>1, <2>2
<1>7. channel' - 1 = channel /\ channel' \in 1 .. (Channels + 1) /\ bin' \in 0 .. NumBins
  BY <1>1, ChannelsAssumption, NumBinsAssumption
<1>8. ASSUME channel' <= Channels
      PROVE  /\ diffAccum' = Cardinality(Below(first'[channel'], bin'))
                               - Cardinality(Below(second'[channel'], bin'))
             /\ diffTotal' \in Nat
             /\ AddedUp(first'[channel'], second'[channel'], bin', diffTotal')
  <2>1. channel + 1 \in 1 .. Channels
    BY <1>1, <1>8, ChannelsAssumption
  <2>2. first[channel + 1] \in Values /\ second[channel + 1] \in Values
    BY <1>2, <2>1
  <2>3. /\ Cardinality(Below(first[channel + 1], 0)) - Cardinality(Below(second[channel + 1], 0)) = 0
        /\ AddedUp(first[channel + 1], second[channel + 1], 0, 0)
    BY <2>2, NothingAddedUp
  <2> QED
    BY <1>1, <2>3
<1>9. first' \in Images /\ second' \in Images
  BY <1>1 DEF DistanceInv
<1> QED
  BY <1>6, <1>7, <1>8, <1>9 DEF DistanceInv

\* Every step.
LEMMA DistanceStep == DistanceInv /\ [EmdNext]_emdVars => DistanceInv'
<1>1. DistanceInv /\ UNCHANGED emdVars => DistanceInv'
  BY DEF DistanceInv, emdVars
<1> QED
  BY <1>1, AddBinKeepsDistance, EndChannelKeepsDistance DEF EmdNext

\* The sums over the bins are, for every channel and up to every bin, what moving the pixels
\* costs at least.
THEOREM DistanceInvariant == EmdSpec => []DistanceInv
<1> QED
  BY DistanceInitially, DistanceStep, PTL DEF EmdSpec

\* The distance compared with the tolerance is the greatest, over the channels, of the least
\* cost of turning the one image into the other, for every two images, all numbers of bins
\* and of channels.
THEOREM DistanceIsTheLeastCostHolds == EmdSpec => []DistanceIsTheLeastCost
<1>1. DistanceInv => DistanceIsTheLeastCost
  <2> SUFFICES ASSUME DistanceInv, channel > Channels
               PROVE  maxEmd = Max({LeastCost(c) : c \in 1 .. Channels})
    BY DEF DistanceIsTheLeastCost
  <2> DEFINE costs == {LeastCost(c) : c \in 1 .. Channels}
  <2>1. channel - 1 = Channels /\ 1 .. Channels # {}
    <3>1. channel \in 1 .. (Channels + 1)
      BY DEF DistanceInv
    <3>2. 1 \in 1 .. Channels
      BY ChannelsAssumption
    <3> QED
      BY <3>1, <3>2, ChannelsAssumption
  <2>2. GreatestOf(maxEmd, first, second, 1 .. Channels)
    BY <2>1 DEF DistanceInv
  <2>3. \A c \in 1 .. Channels : LeastCost(c) = LeastTotal(first[c], second[c])
    BY ChannelsHaveValues, LeastCostIsTheLeastTotal
  <2>4. \A c \in 1 .. Channels : LeastCost(c) \in Nat
    BY <2>2, <2>3 DEF GreatestOf
  <2>5. maxEmd \in costs /\ costs \subseteq Nat /\ \A x \in costs : x <= maxEmd
    BY <2>1, <2>2, <2>3, <2>4 DEF GreatestOf
  <2> HIDE DEF costs
  <2>6. \A x \in costs : (\A y \in costs : x >= y) => x = maxEmd
    BY <2>5
  <2>7. \E x \in costs : \A y \in costs : x >= y
    BY <2>5
  <2>8. Max(costs) = maxEmd
    BY <2>6, <2>7 DEF Max
  <2> QED
    BY <2>8 DEF costs
<1> QED
  BY <1>1, DistanceInvariant, PTL
==============================================================================
