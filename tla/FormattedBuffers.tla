-------------------------- MODULE FormattedBuffers --------------------------
(***************************************************************************)
(* How the executor walks a format over the mapped contents of buffers     *)
(* whose size it accounts for: ASSERT_EQUAL BUFFERS compares two of them,  *)
(* DUMP_BUFFER_TEXT prints one.  One step per entry.                       *)
(*                                                                         *)
(* Of the contents only the bytes at which the two buffers differ are      *)
(* kept, and of the text only the values: where each lies and how many     *)
(* bytes it has.                                                           *)
(***************************************************************************)
EXTENDS Format, FiniteSets

CONSTANTS
    Sizes,          \* sizes of buffers
    Formats,        \* formats the scripts may have
    MaxDiffering    \* bound: bytes at which two buffers differ

ASSUME SizesAssumption == Sizes \subseteq Nat \ {0}
ASSUME FormatsAssumption == Formats \subseteq Seq(FormatEntry)

VARIABLES
    command,    \* which of the two commands
    size,       \* bytes of the buffers
    format,     \* its entries
    differing,  \* the positions at which the buffers to compare differ
    done,       \* how many entries have been processed
    offset,     \* the local of that name ("index" in VisitDumpBufferText)
    equal,      \* "result": has no mismatch been reported?
    read,       \* the positions that have been read
    printed     \* the values written to the text file

givenVars == <<command, size, format, differing>>
formattedVars == <<givenVars, done, offset, equal, read, printed>>

Positions(from, bytes) == from .. (from + bytes - 1)

\* An absent FORMAT is one entry for all the bytes.
Entries(given, bytes) ==
    IF given = <<>> THEN <<[kind |-> "byte", count |-> bytes]>> ELSE given

\* The checker has accepted the format, which for ASSERT_EQUAL holds no strings.
FormattedInit ==
    /\ command \in {"ASSERT_EQUAL", "DUMP_BUFFER_TEXT"}
    /\ size \in Sizes
    /\ \E given \in Formats :
         /\ given = <<>> => command = "ASSERT_EQUAL"
         /\ command = "ASSERT_EQUAL" => \A i \in DOMAIN given : given[i].kind # "string"
         /\ format = Entries(given, size)
         /\ EntriesWellFormed(format) /\ FormatBytes(format) = size
    /\ differing \in {{a, b} : a, b \in Positions(0, size)} \cup {{}}
    /\ Cardinality(differing) <= IF command = "ASSERT_EQUAL" THEN MaxDiffering ELSE 0
    /\ done = 0
    /\ offset = 0
    /\ equal = TRUE
    /\ read = {}
    /\ printed = <<>>

entry == format[done + 1]

At(kinds) == done < Len(format) /\ entry.kind \in kinds

Words == {"int", "uint", "float"}

Advance(bytes) == offset' = offset + bytes /\ done' = done + 1 /\ UNCHANGED givenVars

\* Mutant: what is skipped is not counted.
SkipNothing == At({"SKIP_BYTES"}) /\ Advance(0) /\ UNCHANGED <<equal, read, printed>>

SkipBytes ==
    At({"SKIP_BYTES"}) /\ Advance(entry.count) /\ UNCHANGED <<equal, read, printed>>

PutString == At({"string"}) /\ Advance(0) /\ UNCHANGED <<equal, read, printed>>

\* The two buffers are read at the positions and compared there.
Compare(positions) ==
    /\ command = "ASSERT_EQUAL"
    /\ read' = read \cup positions
    /\ equal' = (equal /\ positions \cap differing = {})
    /\ UNCHANGED printed

\* Mutant: the loop moves the offset too.
CompareBytesMoving ==
    At({"byte"}) /\ Compare(offset .. (entry.count - 1)) /\ Advance(2 * entry.count)

\* Mutant: the offset moves on by the number of words.
CompareWordsByCount ==
    At(Words) /\ Compare(Positions(offset, 4 * entry.count)) /\ Advance(entry.count)

\* The loop over single bytes starts at the offset and stops short of the count.
CompareBytes ==
    At({"byte"}) /\ Compare(offset .. (entry.count - 1)) /\ Advance(entry.count)

CompareWords ==
    At(Words) /\ Compare(Positions(offset, 4 * entry.count)) /\ Advance(4 * entry.count)

\* DumpFormatEntry<T>: the values are copied out of the buffer, and the index moves on
\* behind them.
DumpEntry(width) ==
    /\ command = "DUMP_BUFFER_TEXT"
    /\ read' = read \cup Positions(offset, width * entry.count)
    /\ printed' = printed \o
         [i \in 1 .. entry.count |->
            [at |-> offset + width * (i - 1), bytes |-> width]]
    /\ UNCHANGED equal

\* Mutant: the index moves on by the number of values.
DumpWordsByCount == At(Words) /\ DumpEntry(4) /\ Advance(entry.count)

DumpBytes == At({"byte"}) /\ DumpEntry(1) /\ Advance(entry.count)
DumpWords == At(Words) /\ DumpEntry(4) /\ Advance(4 * entry.count)

FormattedNext ==
    SkipBytes \/ PutString \/ CompareBytes \/ CompareWords \/ DumpBytes \/ DumpWords

FormattedSpec == FormattedInit /\ [][FormattedNext]_formattedVars

-----------------------------------------------------------------------------
\* The buffers are never read beyond their ends, wherever the entries lead the offset:
\* VisitAssertEqual and VisitDumpBufferText of the checker only compare sums.
ReadsStayInBuffers ==
    /\ done \in 0 .. Len(format)
    /\ offset \in 0 .. size
    /\ read \subseteq Positions(0, size)

\* The bytes the documentation gives an entry.
Extent(i) == Positions(BytesBefore(format)[i], EntryBytes(format[i]))

Processed(kinds) == {i \in 1 .. done : format[i].kind \in kinds}
Covered(kinds) == UNION {Extent(i) : i \in Processed(kinds)}

\* SKIP_BYTES makes a command blind to padding: it is neither read nor printed, and a
\* mismatch is only reported if the buffers differ in what other entries cover.
SkippedBytesAreIgnored ==
    /\ read \subseteq Covered(Words \cup {"byte"})
    /\ ~equal => differing \cap Covered(Words \cup {"byte"}) # {}

\* Whatever entries come before, two buffers that differ within an int, uint or float
\* entry are not equal; nor are they if they differ within the bytes at the start, which
\* an absent FORMAT takes to be all of them.
DifferencesAreReported ==
    \A i \in Processed(Words) \cup (Processed({"byte"}) \cap {1}) :
        Extent(i) \cap differing # {} => ~equal

\* A dump prints each byte its entries select as part of one value, in the order of the
\* buffer.
DumpedOnceInOrder ==
    command = "DUMP_BUFFER_TEXT" =>
        LET bytesOf(k) == Positions(printed[k].at, printed[k].bytes)
        IN  /\ UNION {bytesOf(k) : k \in DOMAIN printed} = Covered(Words \cup {"byte"})
            /\ \A k \in 2 .. Len(printed) :
                 printed[k - 1].at + printed[k - 1].bytes <= printed[k].at

\* "count successive bytes from the buffers are compared, starting from position offset"
\* (docs, ASSERT_EQUAL).  Not so after the first entry.
ByteEntriesAreCompared ==
    \A i \in Processed({"byte"}) : Extent(i) \cap differing # {} => ~equal
=============================================================================
