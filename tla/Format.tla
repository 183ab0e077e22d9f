------------------------------- MODULE Format -------------------------------
(***************************************************************************)
(* The formats of ASSERT_EQUAL BUFFERS and DUMP_BUFFER_TEXT: sequences of  *)
(* entries that each stand for some bytes of a buffer, and what the        *)
(* checker asks of them.                                                   *)
(***************************************************************************)
EXTENDS Naturals, SequencesExt

FormatKind == {"byte", "int", "uint", "float", "SKIP_BYTES", "string"}
FormatEntry == [kind : FormatKind, count : Nat]

\* The bytes one format entry stands for (4 per int, uint or float).
EntryBytes(entry) ==
    CASE entry.kind \in {"byte", "SKIP_BYTES"} -> entry.count
      [] entry.kind \in {"int", "uint", "float"} -> 4 * entry.count
      [] entry.kind = "string" -> 0

\* The bytes before each entry, and before the end of the format.
BytesBefore(format) ==
    LET before[i \in 1 .. Len(format) + 1] ==
          IF i = 1 THEN 0 ELSE before[i - 1] + EntryBytes(format[i - 1])
    IN  before

FormatBytes(format) == BytesBefore(format)[Len(format) + 1]

\* Every entry counts something, and raw bytes come in groups of 4.
EntriesWellFormed(format) ==
    \A i \in DOMAIN format :
        format[i].kind # "string" =>
            /\ format[i].count > 0
            /\ format[i].kind \in {"byte", "SKIP_BYTES"} => format[i].count % 4 = 0
=============================================================================
