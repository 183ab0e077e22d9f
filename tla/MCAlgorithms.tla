---------------------------- MODULE MCAlgorithms ----------------------------
(***************************************************************************)
(* The four loops over data, each by itself: a behaviour is one of the     *)
(* tokenizer, of a walk over buffers, of a comparison of histograms, or    *)
(* of a log of glslang.                                                    *)
(*                                                                         *)
(* Scripts of up to four of the characters that matter to strings, and of  *)
(* up to four that matter to layout, three with those of all other tokens. *)
(* Buffers of up to three words, formats of up to three entries.  Images   *)
(* of three pixels of three values.  Logs of up to five items.             *)
(***************************************************************************)
EXTENDS Tokenizer, FormattedBuffers, EmdHistogram, GlslangMessages

MCScripts ==
    BoundedSeq({"\"", "\\", "n", "x", "\n"}, 4)
      \cup BoundedSeq({" ", "\n", "#", "x", "0", ".", "-", ">", ",", "?"}, 3)
      \cup BoundedSeq({" ", "\n", "#", "x", "-"}, 4)

MCFormats ==
    BoundedSeq([kind : {"byte", "SKIP_BYTES"}, count : {4, 8, 12}]
                 \cup [kind : Words, count : 1 .. 3]
                 \cup [kind : {"string"}, count : {0}], 3)

MCPixels == 1 .. 3
MCImages == {<<a, b>> : a \in [MCPixels -> 0 .. 2], b \in {<<0, 0, 0>>, <<2, 0, 2>>}}

MCLogs ==
    LET items == {Digits(0), Digits(3)}
                   \cup {OfKind(kind) : kind \in {"prefix", "colon", "newline", "other"}}
    IN  {log0 \in BoundedSeq(items, 5) :
           \A i \in 2 .. Len(log0) :
             log0[i].kind = "number" => log0[i - 1].kind # "number"}

NoScript ==
    /\ data = <<>> /\ position = 0 /\ line = 1 /\ column = 1
    /\ call = "none" /\ backup = here /\ pc = "aborted" /\ start = here
    /\ type = "none" /\ token = NoToken /\ ahead = NoToken

NoBuffers ==
    /\ command = "none" /\ size = 0 /\ format = <<>> /\ differing = {}
    /\ done = 0 /\ offset = 0 /\ equal = TRUE /\ read = {} /\ printed = <<>>

NoImages ==
    /\ first = <<>> /\ second = <<>> /\ channel = 0 /\ bin = NumBins + 1
    /\ diffAccum = 0 /\ diffTotal = 0 /\ maxEmd = 0

NoLog == log = <<>> /\ pos = 0 /\ isLineStart = TRUE /\ result = <<>>

MCInit ==
    \/ TokenizerInit /\ NoBuffers /\ NoImages /\ NoLog
    \/ NoScript /\ FormattedInit /\ NoImages /\ NoLog
    \/ NoScript /\ NoBuffers /\ EmdInit /\ NoLog
    \/ NoScript /\ NoBuffers /\ NoImages /\ MessagesInit

MCTokenizer == TokenizerNext /\ UNCHANGED <<formattedVars, emdVars, messageVars>>
MCFormatted == FormattedNext /\ UNCHANGED <<tokenizerVars, emdVars, messageVars>>
MCEmd == EmdNext /\ UNCHANGED <<tokenizerVars, formattedVars, messageVars>>
MCMessages == MessagesNext /\ UNCHANGED <<tokenizerVars, formattedVars, emdVars>>

MCNext == MCTokenizer \/ MCFormatted \/ MCEmd \/ MCMessages

MCSpec ==
    /\ MCInit
    /\ [][MCNext]_<<tokenizerVars, formattedVars, emdVars, messageVars>>
    /\ WF_tokenizerVars(Step /\ UNCHANGED <<formattedVars, emdVars, messageVars>>)
=============================================================================
