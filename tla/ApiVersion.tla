----------------------------- MODULE ApiVersion -----------------------------
(***************************************************************************)
(* The API a script targets: libshadertrap/api_version.h.  Versions are    *)
(* ordered only within one API: GL 4.3 and GLES 3.1 are incomparable, so   *)
(* every comparison between the two is false.                              *)
(***************************************************************************)
EXTENDS Naturals

Api == {"GL", "GLES"}

ApiVersions == [api : Api, major : Nat, minor : Nat]

GL(major, minor)   == [api |-> "GL",   major |-> major, minor |-> minor]
GLES(major, minor) == [api |-> "GLES", major |-> major, minor |-> minor]

\* operator>=
AtLeast(v, w) ==
    /\ v.api = w.api
    /\ \/ v.major > w.major
       \/ v.major = w.major /\ v.minor >= w.minor

\* operator< : other > *this, which is other >= *this && other != *this
Below(v, w) == AtLeast(w, v) /\ w # v

\* What a script may name (Parser::ParseApiVersion).
SupportedVersions ==
    {GL(4, minor) : minor \in 0..6}
        \cup {GLES(2, 0), GLES(3, 0), GLES(3, 1), GLES(3, 2)}
=============================================================================
