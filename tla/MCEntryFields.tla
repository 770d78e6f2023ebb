--------------------------- MODULE MCEntryFields ---------------------------
(***************************************************************************)
(* Two threads, which make four calls, three texts in memory and one       *)
(* string builder, whose memory has to grow once for a record.  Names,     *)
(* messages and values are valid, empty, too long and not valid.           *)
(***************************************************************************)
EXTENDS EntryFields

CONSTANTS t1, t2, b1, b2, b3, k1

MCThreads == {t1, t2}
MCBuffers == {b1, b2, b3}
MCBuilders == {k1}

Symmetry == Permutations(MCThreads) \cup Permutations(MCBuffers)

\* "A", an empty one, one with a control character, and one too long.
MCNames == {<< 65 >>, <<>>, << 7 >>, << 65, 66, 67 >>}

\* It has a conversion.  The other message is NULL.
MCMessages == {<< 37, 115 >>}

\* The second is cut off, the third no UTF-8.
MCValues == {<< 66, 66, 66, 66 >>, << 195 >>, << 191 >>}

MCHost == << 72, 72 >>
MCPid == << 49 >>

\* Bytes on both sides of each border that validate_utf8_compliance knows.
Bytes == {65, 143, 144, 159, 160, 193, 194, 224, 240, 248}

TextsTried == Utf8Exact(Bytes)

Agreed == {s \in Messages \cup Values : validate_utf8_compliance(s) <=> Decodes(s)}

\* Characters on both sides of each border that the checks of names know.
NameBytes == {32, 33, 34, 35, 60, 61, 62, 92, 93, 94, 126, 127}

\* A name of an element is a name without the characters that end one.
NamesTried ==
  \A n \in 0..3 : \A s \in [1..n -> NameBytes] :
    validate_element_name(s, MaxName) <=> validate_app_name(s, MaxName) /\ ToSet(s) \cap {34, 61, 93} = {}

\* A letter, a blank and the characters that params are delimited by.
ParamsTried == ParamsRoundTrip({32, 34, 61, 65, 93}, MaxName)

VersionsTried == VersionsOrdered

PrivalsTried == NamesRoundTrip

ReadBack == {p \in 0..255 : stumpless_prival_from_string(stumpless_get_priority_string(p)) \in {p, -1}}

(***************************************************************************)
(* validate_utf8_compliance accepts what its reference does: see           *)
(* Utf8Exact.  The texts in memory are tried too.                          *)
(***************************************************************************)
Utf8Accepted == TextsTried /\ \A b \in Buffers : memory[b] \in Agreed \cup {NULL}

(***************************************************************************)
(* Privals are read back from their names and digits as what they were:    *)
(* see NamesRoundTrip.  So is the one of the entry, if it is one.          *)
(***************************************************************************)
PrivalsReadBack == PrivalsTried /\ (entry # NULL => entry.prival \in ReadBack)

(***************************************************************************)
(* The functions that check and read text agree with their references.     *)
(***************************************************************************)
TextRead == NamesTried /\ ParamsTried /\ VersionsTried /\ Utf8Accepted /\ PrivalsReadBack
=============================================================================
