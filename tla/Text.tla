-------------------------------- MODULE Text --------------------------------
(***************************************************************************)
(* The pure functions on privals, their names and text that entries are    *)
(* built on: src/src/prival.c, facility.c, severity.c, strhelper.c and     *)
(* validate.c; params as text (param.c) and versions (version.c).  Text is *)
(* a sequence of bytes where its bytes matter, and a name where only its   *)
(* identity does.                                                          *)
(***************************************************************************)
EXTENDS Integers, Sequences, FiniteSets, SequencesExt

(***************************************************************************)
(* Privals.                                                                *)
(***************************************************************************)

get_severity(prival) == prival % 8

get_facility(prival) == (prival % 256) - (prival % 8)

\* The bit of weight w in either of two numbers, and two bytes joined.
OrBit(a, b, w) == IF (a \div w) % 2 = 1 \/ (b \div w) % 2 = 1 THEN w ELSE 0

OrByte(a, b) ==
  OrBit(a, b, 1) + OrBit(a, b, 2) + OrBit(a, b, 4) + OrBit(a, b, 8)
    + OrBit(a, b, 16) + OrBit(a, b, 32) + OrBit(a, b, 64) + OrBit(a, b, 128)

\* facility | severity: an int has four bytes, and its sign in the highest.
get_prival(facility, severity) ==
  LET byte(w) == OrByte((facility \div w) % 256, (severity \div w) % 256)
      high == byte(16777216)
  IN  byte(1) + 256 * byte(256) + 65536 * byte(65536)
        + 16777216 * (IF high < 128 THEN high ELSE high - 256)

facility_is_invalid(facility) == facility < 0 \/ facility > 23 * 8 \/ facility % 8 # 0

severity_is_invalid(severity) == severity < 0 \/ severity > 7

STUMPLESS_FOREACH_FACILITY ==
  << "kern", "user", "mail", "daemon", "auth", "syslog", "lpr", "news", "uucp", "cron",
     "auth2", "ftp", "ntp", "audit", "alert", "cron2", "local0", "local1", "local2",
     "local3", "local4", "local5", "local6", "local7" >>

STUMPLESS_FOREACH_SEVERITY ==
  << "emerg", "alert", "crit", "err", "warning", "notice", "info", "debug" >>

\* Names are compared over the length of the first, which has to be the
\* length of the second; without a length there is nothing to tell apart.
strncasecmp_custom(a, b) == a = "" \/ a = b

stumpless_get_facility_string(facility) ==
  IF facility_is_invalid(facility) THEN "no_such_facility"
  ELSE STUMPLESS_FOREACH_FACILITY[facility \div 8 + 1]

stumpless_get_severity_string(severity) ==
  IF severity_is_invalid(severity) THEN "no_such_severity"
  ELSE STUMPLESS_FOREACH_SEVERITY[severity + 1]

stumpless_get_facility_enum_from_buffer(name) ==
  LET i == SelectInSeq(STUMPLESS_FOREACH_FACILITY, LAMBDA f : strncasecmp_custom(name, f))
  IN  IF i # 0 THEN (i - 1) * 8
      ELSE CASE name = "security" -> 4 * 8
             [] name = "authpriv" -> 10 * 8
             [] OTHER             -> -1

stumpless_get_severity_enum_from_buffer(name) ==
  LET i == SelectInSeq(STUMPLESS_FOREACH_SEVERITY, LAMBDA s : strncasecmp_custom(name, s))
  IN  IF i # 0 THEN i - 1
      ELSE CASE name = "panic" -> 0
             [] name = "error" -> 3
             [] name = "warn"  -> 4
             [] OTHER          -> -1

\* The text of a prival: the names between its periods, the number that it
\* starts with (-1 without a digit), and whether it has less than four bytes.
PrivalText(names) == [names |-> names, number |-> -1, short |-> FALSE]

stumpless_get_priority_string(prival) ==
  IF prival \notin 0..255 \/ facility_is_invalid(get_facility(prival)) THEN PrivalText(<<>>)
  ELSE PrivalText(<< stumpless_get_facility_string(get_facility(prival)),
                     stumpless_get_severity_string(get_severity(prival)) >>)

stumpless_prival_from_string(text) ==
  LET facility == stumpless_get_facility_enum_from_buffer(text.names[1])
      severity == stumpless_get_severity_enum_from_buffer(text.names[2])
  IN  IF text.number \in 0..191 /\ text.short THEN text.number
      ELSE IF Len(text.names) # 2 \/ facility < 0 \/ severity < 0 THEN -1
      ELSE get_prival(facility, severity)

(***************************************************************************)
(* Validation.                                                             *)
(***************************************************************************)

validate_string_length(s, max_length) == Len(s) <= max_length

validate_printable_ascii(s) == \A i \in DOMAIN s : s[i] \in 33..126

\* No '"', '=' or ']' either.
validate_name_chars(s) == \A i \in DOMAIN s : s[i] \in (33..126) \ {34, 61, 93}

Continuation(c) == c \in 128..191

\* Whether the character that ends with c could have been shorter.
VALIDATE_SHORTEST_FORM(bytes) ==
  CASE Len(bytes) = 2 -> bytes[1] \notin {192, 193}
    [] Len(bytes) = 3 -> ~(bytes[1] = 224 /\ bytes[2] < 160)
    [] Len(bytes) = 4 -> ~(bytes[1] = 240 /\ bytes[2] < 144)

\* The number of bytes of a character, by the first of them.
LeadLength(c) ==
  CASE c \in 192..223 -> 2
    [] c \in 224..239 -> 3
    [] c \in 240..247 -> 4
    [] c < 128        -> 1
    [] OTHER          -> 0

\* Mutant: the third byte of four is not looked at.
StepSkips(a, c) ==
  LET bytes == Append(a.bytes, c) IN
  IF ~a.ok THEN a
  ELSE IF a.bytes = <<>> THEN
    [ok |-> LeadLength(c) # 0, bytes |-> IF LeadLength(c) \in {0, 1} THEN <<>> ELSE bytes]
  ELSE [ok |-> Len(bytes) = 3 \/ Continuation(c),
        bytes |-> IF Len(bytes) = LeadLength(bytes[1]) THEN <<>> ELSE bytes]

Utf8Step(a, c) ==
  LET bytes == Append(a.bytes, c)
      complete == Len(bytes) = LeadLength(bytes[1])
  IN
  IF ~a.ok THEN a
  ELSE IF a.bytes = <<>> THEN
    [ok |-> LeadLength(c) # 0, bytes |-> IF LeadLength(c) \in {0, 1} THEN <<>> ELSE bytes]
  ELSE [ok |-> Continuation(c) /\ (complete => VALIDATE_SHORTEST_FORM(bytes)),
        bytes |-> IF complete THEN <<>> ELSE bytes]

BOM == << 239, 187, 191 >>

validate_utf8_compliance(s) ==
  LET t == IF Len(s) >= 3 /\ SubSeq(s, 1, 3) = BOM THEN SubSeq(s, 4, Len(s)) ELSE s
  IN  FoldLeft(Utf8Step, [ok |-> TRUE, bytes |-> <<>>], t).ok

validate_param_value(s) == validate_utf8_compliance(s)

validate_app_name(s, max_length) == validate_string_length(s, max_length) /\ validate_printable_ascii(s)

validate_element_name(s, max_length) == validate_string_length(s, max_length) /\ validate_name_chars(s)

-----------------------------------------------------------------------------
(***************************************************************************)
(* Params as text, name="value", and versions, << major, minor, patch >>.  *)
(***************************************************************************)

locked_param_into_buffer(name, value) == name \o << 61, 34 >> \o value \o << 34 >>

NoParam == [name |-> <<>>, value |-> << 0 >>]

\* The name ends at the first '='; the value, at the end of the text.
stumpless_new_param_from_string(s, max_length) ==
  LET i == SelectInSeq(s, LAMBDA c : c = 61)
      name == SubSeq(s, 1, i - 1)
      value == SubSeq(s, i + 2, Len(s))
  IN  IF /\ i \in 1..(max_length + 1)
         /\ \A k \in DOMAIN name : name[k] \in (33..126) \ {34, 93}
         /\ i < Len(s) /\ s[i + 1] = 34
         /\ value # <<>> /\ Last(value) = 34
      THEN [name |-> name, value |-> Front(value)]
      ELSE NoParam

Sign(d) == d \div (IF d < 0 THEN -d ELSE d)

stumpless_version_cmp(x, y) ==
  IF x[1] # y[1] THEN Sign(x[1] - y[1]) * 100
  ELSE IF x[2] # y[2] THEN Sign(x[2] - y[2]) * 10
  ELSE IF x[3] # y[3] THEN Sign(x[3] - y[3])
  ELSE 0

-----------------------------------------------------------------------------
(***************************************************************************)
(* A reference for UTF-8: the code point that a sequence of bytes encodes  *)
(* by the table of RFC 3629, or -1.                                        *)
(***************************************************************************)

CodePoint(s) ==
  LET tail(i) == s[i] - 128
      n == Len(s)
  IN  IF n > 1 /\ \E i \in 2..n : s[i] \notin 128..191 THEN -1
      ELSE
      CASE n = 1 /\ s[1] < 128 -> s[1]
        [] n = 2 /\ s[1] \in 192..223 -> (s[1] - 192) * 64 + tail(2)
        [] n = 3 /\ s[1] \in 224..239 -> ((s[1] - 224) * 64 + tail(2)) * 64 + tail(3)
        [] n = 4 /\ s[1] \in 240..247 -> (((s[1] - 240) * 64 + tail(2)) * 64 + tail(3)) * 64 + tail(4)
        [] OTHER -> -1

\* The shortest form of a character, of any code point four bytes can have.
OneCharacter(s) ==
  LET c == CodePoint(s) IN
  c # -1 /\ Len(s) = (IF c < 128 THEN 1 ELSE IF c < 2048 THEN 2 ELSE IF c < 65536 THEN 3 ELSE 4)

\* A proper part of a character, with nothing but its shortness against it.
Unfinished(s) ==
  /\ s # <<>>
  /\ LeadLength(s[1]) > Len(s)
  /\ \A i \in 2..Len(s) : Continuation(s[i])

\* All ways to cut s into characters, the last of which may be unfinished.
Decodes(s) ==
  \E cuts \in SUBSET (1..Len(s)) :
    LET bounds == SetToSortSeq(cuts \cup {0, Len(s)}, <) IN
    \A i \in 1..(Len(bounds) - 1) :
      LET part == SubSeq(s, bounds[i] + 1, bounds[i + 1]) IN
      OneCharacter(part) \/ (i = Len(bounds) - 1 /\ Unfinished(part))

(***************************************************************************)
(* validate_utf8_compliance accepts exactly the texts that are a sequence  *)
(* of characters in their shortest form, of which the last may be cut off: *)
(* every text of up to four of the bytes that are given is tried.          *)
(***************************************************************************)
Utf8Exact(Bytes) ==
  \A n \in 0..4 : \A s \in [1..n -> Bytes] : validate_utf8_compliance(s) <=> Decodes(s)

(***************************************************************************)
(* Each of the 192 privals is found again from the text that               *)
(* stumpless_get_priority_string gives for it and from its digits, no      *)
(* larger number is taken for one, the other names that severities and     *)
(* facilities have mean the same, and a name that is empty is the only one *)
(* taken for a name it is not.                                             *)
(***************************************************************************)
NamesRoundTrip ==
  /\ \A p \in 0..255 :
       stumpless_prival_from_string(stumpless_get_priority_string(p)) = (IF p < 192 THEN p ELSE -1)
  /\ \A n \in 0..2000 :
       stumpless_prival_from_string([names |-> << "" >>, number |-> n, short |-> n < 1000])
         = (IF n < 192 THEN n ELSE -1)
  /\ stumpless_get_severity_enum_from_buffer("error") = stumpless_get_severity_enum_from_buffer("err")
  /\ stumpless_get_severity_enum_from_buffer("panic") = stumpless_get_severity_enum_from_buffer("emerg")
  /\ stumpless_get_facility_enum_from_buffer("security") = stumpless_get_facility_enum_from_buffer("auth")
  /\ \A name \in {"", "kernel", "warn", "local8"} :
       LET f == stumpless_get_facility_enum_from_buffer(name) IN
       f >= 0 => name = "" \/ stumpless_get_facility_string(f) = name

(***************************************************************************)
(* stumpless_new_param_from_string reads exactly what                      *)
(* stumpless_param_to_string writes for a param with a valid name, and     *)
(* gives back its name and value, quotes and '=' in the value included.    *)
(***************************************************************************)
ParamsRoundTrip(Bytes, max_length) ==
  LET texts(n) == UNION {[1..i -> Bytes] : i \in 0..n}
      parse(s) == stumpless_new_param_from_string(s, max_length)
  IN
  /\ \A s \in texts(5) :
       parse(s) # NoParam =>
         /\ validate_element_name(parse(s).name, max_length)
         /\ locked_param_into_buffer(parse(s).name, parse(s).value) = s
  /\ \A name \in texts(3), value \in texts(2) :
       parse(locked_param_into_buffer(name, value)) = [name |-> name, value |-> value]
         <=> validate_element_name(name, max_length)

(***************************************************************************)
(* stumpless_version_cmp orders versions by the first part that differs,   *)
(* as the number that has the parts for its digits.                        *)
(***************************************************************************)
VersionsOrdered ==
  \A x, y \in [1..3 -> 0..3] :
    LET n(v) == 16 * v[1] + 4 * v[2] + v[3]
        c == stumpless_version_cmp(x, y)
    IN  (c > 0 <=> n(x) > n(y)) /\ (c < 0 <=> n(x) < n(y))
=============================================================================
