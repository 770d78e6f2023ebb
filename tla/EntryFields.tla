---------------------------- MODULE EntryFields ----------------------------
(***************************************************************************)
(* The fields of one entry and of one param of it, changed by some threads *)
(* while others read and format them: src/src/entry.c, src/src/param.c,    *)
(* src/src/formatter.c and src/src/strbuilder.c.  The memory of messages   *)
(* and of values is modelled, since setters replace and free it; so are    *)
(* the string builders, which are taken from a cache, keep their memory in *)
(* it, and grow.                                                           *)
(*                                                                         *)
(* A step is what a function does under a mutex, or a part of it where     *)
(* another thread could interfere if the mutex were not held.  Text is a   *)
(* sequence of bytes.  The tree around the entry is in EntryTree, so that  *)
(* there is one element with at most one param here.  A call that is       *)
(* refused, or that fails before it has changed anything, is a stuttering  *)
(* step and is left out.                                                   *)
(***************************************************************************)
EXTENDS Text

CONSTANTS
  Threads,
  Buffers,              \* the memory that can be allocated for text
  Builders,             \* the string builders of the cache
  Names,                \* texts given as app names, msgids, hostnames and procids
  Messages, Values,     \* texts given as messages, and as values of params
  Facilities, Severities, Privals,   \* numbers given as these
  MaxName,              \* the longest name, STUMPLESS_MAX_APP_NAME_LENGTH and its like
  PageSize,             \* the first size of a string builder
  FixedSize,            \* the bytes of a record outside its fields
  Host, Pid,            \* what gethostname and getpid give
  MaxCalls,             \* bound on the calls made
  NULL

VARIABLES
  entry,     \* the fields of the entry, NULL while there is none
  param,     \* the memory of the value of its param, NULL while there is none
  memory,    \* the text in each buffer, NULL in the ones that are not allocated
  builder,   \* the string builders
  holder,    \* the thread that holds the mutex of the entry and of the param
  frame,     \* the call each thread is in
  asked,     \* history: the facility and the severity asked for last
  seen,      \* history: what has happened so far
  calls      \* history: the number of calls made

vars == << entry, param, memory, builder, holder, frame, asked, seen, calls >>

RFC_5424_NILVALUE == << 45 >>

stumpless_entry ==
  [prival : Int, app_name : Seq(0..255), msgid : Seq(0..255), hostname : Seq(0..255),
   procid : Seq(0..255), message : Buffers \cup {NULL}]

\* What gethostname and getpid give is printable, and not empty.
ASSUME FieldsAssumption ==
  /\ PageSize \in Nat \ {0} /\ FixedSize \in Nat /\ MaxName \in Nat \ {0}
  /\ Facilities \cup Severities \cup Privals \subseteq Int
  /\ Names \cup Messages \cup Values \cup {Host, Pid} \subseteq Seq(0..255)
  /\ \A s \in {Host, Pid} : validate_printable_ascii(s) /\ s # <<>>
  /\ NULL \notin Threads \cup Buffers \cup Builders \cup stumpless_entry

strbuilder == [size : Nat, used : Nat, state : {"cached", "out", "lost"}]

Idle == [step |-> "idle", mutex |-> NULL, buffer |-> NULL, builder |-> NULL, record |-> NULL, copy |-> NULL]

Init ==
  /\ entry = NULL
  /\ param = NULL
  /\ memory = [b \in Buffers |-> NULL]
  /\ builder = [b \in Builders |-> [size |-> 0, used |-> 0, state |-> "cached"]]
  /\ holder = [m \in {"entry", "param"} |-> NULL]
  /\ frame = [t \in Threads |-> Idle]
  /\ asked = NULL
  /\ seen = {}
  /\ calls = 0

Call(t) == frame[t] = Idle /\ calls < MaxCalls /\ calls' = calls + 1

AllIdle == \A t \in Threads : frame[t] = Idle

Free(m) == holder[m] = NULL

Allocate(text, b) ==
  IF text = NULL THEN b = NULL ELSE b \in Buffers /\ memory[b] = NULL

\* Memory once text has been written to b, and once b has been freed.
Written(b, text) == IF b = NULL THEN memory ELSE [memory EXCEPT ![b] = text]

Freed(b) == IF b = NULL THEN memory ELSE [memory EXCEPT ![b] = NULL]

-----------------------------------------------------------------------------
(***************************************************************************)
(* Creating and destroying.  Facility and severity are not looked at.  An  *)
(* entry is destroyed by an application that has no other call with it.    *)
(***************************************************************************)

Name(s) == IF s = NULL THEN RFC_5424_NILVALUE ELSE s

IsName(s) == IF s = NULL THEN TRUE ELSE validate_app_name(s, MaxName)

unchecked_load_entry(facility, severity, app_name, msgid, b) ==
  /\ entry' = [prival |-> get_prival(facility, severity), app_name |-> Name(app_name),
               msgid |-> Name(msgid), hostname |-> <<>>, procid |-> <<>>, message |-> b]
  /\ asked' = << facility, severity >>
  /\ seen' = seen \cup (IF facility_is_invalid(facility) \/ severity_is_invalid(severity)
                        THEN {"unchecked"} ELSE {})
                  \cup (IF << >> \in {app_name, msgid} THEN {"emptied"} ELSE {})

stumpless_new_entry(t) ==
  /\ Call(t)
  /\ entry = NULL
  /\ \E f \in Facilities, s \in Severities, n, i \in Names \cup {NULL}, text \in Messages \cup {NULL},
        b \in Buffers \cup {NULL} :
       /\ Allocate(text, b)
       /\ \/ /\ IsName(n) /\ IsName(i)
             /\ unchecked_load_entry(f, s, n, i, b)
             /\ memory' = Written(b, text)
          \/ UNCHANGED << entry, asked, seen, memory >>
  /\ UNCHANGED << param, builder, holder, frame >>

unchecked_unload_entry(t) ==
  /\ Call(t)
  /\ entry # NULL /\ param = NULL /\ AllIdle
  /\ memory' = Freed(entry.message)
  /\ entry' = NULL
  /\ UNCHANGED << param, builder, holder, frame, asked, seen >>

\* A param is added while no call reads the entry (see EntryTree).
AddParam(t, text) ==
  \E b \in Buffers :
    /\ Call(t)
    /\ entry # NULL /\ param = NULL /\ AllIdle
    /\ Allocate(text, b)
    /\ memory' = Written(b, text)
    /\ param' = b
    /\ UNCHANGED << entry, builder, holder, frame, asked >>

stumpless_new_param(t) ==
  \E text \in Values : validate_param_value(text) /\ AddParam(t, text) /\ UNCHANGED seen

\* Neither stumpless_load_param nor stumpless_new_param_from_string looks at
\* the value.
stumpless_load_param(t) ==
  \E text \in Values : AddParam(t, text) /\ seen' = seen \cup {"unvalidated"}

stumpless_unload_param(t) ==
  /\ Call(t)
  /\ param # NULL /\ AllIdle
  /\ memory' = Freed(param)
  /\ param' = NULL
  /\ UNCHANGED << entry, builder, holder, frame, asked, seen >>

-----------------------------------------------------------------------------
(***************************************************************************)
(* Setters.                                                                *)
(***************************************************************************)

SetField(t, f, value) ==
  /\ Call(t)
  /\ entry # NULL
  /\ Free("entry")
  /\ entry' = [entry EXCEPT ![f] = value]
  /\ UNCHANGED << param, memory, builder, holder, frame >>

stumpless_set_entry_app_name(t) ==
  \E s \in Names \cup {NULL}, f \in {"app_name", "msgid"} :
    /\ IsName(s)
    /\ SetField(t, f, Name(s))
    /\ seen' = IF s = <<>> THEN seen \cup {"emptied"} ELSE seen
    /\ UNCHANGED asked

\* Mutant: the mutex of the entry is not taken.
HostnameUnlocked(t) ==
  \E s \in Names :
    /\ Call(t) /\ entry # NULL /\ IsName(s)
    /\ entry' = [entry EXCEPT !.hostname = s]
    /\ UNCHANGED << param, memory, builder, holder, frame, asked, seen >>

\* Setting either to NULL, or to an empty text, restores the default.
stumpless_set_entry_hostname(t) ==
  \E s \in Names \cup {NULL}, f \in {"hostname", "procid"} :
    /\ IsName(s)
    /\ SetField(t, f, IF s = NULL THEN <<>> ELSE s)
    /\ UNCHANGED << asked, seen >>

stumpless_set_entry_facility(t) ==
  \E facility \in Facilities :
    /\ ~facility_is_invalid(facility)
    /\ SetField(t, "prival", get_prival(facility, get_severity(entry.prival)))
    /\ asked' = << facility, asked[2] >>
    /\ UNCHANGED seen

stumpless_set_entry_severity(t) ==
  \E severity \in Severities :
    /\ ~severity_is_invalid(severity)
    /\ SetField(t, "prival", get_prival(get_facility(entry.prival), severity))
    /\ asked' = << asked[1], severity >>
    /\ UNCHANGED seen

stumpless_set_entry_priority(t, facility, severity) ==
  /\ ~facility_is_invalid(facility) /\ ~severity_is_invalid(severity)
  /\ SetField(t, "prival", get_prival(facility, severity))

stumpless_set_entry_prival(t) ==
  \E prival \in Privals :
    /\ stumpless_set_entry_priority(t, get_facility(prival), get_severity(prival))
    /\ asked' = << ((prival % 256) \div 8) * 8, prival % 8 >>
    /\ UNCHANGED seen

\* The old message is freed after the mutex has been given back.
stumpless_set_entry_message(t) ==
  \E text \in Messages \cup {NULL}, b \in Buffers \cup {NULL} :
    /\ Call(t)
    /\ entry # NULL
    /\ Allocate(text, b)
    /\ Free("entry")
    /\ memory' = Written(b, text)
    /\ entry' = [entry EXCEPT !.message = b]
    /\ frame' = [frame EXCEPT ![t].step = "free", ![t].buffer = entry.message]
    /\ UNCHANGED << param, builder, holder, asked, seen >>

\* A thread that formats the entry does not hold the mutex of the param.
stumpless_set_param_value(t) ==
  \E text \in Values, b \in Buffers :
    /\ Call(t)
    /\ param # NULL
    /\ validate_param_value(text)
    /\ Allocate(text, b)
    /\ Free("param")
    /\ memory' = Written(b, text)
    /\ param' = b
    /\ frame' = [frame EXCEPT ![t].step = "free", ![t].buffer = param]
    /\ seen' = IF \E u \in Threads : frame[u].step = "value" THEN seen \cup {"revalued"} ELSE seen
    /\ UNCHANGED << entry, builder, holder, asked >>

FreeOld(t) ==
  /\ frame[t].step = "free"
  /\ memory' = Freed(frame[t].buffer)
  /\ frame' = [frame EXCEPT ![t] = Idle]
  /\ UNCHANGED << entry, param, builder, holder, asked, seen, calls >>

-----------------------------------------------------------------------------
(***************************************************************************)
(* Reading the memory of a message or of a value: the mutex is held from   *)
(* the read of the pointer until the copy has been made, or could not be   *)
(* allocated.                                                              *)
(***************************************************************************)

Read(t, m, b) ==
  /\ Call(t)
  /\ Free(m)
  /\ b # NULL
  /\ holder' = [holder EXCEPT ![m] = t]
  /\ frame' = [frame EXCEPT ![t].step = "read", ![t].mutex = m, ![t].buffer = b]
  /\ UNCHANGED << entry, param, memory, builder, asked, seen >>

stumpless_get_entry_message(t) == entry # NULL /\ Read(t, "entry", entry.message)

\* And stumpless_param_to_string, stumpless_param_into_string.
stumpless_get_param_value(t) == Read(t, "param", param)

CopyOut(t) ==
  /\ frame[t].step = "read"
  /\ holder' = [holder EXCEPT ![frame[t].mutex] = NULL]
  /\ frame' = [frame EXCEPT ![t] = Idle]
  /\ UNCHANGED << entry, param, memory, builder, asked, seen, calls >>

CopyOf(e, text) ==
  [e EXCEPT !.prival = get_prival(get_facility(@), get_severity(@)),
            !.hostname = <<>>, !.procid = <<>>, !.message = text]

\* The message is given to the new entry as a format without arguments:
\* with a conversion in it, what comes out is undefined.
stumpless_copy_entry(t) ==
  /\ Call(t)
  /\ entry # NULL
  /\ Free("entry") /\ Free("param")
  /\ \E text \in Messages \cup {NULL}, b \in Buffers \cup {NULL} :
       LET message == IF entry.message = NULL THEN NULL ELSE memory[entry.message] IN
       /\ text = message \/ (message # NULL /\ text # NULL /\ 37 \in ToSet(message))
       /\ Allocate(text, b)
       /\ memory' = Written(b, text)
       /\ frame' = [frame EXCEPT ![t].step = "copied", ![t].buffer = b,
                      ![t].record = [entry EXCEPT !.message = message],
                      ![t].copy = CopyOf(entry, text)]
  /\ UNCHANGED << entry, param, builder, holder, asked, seen >>

DestroyCopy(t) ==
  /\ frame[t].step = "copied"
  /\ memory' = Freed(frame[t].buffer)
  /\ frame' = [frame EXCEPT ![t] = Idle]
  /\ UNCHANGED << entry, param, builder, holder, asked, seen, calls >>

-----------------------------------------------------------------------------
(***************************************************************************)
(* String builders.                                                        *)
(***************************************************************************)

\* Mutant: the size that was added is taken to be the whole new size.
IncreaseCountsAll(old_size) == 2 * old_size

\* The memory is doubled: the size it had is the size that is added.
increase_size(old_size) == old_size

\* The size of a builder that has been doubled some times, and what is left.
Grown(b) ==
  LET grown[k \in Nat] ==
        IF k = 0 THEN [size |-> b.size, left |-> b.size - b.used]
        ELSE [size |-> 2 * grown[k - 1].size,
              left |-> grown[k - 1].left + increase_size(grown[k - 1].size)]
  IN  grown

\* How often a builder has to be doubled until it takes n more bytes.
Doublings(b, n) ==
  CHOOSE k \in 0..n : Grown(b)[k].left >= n /\ \A j \in 0..(k - 1) : Grown(b)[j].left < n

strbuilder_append_buffer(b, n) ==
  [b EXCEPT !.size = Grown(b)[Doublings(b, n)].size, !.used = @ + n]

strbuilder_new(b) ==
  /\ builder[b].state = "cached"
  /\ builder' = [builder EXCEPT ![b] = [size |-> IF @.size = 0 THEN PageSize ELSE @.size,
                                         used |-> 0, state |-> "out"]]

strbuilder_destroy(b) == builder' = [builder EXCEPT ![b].state = "cached"]

\* What appending n bytes to builder b results in: b, or NULL when its memory
\* cannot be doubled, or when it is NULL already.
Appended(b, n, result) ==
  \/ /\ b = NULL /\ result = NULL
     /\ UNCHANGED builder
  \/ /\ b # NULL /\ result = b
     /\ builder' = [builder EXCEPT ![b] = strbuilder_append_buffer(@, n)]
  \/ /\ b # NULL /\ result = NULL
     /\ Doublings(builder[b], n) > 0
     /\ builder' = [builder EXCEPT ![b].state = "lost"]

NewBuilder(b) == IF b = NULL THEN UNCHANGED builder ELSE strbuilder_new(b)

\* The result of an append to the builder is ignored here, so that the
\* builder is not lost.
stumpless_get_entry_hostname(t) ==
  \E b \in Builders \cup {NULL} :
    /\ Call(t)
    /\ entry # NULL
    /\ NewBuilder(b)
    /\ frame' = [frame EXCEPT ![t].step = "field", ![t].builder = b]
    /\ UNCHANGED << entry, param, memory, holder, asked, seen >>

FieldToString(t) ==
  /\ frame[t].step = "field"
  /\ Free("entry")
  /\ frame' = [frame EXCEPT ![t] = Idle]
  /\ \E n \in {0, Len(entry.hostname), Len(entry.procid), Len(Host), Len(Pid)} :
       LET b == frame[t].builder IN
       IF b = NULL THEN UNCHANGED builder
       ELSE builder' = [builder EXCEPT ![b] = [strbuilder_append_buffer(@, n) EXCEPT !.state = "cached"]]
  /\ UNCHANGED << entry, param, memory, holder, asked, seen, calls >>

-----------------------------------------------------------------------------
(***************************************************************************)
(* Formatting: the mutex of the entry is held from the start to the end.   *)
(***************************************************************************)

format_entry(t) ==
  \E b \in Builders \cup {NULL} :
    /\ Call(t)
    /\ entry # NULL
    /\ Free("entry")
    /\ holder' = [holder EXCEPT !["entry"] = t]
    /\ NewBuilder(b)
    /\ frame' = [frame EXCEPT ![t].step = "header", ![t].builder = b]
    /\ UNCHANGED << entry, param, memory, asked, seen >>

Digits(n) == 1 + Cardinality({i \in 1..9 : 10^i <= (IF n < 0 THEN -n ELSE n)})

Headers ==
  {[prival |-> entry.prival, hostname |-> h, app_name |-> entry.app_name, procid |-> i,
    msgid |-> entry.msgid, value |-> NULL, message |-> NULL] :
     h \in IF entry.hostname # <<>> THEN {entry.hostname} ELSE {Host, RFC_5424_NILVALUE},
     i \in {RFC_5424_NILVALUE, IF entry.procid # <<>> THEN entry.procid ELSE Pid}}

HeaderSize(r) ==
  FixedSize + Digits(r.prival) + Len(r.hostname) + Len(r.app_name) + Len(r.procid) + Len(r.msgid)

strbuilder_append_app_name(t) ==
  /\ frame[t].step = "header"
  /\ \E r \in Headers, b \in Builders \cup {NULL} :
       /\ Appended(frame[t].builder, HeaderSize(r), b)
       /\ frame' = [frame EXCEPT ![t].builder = b, ![t].record = r, ![t].buffer = param,
                                 ![t].step = IF param = NULL THEN "message" ELSE "value"]
       /\ seen' = IF frame[t].builder # b THEN seen \cup {"lost"} ELSE seen
       /\ UNCHANGED << entry, param, memory, holder, asked, calls >>

\* The value is read without the mutex of the param; memory that has been
\* freed holds anything.
strbuilder_append_structured_data(t) ==
  \E b \in Builders \cup {NULL}, text \in Values :
    /\ frame[t].step = "value"
    /\ memory[frame[t].buffer] # NULL => text = memory[frame[t].buffer]
    /\ Appended(frame[t].builder, Len(text), b)
    /\ frame' = [frame EXCEPT ![t].builder = b, ![t].record.value = text,
                              ![t].buffer = entry.message, ![t].step = "message"]
    /\ seen' = IF frame[t].builder # b THEN seen \cup {"lost"} ELSE seen
    /\ UNCHANGED << entry, param, memory, holder, asked, calls >>

strbuilder_append_message(t) ==
  /\ frame[t].step = "message"
  /\ \E b \in Builders \cup {NULL} :
       LET text == IF entry.message = NULL THEN <<>> ELSE memory[entry.message] IN
       /\ Appended(frame[t].builder, Len(text), b)
       /\ frame' = [frame EXCEPT ![t].builder = b, ![t].record.message = text,
                                 ![t].buffer = NULL, ![t].step = "formatted"]
       /\ seen' = IF frame[t].builder # b THEN seen \cup {"lost"} ELSE seen
  /\ UNCHANGED << entry, param, memory, holder, asked, calls >>

FormatUnlock(t) ==
  /\ frame[t].step = "formatted"
  /\ holder' = [holder EXCEPT !["entry"] = NULL]
  /\ frame' = [frame EXCEPT ![t].step = "deliver", ![t].record = NULL]
  /\ UNCHANGED << entry, param, memory, builder, asked, seen, calls >>

\* stumpless_add_entry has sent what the builder holds and destroys it.
Deliver(t) ==
  /\ frame[t].step = "deliver"
  /\ IF frame[t].builder = NULL THEN UNCHANGED builder ELSE strbuilder_destroy(frame[t].builder)
  /\ frame' = [frame EXCEPT ![t] = Idle]
  /\ UNCHANGED << entry, param, memory, holder, asked, seen, calls >>

Next ==
  \E t \in Threads :
    \/ stumpless_new_entry(t) \/ unchecked_unload_entry(t)
    \/ stumpless_new_param(t) \/ stumpless_load_param(t) \/ stumpless_unload_param(t)
    \/ stumpless_set_entry_app_name(t) \/ stumpless_set_entry_hostname(t)
    \/ stumpless_set_entry_facility(t) \/ stumpless_set_entry_severity(t)
    \/ stumpless_set_entry_prival(t)
    \/ stumpless_set_entry_message(t) \/ stumpless_set_param_value(t) \/ FreeOld(t)
    \/ stumpless_get_entry_message(t) \/ stumpless_get_param_value(t) \/ CopyOut(t)
    \/ stumpless_copy_entry(t) \/ DestroyCopy(t)
    \/ stumpless_get_entry_hostname(t) \/ FieldToString(t)
    \/ format_entry(t) \/ strbuilder_append_app_name(t) \/ strbuilder_append_structured_data(t)
    \/ strbuilder_append_message(t) \/ FormatUnlock(t) \/ Deliver(t)

Spec == Init /\ [][Next]_vars

-----------------------------------------------------------------------------
(***************************************************************************)
(* Types: a name of the entry is never longer than the array that holds    *)
(* it, whatever name it was given.                                         *)
(***************************************************************************)
TypeOK ==
  /\ entry = NULL \/ entry \in stumpless_entry
  /\ entry # NULL =>
       \A f \in {"app_name", "msgid", "hostname", "procid"} :
         entry[f] \in Names \cup {RFC_5424_NILVALUE, <<>>} /\ Len(entry[f]) <= MaxName
  /\ param \in Buffers \cup {NULL}
  /\ \A b \in Buffers : memory[b] \in Messages \cup Values \cup {NULL}
  /\ \A b \in Builders : builder[b] \in strbuilder
  /\ \A m \in DOMAIN holder : holder[m] \in Threads \cup {NULL}

(***************************************************************************)
(* A buffer that a thread reads has not been freed.  The value of a param  *)
(* is the exception: format_entry reads it without the mutex of the param, *)
(* so that it has to be kept from changing meanwhile.                      *)
(***************************************************************************)
ReadsLive ==
  \A t \in Threads :
    /\ frame[t].step = "read" => memory[frame[t].buffer] # NULL
    /\ frame[t].step = "value" /\ "revalued" \notin seen => memory[frame[t].buffer] # NULL

(***************************************************************************)
(* Text is neither leaked nor freed twice: each buffer that is allocated   *)
(* belongs to the entry, to the param or to a call that will free it, and  *)
(* to one of them only.                                                    *)
(***************************************************************************)
BuffersOwned ==
  \A b \in Buffers :
    Cardinality({t \in Threads : frame[t].step \in {"free", "copied"} /\ frame[t].buffer = b})
      + (IF entry # NULL /\ entry.message = b THEN 1 ELSE 0)
      + (IF param = b THEN 1 ELSE 0) = (IF memory[b] = NULL THEN 0 ELSE 1)

(***************************************************************************)
(* The prival of an entry has the facility and the severity that were      *)
(* asked for last, whoever set which of them; of a prival, the lowest      *)
(* eight bits count.  stumpless_new_entry accepts any number for either.   *)
(***************************************************************************)
PrivalAsked ==
  entry # NULL /\ "unchecked" \notin seen =>
    /\ entry.prival \in 0..191
    /\ get_severity(entry.prival) = asked[2]
    /\ get_facility(entry.prival) = asked[1]

(***************************************************************************)
(* What is formatted is the entry as it is at one moment: while the entry  *)
(* is still locked all that has been written to the record agrees with it. *)
(***************************************************************************)
FormatAtomic ==
  \A t \in Threads :
    frame[t].step \in {"value", "message", "formatted"} =>
      LET r == frame[t].record IN
      /\ << r.prival, r.app_name, r.msgid >> = << entry.prival, entry.app_name, entry.msgid >>
      /\ entry.hostname # <<>> => r.hostname = entry.hostname
      /\ entry.procid # <<>> => r.procid \in {entry.procid, RFC_5424_NILVALUE}
      /\ frame[t].step = "formatted" =>
           r.message = (IF entry.message = NULL THEN <<>> ELSE memory[entry.message])

(***************************************************************************)
(* A record that is delivered is well formed: a prival of RFC 5424, header *)
(* fields that are printable and not empty, and a value in UTF-8.  Three   *)
(* ways around the checks are left out: numbers given to                   *)
(* stumpless_new_entry, empty names, and values that came in through       *)
(* stumpless_load_param or stumpless_new_param_from_string.                *)
(***************************************************************************)
RecordWellFormed ==
  \A t \in Threads :
    frame[t].step = "formatted" =>
      LET r == frame[t].record IN
      /\ "unchecked" \notin seen => r.prival \in 0..191
      /\ \A f \in {"hostname", "app_name", "procid", "msgid"} :
           validate_printable_ascii(r[f]) /\ ("emptied" \notin seen => r[f] # <<>>)
      /\ r.value # NULL /\ seen \cap {"unvalidated", "revalued"} = {} => validate_param_value(r.value)

(***************************************************************************)
(* No byte is written past the end of the memory of a string builder.      *)
(***************************************************************************)
BuilderFits == \A b \in Builders : builder[b].used <= builder[b].size

(***************************************************************************)
(* A string builder that is out of the cache belongs to one call, and it   *)
(* comes back; only the ones whose memory could not be doubled while an    *)
(* entry was formatted are lost.                                           *)
(***************************************************************************)
BuildersReturned ==
  \A b \in Builders :
    /\ Cardinality({t \in Threads : frame[t].builder = b}) = (IF builder[b].state = "out" THEN 1 ELSE 0)
    /\ builder[b].state = "lost" => "lost" \in seen

(***************************************************************************)
(* A copy has the prival, the names and the message that the entry had,    *)
(* as long as the message has no conversion in it and the prival no more   *)
(* than the eight bits that count; its hostname and procid are the default *)
(* ones.                                                                   *)
(***************************************************************************)
CopyAgrees ==
  \A t \in Threads :
    frame[t].step = "copied" =>
      LET r == frame[t].record  c == frame[t].copy IN
      /\ << c.prival, c.app_name, c.msgid >> = << r.prival % 256, r.app_name, r.msgid >>
      /\ c.message = r.message \/ 37 \in ToSet(r.message)

(***************************************************************************)
(* The texts of an entry and the string builders are owned by one user     *)
(* each, read only while they are allocated, and written within bounds.    *)
(***************************************************************************)
TextOwned == TypeOK /\ ReadsLive /\ BuffersOwned /\ BuilderFits /\ BuildersReturned

(***************************************************************************)
(* A record, or a copy, is the entry as it was set and as it was at one    *)
(* moment.                                                                 *)
(***************************************************************************)
RecordFaithful == PrivalAsked /\ FormatAtomic /\ RecordWellFormed /\ CopyAgrees
=============================================================================
