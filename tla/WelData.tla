------------------------------ MODULE WelData ------------------------------
(***************************************************************************)
(* What an entry keeps for the Windows Event Log, and how it is sent       *)
(* there: struct wel_data, its getters and setters, its copy               *)
(* (src/src/config/wel_supported.c) and sendto_wel_target                  *)
(* (src/src/target/wel.c).  The entry and its wel_data have a mutex each.  *)
(* A step is what a function does between two points at which it can have  *)
(* to wait for one of them; the mutex of a param is only held inside steps.*)
(*                                                                         *)
(* Text is a member of a small set.  A WORD counts to WordMax.             *)
(***************************************************************************)
EXTENDS Integers, Sequences, FiniteSets, Functions

CONSTANTS
  Threads,
  Params,       \* params that can be insertion strings
  Strings,      \* wide strings that can be allocated
  Texts,        \* their contents, the values of params, and messages
  Words,        \* values given to type, category and event id
  Privals,      \* privals given to the entry
  Indexes,      \* indexes of insertion strings that are used
  WordMax,      \* the largest WORD
  MaxCalls,     \* bound on the calls made
  NULL

VARIABLES
  data,         \* the wel_data of the entry
  copy,         \* the one of a copy of the entry, if there is one
  live,         \* the wide strings that are allocated
  text,         \* what each of them holds
  value,        \* the value of each param
  prival,       \* the prival and
  message,      \* the message of the entry
  holder,       \* the thread that has each of the two mutexes
  frame,        \* the call each thread is in
  last,         \* history: what was set last as each insertion string
  lost,         \* history: strings a call returned without freeing or storing
  crossed,      \* history: a call that locks the entry first met a sending one
  calls         \* history: the number of calls made

vars == << data, copy, live, text, value, prival, message, holder, frame, last, lost, crossed, calls >>

wel_data ==
  [type : Words \cup {NULL}, category : Words \cup {NULL}, event_id : Words \cup {NULL},
   params : Seq(Params \cup {NULL}), strings : Seq(Strings \cup {NULL}), count : 0..WordMax]

\* What an insertion string was set to.
setting == [param : Params \cup {NULL}, text : Texts \cup {NULL}]

Idle == [step |-> "idle", text |-> NULL, event |-> NULL, disturbed |-> FALSE]

Steps == {"idle", "field", "strings", "copy", "prival", "message", "report", "reported", "spin", "crashed"}

initialize_wel_data ==
  [type |-> NULL, category |-> NULL, event_id |-> NULL,
   params |-> <<>>, strings |-> <<>>, count |-> 0]

Init ==
  /\ data = initialize_wel_data
  /\ copy = NULL
  /\ live = {}
  /\ prival \in Privals
  /\ message \in Texts
  /\ text = [s \in Strings |-> message]
  /\ value = [p \in Params |-> message]
  /\ holder = [m \in {"entry", "data"} |-> NULL]
  /\ frame = [t \in Threads |-> Idle]
  /\ last = [i \in Indexes |-> NULL]
  /\ lost = {}
  /\ crossed = FALSE
  /\ calls = 0

Free(m) == holder[m] = NULL

Calling(t) ==
  /\ frame[t].step = "idle"
  /\ calls < MaxCalls
  /\ calls' = calls + 1

Step(t, f) == frame' = [frame EXCEPT ![t] = f]

\* A step that changes something, seen by the calls of the other threads.
Change(t, f) ==
  frame' = [u \in Threads |-> IF u = t THEN f
                              ELSE [frame[u] EXCEPT !.disturbed = frame[u].step # "idle"]]

Sending(t) == frame[t].step \in {"prival", "message", "report"}

LockedEntry(t) == frame[t].step \in {"field", "copy"}

(***************************************************************************)
(* What is derived from the prival.                                        *)
(***************************************************************************)

get_severity(p) == p % 8

get_facility(p) == p \div 8

get_category(p) == get_severity(p) + 1

get_type_index(p) ==
  CASE get_severity(p) = 7        -> 0
    [] get_severity(p) \in {5, 6} -> 3
    [] get_severity(p) = 4        -> 2
    [] OTHER                      -> 1

get_type(p) ==
  CASE get_type_index(p) = 0 -> "success"
    [] get_type_index(p) = 2 -> "warning"
    [] get_type_index(p) = 3 -> "information"
    [] OTHER                 -> "error"

\* The three bit fields of the id.  The case of a warning falls through to
\* that of information.
get_event_id(p) ==
  [severity |-> CASE get_type_index(p) = 0 -> 0 [] get_type_index(p) \in {2, 3} -> 1 [] OTHER -> 3,
   facility |-> 256 + get_facility(p),
   code     |-> get_facility(p) + get_type_index(p) * 24 + 17]

\* The messages of the library, in four blocks of one for each facility.
default_events ==
  {[severity |-> CASE block = 0 -> 0 [] block = 1 -> 3 [] block = 2 -> 2 [] block = 3 -> 1,
    facility |-> 256 + f, code |-> 17 + 24 * block + f] : block \in 0..3, f \in 0..23}

(***************************************************************************)
(* Getters.                                                                *)
(***************************************************************************)

stumpless_get_wel_category == IF data.category # NULL THEN data.category ELSE get_category(prival)

stumpless_get_wel_event_id == IF data.event_id # NULL THEN data.event_id ELSE get_event_id(prival)

stumpless_get_wel_type == IF data.type # NULL THEN data.type ELSE get_type(prival)

stumpless_get_wel_insertion_param(i) == IF i >= data.count THEN NULL ELSE data.params[i + 1]

\* The text of an insertion string of d.
TextAt(d, i) ==
  IF d.params[i + 1] # NULL THEN value[d.params[i + 1]]
  ELSE IF d.strings[i + 1] # NULL THEN text[d.strings[i + 1]] ELSE NULL

stumpless_get_wel_insertion_string(i) == IF i >= data.count THEN NULL ELSE TextAt(data, i)

stumpless_get_wel_insertion_string_w(i) == IF i >= data.count THEN NULL ELSE TextAt(data, i)

\* The three getters above hold the entry when they ask for the wel_data.
GetField(t) ==
  /\ Calling(t)
  /\ Free("entry")
  /\ holder' = [holder EXCEPT !["entry"] = t]
  /\ crossed' = (crossed \/ \E u \in Threads : Sending(u))
  /\ Step(t, [Idle EXCEPT !.step = "field"])
  /\ UNCHANGED << data, copy, live, text, value, prival, message, last, lost >>

ReadField(t) ==
  /\ frame[t].step = "field"
  /\ Free("data")
  /\ holder' = [holder EXCEPT !["entry"] = NULL]
  /\ Step(t, Idle)
  /\ UNCHANGED << data, copy, live, text, value, prival, message, last, lost, crossed, calls >>

(***************************************************************************)
(* Setters.                                                                *)
(***************************************************************************)

SetField(t, d) ==
  /\ Calling(t)
  /\ Free("data")
  /\ data' = d
  /\ Change(t, Idle)
  /\ UNCHANGED << copy, live, text, value, prival, message, holder, last, lost, crossed >>

stumpless_set_wel_category(t, w) == SetField(t, [data EXCEPT !.category = w])

stumpless_set_wel_event_id(t, w) == SetField(t, [data EXCEPT !.event_id = w])

stumpless_set_wel_type(t, w) == SetField(t, [data EXCEPT !.type = w])

stumpless_set_entry_prival(t, p) ==
  /\ Calling(t)
  /\ Free("entry")
  /\ prival' = p
  /\ Change(t, Idle)
  /\ UNCHANGED << data, copy, live, text, value, message, holder, last, lost, crossed >>

stumpless_set_entry_message(t, x) ==
  /\ Calling(t)
  /\ Free("entry")
  /\ message' = x
  /\ Change(t, Idle)
  /\ UNCHANGED << data, copy, live, text, value, prival, holder, last, lost, crossed >>

stumpless_set_param_value(t, p, x) ==
  /\ Calling(t)
  /\ value' = [value EXCEPT ![p] = x]
  /\ Change(t, Idle)
  /\ UNCHANGED << data, copy, live, text, prival, message, holder, last, lost, crossed >>

Extended(s, n) == [j \in 1..n |-> IF j <= data.count THEN s[j] ELSE NULL]

\* What resize_insertion_params leaves, and whether it succeeds: either of
\* its allocations can fail, and the first has been stored when the second does.
resize_insertion_params(i) ==
  {[ok |-> TRUE, data |-> [data EXCEPT !.params = Extended(@, i + 1), !.strings = Extended(@, i + 1),
                                       !.count = i + 1]],
   [ok |-> FALSE, data |-> [data EXCEPT !.params = Extended(@, i + 1)]],
   [ok |-> FALSE, data |-> data]}

Room(i) == IF i < data.count THEN {[ok |-> TRUE, data |-> data]} ELSE resize_insertion_params(i)

\* The loop over a WORD that is to go up to the largest one never ends.
Endless(i) == i >= data.count /\ i = WordMax

Spin(t) ==
  /\ holder' = [holder EXCEPT !["data"] = t]
  /\ Step(t, [Idle EXCEPT !.step = "spin"])
  /\ UNCHANGED << data, live, text, last, lost >>

\* Mutant: the string that the param replaces is not freed.
SetParamLeaks(t, i, p) ==
  /\ Calling(t)
  /\ Free("data")
  /\ \/ Endless(i) /\ Spin(t)
     \/ /\ ~Endless(i)
        /\ \E r \in Room(i) :
             /\ data' = IF r.ok THEN [r.data EXCEPT !.params[i + 1] = p, !.strings[i + 1] = NULL] ELSE r.data
             /\ last' = IF r.ok THEN [last EXCEPT ![i] = [param |-> p, text |-> NULL]] ELSE last
        /\ Change(t, Idle)
        /\ UNCHANGED << live, text, holder, lost >>
  /\ UNCHANGED << copy, value, prival, message, crossed >>

stumpless_set_wel_insertion_param(t, i, p) ==
  /\ Calling(t)
  /\ Free("data")
  /\ \/ Endless(i) /\ Spin(t)
     \/ /\ ~Endless(i)
        /\ \E r \in Room(i) :
             /\ data' = IF r.ok THEN [r.data EXCEPT !.params[i + 1] = p, !.strings[i + 1] = NULL] ELSE r.data
             /\ last' = IF r.ok THEN [last EXCEPT ![i] = [param |-> p, text |-> NULL]] ELSE last
             /\ live' = IF r.ok THEN live \ {r.data.strings[i + 1]} ELSE live
        /\ Change(t, Idle)
        /\ UNCHANGED << text, holder, lost >>
  /\ UNCHANGED << copy, value, prival, message, crossed >>

locked_swap_wel_insertion_string(i, s, r) ==
  IF r.ok THEN [r.data EXCEPT !.strings[i + 1] = s] ELSE r.data

\* One insertion string is set, then the call goes on with f.  The copy of
\* the text is lost when there is no room for it.
SetString(t, i, x, f) ==
  \/ Endless(i) /\ Spin(t)
  \/ /\ ~Endless(i)
     /\ \E s \in Strings \ live, r \in Room(i) :
          /\ data' = locked_swap_wel_insertion_string(i, s, r)
          /\ text' = [text EXCEPT ![s] = x]
          /\ live' = (IF r.ok THEN live \ {r.data.strings[i + 1]} ELSE live) \cup {s}
          /\ lost' = IF r.ok THEN lost ELSE lost \cup {s}
          /\ last' = IF r.ok THEN [last EXCEPT ![i] = [param |-> NULL, text |-> x]] ELSE last
          /\ Change(t, IF r.ok THEN f ELSE Idle)
          /\ holder' = [holder EXCEPT !["data"] = IF r.ok /\ f # Idle THEN t ELSE NULL]

stumpless_set_wel_insertion_string(t, i, x) ==
  /\ Calling(t)
  /\ Free("data")
  /\ SetString(t, i, x, Idle)
  /\ UNCHANGED << copy, value, prival, message, crossed >>

\* Several strings are set with the mutex held throughout.
vstumpless_set_wel_insertion_strings(t, xs) ==
  /\ Calling(t)
  /\ Free("data")
  /\ SetString(t, 0, xs[1], [Idle EXCEPT !.step = "strings", !.text = xs[2]])
  /\ UNCHANGED << copy, value, prival, message, crossed >>

\* The next one, or the end of the call for an argument that is NULL or
\* cannot be copied.
SetNextString(t) ==
  /\ frame[t].step = "strings"
  /\ \/ SetString(t, 1, frame[t].text, Idle)
     \/ /\ Step(t, Idle)
        /\ holder' = [holder EXCEPT !["data"] = NULL]
        /\ UNCHANGED << data, live, text, last, lost >>
  /\ UNCHANGED << copy, value, prival, message, crossed, calls >>

(***************************************************************************)
(* stumpless_copy_entry holds the entry when it copies the wel_data.       *)
(***************************************************************************)

stumpless_copy_entry(t) ==
  /\ Calling(t)
  /\ copy = NULL
  /\ \A u \in Threads : frame[u].step # "copy"
  /\ Free("entry")
  /\ holder' = [holder EXCEPT !["entry"] = t]
  /\ crossed' = (crossed \/ \E u \in Threads : Sending(u))
  /\ Step(t, [Idle EXCEPT !.step = "copy"])
  /\ UNCHANGED << data, copy, live, text, value, prival, message, last, lost >>

\* When memory runs out after the first array, the arrays are freed, and
\* freed once more when the copy of the entry is destroyed.
copy_wel_data(t) ==
  /\ frame[t].step = "copy"
  /\ Free("data")
  /\ holder' = [holder EXCEPT !["entry"] = NULL]
  /\ \/ \E new \in Injection({j \in 1..data.count : data.strings[j] # NULL}, Strings \ live) :
          /\ copy' = [data EXCEPT !.params = SubSeq(@, 1, data.count),
                                  !.strings = [j \in 1..data.count |-> IF j \in DOMAIN new THEN new[j] ELSE NULL]]
          /\ live' = live \cup Range(new)
          /\ text' = [s \in Strings |->
                        IF s \in Range(new) THEN text[data.strings[CHOOSE j \in DOMAIN new : new[j] = s]] ELSE text[s]]
          /\ Step(t, Idle)
     \/ \E f \in {"idle"} \cup {"crashed" : x \in 1..data.count} :
          /\ Step(t, [Idle EXCEPT !.step = f])
          /\ UNCHANGED << copy, live, text >>
  /\ UNCHANGED << data, value, prival, message, last, lost, crossed, calls >>

\* The copy is destroyed.
destroy_wel_data(t) ==
  /\ Calling(t)
  /\ copy # NULL
  /\ live' = live \ {copy.strings[j] : j \in 1..copy.count}
  /\ copy' = NULL
  /\ UNCHANGED << data, text, value, prival, message, holder, frame, last, lost, crossed >>

(***************************************************************************)
(* sendto_wel_target.                                                      *)
(***************************************************************************)

WithParam(n) == {j \in 1..n : data.params[j] # NULL}

\* The value of each param becomes the string at its index.  When one cannot
\* be converted the call ends, and reads a pointer that was never set, which
\* may be the one an earlier call left there, to memory that was freed.
sendto_wel_target(t) ==
  /\ Calling(t)
  /\ Free("data")
  /\ \E n \in 0..data.count : \E new \in Injection(WithParam(n), Strings \ live) :
       /\ n < data.count => data.params[n + 1] # NULL
       /\ data' = [data EXCEPT !.strings = [j \in DOMAIN @ |-> IF j \in DOMAIN new THEN new[j] ELSE @[j]]]
       /\ live' = (live \ {data.strings[j] : j \in DOMAIN new}) \cup Range(new)
       /\ text' = [s \in Strings |->
                     IF s \in Range(new) THEN value[data.params[CHOOSE j \in DOMAIN new : new[j] = s]] ELSE text[s]]
       /\ IF n = data.count
          THEN /\ Step(t, [Idle EXCEPT !.step = "prival"])
               /\ holder' = [holder EXCEPT !["data"] = t]
          ELSE /\ \E f \in {"idle", "crashed"} : Step(t, [Idle EXCEPT !.step = f])
               /\ UNCHANGED holder
  /\ crossed' = (crossed \/ \E u \in Threads : LockedEntry(u))
  /\ UNCHANGED << copy, value, prival, message, last, lost >>

InsertionTexts == [j \in 1..data.count |-> IF data.strings[j] = NULL THEN NULL ELSE text[data.strings[j]]]

\* Mutant: the category is numbered like the types.
CategoryOfType(t) ==
  /\ frame[t].step = "prival"
  /\ Free("entry")
  /\ Step(t, [frame[t] EXCEPT !.step = IF data.event_id # NULL THEN "report" ELSE "message",
                              !.event = [type |-> stumpless_get_wel_type,
                                         category |-> IF data.category # NULL THEN data.category
                                                      ELSE get_type_index(prival) + 1,
                                         event_id |-> stumpless_get_wel_event_id,
                                         strings |-> InsertionTexts]])
  /\ UNCHANGED << data, copy, live, text, value, prival, message, holder, last, lost, crossed, calls >>

\* The prival is read once, under the mutex of the entry.
SendPrival(t) ==
  /\ frame[t].step = "prival"
  /\ Free("entry")
  /\ Step(t, [frame[t] EXCEPT !.step = IF data.event_id # NULL THEN "report" ELSE "message",
                              !.event = [type |-> stumpless_get_wel_type,
                                         category |-> stumpless_get_wel_category,
                                         event_id |-> stumpless_get_wel_event_id,
                                         strings |-> InsertionTexts]])
  /\ UNCHANGED << data, copy, live, text, value, prival, message, holder, last, lost, crossed, calls >>

\* Without an event id the message is the only insertion string.
SendMessage(t) ==
  /\ frame[t].step = "message"
  /\ Free("entry")
  /\ Step(t, [frame[t] EXCEPT !.step = "report", !.event.strings = << message >>])
  /\ UNCHANGED << data, copy, live, text, value, prival, message, holder, last, lost, crossed, calls >>

ReportEvent(t) ==
  /\ frame[t].step = "report"
  /\ holder' = [holder EXCEPT !["data"] = NULL]
  /\ Step(t, [frame[t] EXCEPT !.step = "reported"])
  /\ UNCHANGED << data, copy, live, text, value, prival, message, last, lost, crossed, calls >>

EndSend(t) ==
  /\ frame[t].step = "reported"
  /\ Step(t, Idle)
  /\ UNCHANGED << data, copy, live, text, value, prival, message, holder, last, lost, crossed, calls >>

-----------------------------------------------------------------------------
Call(t) ==
  \/ GetField(t)
  \/ \E w \in Words :
       \/ stumpless_set_wel_category(t, w)
       \/ stumpless_set_wel_event_id(t, w)
       \/ stumpless_set_wel_type(t, w)
  \/ \E p \in Privals : stumpless_set_entry_prival(t, p)
  \/ \E x \in Texts : stumpless_set_entry_message(t, x)
  \/ \E p \in Params, x \in Texts : stumpless_set_param_value(t, p, x)
  \/ \E i \in Indexes, p \in Params \cup {NULL} : stumpless_set_wel_insertion_param(t, i, p)
  \/ \E i \in Indexes, x \in Texts : stumpless_set_wel_insertion_string(t, i, x)
  \/ \E x, y \in Texts : vstumpless_set_wel_insertion_strings(t, << x, y >>)
  \/ stumpless_copy_entry(t)
  \/ destroy_wel_data(t)
  \/ sendto_wel_target(t)

Progress(t) ==
  \/ ReadField(t)
  \/ SetNextString(t)
  \/ copy_wel_data(t)
  \/ SendPrival(t)
  \/ SendMessage(t)
  \/ ReportEvent(t)
  \/ EndSend(t)

Next == \E t \in Threads : Call(t) \/ Progress(t)

Spec == Init /\ [][Next]_vars

-----------------------------------------------------------------------------
(***************************************************************************)
(* Properties.                                                             *)
(***************************************************************************)

TypeOK ==
  /\ data \in wel_data
  /\ copy \in wel_data \cup {NULL}
  /\ live \subseteq Strings
  /\ text \in [Strings -> Texts]
  /\ value \in [Params -> Texts]
  /\ prival \in Privals
  /\ message \in Texts
  /\ holder \in [{"entry", "data"} -> Threads \cup {NULL}]
  /\ \A t \in Threads : frame[t].step \in Steps
  /\ calls \in 0..MaxCalls

Stored(d) == {j \in 1..d.count : d.strings[j] # NULL}

(***************************************************************************)
(* Both arrays reach as far as the count, whichever allocation of          *)
(* resize_insertion_params fails, and each wide string that is allocated   *)
(* is at one index of the entry or of its copy, except the ones that a     *)
(* setter lost for lack of room; none at an index was freed.               *)
(***************************************************************************)
StringsOwned ==
  LET D == IF copy = NULL THEN {data} ELSE {data, copy}
      places == {x \in D \X (1..WordMax) : x[2] \in Stored(x[1])}
  IN
  /\ \A d \in D : d.count <= Len(d.params) /\ d.count <= Len(d.strings)
  /\ \A x, y \in places : x[1].strings[x[2]] = y[1].strings[y[2]] => x = y
  /\ {x[1].strings[x[2]] : x \in places} = live \ lost

\* Nothing has to be waited for, or it is free.
CanGoOn(t) ==
  CASE frame[t].step \in {"field", "copy"}     -> Free("data")
    [] frame[t].step \in {"prival", "message"} -> Free("entry")
    [] OTHER                                   -> frame[t].step \notin {"idle", "spin", "crashed"}

(***************************************************************************)
(* While a call is under way one of them can go on, so that all of them    *)
(* return, with two exceptions: the entry is sent while another thread     *)
(* gets its type, category or event id or copies it (sendto_wel_target     *)
(* takes the two mutexes in the other order), and an insertion string with *)
(* the largest index.                                                      *)
(***************************************************************************)
NoStall ==
  \/ crossed
  \/ \E t \in Threads : frame[t].step \in {"spin", "crashed"}
  \/ \A t \in Threads : frame[t].step = "idle"
  \/ \E t \in Threads : CanGoOn(t)

(***************************************************************************)
(* A thread outside of the library holds neither mutex, whichever way its  *)
(* calls ended.                                                            *)
(***************************************************************************)
LocksReturned ==
  \A t \in Threads, m \in {"entry", "data"} :
    holder[m] = t => frame[t].step \notin {"idle", "reported"}

(***************************************************************************)
(* What was set last as an insertion string is what the getters return,    *)
(* with one exception: a string does not take the place of a param.        *)
(***************************************************************************)
LastSetWins ==
  \A i \in Indexes :
    last[i] # NULL =>
      IF last[i].param # NULL
      THEN /\ stumpless_get_wel_insertion_param(i) = last[i].param
           /\ stumpless_get_wel_insertion_string(i) = value[last[i].param]
           /\ stumpless_get_wel_insertion_string_w(i) = value[last[i].param]
      ELSE stumpless_get_wel_insertion_param(i) = NULL => stumpless_get_wel_insertion_string(i) = last[i].text

(***************************************************************************)
(* The event that is reported is what the getters say of the entry, when   *)
(* nothing was changed while it was sent; and whatever is changed by other *)
(* threads, category, type and event id follow from one prival, as long as *)
(* none of them was set.                                                   *)
(***************************************************************************)
EventMatchesEntry ==
  \A t \in Threads :
    LET e == frame[t].event IN
    frame[t].step = "reported" =>
      /\ ~frame[t].disturbed =>
           /\ e.type = stumpless_get_wel_type
           /\ e.category = stumpless_get_wel_category
           /\ e.event_id = stumpless_get_wel_event_id
           /\ e.strings = IF data.event_id = NULL THEN << message >>
                          ELSE [j \in 1..data.count |-> stumpless_get_wel_insertion_string(j - 1)]
      /\ e.type \notin Words /\ e.category \notin Words /\ e.event_id \notin Words =>
           \E p \in Privals :
             e.type = get_type(p) /\ e.category = get_category(p) /\ e.event_id = get_event_id(p)

WithoutMessage == {p \in 0..191 : get_event_id(p) \notin default_events}

(***************************************************************************)
(* Every prival has an event id under which the library has a message,     *)
(* except those of severity warning, for which get_event_id gives the      *)
(* severity of information.  That depends on no state and is looked at     *)
(* before the first call; no two privals of a state share an id by mistake.*)
(***************************************************************************)
EventIdsDefined ==
  /\ calls = 0 => WithoutMessage \subseteq {p \in 0..191 : get_severity(p) = 4}
  /\ \A p, q \in {prival} \cup Privals :
       get_event_id(p) = get_event_id(q) => get_type(p) = get_type(q) /\ get_facility(p) = get_facility(q)

(***************************************************************************)
(* What an entry keeps for the event log is allocated once, its two arrays *)
(* agree, and no call returns with a mutex or waits for one that is never  *)
(* given back.                                                             *)
(***************************************************************************)
WelDataSound == TypeOK /\ StringsOwned /\ NoStall /\ LocksReturned

(***************************************************************************)
(* What is reported as an event is what the entry was given last, with a   *)
(* category, a type and an id that the message file of the library knows.  *)
(***************************************************************************)
EventsFaithful == LastSetWins /\ EventMatchesEntry /\ EventIdsDefined
=============================================================================
