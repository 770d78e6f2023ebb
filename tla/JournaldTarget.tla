--------------------------- MODULE JournaldTarget ---------------------------
(***************************************************************************)
(* Targets that send entries to journald: src/src/target/journald.c.       *)
(* The fields of a record are built in buffers that each thread keeps and  *)
(* lets grow.  The structured data is gone through twice, to add up what   *)
(* it needs, taking the mutex of every element and param, and to write it, *)
(* giving them back.                                                       *)
(*                                                                         *)
(* A step takes one mutex, or is what is done while all are held.  The     *)
(* value of a param and the message of an entry are their lengths, and     *)
(* names are sequences of ASCII codes.  The namers that an application can *)
(* set in place of the two flattening functions, and journald, are         *)
(* external.                                                               *)
(***************************************************************************)
EXTENDS Integers, Sequences

CONSTANTS
  Threads, Entries, Elements, Params,
  Name,         \* the names of elements and params, of codes from 33 to 126
  Shapes,       \* the elements that entries have at first, and the params of elements
  Facility,     \* the number of the facility of each entry, from 0 to 23
  Lengths,      \* of values and messages
  MaxCalls,     \* bound on the calls made
  NULL

VARIABLES
  elements,   \* the elements of each entry
  params,     \* the params of each element
  value,      \* the value of each param
  message,    \* the message of each entry
  holder,     \* the thread that holds the mutex of each entry, element and param
  local,      \* what each thread keeps: fields, fixed_fields, message_buffer, sd_buffer
  frame,      \* the call each thread is in
  calls       \* history: the number of calls made

vars == << elements, params, value, message, holder, local, frame, calls >>

SD_FIELDS_OFFSET == 7

MESSAGE_PREFIX_SIZE == 8

\* fields and the three buffers by their lengths, whether the fields point into
\* fixed_fields, and which message_buffer they point to.
Fresh == [fields |-> 0, fixed |-> FALSE, bases |-> FALSE, message |-> 0, base |-> 0, sd |-> 0]

Idle == [step |-> "idle", entry |-> NULL, i |-> 1, j |-> 0, count |-> 0, needed |-> 0, pos |-> 0, offset |-> 0,
         record |-> <<>>, message |-> 0, facility |-> <<>>, asked |-> << >>]

Init ==
  /\ \E s \in Shapes : elements = s.elements /\ params = s.params
  /\ value = [p \in Params |-> 0]
  /\ message = [e \in Entries |-> 0]
  /\ holder = [o \in Entries \cup Elements \cup Params |-> NULL]
  /\ local = [t \in Threads |-> Fresh]
  /\ frame = [t \in Threads |-> Idle]
  /\ calls = 0

Call(t) == frame[t] = Idle /\ calls < MaxCalls /\ calls' = calls + 1

-----------------------------------------------------------------------------
(***************************************************************************)
(* What other threads do with the entries: EntryTree and EntryFields have  *)
(* these in full.                                                          *)
(***************************************************************************)

stumpless_set_param_value(t) ==
  \E p \in Params, v \in Lengths :
    /\ Call(t)
    /\ holder[p] = NULL
    /\ value' = [value EXCEPT ![p] = v]
    /\ UNCHANGED << elements, params, message, holder, local, frame >>

stumpless_set_entry_message(t) ==
  \E e \in Entries, v \in Lengths :
    /\ Call(t)
    /\ holder[e] = NULL
    /\ message' = [message EXCEPT ![e] = v]
    /\ UNCHANGED << elements, params, value, holder, local, frame >>

stumpless_add_param(t) ==
  \E el \in Elements, p \in Params :
    /\ Call(t)
    /\ holder[el] = NULL
    /\ params' = [params EXCEPT ![el] = Append(@, p)]
    /\ UNCHANGED << elements, value, message, holder, local, frame >>

-----------------------------------------------------------------------------
(***************************************************************************)
(* The names of fields.                                                    *)
(***************************************************************************)

\* A code above 127 is never left again; names have none.
get_journald_field_name(raw) ==
  [i \in DOMAIN raw |->
     IF raw[i] \in 48..57 \cup 65..90 THEN raw[i] ELSE IF raw[i] \in 97..122 THEN raw[i] - 32 ELSE 95]

stumpless_flatten_element_name(el) == get_journald_field_name(Name[el])

stumpless_flatten_param_name(el, p) ==
  stumpless_flatten_element_name(el) \o << 95 >> \o get_journald_field_name(Name[p])

-----------------------------------------------------------------------------
(***************************************************************************)
(* send_entry_to_journald_target.                                          *)
(***************************************************************************)

send_entry_to_journald_target(t) ==
  \E e \in Entries :
    /\ Call(t)
    /\ frame' = [frame EXCEPT ![t].step = "entry", ![t].entry = e]
    /\ local' = [local EXCEPT ![t].fixed = TRUE, ![t].bases = IF local[t].fixed THEN @ ELSE local[t].fields > 0]
    /\ UNCHANGED << elements, params, value, message, holder >>

\* There is no memory for fixed_fields.
InitFails(t) ==
  /\ Call(t)
  /\ ~local[t].fixed
  /\ UNCHANGED << elements, params, value, message, holder, local, frame >>

LockEntry(t) ==
  /\ frame[t].step = "entry"
  /\ holder[frame[t].entry] = NULL
  /\ holder' = [holder EXCEPT ![frame[t].entry] = t]
  /\ frame' = [frame EXCEPT ![t].step = "measure", ![t].count = SD_FIELDS_OFFSET + Len(elements[frame[t].entry])]
  /\ UNCHANGED << elements, params, value, message, local, calls >>

\* Where the loops come by: << i, 0 >> is the i-th element, << i, j >> its j-th param.
Places(e) == UNION {{i} \X (0..Len(params[elements[e][i]])) : i \in DOMAIN elements[e]}

ObjectAt(e, a) == IF a[2] = 0 THEN elements[e][a[1]] ELSE params[elements[e][a[1]]][a[2]]

ValueAt(e, a) == IF a[2] = 0 THEN 0 ELSE value[ObjectAt(e, a)]

Place(t) == << frame[t].i, frame[t].j >>

Element(t) == elements[frame[t].entry][frame[t].i]

Param(t) == params[Element(t)][frame[t].j]

\* The element or the param that the loops are at, NULL behind the last one.
At(t) == IF frame[t].i > Len(elements[frame[t].entry]) THEN NULL ELSE ObjectAt(frame[t].entry, Place(t))

\* The loops go on to the next param, or to the next element.
Advance(t, f) ==
  IF f.j < Len(params[Element(t)]) THEN [f EXCEPT !.j = @ + 1] ELSE [f EXCEPT !.i = @ + 1, !.j = 0]

FieldName(t) ==
  IF frame[t].j = 0 THEN stumpless_flatten_element_name(Element(t))
  ELSE stumpless_flatten_param_name(Element(t), Param(t))

\* Mutant: the sign between name and value is not counted.
SizeWithoutSign(t) == Len(FieldName(t)) + (IF frame[t].j = 0 THEN 1 ELSE value[Param(t)])

SizeNeeded(t) == Len(FieldName(t)) + 1 + (IF frame[t].j = 0 THEN 0 ELSE value[Param(t)])

Measure(t) ==
  /\ frame[t].step = "measure"
  /\ At(t) # NULL /\ holder[At(t)] = NULL
  /\ holder' = [holder EXCEPT ![At(t)] = t]
  /\ LET f == frame[t]
         subfields == IF f.j = 0 THEN Len(params[Element(t)]) ELSE 0
     IN  frame' = [frame EXCEPT ![t] = Advance(t, [f EXCEPT !.needed = f.needed + SizeNeeded(t),
                                                            !.count = f.count + subfields])]
  /\ UNCHANGED << elements, params, value, message, local, calls >>

Larger(a, b) == IF a > b THEN a ELSE b

\* What the record has to be: the entry as it is once all mutexes are held.
Asked(e) ==
  [message |-> message[e], fields |-> [a \in Places(e) |-> [object |-> ObjectAt(e, a), value |-> ValueAt(e, a)]]]

\* init_fields and the buffer for the structured data.
load_sd_fields(t) ==
  /\ frame[t].step = "measure" /\ At(t) = NULL
  /\ LET count == frame[t].count IN
     local' = [local EXCEPT ![t].fields = Larger(@, count), ![t].bases = @ \/ local[t].fields < count,
                            ![t].sd = Larger(@, frame[t].needed)]
  /\ frame' = [frame EXCEPT ![t].step = "write", ![t].i = 1, ![t].j = 0, ![t].offset = SD_FIELDS_OFFSET,
                            ![t].asked = Asked(frame[t].entry)]
  /\ UNCHANGED << elements, params, value, message, holder, calls >>

\* Mutant: the mutexes of the params are kept.
FailsLocked(t) ==
  /\ frame[t].step = "measure" /\ At(t) = NULL
  /\ frame[t].needed > local[t].sd
  /\ holder' = [o \in DOMAIN holder |-> IF holder[o] = t /\ o \notin Params THEN NULL ELSE holder[o]]
  /\ frame' = [frame EXCEPT ![t] = Idle]
  /\ UNCHANGED << elements, params, value, message, local, calls >>

\* Either buffer cannot grow: every mutex is given back.
LoadFails(t) ==
  /\ frame[t].step = "measure" /\ At(t) = NULL
  /\ LET count == frame[t].count IN
     \/ count > local[t].fields /\ UNCHANGED local
     \/ /\ frame[t].needed > local[t].sd
        /\ local' = [local EXCEPT ![t].fields = Larger(@, count), ![t].bases = @ \/ local[t].fields < count]
  /\ holder' = [o \in DOMAIN holder |-> IF holder[o] = t THEN NULL ELSE holder[o]]
  /\ frame' = [frame EXCEPT ![t] = Idle]
  /\ UNCHANGED << elements, params, value, message, calls >>

\* A param is given back when it is written, and an element after its last one.
WriteField(t) ==
  /\ frame[t].step = "write" /\ At(t) # NULL
  /\ LET last == frame[t].j = Len(params[Element(t)])
         back == (IF frame[t].j = 0 THEN {} ELSE {Param(t)}) \cup (IF last THEN {Element(t)} ELSE {})
     IN  holder' = [o \in DOMAIN holder |-> IF o \in back THEN NULL ELSE holder[o]]
  /\ LET f == frame[t]
         field == [place |-> Place(t), object |-> At(t), value |-> ValueAt(f.entry, Place(t))]
     IN  frame' = [frame EXCEPT ![t] = Advance(t, [f EXCEPT !.pos = f.pos + Len(FieldName(t)) + 1 + field.value,
                                                            !.offset = f.offset + 1,
                                                            !.record = Append(f.record, field)])]
  /\ UNCHANGED << elements, params, value, message, local, calls >>

\* The two digits of a facility above nine go to the same place, and the byte
\* after it is sent as it was.
load_facility(f) == IF f <= 9 THEN << f + 48 >> ELSE << (f % 10) + 48, NULL >>

\* load_message and the fixed fields, and the mutex of the entry is given back.
load_message(t) ==
  /\ frame[t].step = "write" /\ At(t) = NULL
  /\ LET e == frame[t].entry
         length == message[e] + MESSAGE_PREFIX_SIZE
     IN
     /\ local' = IF length > local[t].message
                 THEN [local EXCEPT ![t].message = length, ![t].base = length] ELSE local
     /\ holder' = [holder EXCEPT ![e] = NULL]
     /\ frame' = [frame EXCEPT ![t].step = "send", ![t].message = message[e],
                               ![t].facility = load_facility(Facility[e])]
  /\ UNCHANGED << elements, params, value, message, calls >>

MessageFails(t) ==
  /\ frame[t].step = "write" /\ At(t) = NULL
  /\ message[frame[t].entry] + MESSAGE_PREFIX_SIZE > local[t].message
  /\ holder' = [holder EXCEPT ![frame[t].entry] = NULL]
  /\ frame' = [frame EXCEPT ![t] = Idle]
  /\ UNCHANGED << elements, params, value, message, local, calls >>

sd_journal_sendv(t) ==
  /\ frame[t].step = "send"
  /\ frame' = [frame EXCEPT ![t] = Idle]
  /\ UNCHANGED << elements, params, value, message, holder, local, calls >>

journald_free_thread(t) ==
  /\ frame[t] = Idle /\ local[t] # Fresh
  /\ local' = [local EXCEPT ![t] = Fresh]
  /\ UNCHANGED << elements, params, value, message, holder, frame, calls >>

Next ==
  \E t \in Threads :
    \/ stumpless_set_param_value(t) \/ stumpless_set_entry_message(t) \/ stumpless_add_param(t)
    \/ send_entry_to_journald_target(t) \/ InitFails(t) \/ LockEntry(t) \/ Measure(t)
    \/ load_sd_fields(t) \/ LoadFails(t) \/ WriteField(t) \/ load_message(t) \/ MessageFails(t)
    \/ sd_journal_sendv(t) \/ journald_free_thread(t)

Spec == Init /\ [][Next]_vars

-----------------------------------------------------------------------------
(***************************************************************************)
(* Types: the names of fields have digits, uppercase letters and           *)
(* underscores only, and no thread sends without its fixed fields.         *)
(***************************************************************************)
TypeOK ==
  /\ \A o \in DOMAIN holder : holder[o] \in Threads \cup {NULL}
  /\ \A t \in Threads :
       /\ frame[t].step = "send" => local[t].fixed /\ local[t].fields >= SD_FIELDS_OFFSET
       /\ frame[t].step \in {"measure", "write"} /\ At(t) # NULL =>
            \A i \in DOMAIN FieldName(t) : FieldName(t)[i] \in 48..57 \cup 65..90 \cup {95}

Earlier(a, b) == a[1] < b[1] \/ (a[1] = b[1] /\ a[2] < b[2])

\* The mutex of o is taken before that of p.
Before(e, o, p) == \E a, b \in Places(e) : Earlier(a, b) /\ ObjectAt(e, a) = o /\ ObjectAt(e, b) = p

\* The orders of the entries make a circle, or one has the same element or param twice.
Twisted == \E O \in (SUBSET (Elements \cup Params)) \ {{}} : \A o \in O : \E p \in O, e \in Entries : Before(e, o, p)

Wanted(t) ==
  IF frame[t].step = "entry" THEN frame[t].entry ELSE IF frame[t].step = "measure" THEN At(t) ELSE NULL

\* It waits for a thread of the set, or for one that will not give the mutex back.
Waiting(t, S) ==
  IF Wanted(t) = NULL THEN FALSE
  ELSE LET h == holder[Wanted(t)] IN IF h = NULL THEN FALSE ELSE h \in S \/ frame[h] = Idle

(***************************************************************************)
(* No thread waits for a mutex that is never given back: one whose holder  *)
(* has returned, or waits itself for one of those.  Entries that share     *)
(* elements or params in orders that make a circle, and elements that have *)
(* a param twice, are left out.                                            *)
(***************************************************************************)
NoStall ==
  (\E S \in (SUBSET Threads) \ {{}} : \A t \in S : Waiting(t, S)) => Twisted

(***************************************************************************)
(* What was added up in the first pass is enough for what the second pass  *)
(* writes, however often the buffers are used again and whatever other     *)
(* threads change in between.                                              *)
(***************************************************************************)
BuffersFit ==
  \A t \in Threads :
    frame[t].step \in {"write", "send"} => frame[t].pos <= local[t].sd /\ frame[t].offset <= local[t].fields

(***************************************************************************)
(* When a record is sent, its fields point to the buffers of the thread as *)
(* they are now, after growing, failing to and being freed in between.     *)
(***************************************************************************)
FieldsLive ==
  \A t \in Threads : frame[t].step = "send" => local[t].bases /\ local[t].base = local[t].message

(***************************************************************************)
(* The record is the entry as it was at one moment of the call: every      *)
(* element and param once and in order, and no mix of values before and    *)
(* after a change by another thread.  The number of the facility is right  *)
(* if it has one digit.                                                    *)
(***************************************************************************)
RecordWhole ==
  \A t \in Threads :
    frame[t].step = "send" =>
      LET f == frame[t] IN
      /\ f.message = f.asked.message
      /\ \A k, l \in DOMAIN f.record : k < l => Earlier(f.record[k].place, f.record[l].place)
      /\ \A k \in DOMAIN f.record : f.record[k].place \in DOMAIN f.asked.fields
      /\ \A a \in DOMAIN f.asked.fields :
           \E k \in DOMAIN f.record :
             f.record[k] = [place |-> a, object |-> f.asked.fields[a].object, value |-> f.asked.fields[a].value]
      /\ Facility[f.entry] <= 9 => f.facility = << 48 + Facility[f.entry] >>

(***************************************************************************)
(* The record that is sent is in memory that is large enough and still     *)
(* allocated, and is the entry as it was at one moment.                    *)
(***************************************************************************)
RecordsSound == TypeOK /\ BuffersFit /\ FieldsLive /\ RecordWhole
=============================================================================
