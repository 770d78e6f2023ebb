----------------------------- MODULE EntryTree -----------------------------
(***************************************************************************)
(* The tree of an entry: its elements and their params (src/src/entry.c,   *)
(* src/src/element.c, src/src/param.c), used by several threads.  Each     *)
(* object has a mutex.  A step is what a function does while it holds a    *)
(* mutex, with the mutexes of the objects below it taken inside; a         *)
(* function that takes several mutexes one after the other is a sequence   *)
(* of steps, and its place and locals are kept in the frame of its thread. *)
(*                                                                         *)
(* An allocation that fails and changes nothing is a step that stutters,   *)
(* and is left out.  The values of params are their lengths, which is all  *)
(* that this module tells apart.                                           *)
(***************************************************************************)
EXTENDS Integers, Sequences, FiniteSets, SequencesExt

CONSTANTS
  Threads,
  Elements, Params,   \* the objects that can be allocated
  Entry,              \* the entry
  Names,              \* names that pass validate_element_name
  Extends,            \* pairs of names, the first a proper prefix of the second
  NameLength,         \* the length of each name
  Values,             \* lengths of the values that params are given
  MaxCalls,           \* bound on the calls made
  NULL

ASSUME ObjectsAssumption ==
  /\ Elements \cap Params = {}
  /\ Entry \notin Elements \cup Params
  /\ NULL \notin Elements \cup Params \cup Threads \cup {Entry}
  /\ Extends \subseteq Names \X Names
  /\ NameLength \in [Names -> Nat]
  /\ Values \subseteq Nat /\ Values # {}
  /\ MaxCalls \in Nat

VARIABLES
  entry,      \* the elements array of the entry
  el,         \* the name and the params array of each element
  par,        \* the name and the value of each param
  live,       \* the objects that are allocated
  loose,      \* the ones the application has to attach or to destroy
  holder,     \* the thread that holds the mutex of each object
  frame,      \* the call each thread is in
  seen,       \* history: what has happened so far
  calls       \* history: the number of calls made

vars == << entry, el, par, live, loose, holder, frame, seen, calls >>

stumpless_element == [name : Names, params : Seq(Params)]

stumpless_param == [name : Names, value : Values]

Steps == {"idle", "attach", "replace", "value_at", "look", "value", "make",
          "append", "finish", "measure", "write", "close", "copy", "copied",
          "crashed"}

Idle == [step |-> "idle", e |-> NULL, p |-> NULL, n |-> NULL, v |-> 0, i |-> 0,
         created |-> FALSE, locked |-> FALSE, size |-> 0, used |-> 0,
         copy |-> <<>>, disturbed |-> FALSE]

Init ==
  \E a \in Elements, n \in Names, ps \in {<<>>} \cup {<< p >> : p \in Params} :
    /\ entry = << a >>
    /\ el = [e \in Elements |-> [name |-> n, params |-> IF e = a THEN ps ELSE <<>>]]
    /\ par = [q \in Params |-> [name |-> n, value |-> Min(Values)]]
    /\ live = {a} \cup ToSet(ps)
    /\ loose = {}
    /\ holder = [o \in Elements \cup Params \cup {Entry} |-> NULL]
    /\ frame = [t \in Threads |-> Idle]
    /\ seen = [renamed |-> FALSE, added |-> FALSE, failed |-> {}]
    /\ calls = 0

Free(o) == holder[o] = NULL

ParamsOf(e) == ToSet(el[e].params)

SubtreeFree(e) == Free(e) /\ \A p \in ParamsOf(e) : Free(p)

\* What the call of a thread has created and not attached yet.
Owned(t) ==
  (IF frame[t].created \/ frame[t].step = "attach" THEN {frame[t].e} ELSE {}) \cup
  (IF frame[t].step = "append" THEN {frame[t].p} ELSE {})

\* The objects that the application has a pointer to.
Known(o) == o \in live /\ \A t \in Threads : o \notin Owned(t)

\* The application passes an object to one thread at a time.
Usable(o) ==
  /\ o \in loose
  /\ Free(o)
  /\ \A t \in Threads : o \notin {frame[t].e, frame[t].p}

Calling(t) ==
  /\ frame[t].step = "idle"
  /\ calls < MaxCalls
  /\ calls' = calls + 1

Step(t, f) == frame' = [frame EXCEPT ![t] = f]

\* A step that changes the tree, seen by the calls of the other threads.
Change(t, f) ==
  frame' = [u \in Threads |->
              IF u = t THEN f
              ELSE [frame[u] EXCEPT !.disturbed = frame[u].step # "idle"]]

(***************************************************************************)
(* Lookups.                                                                *)
(***************************************************************************)

\* strcmp with each name, in order.
locked_get_element_by_name(n) ==
  LET i == SelectInSeq(entry, LAMBDA e : el[e].name = n)
  IN  IF i = 0 THEN NULL ELSE entry[i]

stumpless_get_element_by_name(n) == locked_get_element_by_name(n)

\* memcmp over the length of the name that is looked for.
stumpless_get_element_index(n) ==
  LET i == SelectInSeq(entry, LAMBDA e : el[e].name = n \/ << n, el[e].name >> \in Extends)
  IN  IF i = 0 THEN 0 ELSE i - 1

stumpless_get_element_count == Len(entry)

locked_get_element_by_index(i) ==
  IF i >= stumpless_get_element_count THEN NULL ELSE entry[i + 1]

stumpless_get_element_by_index(i) == locked_get_element_by_index(i)

unchecked_entry_has_element(n) == \E e \in ToSet(entry) : el[e].name = n

stumpless_entry_has_element(n) == unchecked_entry_has_element(n)

FOR_EACH_PARAM_WITH_NAME(e, n) == {i \in DOMAIN el[e].params : par[el[e].params[i]].name = n}

stumpless_element_has_param(e, n) == FOR_EACH_PARAM_WITH_NAME(e, n) # {}

stumpless_get_param_by_name(e, n) ==
  LET I == FOR_EACH_PARAM_WITH_NAME(e, n)
  IN  IF I = {} THEN NULL ELSE el[e].params[Min(I)]

stumpless_get_param_index(e, n) ==
  LET I == FOR_EACH_PARAM_WITH_NAME(e, n) IN IF I = {} THEN 0 ELSE Min(I) - 1

stumpless_get_param_name_count(e, n) == Cardinality(FOR_EACH_PARAM_WITH_NAME(e, n))

stumpless_get_param_count(e) == Len(el[e].params)

stumpless_get_param_by_index(e, i) ==
  IF i >= stumpless_get_param_count(e) THEN NULL ELSE el[e].params[i + 1]

ValueOf(p) == IF p = NULL THEN NULL ELSE par[p].value

stumpless_get_param_name_by_index(e, i) ==
  LET p == stumpless_get_param_by_index(e, i) IN IF p = NULL THEN NULL ELSE par[p].name

stumpless_get_param_value_by_index(e, i) == ValueOf(stumpless_get_param_by_index(e, i))

stumpless_get_param_value_by_name(e, n) == ValueOf(stumpless_get_param_by_name(e, n))

stumpless_get_entry_param_by_index(i, j) ==
  LET e == locked_get_element_by_index(i)
  IN  IF e = NULL THEN NULL ELSE stumpless_get_param_by_index(e, j)

stumpless_get_entry_param_by_name(en, pn) ==
  LET e == stumpless_get_element_by_name(en)
  IN  IF e = NULL THEN NULL ELSE stumpless_get_param_by_name(e, pn)

stumpless_get_entry_param_value_by_index(i, j) ==
  LET e == locked_get_element_by_index(i)
  IN  IF e = NULL THEN NULL ELSE stumpless_get_param_value_by_index(e, j)

stumpless_get_entry_param_value_by_name(en, pn) ==
  LET e == stumpless_get_element_by_name(en)
  IN  IF e = NULL THEN NULL ELSE stumpless_get_param_value_by_name(e, pn)

(***************************************************************************)
(* Objects of the application.                                             *)
(***************************************************************************)

stumpless_new_element(t, n) ==
  /\ Calling(t)
  /\ \E e \in Elements \ live :
       /\ el' = [el EXCEPT ![e] = [name |-> n, params |-> <<>>]]
       /\ live' = live \cup {e}
       /\ loose' = loose \cup {e}
  /\ UNCHANGED << entry, par, holder, frame, seen >>

stumpless_new_param(t, n, v) ==
  /\ Calling(t)
  /\ \E p \in Params \ live :
       /\ par' = [par EXCEPT ![p] = [name |-> n, value |-> v]]
       /\ live' = live \cup {p}
       /\ loose' = loose \cup {p}
  /\ UNCHANGED << entry, el, holder, frame, seen >>

stumpless_destroy_param(t, p) ==
  /\ Calling(t)
  /\ p \in Params /\ Usable(p)
  /\ live' = live \ {p}
  /\ loose' = loose \ {p}
  /\ UNCHANGED << entry, el, par, holder, frame, seen >>

stumpless_destroy_element_and_contents(t, e) ==
  /\ Calling(t)
  /\ e \in Elements /\ Usable(e) /\ SubtreeFree(e)
  /\ \A u \in Threads : frame[u].p \notin ParamsOf(e)
  /\ live' = live \ ({e} \cup ParamsOf(e))
  /\ loose' = loose \ {e}
  /\ UNCHANGED << entry, el, par, holder, frame, seen >>

stumpless_destroy_element_only(t, e) ==
  /\ Calling(t)
  /\ e \in Elements /\ Usable(e)
  /\ live' = live \ {e}
  /\ loose' = (loose \ {e}) \cup ParamsOf(e)
  /\ UNCHANGED << entry, el, par, holder, frame, seen >>

\* stumpless_new_entry gives the application an entry without elements again.
stumpless_destroy_entry_and_contents(t) ==
  /\ Calling(t)
  /\ \A u \in Threads : frame[u].step = "idle"
  /\ \A o \in DOMAIN holder : Free(o)
  /\ live' = live \ (ToSet(entry) \cup UNION {ParamsOf(e) : e \in ToSet(entry)})
  /\ entry' = <<>>
  /\ UNCHANGED << el, par, loose, holder, frame, seen >>

stumpless_destroy_entry_only(t) ==
  /\ Calling(t)
  /\ \A u \in Threads : frame[u].step = "idle"
  /\ \A o \in DOMAIN holder : Free(o)
  /\ loose' = loose \cup ToSet(entry)
  /\ entry' = <<>>
  /\ UNCHANGED << el, par, live, holder, frame, seen >>

(***************************************************************************)
(* Elements of the entry.                                                  *)
(***************************************************************************)

locked_add_element(e) ==
  /\ ~unchecked_entry_has_element(el[e].name)
  /\ entry' = Append(entry, e)

\* The name is taken, or the array cannot grow.
AddElementFails == UNCHANGED entry

stumpless_add_element(t, e) ==
  /\ Calling(t)
  /\ e \in Elements /\ Usable(e)
  /\ Free(Entry)
  /\ locked_add_element(e)
  /\ loose' = loose \ {e}
  /\ Change(t, Idle)
  /\ UNCHANGED << el, par, live, holder, seen >>

stumpless_add_new_element(t, n) ==
  /\ Calling(t)
  /\ \E e \in Elements \ live :
       /\ el' = [el EXCEPT ![e] = [name |-> n, params |-> <<>>]]
       /\ live' = live \cup {e}
       /\ Step(t, [Idle EXCEPT !.step = "attach", !.e = e])
  /\ UNCHANGED << entry, par, loose, holder, seen >>

\* Mutant: the element that was not added is forgotten.
AttachLeaks(t) ==
  /\ frame[t].step = "attach"
  /\ Free(Entry)
  /\ locked_add_element(frame[t].e) \/ AddElementFails
  /\ UNCHANGED << el, par, live, loose, holder, seen, calls >>
  /\ Change(t, Idle)

\* The second half of stumpless_add_new_element.
Attach(t) ==
  /\ frame[t].step = "attach"
  /\ Free(Entry)
  /\ \/ locked_add_element(frame[t].e) /\ live' = live
     \/ AddElementFails /\ live' = live \ {frame[t].e}
  /\ UNCHANGED << el, par, loose, holder, seen, calls >>
  /\ Change(t, Idle)

stumpless_set_element(t, i, e) ==
  /\ Calling(t)
  /\ e \in Elements /\ Usable(e)
  /\ Free(Entry)
  /\ i \in DOMAIN entry
  /\ ~unchecked_entry_has_element(el[e].name)
  /\ entry' = [entry EXCEPT ![i] = e]
  /\ loose' = (loose \ {e}) \cup {entry[i]}
  /\ Change(t, Idle)
  /\ UNCHANGED << el, par, live, holder, seen >>

stumpless_set_element_name(t, e, n) ==
  /\ Calling(t)
  /\ e \in Elements /\ Known(e) /\ Free(e)
  /\ el' = [el EXCEPT ![e].name = n]
  /\ seen' = [seen EXCEPT !.renamed = TRUE]
  /\ Change(t, Idle)
  /\ UNCHANGED << entry, par, live, loose, holder >>

(***************************************************************************)
(* Params of an element.                                                   *)
(***************************************************************************)

stumpless_add_param(t, e, p) ==
  /\ Calling(t)
  /\ e \in Elements /\ Known(e) /\ Free(e)
  /\ p \in Params /\ Usable(p)
  /\ el' = [el EXCEPT ![e].params = Append(@, p)]
  /\ loose' = loose \ {p}
  /\ seen' = [seen EXCEPT !.added = TRUE]
  /\ Change(t, Idle)
  /\ UNCHANGED << entry, par, live, holder >>

stumpless_set_param_name(t, p, n) ==
  /\ Calling(t)
  /\ p \in Params /\ Known(p) /\ Free(p)
  /\ par' = [par EXCEPT ![p].name = n]
  /\ seen' = [seen EXCEPT !.added = TRUE]
  /\ Change(t, Idle)
  /\ UNCHANGED << entry, el, live, loose, holder >>

CallElement(t, f) ==
  /\ Calling(t)
  /\ Known(f.e)
  /\ Step(t, f)
  /\ seen' = [seen EXCEPT !.added = @ \/ f.step # "value_at"]
  /\ UNCHANGED << entry, el, par, live, loose, holder >>

\* How stumpless_set_param, stumpless_set_param_value_by_index,
\* stumpless_set_param_value_by_name and stumpless_add_new_param begin.
CallSetParam(t, e, p, i) ==
  /\ Usable(p)
  /\ CallElement(t, [Idle EXCEPT !.step = "replace", !.e = e, !.p = p, !.i = i])

CallSetValueAt(t, e, v, i) ==
  CallElement(t, [Idle EXCEPT !.step = "value_at", !.e = e, !.v = v, !.i = i])

CallByName(t, e, n, v, step) ==
  CallElement(t, [Idle EXCEPT !.step = step, !.e = e, !.n = n, !.v = v])

\* stumpless_set_entry_param_by_index and stumpless_set_entry_param_value_by_index:
\* the mutex of the entry is held only while the element is looked up.
stumpless_set_entry_param_by_index(t, i, j, p, v) ==
  /\ Calling(t)
  /\ Free(Entry)
  /\ i \in DOMAIN entry
  /\ p # NULL => Usable(p)
  /\ Step(t, [Idle EXCEPT !.step = IF p = NULL THEN "value_at" ELSE "replace",
                          !.e = entry[i], !.p = p, !.i = j, !.v = v])
  /\ seen' = [seen EXCEPT !.added = @ \/ p # NULL]
  /\ UNCHANGED << entry, el, par, live, loose, holder >>

stumpless_set_param(t) ==
  LET f == frame[t] IN
  /\ f.step = "replace"
  /\ Free(f.e)
  /\ IF f.i \in DOMAIN el[f.e].params
     THEN /\ el' = [el EXCEPT ![f.e].params[f.i] = f.p]
          /\ loose' = (loose \ {f.p}) \cup {el[f.e].params[f.i]}
          /\ Change(t, Idle)
     ELSE Step(t, Idle) /\ UNCHANGED << el, loose >>
  /\ UNCHANGED << entry, par, live, holder, seen, calls >>

stumpless_set_param_value_by_index(t) ==
  LET f == frame[t] IN
  /\ f.step = "value_at"
  /\ Free(f.e)
  /\ IF f.i \in DOMAIN el[f.e].params
     THEN /\ Free(el[f.e].params[f.i])
          /\ par' = [par EXCEPT ![el[f.e].params[f.i]].value = f.v]
          /\ Change(t, Idle)
     ELSE Step(t, Idle) /\ UNCHANGED par
  /\ UNCHANGED << entry, el, live, loose, holder, seen, calls >>

(***************************************************************************)
(* stumpless_add_new_param_to_entry and                                    *)
(* stumpless_set_entry_param_value_by_name hold the mutex of the entry     *)
(* throughout.                                                             *)
(***************************************************************************)

\* A call that has locked the entry unlocks it before it returns.
Return(t) == holder' = IF frame[t].locked THEN [holder EXCEPT ![Entry] = NULL] ELSE holder

\* Mutant: the entry is unlocked once the element is found.
EntryCallUnlocks(t, en, pn, v, step) ==
  /\ Calling(t)
  /\ Free(Entry)
  /\ \A e \in ToSet(entry) : Free(e)
  /\ locked_get_element_by_name(en) # NULL
  /\ Step(t, [Idle EXCEPT !.step = step, !.e = locked_get_element_by_name(en), !.n = pn, !.v = v])
  /\ seen' = [seen EXCEPT !.added = @ \/ step = "make"]
  /\ UNCHANGED << entry, el, par, live, loose, holder >>

EntryCall(t, en, pn, v, step) ==
  LET found == locked_get_element_by_name(en) IN
  /\ Calling(t)
  /\ Free(Entry)
  /\ \A e \in ToSet(entry) : Free(e)
  /\ \E e \in (IF found = NULL THEN Elements \ live ELSE {found}) :
       /\ Step(t, [Idle EXCEPT !.step = step, !.e = e, !.n = pn, !.v = v,
                            !.created = found = NULL, !.locked = TRUE])
       /\ live' = live \cup {e}
       /\ el' = IF found = NULL THEN [el EXCEPT ![e] = [name |-> en, params |-> <<>>]] ELSE el
  /\ holder' = [holder EXCEPT ![Entry] = t]
  /\ seen' = [seen EXCEPT !.added = @ \/ step = "make"]
  /\ UNCHANGED << entry, par, loose >>

\* The lookup with which stumpless_set_param_value_by_name begins.
LookUpParam(t) ==
  LET f == frame[t]
      p == stumpless_get_param_by_name(f.e, f.n)
  IN
  /\ f.step = "look"
  /\ SubtreeFree(f.e)
  /\ Step(t, [f EXCEPT !.step = IF p = NULL THEN "make" ELSE "value", !.p = p])
  /\ UNCHANGED << entry, el, par, live, loose, holder, seen, calls >>

stumpless_set_param_value(t) ==
  LET f == frame[t] IN
  /\ f.step = "value"
  /\ Free(f.p)
  /\ par' = [par EXCEPT ![f.p].value = f.v]
  /\ Change(t, [f EXCEPT !.step = "finish", !.p = NULL])
  /\ UNCHANGED << entry, el, live, loose, holder, seen, calls >>

\* What an entry call does when it fails: nothing it created remains.
Fail(t) ==
  /\ live' = live \ (IF frame[t].created THEN {frame[t].e} \cup ParamsOf(frame[t].e) ELSE {})
  /\ Return(t)
  /\ Step(t, Idle)

stumpless_add_new_param(t) ==
  LET f == frame[t] IN
  /\ f.step = "make"
  /\ \/ \E p \in Params \ live :
          /\ par' = [par EXCEPT ![p] = [name |-> f.n, value |-> f.v]]
          /\ live' = live \cup {p}
          /\ Step(t, [f EXCEPT !.step = "append", !.p = p])
          /\ holder' = holder
     \/ Fail(t) /\ UNCHANGED par
  /\ UNCHANGED << entry, el, loose, seen, calls >>

AppendParam(t) ==
  LET f == frame[t] IN
  /\ f.step = "append"
  /\ Free(f.e)
  /\ \/ /\ el' = [el EXCEPT ![f.e].params = Append(@, f.p)]
        /\ Change(t, [f EXCEPT !.step = "finish", !.p = NULL])
        /\ UNCHANGED << live, holder >>
     \/ /\ live' = live \ (IF f.created THEN {f.e, f.p} ELSE {f.p})
        /\ Return(t)
        /\ Step(t, Idle)
        /\ UNCHANGED el
  /\ UNCHANGED << entry, par, loose, seen, calls >>

Finish(t) ==
  LET f == frame[t] IN
  /\ f.step = "finish"
  /\ \/ /\ IF f.created THEN locked_add_element(f.e) ELSE UNCHANGED entry
        /\ Change(t, Idle)
        /\ live' = live
        /\ Return(t)
     \/ f.created /\ Fail(t) /\ UNCHANGED entry
  /\ UNCHANGED << el, par, loose, seen, calls >>

(***************************************************************************)
(* stumpless_element_to_string and stumpless_entry_to_string.              *)
(***************************************************************************)

locked_get_param_string_size(p) == NameLength[par[p].name] + par[p].value + 4

\* The sum of a sequence of numbers.
Total(w) ==
  LET Upto[i \in 0 .. Len(w)] == IF i = 0 THEN 0 ELSE Upto[i - 1] + w[i]
  IN  Upto[Len(w)]

\* The length of the string of an element, without the terminating byte.
ElementStringLength(e) ==
  LET ps == el[e].params
  IN  NameLength[el[e].name] +
      (IF ps = <<>> THEN 0
       ELSE 3 + Len(ps) - 1 + Total([i \in DOMAIN ps |-> locked_get_param_string_size(ps[i]) - 1]))

\* The mutexes of the params are all taken before the memory is allocated;
\* when that fails only the one of the element is given back.
stumpless_element_to_string(t, e, ok) ==
  /\ SubtreeFree(e)
  /\ IF ok THEN UNCHANGED << holder, seen >>
     ELSE /\ holder' = [o \in DOMAIN holder |-> IF o \in ParamsOf(e) THEN t ELSE holder[o]]
          /\ seen' = [seen EXCEPT !.failed = @ \cup {t}]

ElementToStringFails(t, e) ==
  /\ Calling(t)
  /\ e \in Elements /\ Known(e)
  /\ stumpless_element_to_string(t, e, FALSE)
  /\ UNCHANGED << entry, el, par, live, loose, frame >>

\* Mutant: the digits of the prival are not counted.
NoDigits == 7 + 9 + 10 + 12 + 12 + 9

\* The characters counted for the six fields, besides their values.
FieldsSize == 7 + 20 + 9 + 10 + 12 + 12 + 9

\* key="value", for each field.
append_key_value_pair(key_length, value_length) == key_length + value_length + 4

FieldsUsed(digits) ==
  append_key_value_pair(6, digits) + append_key_value_pair(8, 0) +
  append_key_value_pair(8, 0) + append_key_value_pair(10, 0) +
  append_key_value_pair(10, 0) + append_key_value_pair(7, 0)

stumpless_entry_to_string(t) ==
  /\ Calling(t)
  /\ Free(Entry)
  /\ holder' = [holder EXCEPT ![Entry] = t]
  /\ Step(t, [Idle EXCEPT !.step = "measure", !.locked = TRUE, !.size = FieldsSize, !.i = 1])
  /\ UNCHANGED << entry, el, par, live, loose, seen >>

\* The first pass: an element whose string cannot be made is not counted.
Measure(t) ==
  LET f == frame[t] IN
  /\ f.step = "measure"
  /\ f.i \in DOMAIN entry
  /\ \E ok \in BOOLEAN :
       /\ stumpless_element_to_string(t, entry[f.i], ok)
       /\ Step(t, [f EXCEPT !.i = @ + 1,
                            !.size = @ + IF ok THEN ElementStringLength(entry[f.i]) + 1 ELSE 0])
  /\ UNCHANGED << entry, el, par, live, loose, calls >>

\* When the memory for the string cannot be had, the entry stays locked.
AllocateString(t) ==
  LET f == frame[t] IN
  /\ f.step = "measure"
  /\ f.i > Len(entry)
  /\ \/ \E digits \in 1..3 :
          /\ Step(t, [f EXCEPT !.step = "write", !.i = 1, !.used = FieldsUsed(digits)])
          /\ seen' = seen
     \/ /\ Step(t, Idle)
        /\ seen' = [seen EXCEPT !.failed = @ \cup {t}]
  /\ UNCHANGED << entry, el, par, live, loose, holder, calls >>

\* The second pass: the string of an element is used without a check.
WriteElement(t) ==
  LET f == frame[t] IN
  /\ f.step = "write"
  /\ f.i \in DOMAIN entry
  /\ \E ok \in BOOLEAN :
       /\ stumpless_element_to_string(t, entry[f.i], ok)
       /\ Step(t, IF ok
                  THEN [f EXCEPT !.i = @ + 1,
                                 !.used = @ + ElementStringLength(entry[f.i]) + (IF f.i = 1 THEN 0 ELSE 1)]
                  ELSE [Idle EXCEPT !.step = "crashed"])
  /\ UNCHANGED << entry, el, par, live, loose, calls >>

TerminateString(t) ==
  LET f == frame[t] IN
  /\ f.step = "write"
  /\ f.i > Len(entry)
  /\ Return(t)
  /\ Step(t, [f EXCEPT !.step = "close", !.locked = FALSE, !.used = @ + (IF entry = <<>> THEN 0 ELSE 1)])
  /\ UNCHANGED << entry, el, par, live, loose, seen, calls >>

CloseString(t) ==
  /\ frame[t].step = "close"
  /\ Step(t, Idle)
  /\ UNCHANGED << entry, el, par, live, loose, holder, seen, calls >>

(***************************************************************************)
(* stumpless_copy_entry: the elements are copied one at a time.            *)
(***************************************************************************)

ElementValue(e) ==
  [name |-> el[e].name, params |-> [i \in DOMAIN el[e].params |-> par[el[e].params[i]]]]

stumpless_copy_entry(t) ==
  /\ Calling(t)
  /\ Free(Entry)
  /\ holder' = [holder EXCEPT ![Entry] = t]
  /\ Step(t, [Idle EXCEPT !.step = "copy", !.locked = TRUE, !.i = 1])
  /\ UNCHANGED << entry, el, par, live, loose, seen >>

\* When an allocation fails, the copies made so far are destroyed.
stumpless_copy_element(t) ==
  LET f == frame[t] IN
  /\ f.step = "copy"
  /\ f.i \in DOMAIN entry
  /\ SubtreeFree(entry[f.i])
  /\ \/ /\ Step(t, [f EXCEPT !.i = @ + 1, !.copy = Append(@, ElementValue(entry[f.i]))])
        /\ holder' = holder
     \/ Step(t, Idle) /\ Return(t)
  /\ UNCHANGED << entry, el, par, live, loose, seen, calls >>

EndCopy(t) ==
  /\ frame[t].step = "copy"
  /\ frame[t].i > Len(entry)
  /\ Return(t)
  /\ Step(t, [frame[t] EXCEPT !.step = "copied", !.locked = FALSE])
  /\ UNCHANGED << entry, el, par, live, loose, seen, calls >>

TakeCopy(t) ==
  /\ frame[t].step = "copied"
  /\ Step(t, Idle)
  /\ UNCHANGED << entry, el, par, live, loose, holder, seen, calls >>

-----------------------------------------------------------------------------
Call(t) ==
  \/ \E n \in Names : stumpless_new_element(t, n) \/ stumpless_add_new_element(t, n)
  \/ \E n \in Names, v \in Values : stumpless_new_param(t, n, v)
  \/ \E p \in Params : stumpless_destroy_param(t, p)
  \/ \E e \in Elements : stumpless_destroy_element_and_contents(t, e)
  \/ \E e \in Elements : stumpless_destroy_element_only(t, e)
  \/ stumpless_destroy_entry_and_contents(t)
  \/ stumpless_destroy_entry_only(t)
  \/ \E e \in Elements : stumpless_add_element(t, e)
  \/ \E e \in Elements, i \in DOMAIN entry : stumpless_set_element(t, i, e)
  \/ \E e \in Elements, n \in Names : stumpless_set_element_name(t, e, n)
  \/ \E e \in Elements, p \in Params : stumpless_add_param(t, e, p)
  \/ \E p \in Params, n \in Names : stumpless_set_param_name(t, p, n)
  \/ \E e \in Elements, p \in Params, i \in 1..2 : CallSetParam(t, e, p, i)
  \/ \E e \in Elements, v \in Values, i \in 1..2 : CallSetValueAt(t, e, v, i)
  \/ \E e \in Elements, n \in Names, v \in Values, step \in {"look", "make"} : CallByName(t, e, n, v, step)
  \/ \E i \in DOMAIN entry, p \in Params \cup {NULL}, v \in Values :
       stumpless_set_entry_param_by_index(t, i, 1, p, v)
  \/ \E en, pn \in Names, v \in Values, step \in {"make", "look"} : EntryCall(t, en, pn, v, step)
  \/ \E e \in Elements : ElementToStringFails(t, e)
  \/ stumpless_entry_to_string(t)
  \/ stumpless_copy_entry(t)

Progress(t) ==
  \/ Attach(t)
  \/ stumpless_set_param(t)
  \/ stumpless_set_param_value_by_index(t)
  \/ LookUpParam(t)
  \/ stumpless_set_param_value(t)
  \/ stumpless_add_new_param(t)
  \/ AppendParam(t)
  \/ Finish(t)
  \/ Measure(t)
  \/ AllocateString(t)
  \/ WriteElement(t)
  \/ TerminateString(t)
  \/ CloseString(t)
  \/ stumpless_copy_element(t)
  \/ EndCopy(t)
  \/ TakeCopy(t)

Next == \E t \in Threads : Call(t) \/ Progress(t)

Spec == Init /\ [][Next]_vars

-----------------------------------------------------------------------------
(***************************************************************************)
(* Properties.                                                             *)
(***************************************************************************)

Frames ==
  [step : Steps, e : Elements \cup {NULL}, p : Params \cup {NULL}, n : Names \cup {NULL},
   v : Values \cup {0}, i : Nat, created : BOOLEAN, locked : BOOLEAN, size : Nat, used : Nat,
   copy : Seq([name : Names, params : Seq(stumpless_param)]), disturbed : BOOLEAN]

TypeOK ==
  /\ entry \in Seq(Elements)
  /\ el \in [Elements -> stumpless_element]
  /\ par \in [Params -> stumpless_param]
  /\ live \subseteq Elements \cup Params
  /\ loose \subseteq live
  /\ holder \in [Elements \cup Params \cup {Entry} -> Threads \cup {NULL}]
  /\ frame \in [Threads -> Frames]
  /\ seen \in [renamed : BOOLEAN, added : BOOLEAN, failed : SUBSET Threads]
  /\ calls \in 0..MaxCalls

\* The places of an object in the arrays.
Indices(o, array) == {i \in DOMAIN array : array[i] = o}

InElement(o, e) == {<< "param", << e, i >> >> : i \in Indices(o, el[e].params)}

InElements(o) == UNION {InElement(o, e) : e \in live \cap Elements}

Places(o) ==
  {<< "entry", i >> : i \in Indices(o, entry)} \cup InElements(o) \cup
  {<< "loose", x >> : x \in {o} \cap loose} \cup
  {<< "call", t >> : t \in {u \in Threads : o \in Owned(u)}}

(***************************************************************************)
(* Whatever fails half way through, every object that is allocated is in   *)
(* exactly one place, where it can be found and freed, and no pointer is   *)
(* left to one that was freed: the clean-up code of                        *)
(* stumpless_add_new_param_to_entry, stumpless_add_new_element and the     *)
(* destroy functions.                                                      *)
(***************************************************************************)
OwnedOnce ==
  \A o \in Elements \cup Params : Cardinality(Places(o)) = IF o \in live THEN 1 ELSE 0

(***************************************************************************)
(* A thread that is not in the library holds no mutex, unless memory ran   *)
(* out in one of the two functions that make a string of a tree, which     *)
(* return with mutexes held (element.c:213, entry.c:1551).                 *)
(***************************************************************************)
LocksReturned ==
  \A t \in Threads \ seen.failed, o \in DOMAIN holder :
    holder[o] = t => o = Entry /\ frame[t].step # "idle"

(***************************************************************************)
(* Two elements of an entry never have the same name, which RFC 5424       *)
(* forbids and raise_duplicate_element is there for, as long as no element *)
(* was renamed: stumpless_set_element_name does not look at the entry.     *)
(***************************************************************************)
UniqueNames ==
  ~seen.renamed => \A i, j \in DOMAIN entry : el[entry[i]].name = el[entry[j]].name => i = j

(***************************************************************************)
(* When the params of an entry are only set by name through the entry,     *)
(* by any number of threads, no element gets two params of the same name:  *)
(* the lookup and the addition are one critical section of the entry.      *)
(***************************************************************************)
ByNameUnique ==
  ~seen.added => \A e \in live \cap Elements, n \in Names : stumpless_get_param_name_count(e, n) <= 1

(***************************************************************************)
(* stumpless_entry_to_string never writes past the memory it computed in   *)
(* its first pass, when nothing was changed between its two passes.        *)
(***************************************************************************)
StringFits ==
  \A t \in Threads :
    frame[t].step = "close" /\ ~frame[t].disturbed /\ t \notin seen.failed =>
      frame[t].used <= frame[t].size + 1

(***************************************************************************)
(* A copy that was not disturbed is equal to the entry, and one that was   *)
(* disturbed still has one element per name unless an element was renamed. *)
(***************************************************************************)
CopyFaithful ==
  \A t \in Threads :
    LET c == frame[t].copy IN
    /\ frame[t].step = "copied" /\ ~frame[t].disturbed => c = [i \in DOMAIN entry |-> ElementValue(entry[i])]
    /\ ~seen.renamed => \A i, j \in DOMAIN c : c[i].name = c[j].name => i = j

(***************************************************************************)
(* The ways to look an element or a param up agree with each other, except *)
(* that stumpless_get_element_index takes a name that begins with the one  *)
(* it looks for.                                                           *)
(***************************************************************************)
LookupsAgree ==
  \A n \in Names :
    LET e == stumpless_get_element_by_name(n)
        i == stumpless_get_element_index(n)
    IN
    /\ (e # NULL) = stumpless_entry_has_element(n)
    /\ e # NULL /\ (\A x \in ToSet(entry) : << n, el[x].name >> \notin Extends) =>
         /\ stumpless_get_element_by_index(i) = e
         /\ \A m \in Names :
              LET j == stumpless_get_param_index(e, m) IN
              stumpless_element_has_param(e, m) =>
                /\ stumpless_get_param_name_by_index(e, j) = m
                /\ stumpless_get_entry_param_by_name(n, m) = stumpless_get_entry_param_by_index(i, j)
                /\ stumpless_get_entry_param_value_by_name(n, m) =
                     stumpless_get_entry_param_value_by_index(i, j)

(***************************************************************************)
(* The tree of an entry is sound between any two steps of its users:       *)
(* objects and mutexes are where they belong, whatever failed.             *)
(***************************************************************************)
TreeSound == TypeOK /\ OwnedOnce /\ LocksReturned

(***************************************************************************)
(* Elements and params can be told apart by their names, and every way to  *)
(* look one up finds the same.                                             *)
(***************************************************************************)
NamesSound == UniqueNames /\ ByNameUnique /\ LookupsAgree

(***************************************************************************)
(* What stumpless_copy_entry and stumpless_entry_to_string make of the     *)
(* tree is what it was, and fits.                                          *)
(***************************************************************************)
CopiesWhole == StringFits /\ CopyFaithful
=============================================================================
