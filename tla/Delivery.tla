------------------------------ MODULE Delivery ------------------------------
(***************************************************************************)
(* How an entry gets to one target: src/src/target.c, with the file,       *)
(* stream, socket and function targets of src/src/target/, the filter of   *)
(* src/src/filter.c and the calls of src/src/log.c, which fill an entry    *)
(* that each thread keeps for itself.  The options, the mask, the filter   *)
(* and the names of a target are changed by other threads meanwhile, and   *)
(* targets may be opened when the first entry is added (ODELAY).           *)
(*                                                                         *)
(* A step is what is done under one mutex, or one unlocked access.  A      *)
(* message is the number of the call that sends it.  How an entry is       *)
(* formatted is in EntryFields, and how threads take turns at the error    *)
(* and the console stream is in SharedStream.                              *)
(***************************************************************************)
EXTENDS Integers, Sequences, FiniteSets

CONSTANTS
  Threads,
  Handles,      \* streams and sockets the system can open
  Types,        \* types of targets: "file", "stream", "socket", "function"
  Severities,   \* of the entries that are sent
  Masks,        \* masks that a target is given
  Names,        \* default app names, sequences of one or two numbers above zero
  Codes,        \* escape codes for colors
  MaxCalls,     \* bound on the calls made
  NULL

Options == {"ODELAY", "CONS"}

\* A target, the names of which are arrays that may hold more than the name.
Targets ==
  [type : Types, stream : Handles \cup {NULL}, options : SUBSET Options, filter : BOOLEAN,
   mask : SUBSET Severities, name : [1..2 -> Nat], length : 1..2,
   codes : [Severities -> Codes \cup {NULL}], ready : BOOLEAN]

\* What counts of an entry that a thread keeps.
Entries == [name : [1..3 -> Nat], length : 1..2]

ASSUME DeliveryAssumption ==
  /\ Types \subseteq {"file", "stream", "socket", "function"}
  /\ Names \subseteq Seq(Nat \ {0}) /\ \A n \in Names : Len(n) \in 1..2
  /\ Masks \subseteq SUBSET Severities
  /\ NULL \notin Threads \cup Handles \cup Codes \cup Targets \cup Entries
  /\ "shared" \notin Threads

VARIABLES
  target,     \* the target, NULL while there is none
  default,    \* the default options
  opened,     \* the handles that are open
  holder,     \* the threads that hold the mutex of the target and of its stream
  cached,     \* the entries each thread keeps: cached_entry and cached_trace
  trace,      \* the values of the params of the entries that are traced
  out,        \* what was written to the destination of the target
  cons,       \* the messages written to the console
  frame,      \* the call each thread is in
  seen,       \* history: what has happened so far
  calls       \* history: the number of calls made

vars == << target, default, opened, holder, cached, trace, out, cons, frame, seen, calls >>

Kinds == {"entry", "trace"}

NIL == << 45 >>

Idle == [step |-> "idle", call |-> 0, severity |-> 0, own |-> "none", masks |-> {}, code |-> NULL,
         result |-> "none", kept |-> FALSE, trace |-> 0]

Init ==
  /\ target = NULL
  /\ default \in {{}, {"ODELAY"}}
  /\ opened = {}
  /\ holder = [m \in {"target", "stream"} |-> NULL]
  /\ cached = [t \in Threads |-> [k \in Kinds |-> NULL]]
  /\ trace = [k \in Threads \cup {"shared"} |-> << 0, 0, 0 >>]
  /\ out = <<>>
  /\ cons = {}
  /\ frame = [t \in Threads |-> Idle]
  /\ seen = {}
  /\ calls = 0

Call(t) == frame[t] = Idle /\ calls < MaxCalls /\ calls' = calls + 1

Free(m) == holder[m] = NULL

AllIdle == \A t \in Threads : frame[t] = Idle

Goto(t, step) == frame' = [frame EXCEPT ![t].step = step]

Crash(t) == frame' = [frame EXCEPT ![t] = [Idle EXCEPT !.step = "crashed"]]

-----------------------------------------------------------------------------
(***************************************************************************)
(* Opening and closing a target.  The default options are read twice: for  *)
(* the options of the target, and to decide whether to open it now.        *)
(***************************************************************************)

new_target(t) ==
  \E type \in Types :
    /\ Call(t)
    /\ target = NULL /\ AllIdle
    /\ target' = [type |-> type, stream |-> NULL, options |-> default, filter |-> TRUE, mask |-> Severities,
                  name |-> << 45, 0 >>, length |-> 1, codes |-> [s \in Severities |-> NULL], ready |-> FALSE]
    /\ Goto(t, "new")
    /\ UNCHANGED << default, opened, holder, cached, trace, out, cons, seen >>

Opens(h) == h \in Handles \ opened

new_file_target(t) ==
  /\ frame[t].step = "new"
  /\ \/ /\ target.type \in {"file", "socket"} /\ "ODELAY" \in default
        /\ target' = [target EXCEPT !.ready = TRUE]
        /\ seen' = IF "ODELAY" \in target.options THEN seen ELSE seen \cup {"undelayed"}
        /\ UNCHANGED opened
     \/ /\ target.type \in {"file", "socket"} /\ "ODELAY" \notin default
        /\ \E h \in Handles :
             /\ Opens(h)
             /\ opened' = opened \cup {h}
             /\ target' = [target EXCEPT !.stream = h, !.ready = TRUE]
        /\ UNCHANGED seen
     \/ /\ target.type \in {"stream", "function"}
        /\ target' = [target EXCEPT !.ready = TRUE]
        /\ UNCHANGED << opened, seen >>
  /\ Goto(t, "idle")
  /\ UNCHANGED << default, holder, cached, trace, out, cons, calls >>

\* The stream or the socket cannot be opened: destroy_target.
NewFails(t) ==
  /\ frame[t].step = "new"
  /\ target' = NULL
  /\ Goto(t, "idle")
  /\ UNCHANGED << default, opened, holder, cached, trace, out, cons, seen, calls >>

\* A target is closed by an application that has no other call with it.  A
\* file that was never opened is given to fclose all the same.
stumpless_close_target(t) ==
  /\ Call(t)
  /\ target # NULL /\ AllIdle
  /\ IF target.type = "file" /\ target.stream = NULL
     THEN Crash(t) /\ seen' = seen \cup {"unopened"} /\ UNCHANGED << target, opened >>
     ELSE /\ Goto(t, "idle")
          /\ opened' = opened \ {target.stream}
          /\ target' = NULL
          /\ seen' = seen \ {"unbound", "undelayed"}
  /\ holder' = [holder EXCEPT !["target"] = NULL]
  /\ UNCHANGED << default, cached, trace, out, cons >>

-----------------------------------------------------------------------------
(***************************************************************************)
(* What a target is set to.                                                *)
(***************************************************************************)

stumpless_set_default_options(t) ==
  \E options \in {{}, {"ODELAY"}} :
    /\ frame[t] = Idle
    /\ calls < MaxCalls /\ calls' = calls + 1
    /\ default' = options
    /\ UNCHANGED << target, opened, holder, cached, trace, out, cons, frame, seen >>

SetTarget(t, new) ==
  /\ Call(t)
  /\ target # NULL /\ target.ready
  /\ Free("target")
  /\ target' = new
  /\ UNCHANGED << default, opened, holder, cached, trace, out, cons >>

stumpless_set_option(t) ==
  \E o \in Options :
    /\ SetTarget(t, [target EXCEPT !.options = @ \cup {o}])
    /\ UNCHANGED << frame, seen >>

stumpless_unset_option(t) ==
  \E o \in Options :
    /\ SetTarget(t, [target EXCEPT !.options = @ \ {o}])
    /\ frame' = IF o = "CONS" THEN [u \in Threads |-> [frame[u] EXCEPT !.kept = FALSE]] ELSE frame
    /\ seen' = IF o = "ODELAY" /\ target.stream = NULL /\ target.type \in {"file", "socket"}
               THEN seen \cup {"undelayed"} ELSE seen

stumpless_set_target_mask(t) ==
  \E m \in Masks :
    /\ SetTarget(t, [target EXCEPT !.mask = m])
    /\ frame' = [u \in Threads |-> IF frame[u] = Idle THEN Idle ELSE [frame[u] EXCEPT !.masks = @ \cup m]]
    /\ UNCHANGED seen

stumpless_set_target_filter(t) ==
  \E f \in BOOLEAN :
    /\ SetTarget(t, [target EXCEPT !.filter = f])
    /\ frame' = [u \in Threads |->
                   IF frame[u] = Idle \/ f THEN frame[u] ELSE [frame[u] EXCEPT !.masks = Severities]]
    /\ UNCHANGED seen

Overlaid(array, name) == [i \in DOMAIN array |-> IF i <= Len(name) THEN name[i] ELSE array[i]]

stumpless_set_target_default_app_name(t) ==
  \E n \in Names :
    /\ SetTarget(t, [target EXCEPT !.name = Overlaid(@, n), !.length = Len(n)])
    /\ seen' = IF \E u \in Threads : frame[u].step = "length" THEN seen \cup {"renamed"} ELSE seen
    /\ UNCHANGED frame

\* A target of another type leaves the function with its mutex locked.
stumpless_set_severity_color(t) ==
  \E s \in Severities, c \in Codes :
    /\ Call(t)
    /\ target # NULL /\ target.ready
    /\ Free("target")
    /\ IF target.type = "stream"
       THEN target' = [target EXCEPT !.codes[s] = c] /\ UNCHANGED << holder, seen >>
       ELSE holder' = [holder EXCEPT !["target"] = t] /\ seen' = seen \cup {"color"} /\ UNCHANGED target
    /\ UNCHANGED << default, opened, cached, trace, out, cons, frame >>

-----------------------------------------------------------------------------
(***************************************************************************)
(* stumpless_add_entry.                                                    *)
(***************************************************************************)

\* The options are read without the mutex.
Enter(t, call, severity, own) ==
  frame' = [frame EXCEPT ![t] =
             [@ EXCEPT !.step = IF "ODELAY" \in target.options THEN "is_open" ELSE "filter",
                       !.call = call, !.severity = severity, !.own = own,
                       !.masks = IF target.filter THEN target.mask ELSE Severities,
                       !.kept = "CONS" \in target.options]]

stumpless_add_entry(t) ==
  \E s \in Severities :
    /\ Call(t)
    /\ target # NULL /\ target.ready
    /\ Enter(t, calls + 1, s, "none")
    /\ UNCHANGED << target, default, opened, holder, cached, trace, out, cons, seen >>

\* Mutant: a target is always open.
IsOpenAlways(t) ==
  /\ frame[t].step = "is_open"
  /\ Free("target")
  /\ Goto(t, "filter")
  /\ UNCHANGED << target, default, opened, holder, cached, trace, out, cons, seen, calls >>

stumpless_target_is_open(t) ==
  /\ frame[t].step = "is_open"
  /\ Free("target")
  /\ Goto(t, IF target.type \in {"file", "socket"} /\ target.stream = NULL THEN "open" ELSE "filter")
  /\ UNCHANGED << target, default, opened, holder, cached, trace, out, cons, seen, calls >>

Return(t, result) == frame' = [frame EXCEPT ![t] = [@ EXCEPT !.step = "done", !.result = result]]

\* Another thread may have opened the target since it was found closed.
stumpless_open_target(t) ==
  /\ frame[t].step = "open"
  /\ Free("target")
  /\ \/ \E h \in Handles :
          /\ Opens(h)
          /\ \/ /\ opened' = opened \cup {h}
                /\ target' = [target EXCEPT !.stream = h]
                /\ seen' = IF target.stream = NULL THEN seen ELSE seen \cup {"raced"}
                /\ Goto(t, "filter")
             \/ /\ target.type = "socket"
                /\ target' = [target EXCEPT !.stream = h]
                /\ seen' = seen \cup {"unbound"} \cup (IF target.stream = NULL THEN {} ELSE {"raced"})
                /\ Return(t, "refused")
                /\ UNCHANGED opened
     \/ /\ target' = [target EXCEPT !.stream = NULL]
        /\ seen' = IF target.stream = NULL THEN seen ELSE seen \cup {"raced"}
        /\ Return(t, "refused")
        /\ UNCHANGED opened
  /\ UNCHANGED << default, holder, cached, trace, out, cons, calls >>

\* The filter first, then stumpless_mask_filter, which has to have the mask.
Filter(t) ==
  /\ frame[t].step = "filter"
  /\ Free("target")
  /\ Goto(t, IF target.filter THEN "mask" ELSE "send")
  /\ UNCHANGED << target, default, opened, holder, cached, trace, out, cons, seen, calls >>

stumpless_mask_filter(t) ==
  /\ frame[t].step = "mask"
  /\ Free("target")
  /\ IF frame[t].severity \in target.mask THEN Goto(t, "send") ELSE Return(t, "filtered")
  /\ UNCHANGED << target, default, opened, holder, cached, trace, out, cons, seen, calls >>

Text(t) == << "text", frame[t].call >>

\* format_entry fails, for a target that needs the text of the entry.
FormatFails(t) ==
  /\ frame[t].step = "send" /\ target.type # "function"
  /\ Return(t, "refused")
  /\ UNCHANGED << target, default, opened, holder, cached, trace, out, cons, seen, calls >>

\* A function target is not formatted, so that nothing can go to the console.
send_entry_to_function_target(t) ==
  /\ frame[t].step = "send" /\ target.type = "function"
  /\ out' = Append(out, Text(t))
  /\ \E r \in {"sent", "rejected"} : Return(t, r)
  /\ UNCHANGED << target, default, opened, holder, cached, trace, cons, seen, calls >>

sendto_file_target(t) ==
  /\ frame[t].step = "send" /\ target.type = "file"
  /\ Free("stream")
  /\ \/ target.stream = NULL /\ Crash(t) /\ UNCHANGED out
     \/ target.stream # NULL /\ out' = Append(out, Text(t)) /\ Return(t, "sent")
     \/ target.stream # NULL /\ Goto(t, "cons") /\ UNCHANGED out
  /\ UNCHANGED << target, default, opened, holder, cached, trace, cons, seen, calls >>

\* sendto fails with a number that is no socket.
sendto_socket_target(t) ==
  /\ frame[t].step = "send" /\ target.type = "socket"
  /\ \/ target.stream \in opened /\ out' = Append(out, Text(t)) /\ Return(t, "sent")
     \/ Goto(t, "cons") /\ UNCHANGED out
  /\ UNCHANGED << target, default, opened, holder, cached, trace, cons, seen, calls >>

\* The escape code is read before the mutex of the stream is taken.
sendto_stream_target(t) ==
  /\ frame[t].step = "send" /\ target.type = "stream"
  /\ frame' = [frame EXCEPT ![t] = [@ EXCEPT !.step = "code", !.code = target.codes[frame[t].severity]]]
  /\ UNCHANGED << target, default, opened, holder, cached, trace, out, cons, seen, calls >>

\* Mutant: the mutex of the stream is not taken.
CodeUnlocked(t) ==
  /\ frame[t].step = "code"
  /\ Goto(t, "text")
  /\ out' = IF frame[t].code = NULL THEN out ELSE Append(out, << "code", frame[t].code >>)
  /\ UNCHANGED << target, default, opened, holder, cached, trace, cons, seen, calls >>

WriteCode(t) ==
  /\ frame[t].step = "code"
  /\ Free("stream")
  /\ holder' = [holder EXCEPT !["stream"] = t]
  /\ Goto(t, "text")
  /\ out' = IF frame[t].code = NULL THEN out ELSE Append(out, << "code", frame[t].code >>)
  /\ UNCHANGED << target, default, opened, cached, trace, cons, seen, calls >>

WriteText(t) ==
  /\ frame[t].step = "text"
  /\ out' = Append(out, Text(t))
  /\ Goto(t, "reset")
  /\ UNCHANGED << target, default, opened, holder, cached, trace, cons, seen, calls >>

WriteReset(t) ==
  /\ frame[t].step = "reset"
  /\ out' = IF frame[t].code = NULL THEN out ELSE Append(out, << "reset", 0 >>)
  /\ holder' = [holder EXCEPT !["stream"] = NULL]
  /\ Return(t, "sent")
  /\ UNCHANGED << target, default, opened, cached, trace, cons, seen, calls >>

WriteFails(t) ==
  /\ \/ frame[t].step = "text"
     \/ frame[t].step = "reset" /\ frame[t].code # NULL
     \/ frame[t].step = "code" /\ frame[t].code # NULL /\ Free("stream")
  /\ holder' = [holder EXCEPT !["stream"] = NULL]
  /\ seen' = IF frame[t].code = NULL THEN seen ELSE seen \cup {"cut"}
  /\ Goto(t, "cons")
  /\ UNCHANGED << target, default, opened, cached, trace, out, cons, calls >>

\* Mutant: what was sent goes to the console, and not what was not.
ConsInverted(t) ==
  /\ frame[t].step = "cons"
  /\ Free("target")
  /\ cons' = IF "CONS" \notin target.options THEN cons \cup {frame[t].call} ELSE cons
  /\ Return(t, "failed")
  /\ UNCHANGED << target, default, opened, holder, cached, trace, out, seen, calls >>

Console(t) ==
  /\ frame[t].step = "cons"
  /\ Free("target")
  /\ cons' = IF "CONS" \in target.options THEN cons \cup {frame[t].call} ELSE cons
  /\ Return(t, "failed")
  /\ UNCHANGED << target, default, opened, holder, cached, trace, out, seen, calls >>

Done(t) ==
  /\ frame[t].step = "done"
  /\ frame' = [frame EXCEPT ![t] = Idle]
  /\ UNCHANGED << target, default, opened, holder, cached, trace, out, cons, seen, calls >>

-----------------------------------------------------------------------------
(***************************************************************************)
(* Messages without an entry: the entry that the thread keeps is loaded or *)
(* its message is replaced, and the names of the target are copied to it   *)
(* without the mutex of the target, the length after the bytes, and        *)
(* without a terminator.                                                   *)
(***************************************************************************)

\* There may be no memory for the entry or its message.
Load(t, severity, kind) ==
  \/ /\ cached' = [cached EXCEPT ![t][kind] = IF @ = NULL THEN [name |-> << 45, 0, 0 >>, length |-> 1] ELSE @]
     /\ frame' = [frame EXCEPT ![t] =
                   [@ EXCEPT !.step = "name", !.call = calls + 1, !.severity = severity, !.own = kind]]
  \/ /\ Return(t, "refused")
     /\ UNCHANGED cached

stumpless_add_log(t) ==
  \E s \in Severities :
    /\ Call(t)
    /\ target # NULL /\ target.ready
    /\ Load(t, s, "entry")
    /\ UNCHANGED << target, default, opened, holder, trace, out, cons, seen >>

\* Another entry is kept for messages with a trace, and add_trace_element has
\* given it the element with three params.
vstumpless_trace_log(t) ==
  \E s \in Severities :
    /\ Call(t)
    /\ target # NULL /\ target.ready
    /\ Load(t, s, "trace")
    /\ UNCHANGED << target, default, opened, holder, trace, out, cons, seen >>

CopyName(t) ==
  /\ frame[t].step = "name"
  /\ cached' = [cached EXCEPT ![t][frame[t].own].name = Overlaid(@, SubSeq(target.name, 1, target.length))]
  /\ Goto(t, "length")
  /\ seen' = IF target.length < cached[t][frame[t].own].length THEN seen \cup {"shrunk"} ELSE seen
  /\ UNCHANGED << target, default, opened, holder, trace, out, cons, calls >>

\* A message without a trace is sent, and the other gets its params first.
Loaded(t) ==
  IF frame[t].own = "entry" THEN Enter(t, frame[t].call, frame[t].severity, "entry")
  ELSE frame' = [frame EXCEPT ![t] = [@ EXCEPT !.step = "trace", !.trace = 1]]

CopyLength(t) ==
  /\ frame[t].step = "length"
  /\ cached' = [cached EXCEPT ![t][frame[t].own].length = target.length]
  /\ Loaded(t)
  /\ UNCHANGED << target, default, opened, holder, trace, out, cons, seen, calls >>

target_free_thread(t) ==
  /\ frame[t] = Idle
  /\ \E k \in Kinds : cached[t][k] # NULL
  /\ cached' = [cached EXCEPT ![t] = [k \in Kinds |-> NULL]]
  /\ UNCHANGED << target, default, opened, holder, trace, out, cons, frame, seen, calls >>

\* The three params of the trace are set one after the other.
stumpless_trace_entry(t) ==
  \E s \in Severities :
    /\ Call(t)
    /\ target # NULL /\ target.ready
    /\ frame' = [frame EXCEPT ![t] =
                  [@ EXCEPT !.step = "trace", !.call = calls + 1, !.severity = s, !.trace = 1]]
    /\ seen' = IF \E u \in Threads : frame[u].trace # 0 /\ frame[u].own = "none" THEN seen \cup {"mixed"} ELSE seen
    /\ UNCHANGED << target, default, opened, holder, cached, trace, out, cons >>

Traced(t) == IF frame[t].own = "none" THEN "shared" ELSE t

SetTrace(t) ==
  /\ frame[t].step = "trace"
  /\ \/ /\ trace' = [trace EXCEPT ![Traced(t)][frame[t].trace] = frame[t].call]
        /\ IF frame[t].trace < 3 THEN frame' = [frame EXCEPT ![t].trace = @ + 1]
           ELSE Enter(t, frame[t].call, frame[t].severity, frame[t].own)
     \/ UNCHANGED trace /\ Return(t, "refused")
  /\ UNCHANGED << target, default, opened, holder, cached, out, cons, seen, calls >>

\* The functions of log.c do the same with the current target, which is this one.
stump(t) == stumpless_add_log(t) \/ vstumpless_trace_log(t) \/ stumpless_set_target_mask(t)

Next ==
  \E t \in Threads :
    \/ new_target(t) \/ new_file_target(t) \/ NewFails(t) \/ stumpless_close_target(t)
    \/ stumpless_set_default_options(t) \/ stumpless_set_option(t) \/ stumpless_unset_option(t)
    \/ stumpless_set_target_filter(t)
    \/ stumpless_set_target_default_app_name(t) \/ stumpless_set_severity_color(t)
    \/ stumpless_add_entry(t) \/ stumpless_target_is_open(t) \/ stumpless_open_target(t)
    \/ Filter(t) \/ stumpless_mask_filter(t) \/ FormatFails(t)
    \/ send_entry_to_function_target(t) \/ sendto_file_target(t) \/ sendto_socket_target(t)
    \/ sendto_stream_target(t) \/ WriteCode(t) \/ WriteText(t) \/ WriteReset(t) \/ WriteFails(t)
    \/ Console(t) \/ Done(t)
    \/ stump(t) \/ CopyName(t) \/ CopyLength(t) \/ target_free_thread(t)
    \/ stumpless_trace_entry(t) \/ SetTrace(t)

Spec == Init /\ [][Next]_vars

-----------------------------------------------------------------------------
(***************************************************************************)
(* Types: the length that an entry of a thread has for its app name is     *)
(* never more than what its array holds.                                   *)
(***************************************************************************)
Steps ==
  {"idle", "new", "crashed", "name", "length", "trace", "is_open", "open", "filter", "mask", "send", "code",
   "text", "reset", "cons", "done"}

Results == {"none", "refused", "filtered", "sent", "rejected", "failed"}

Frames ==
  [step : Steps, call : Nat, severity : Severities \cup {0}, own : {"none"} \cup Kinds,
   masks : SUBSET Severities, code : Codes \cup {NULL}, result : Results, kept : BOOLEAN, trace : 0..3]

TypeOK ==
  /\ target \in Targets \cup {NULL}
  /\ default \subseteq Options
  /\ opened \subseteq Handles
  /\ holder \in [{"target", "stream"} -> Threads \cup {NULL}]
  /\ cached \in [Threads -> [Kinds -> Entries \cup {NULL}]]
  /\ trace \in [Threads \cup {"shared"} -> [1..3 -> Nat]]
  /\ out \in Seq(({"text"} \X Nat) \cup ({"code"} \X Codes) \cup ({"reset"} \X {0}))
  /\ frame \in [Threads -> Frames]
  /\ calls \in Nat
  /\ cons \subseteq 1..calls

(***************************************************************************)
(* A stream or a socket that is open belongs to the target, so that it is  *)
(* closed with it, and the one of the target is open.  Two threads that    *)
(* open the target at once, and a socket that could not be bound, are left *)
(* out.                                                                    *)
(***************************************************************************)
HandlesOwned ==
  /\ "raced" \notin seen => opened \subseteq (IF target = NULL THEN {} ELSE {target.stream})
  /\ target # NULL /\ target.stream # NULL /\ seen \cap {"raced", "unbound"} = {} => target.stream \in opened

(***************************************************************************)
(* No thread uses a stream that has not been opened, although it may be    *)
(* opened as late as with the first entry: as long as ODELAY is not taken  *)
(* back before that, no other thread opens it too, and a target that got   *)
(* no entry is not closed.                                                 *)
(***************************************************************************)
SendsOpen ==
  (\E t \in Threads : frame[t].step = "crashed") => seen \cap {"undelayed", "unopened", "raced"} # {}

(***************************************************************************)
(* A call that returns has given back the mutexes it took, but for         *)
(* stumpless_set_severity_color when the target is no stream target.       *)
(***************************************************************************)
MutexesReturned ==
  \A m \in DOMAIN holder, t \in Threads :
    holder[m] = t /\ frame[t].step \in {"idle", "cons", "done"} => m = "target" /\ "color" \in seen

(***************************************************************************)
(* No handle and no mutex is lost, or used by who does not have it.        *)
(***************************************************************************)
HandlesSafe == TypeOK /\ HandlesOwned /\ SendsOpen /\ MutexesReturned

(***************************************************************************)
(* What a call returns tells what became of its message: it is at the      *)
(* destination once, or not at all and, if it could not be written and     *)
(* CONS was set all the time, on the console.                              *)
(***************************************************************************)
OutcomeTold ==
  \A t \in Threads :
    frame[t].step = "done" =>
      LET n == Cardinality({i \in DOMAIN out : out[i] = Text(t)})
          c == frame[t].call \in cons
          r == frame[t].result
      IN  /\ r = "sent" => n = 1 /\ ~c
          /\ r \in {"filtered", "refused"} => n = 0 /\ ~c
          /\ r = "rejected" => ~c
          /\ r = "failed" => n <= 1 /\ (frame[t].kept => c)

(***************************************************************************)
(* An entry is sent only if its severity was in the mask of the target, or *)
(* there was no filter, at some time during the call.                      *)
(***************************************************************************)
MaskRespected ==
  \A t \in Threads :
    frame[t].step \in {"send", "code", "text", "reset", "cons"} => frame[t].severity \in frame[t].masks

(***************************************************************************)
(* On a stream, the messages of threads do not mix with the colors of      *)
(* others: between an escape code and the one that resets it there is one  *)
(* message, unless a write failed.                                         *)
(***************************************************************************)
StreamWhole ==
  "cut" \notin seen =>
    \A i \in DOMAIN out :
      /\ out[i][1] = "code" /\ i < Len(out) => out[i + 1][1] = "text"
      /\ out[i][1] = "code" /\ i + 1 < Len(out) => out[i + 2][1] = "reset"
      /\ out[i][1] = "reset" => i > 2 /\ out[i - 2][1] = "code"

(***************************************************************************)
(* The app name that a message goes out with is one that the target had,   *)
(* whole, as long as it is not changed while it is copied, and with a      *)
(* terminator, as long as no shorter one is copied over another.           *)
(***************************************************************************)
NameWhole ==
  \A t \in Threads :
    frame[t].own # "none" /\ frame[t].step \in {"send", "code", "text"} =>
      LET entry == cached[t][frame[t].own]
          name == SubSeq(entry.name, 1, entry.length)
      IN
      /\ "renamed" \notin seen => name \in Names \cup {NIL}
      /\ "shrunk" \notin seen /\ "renamed" \notin seen => entry.name[entry.length + 1] = 0

(***************************************************************************)
(* The file, the line and the function of an entry that is traced are of   *)
(* one call, unless another thread traces the same entry, and always if    *)
(* the entry is the one that the thread keeps.                             *)
(***************************************************************************)
TraceWhole ==
  \A t \in Threads :
    frame[t].trace # 0 /\ frame[t].step \in {"send", "code", "text"} =>
      ("mixed" \notin seen \/ frame[t].own # "none" => \A i \in 1..3 : trace[Traced(t)][i] = frame[t].call)

(***************************************************************************)
(* What is written is meant to be written, in one piece, with the name of  *)
(* the target and the place of the call.                                   *)
(***************************************************************************)
WrittenWhole == MaskRespected /\ StreamWhole /\ NameWhole /\ TraceWhole
=============================================================================
