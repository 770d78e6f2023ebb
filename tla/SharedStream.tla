---------------------------- MODULE SharedStream ----------------------------
(***************************************************************************)
(* The error stream (src/src/error.c) and the console stream               *)
(* (src/src/target.c).  Each is three atomic variables: the stream that    *)
(* was set, whether one was set at all, and a spin lock held while a       *)
(* message is written.  The two are handled by the same code, except that  *)
(* only the error stream is also written by stumpless_perror, in several   *)
(* pieces.  Every atomic access is a step.                                 *)
(***************************************************************************)
EXTENDS Integers

CONSTANTS
  Threads,
  Streams,     \* the streams an application may set
  Default,     \* stderr, or stdout for the console stream
  NULL

ASSUME StreamsAssumption == Default \notin Streams /\ NULL \notin Streams \cup {Default}

(***************************************************************************)
(* usage is what the threads do with the stream:                           *)
(*   "console"  no thread calls stumpless_perror: there is no such         *)
(*              function for the console stream;                           *)
(*   "careful"  stumpless_perror is only called with an error to print,    *)
(*              and the error stream is never set to NULL;                 *)
(*   "any"      stumpless_perror is called at any time.                    *)
(***************************************************************************)
VARIABLES
  stream,         \* error_stream, cons_stream
  stream_valid,   \* error_stream_valid, cons_stream_valid
  stream_free,    \* error_stream_free, cons_stream_free
  error_valid,    \* per thread: it has an error to print
  pc,             \* where each thread is
  call,           \* the function that writes: "write" or "perror"
  local,          \* the stream it got
  allowed,        \* history: streams in effect since its call began,
                  \* up to when it got its own
  given,          \* history: streams set so far
  usage

vars == << stream, stream_valid, stream_free, error_valid, pc, call, local,
           allowed, given, usage >>

Labels == {"idle", "get", "pointer", "spin", "write", "rest", "release", "publish"}

\* The stream a call would get if it read both variables now.
InEffect == IF stream_valid THEN stream ELSE Default

Init ==
  /\ stream = NULL
  /\ stream_valid = FALSE
  /\ stream_free = TRUE
  /\ error_valid = [t \in Threads |-> FALSE]
  /\ pc = [t \in Threads |-> "idle"]
  /\ call = [t \in Threads |-> "write"]
  /\ local = [t \in Threads |-> NULL]
  /\ allowed = [t \in Threads |-> {}]
  /\ given = {}
  /\ usage \in {"console", "careful", "any"}

Goto(t, l) == pc' = [pc EXCEPT ![t] = l]

Enter(t, f, l) ==
  /\ pc[t] = "idle"
  /\ call' = [call EXCEPT ![t] = f]
  /\ allowed' = [allowed EXCEPT ![t] = {InEffect}]
  /\ Goto(t, l)

\* Calls that have yet to get their stream may get the one that is in effect
\* after the step.
Observe ==
  allowed' = [t \in Threads |->
                IF pc[t] \in {"get", "pointer"} THEN allowed[t] \cup {InEffect'}
                                               ELSE allowed[t]]

(***************************************************************************)
(* Other calls of the library raise and clear the thread's own error.      *)
(***************************************************************************)
RaiseError(t) ==
  /\ pc[t] = "idle"
  /\ error_valid' = [error_valid EXCEPT ![t] = TRUE]
  /\ UNCHANGED << stream, stream_valid, stream_free, pc, call, local, allowed,
                  given, usage >>

ClearError(t) ==
  /\ pc[t] = "idle"
  /\ error_valid' = [error_valid EXCEPT ![t] = FALSE]
  /\ UNCHANGED << stream, stream_valid, stream_free, pc, call, local, allowed,
                  given, usage >>

(***************************************************************************)
(* Writing: write_to_error_stream and the CONS branch of                   *)
(* stumpless_add_entry, and stumpless_perror.                              *)
(***************************************************************************)
Write(t) ==
  /\ Enter(t, "write", "get")
  /\ UNCHANGED << stream, stream_valid, stream_free, error_valid, local, given,
                  usage >>

Perror(t) ==
  /\ usage # "console"
  /\ usage = "careful" => error_valid[t]
  /\ Enter(t, "perror", "get")
  /\ UNCHANGED << stream, stream_valid, stream_free, error_valid, local, given,
                  usage >>

\* What a call does once it has stream s: without anything to write,
\* write_to_error_stream returns and stumpless_perror goes to its last line.
Begin(t, s) ==
  IF s # NULL /\ (call[t] = "perror" => error_valid[t]) THEN "spin"
  ELSE IF call[t] = "perror" THEN "release" ELSE "idle"

Got(t, s) ==
  /\ local' = [local EXCEPT ![t] = s]
  /\ Goto(t, Begin(t, s))

\* Mutant: the pointer is used whether it is valid or not.
GetValidIgnored(t) ==
  /\ pc[t] = "get"
  /\ Got(t, stream)
  /\ UNCHANGED << stream, stream_valid, stream_free, error_valid, call,
                  allowed, given, usage >>

\* stumpless_get_error_stream reads whether a stream was set ...
GetValid(t) ==
  /\ pc[t] = "get"
  /\ IF stream_valid
     THEN Goto(t, "pointer") /\ UNCHANGED local
     ELSE Got(t, Default)
  /\ UNCHANGED << stream, stream_valid, stream_free, error_valid, call,
                  allowed, given, usage >>

\* ... and then which.
GetPointer(t) ==
  /\ pc[t] = "pointer"
  /\ Got(t, stream)
  /\ UNCHANGED << stream, stream_valid, stream_free, error_valid, call,
                  allowed, given, usage >>

\* Mutant: the thread goes on although the exchange failed.
AcquireUnchecked(t) ==
  /\ pc[t] = "spin"
  /\ stream_free' = FALSE
  /\ Goto(t, "write")
  /\ UNCHANGED << stream, stream_valid, error_valid, call, local, allowed,
                  given, usage >>

\* The successful compare-and-exchange that ends the loop.
Acquire(t) ==
  /\ pc[t] = "spin"
  /\ stream_free
  /\ stream_free' = FALSE
  /\ Goto(t, "write")
  /\ UNCHANGED << stream, stream_valid, error_valid, call, local, allowed,
                  given, usage >>

\* Mutant: a write that fails is tried again, with the lock held.
PutRetries(t) ==
  /\ \/ /\ pc[t] = "write"
        /\ Goto(t, IF call[t] = "perror" THEN "rest" ELSE "release")
     \/ /\ pc[t] = "rest"
        /\ Goto(t, "write")
  /\ UNCHANGED << stream, stream_valid, stream_free, error_valid, call, local,
                  allowed, given, usage >>

\* One fwrite, or the several fputs of stumpless_perror.
Put(t) ==
  /\ \/ /\ pc[t] = "write"
        /\ Goto(t, IF call[t] = "perror" THEN "rest" ELSE "release")
     \/ /\ pc[t] = "rest"
        /\ Goto(t, "release")
  /\ UNCHANGED << stream, stream_valid, stream_free, error_valid, call, local,
                  allowed, given, usage >>

Release(t) ==
  /\ pc[t] = "release"
  /\ stream_free' = TRUE
  /\ local' = [local EXCEPT ![t] = NULL]
  /\ allowed' = [allowed EXCEPT ![t] = {}]
  /\ Goto(t, "idle")
  /\ UNCHANGED << stream, stream_valid, error_valid, call, given, usage >>

(***************************************************************************)
(* stumpless_set_error_stream and stumpless_set_cons_stream: two writes.   *)
(***************************************************************************)

\* Mutant: the flag is written before the pointer.
SetFlagFirst(t, s) ==
  /\ usage = "careful" => s # NULL
  /\ pc[t] = "idle"
  /\ stream_valid' = TRUE
  /\ given' = given \cup {s}
  /\ Goto(t, "publish")
  /\ UNCHANGED << stream, stream_free, error_valid, call, local, usage >>
  /\ Observe

SetStream(t, s) ==
  /\ usage = "careful" => s # NULL
  /\ pc[t] = "idle"
  /\ stream' = s
  /\ given' = given \cup {s}
  /\ Goto(t, "publish")
  /\ UNCHANGED << stream_valid, stream_free, error_valid, call, local, usage >>
  /\ Observe

Publish(t) ==
  /\ pc[t] = "publish"
  /\ stream_valid' = TRUE
  /\ Goto(t, "idle")
  /\ UNCHANGED << stream, stream_free, error_valid, call, local, given, usage >>
  /\ Observe

Call(t) ==
  \/ RaiseError(t)
  \/ ClearError(t)
  \/ Write(t)
  \/ Perror(t)
  \/ \E s \in Streams \cup {NULL} : SetStream(t, s)

Progress(t) ==
  \/ GetValid(t)
  \/ GetPointer(t)
  \/ Acquire(t)
  \/ Put(t)
  \/ Release(t)
  \/ Publish(t)

Next == \E t \in Threads : Call(t) \/ Progress(t)

\* A thread that is in the library keeps running.
Fairness == \A t \in Threads : WF_vars(Progress(t))

Spec == Init /\ [][Next]_vars /\ Fairness

-----------------------------------------------------------------------------
(***************************************************************************)
(* Properties.                                                             *)
(***************************************************************************)

TypeOK ==
  /\ stream \in Streams \cup {NULL}
  /\ stream_valid \in BOOLEAN
  /\ stream_free \in BOOLEAN
  /\ error_valid \in [Threads -> BOOLEAN]
  /\ pc \in [Threads -> Labels]
  /\ call \in [Threads -> {"write", "perror"}]
  /\ local \in [Threads -> Streams \cup {Default, NULL}]
  /\ allowed \in [Threads -> SUBSET (Streams \cup {Default, NULL})]
  /\ given \subseteq Streams \cup {NULL}
  /\ usage \in {"console", "careful", "any"}

Writing(t) == pc[t] \in {"write", "rest"}

\* No two threads write to the stream at once, so no message is broken up by
\* another: what the spin lock around the writes is for.
OneWriter ==
  \A t, u \in Threads : Writing(t) /\ Writing(u) => t = u

\* OneWriter for the console stream, and for the error stream of an
\* application that calls stumpless_perror only when there is something to
\* print.
CarefulOneWriter == usage # "any" => OneWriter

\* A message goes to a stream that was in effect between the start of the call
\* and its reading of the stream, and that is the default one or one that was set: never to the
\* NULL the pointer starts with, though setting and getting take two steps.
WritesToStreamInEffect ==
  \A t \in Threads :
    pc[t] \in {"spin", "write", "rest"} =>
      /\ local[t] \in allowed[t]
      /\ local[t] \in given \cup {Default}
      /\ local[t] # NULL

\* The initial NULL is never taken for a stream that was set to NULL, which
\* would silence the stream.
NoPhantomStream == InEffect \in given \cup {Default}

\* A lock that is taken is given back: no call returns or waits with it.
LockReleased == ~stream_free ~> stream_free

=============================================================================
