---------------------------- MODULE EventSource ----------------------------
(***************************************************************************)
(* Registering and removing the sources of an event log in the registry    *)
(* (src/src/config/wel_supported.c), by several callers: the threads of a  *)
(* program, or the installers of several.  A log has a key with the list   *)
(* of its sources as the value "Sources", and below it a key for each      *)
(* source, which only comes into being when a transaction is committed.    *)
(* A step is one access to the registry; any of them can fail, and a       *)
(* caller can die before any of them.                                      *)
(***************************************************************************)
EXTENDS Integers, Sequences, FiniteSets, SequencesExt

CONSTANTS
  Callers,
  Sources,        \* names of sources
  Settings,       \* what a source is registered with
  Small,          \* the number of sources whose list fits into 256 bytes
  MaxRequests,    \* bound on the calls made
  NONE

VARIABLES
  key,            \* the key of the log: its list of sources, or NONE
  subkey,         \* what each source is registered with, or NONE
  caller,         \* the call each caller is in
  held,           \* what each caller has opened or allocated
  seen,           \* history: what has happened so far
  requests        \* history: the number of calls made

sourceVars == << key, subkey, caller, held, seen, requests >>

Idle == [step |-> "idle", op |-> NONE, source |-> NONE, settings |-> NONE,
         sources |-> <<>>, size |-> 0, result |-> NONE]

Steps == {"idle", "open", "create", "read", "reread", "list", "begin", "commit",
          "unlist", "delete", "return", "dead"}

Init ==
  /\ key \in {NONE, <<>>} \cup {<< s >> : s \in Sources}
  /\ subkey \in [Sources -> {NONE} \cup Settings]
  /\ \A s \in Sources : subkey[s] # NONE => key = << s >>
  /\ \A s \in Sources : key = << s >> => subkey[s] # NONE
  /\ caller = [c \in Callers |-> Idle]
  /\ held = [c \in Callers |-> {}]
  /\ seen = [overlapped |-> FALSE, silent |-> FALSE, untransacted |-> FALSE]
  /\ requests = 0

To(c, f) == caller' = [caller EXCEPT ![c] = f]

Goto(c, step) == To(c, [caller[c] EXCEPT !.step = step])

Holding(c, h) == held' = [held EXCEPT ![c] = h]

\* The call ends with that result after it gave back all but what is left.
Return(c, result, left) ==
  /\ To(c, [caller[c] EXCEPT !.step = "return", !.result = result])
  /\ Holding(c, left)

(***************************************************************************)
(* Calls.  The names are joined to the name of the key.                    *)
(***************************************************************************)

Request(c, op, s, g) ==
  /\ caller[c].step = "idle"
  /\ requests < MaxRequests
  /\ requests' = requests + 1
  /\ To(c, [Idle EXCEPT !.step = "open", !.op = op, !.source = s, !.settings = g])
  /\ Holding(c, {"name"})
  /\ seen' = [seen EXCEPT !.overlapped =
                @ \/ \E d \in Callers : caller[d].step \notin {"idle", "dead"}]
  /\ UNCHANGED << key, subkey >>

stumpless_add_wel_event_source_w(c, s, g) == Request(c, "add", s, g)

\* The arguments of the other two functions are first converted to wide
\* strings, all of which are freed when one of them cannot be.
Unconverted(c, op, s, g) ==
  /\ caller[c].step = "idle"
  /\ requests < MaxRequests
  /\ requests' = requests + 1
  /\ To(c, [Idle EXCEPT !.step = "return", !.op = op, !.source = s, !.settings = g, !.result = "failure"])
  /\ UNCHANGED << key, subkey, held, seen >>

stumpless_add_wel_event_source(c, s, g) == Request(c, "add", s, g) \/ Unconverted(c, "add", s, g)

stumpless_remove_wel_event_source(c, s) == Request(c, "remove", s, NONE) \/ Unconverted(c, "remove", s, NONE)

\* With the settings of the library, once its path is found.
stumpless_add_default_wel_event_source(c) ==
  LET s == CHOOSE x \in Sources : TRUE
      g == CHOOSE x \in Settings : TRUE
  IN  Request(c, "add", s, g) \/ Unconverted(c, "add", s, g)

EndRequest(c) ==
  /\ caller[c].step = "return"
  /\ To(c, Idle)
  /\ Holding(c, {})
  /\ UNCHANGED << key, subkey, seen, requests >>

\* A transaction that was not committed is rolled back.
Die(c) ==
  /\ caller[c].step \notin {"idle", "return", "dead"}
  /\ To(c, [Idle EXCEPT !.step = "dead"])
  /\ Holding(c, {})
  /\ UNCHANGED << key, subkey, seen, requests >>

(***************************************************************************)
(* Opening the key and reading its list.                                   *)
(***************************************************************************)

add_event_source(c) ==
  /\ caller[c].step = "open"
  /\ caller[c].op = "add"
  /\ \/ key = NONE /\ Goto(c, "create") /\ UNCHANGED held
     \/ key # NONE /\ Goto(c, "read") /\ Holding(c, {"name", "key"})
     \/ Return(c, "failure", {})
  /\ UNCHANGED << key, subkey, seen, requests >>

stumpless_remove_wel_event_source_w(c) ==
  /\ caller[c].step = "open"
  /\ caller[c].op = "remove"
  /\ \/ key # NONE /\ Goto(c, "read") /\ Holding(c, {"name", "key"})
     \/ Return(c, "failure", {})
  /\ UNCHANGED << key, subkey, seen, requests >>

multi_sz_contains(sources, s) == s \in ToSet(sources)

\* Where the call goes on with the list: the two comparisons of
\* stumpless_remove_wel_event_source_w, and the one of add_event_source.
WithSources(c, sources) ==
  LET f == caller[c]
      listed == multi_sz_contains(sources, f.source)
      next == IF f.op = "add" THEN IF listed THEN "begin" ELSE "list"
              ELSE IF listed /\ sources # << f.source >> THEN "unlist" ELSE "delete"
  IN  To(c, [f EXCEPT !.step = next, !.sources = sources])

\* Memory for the first 256 bytes that cannot be had is not reported: the
\* caller's result still says success.
get_sources_value(c) ==
  /\ caller[c].step = "read"
  /\ \/ /\ key # NONE /\ Len(key) <= Small
        /\ WithSources(c, key)
        /\ Holding(c, {"name", "key", "sources"})
        /\ UNCHANGED seen
     \/ /\ key # NONE /\ Len(key) > Small
        /\ To(c, [caller[c] EXCEPT !.step = "reread", !.size = Len(key)])
        /\ UNCHANGED << held, seen >>
     \/ Return(c, "success", {}) /\ seen' = [seen EXCEPT !.silent = TRUE]
     \/ Return(c, "failure", {}) /\ UNCHANGED seen
  /\ UNCHANGED << key, subkey, requests >>

\* The second read, into memory of the size the first one asked for.
ReadAgain(c) ==
  /\ caller[c].step = "reread"
  /\ \/ /\ key # NONE /\ Len(key) <= caller[c].size
        /\ WithSources(c, key)
        /\ Holding(c, {"name", "key", "sources"})
     \/ Return(c, "failure", {})
  /\ UNCHANGED << key, subkey, seen, requests >>

(***************************************************************************)
(* Adding a source.                                                        *)
(***************************************************************************)

\* The key, its list and the key of the source are created in a transaction.
\* The joined name is not freed.
create_event_source_subkey(c) ==
  LET f == caller[c] IN
  /\ f.step = "create"
  /\ \/ /\ key' = << f.source >>
        /\ subkey' = [subkey EXCEPT ![f.source] = f.settings]
        /\ Return(c, "success", {"name"})
     \/ Return(c, "failure", {"name"}) /\ UNCHANGED << key, subkey >>
  /\ UNCHANGED << seen, requests >>

\* Mutant: the source takes the place of the list that was read.
ListReplaces(c) ==
  /\ caller[c].step = "list"
  /\ key # NONE
  /\ key' = << caller[c].source >>
  /\ Goto(c, "begin")
  /\ UNCHANGED << held, subkey, seen, requests >>

\* Mutant: the source is put in front of the list as it is now.
ListAgain(c) ==
  /\ caller[c].step = "list"
  /\ key # NONE
  /\ key' = << caller[c].source >> \o key
  /\ Goto(c, "begin")
  /\ UNCHANGED << held, subkey, seen, requests >>

\* The source is put in front of the list that was read.
ListSource(c) ==
  LET f == caller[c] IN
  /\ f.step = "list"
  /\ \/ /\ key # NONE
        /\ key' = << f.source >> \o f.sources
        /\ Goto(c, "begin")
        /\ UNCHANGED held
     \/ Return(c, "failure", {}) /\ UNCHANGED key
  /\ UNCHANGED << subkey, seen, requests >>

\* Nothing is given back when the transaction cannot be created.
BeginTransaction(c) ==
  /\ caller[c].step = "begin"
  /\ \/ Goto(c, "commit") /\ Holding(c, held[c] \cup {"transaction", "subkey"}) /\ UNCHANGED seen
     \/ Return(c, "failure", held[c]) /\ seen' = [seen EXCEPT !.untransacted = TRUE]
  /\ UNCHANGED << key, subkey, requests >>

\* The values of the key of the source are set, and the transaction is
\* committed; each of these can fail.
populate_event_source_subkey(c) ==
  LET f == caller[c] IN
  /\ f.step = "commit"
  /\ \/ /\ key # NONE
        /\ subkey' = [subkey EXCEPT ![f.source] = f.settings]
        /\ Return(c, "success", {})
     \/ Return(c, "failure", {}) /\ UNCHANGED subkey
  /\ UNCHANGED << key, seen, requests >>

(***************************************************************************)
(* Removing a source.                                                      *)
(***************************************************************************)

\* All sources but this one are copied to a list that is shorter by one.
Without(sources, s) == RemoveAt(sources, CHOOSE i \in DOMAIN sources : sources[i] = s)

UnlistSource(c) ==
  LET f == caller[c] IN
  /\ f.step = "unlist"
  /\ \/ /\ key # NONE
        /\ key' = Without(f.sources, f.source)
        /\ Goto(c, "delete")
        /\ UNCHANGED held
     \/ Return(c, "failure", {}) /\ UNCHANGED key
  /\ UNCHANGED << subkey, seen, requests >>

\* The whole key when the list that was read had no other source, or the key
\* of the source.
DeleteTree(c) ==
  LET f == caller[c] IN
  /\ f.step = "delete"
  /\ \/ /\ f.sources \in {<<>>, << f.source >>}
        /\ key # NONE
        /\ key' = NONE
        /\ subkey' = [s \in Sources |-> NONE]
        /\ Return(c, "success", {})
     \/ /\ f.sources \notin {<<>>, << f.source >>}
        /\ subkey[f.source] # NONE
        /\ subkey' = [subkey EXCEPT ![f.source] = NONE]
        /\ Return(c, "success", {})
        /\ UNCHANGED key
     \/ Return(c, "failure", {}) /\ UNCHANGED << key, subkey >>
  /\ UNCHANGED << seen, requests >>

-----------------------------------------------------------------------------
Next ==
  \E c \in Callers :
    \/ \E s \in Sources, g \in Settings :
         stumpless_add_wel_event_source(c, s, g) \/ stumpless_add_wel_event_source_w(c, s, g)
    \/ \E s \in Sources : stumpless_remove_wel_event_source(c, s)
    \/ stumpless_add_default_wel_event_source(c)
    \/ EndRequest(c)
    \/ Die(c)
    \/ add_event_source(c)
    \/ stumpless_remove_wel_event_source_w(c)
    \/ get_sources_value(c)
    \/ ReadAgain(c)
    \/ create_event_source_subkey(c)
    \/ ListSource(c)
    \/ BeginTransaction(c)
    \/ populate_event_source_subkey(c)
    \/ UnlistSource(c)
    \/ DeleteTree(c)

Spec == Init /\ [][Next]_sourceVars

-----------------------------------------------------------------------------
(***************************************************************************)
(* Properties.                                                             *)
(***************************************************************************)

TypeOK ==
  /\ key \in Seq(Sources) \cup {NONE}
  /\ subkey \in [Sources -> Settings \cup {NONE}]
  /\ \A c \in Callers : caller[c].step \in Steps
  /\ held \in [Callers -> SUBSET {"name", "key", "sources", "transaction", "subkey"}]
  /\ requests \in 0..MaxRequests

Listed == IF key = NONE THEN {} ELSE ToSet(key)

(***************************************************************************)
(* However callers overlap, fail or die, no source is listed twice, and    *)
(* no source is registered without a key of the log above it.              *)
(***************************************************************************)
ListedOnce ==
  /\ key # NONE => Cardinality(Listed) = Len(key)
  /\ key = NONE => \A s \in Sources : subkey[s] = NONE

(***************************************************************************)
(* A call that reports success did what it was asked for, whatever failed  *)
(* or died before it, when it was not interleaved with another one and had *)
(* the memory for reading the list: the source is listed and registered    *)
(* with these settings, or neither.                                        *)
(***************************************************************************)
SuccessMeansDone ==
  \A c \in Callers :
    LET f == caller[c] IN
    f.step = "return" /\ f.result = "success" /\ ~seen.overlapped /\ ~seen.silent =>
      IF f.op = "add" THEN f.source \in Listed /\ subkey[f.source] = f.settings
      ELSE f.source \notin Listed /\ subkey[f.source] = NONE

(***************************************************************************)
(* A call never touches what is registered of another listed source: its   *)
(* place in the list and its key stay, when calls do not overlap.          *)
(***************************************************************************)
KeepsOthers ==
  \A c \in Callers, s \in Sources :
    ~seen.overlapped /\ caller[c].source # s /\ caller[c].step # "idle" /\ caller'[c] # caller[c] =>
      (s \in Listed => s \in Listed' /\ subkey'[s] = subkey[s])

(***************************************************************************)
(* A call that returns has closed every key and every transaction that it  *)
(* opened, unless no transaction could be created, after which             *)
(* add_event_source returns at once.                                       *)
(***************************************************************************)
HandlesClosed ==
  \A c \in Callers :
    caller[c].step = "return" /\ ~seen.untransacted => held[c] \subseteq {"name"}

(***************************************************************************)
(* However callers overlap, fail or die, a source is listed once, what was *)
(* reported as done is done, and nothing is left open.                     *)
(***************************************************************************)
SourcesSound == TypeOK /\ ListedOnce /\ SuccessMeansDone /\ HandlesClosed
=============================================================================
