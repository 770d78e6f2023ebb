---------------------------- MODULE LocalTargets ----------------------------
(***************************************************************************)
(* Targets that log on the machine itself: the ring of BufferTarget, and   *)
(* the Windows Event Log with the entries sent to it (WelData) and the     *)
(* sources registered for it (EventSource).  They share no state: each     *)
(* behaviour is one of one kind.                                           *)
(***************************************************************************)
EXTENDS BufferTarget, Sequences, FiniteSets

CONSTANTS Threads, Params, Strings, Texts, Words, Privals, Indexes, WordMax, MaxCalls, NULL
CONSTANTS Callers, Sources, Settings, Small, MaxRequests, NONE

VARIABLES kind
VARIABLES data, copy, live, text, value, prival, message, holder, frame, last, lost, crossed, calls
VARIABLES key, subkey, caller, held, seen, requests

wel == << data, copy, live, text, value, prival, message, holder, frame, last, lost, crossed, calls >>
registry == << key, subkey, caller, held, seen, requests >>

Wel == INSTANCE WelData

Source == INSTANCE EventSource

ASSUME SourceAssumption ==
  /\ MaxRequests \in Nat
  /\ NONE \notin Seq(Sources) \cup Settings
  /\ Sources # {} /\ Settings # {}

ASSUME WelAssumption ==
  /\ WordMax \in Nat /\ MaxCalls \in Nat
  /\ {0, 1} \subseteq Indexes /\ Indexes \subseteq 0..WordMax /\ Privals \subseteq 0..191
  /\ NULL \notin Threads \cup Params \cup Strings \cup Wel!wel_data \cup Wel!setting

LocalTargetsInit ==
  /\ kind \in {"buffer", "wel", "source"}
  /\ Init
  /\ Wel!Init
  /\ Source!Init
  /\ kind # "buffer" => ~zeroed /\ ~clear
  /\ kind # "wel" => prival = CHOOSE prv \in Privals : TRUE
  /\ kind # "source" => key = NONE

\* The calls for the event log are bounded in number, so that only the ring is
\* checked for a deadlock.
Rest == kind # "buffer" /\ UNCHANGED << kind, vars, wel, registry >>

LocalTargetsNext ==
  \/ kind = "buffer" /\ Next /\ UNCHANGED << kind, wel, registry >>
  \/ kind = "wel" /\ Wel!Next /\ UNCHANGED << kind, vars, registry >>
  \/ kind = "source" /\ Source!Next /\ UNCHANGED << kind, vars, wel >>
  \/ Rest

LocalTargetsSpec == LocalTargetsInit /\ [][LocalTargetsNext]_<< kind, vars, wel, registry >>

(***************************************************************************)
(* What an entry keeps for the event log is allocated once, its two arrays *)
(* agree, and no call returns with a mutex or waits for one for ever.      *)
(***************************************************************************)
WelDataSound == Wel!WelDataSound

(***************************************************************************)
(* What is reported as an event is what the entry was given last, with a   *)
(* category, a type and an id that the message file of the library knows.  *)
(***************************************************************************)
EventsFaithful == kind = "wel" => Wel!EventsFaithful

(***************************************************************************)
(* However callers overlap, fail or die, no source is listed twice, a call *)
(* that reports success did what it was asked for, and a call that returns *)
(* has closed every key and transaction.                                   *)
(***************************************************************************)
SourcesSound == Source!SourcesSound

(***************************************************************************)
(* A call never touches what is registered of another listed source.       *)
(***************************************************************************)
OthersKept == [][Source!KeepsOthers]_registry
=============================================================================
