---------------------------- MODULE EntryTargets ----------------------------
(***************************************************************************)
(* The targets that are given an entry and not its text: chains, SQLite    *)
(* and journald.  They share no state: each behaviour is one of one kind.  *)
(***************************************************************************)
EXTENDS ChainTarget

CONSTANTS Sqls, Default, Retries, Statements, MaxStatementCalls
CONSTANTS JournalEntries, Elements, Params, Name, Shapes, Facility, Lengths, MaxJournalCalls

VARIABLES kind
VARIABLES target, db, rows, mutex, loaded, frame, calls
VARIABLES elements, params, value, message, holder, local, sending, requests

sqlite == << target, db, rows, mutex, loaded, frame, calls >>
journal == << elements, params, value, message, holder, local, sending, requests >>

Sqlite3 == INSTANCE Sqlite3Target WITH entry <- loaded, MaxCalls <- MaxStatementCalls

Journald == INSTANCE JournaldTarget WITH
  Entries <- JournalEntries, MaxCalls <- MaxJournalCalls, frame <- sending, calls <- requests

ASSUME StatementAssumption ==
  /\ Default \in Sqls
  /\ Retries \in Nat \ {0} /\ Statements \in Nat \ {0}
  /\ NULL \notin Threads \cup Sqlite3!statement \cup Sqlite3!sqlite3_target

ASSUME JournalAssumption ==
  /\ Name \in [Elements \cup Params -> Seq(33..126)]
  /\ Facility \in [JournalEntries -> Nat]
  /\ Lengths \subseteq Nat
  /\ \A s \in Shapes : s.elements \in [JournalEntries -> Seq(Elements)] /\ s.params \in [Elements -> Seq(Params)]
  /\ Elements \cap Params = {} /\ JournalEntries \cap (Elements \cup Params) = {}
  /\ NULL \notin Threads \cup JournalEntries \cup Elements \cup Params

EntryTargetsInit ==
  /\ kind \in {"chain", "sqlite3", "journald"}
  /\ Init
  /\ Sqlite3!Init
  /\ Journald!Init
  /\ kind # "journald" => LET s == CHOOSE s \in Shapes : TRUE IN elements = s.elements /\ params = s.params

\* The number of calls is bounded for two of the kinds, so that only chains are
\* checked for a deadlock.  JournalNoStall is about the mutexes of the others.
Rest == kind # "chain" /\ UNCHANGED << kind, vars, sqlite, journal >>

EntryTargetsNext ==
  \/ kind = "chain" /\ Next /\ UNCHANGED << kind, sqlite, journal >>
  \/ kind = "sqlite3" /\ Sqlite3!Next /\ UNCHANGED << kind, vars, journal >>
  \/ kind = "journald" /\ Journald!Next /\ UNCHANGED << kind, vars, sqlite >>
  \/ Rest

EntryTargetsSpec == EntryTargetsInit /\ [][EntryTargetsNext]_<< kind, vars, sqlite, journal >>

(***************************************************************************)
(* A row has the message that the entry had during the call, and what is   *)
(* returned for an entry tells whether it was stored.                      *)
(***************************************************************************)
RowsTold == Sqlite3!RowsTold

(***************************************************************************)
(* The statement that is kept is the one that was set last; it is reset    *)
(* before it is bound again and finalized before the database is closed.   *)
(***************************************************************************)
StatementsSound == Sqlite3!StatementsSound

(***************************************************************************)
(* The result of an entry that is not stored is negative, as documented.   *)
(***************************************************************************)
SuccessStored == Sqlite3!SuccessStored

(***************************************************************************)
(* No thread that sends to journald waits for a mutex that is never given  *)
(* back.                                                                   *)
(***************************************************************************)
JournalNoStall == Journald!NoStall

(***************************************************************************)
(* The record that is sent to journald is the entry as it was at one       *)
(* moment, in buffers that are large enough and not freed.                 *)
(***************************************************************************)
RecordsSound == Journald!RecordsSound
=============================================================================
