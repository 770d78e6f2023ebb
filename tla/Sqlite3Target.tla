--------------------------- MODULE Sqlite3Target ---------------------------
(***************************************************************************)
(* Targets that insert entries into a SQLite database:                     *)
(* src/src/target/sqlite3.c.  Two threads send one entry, whose message is *)
(* replaced meanwhile, change the statement and the function that prepares *)
(* it, create the table, and open and close the target, while another      *)
(* connection may keep the database busy.                                  *)
(*                                                                         *)
(* A step is what is done under the mutex of the database or of the entry, *)
(* one call of SQLite that may find the database busy, or one unlocked     *)
(* read.  All columns of a row are bound the way the message is (not       *)
(* copied, as for the names) or copied under the mutex of the entry; a row *)
(* says which call stored it, and whether its message was then allocated   *)
(* and one that the entry had during the call.  SQLite is external.        *)
(***************************************************************************)
EXTENDS Integers, Sequences, FiniteSets

CONSTANTS
  Threads,
  Sqls,         \* statements to insert with, the default one among them
  Default,      \* STUMPLESS_DEFAULT_SQLITE3_INSERT_SQL
  Retries,      \* STUMPLESS_SQLITE3_RETRY_MAX
  Statements,   \* number of statements that an application's function prepares
  MaxCalls,     \* bound on the calls made
  NULL

VARIABLES
  target,   \* struct sqlite3_target, NULL while there is none
  db,       \* the database: whether it is open, has the table, and the statements that are not finalized
  rows,     \* the rows inserted
  mutex,    \* the thread that holds db_mutex
  entry,    \* the buffer of the message of the entry, and those freed
  frame,    \* the call each thread is in
  calls     \* history: the number of calls made

vars == << target, db, rows, mutex, entry, frame, calls >>

statement == [sql : Sqls, ran : BOOLEAN, message : Nat \cup {NULL}]

sqlite3_target ==
  [sql : Sqls, func : {"default", "custom"}, data : {"default", "custom"}, stmt : statement \cup {NULL}]

Idle == [step |-> "idle", call |-> 0, i |-> 0, count |-> 0, try |-> 0, result |-> 0, own |-> FALSE,
         func |-> NULL, data |-> NULL, message |-> 0, busy |-> FALSE, raced |-> FALSE]

Init ==
  /\ target = NULL
  /\ db = [open |-> FALSE, table |-> FALSE, stmts |-> 0]
  /\ rows = <<>>
  /\ mutex = NULL
  /\ entry = [message |-> 1, freed |-> {}]
  /\ frame = [t \in Threads |-> Idle]
  /\ calls = 0

Call(t) == frame[t] = Idle /\ calls < MaxCalls /\ calls' = calls + 1

Begin(t, step) == frame' = [frame EXCEPT ![t].step = step, ![t].call = calls + 1, ![t].message = entry.message]

Goto(t, step) == frame' = [frame EXCEPT ![t].step = step]

Finish(t, result) == frame' = [frame EXCEPT ![t].step = "done", ![t].result = result]

-----------------------------------------------------------------------------
(***************************************************************************)
(* Opening, with a database of the application or one opened here, and     *)
(* closing, with the database or without.                                  *)
(***************************************************************************)

new_sqlite3_target ==
  [sql |-> Default, func |-> "default", data |-> "default", stmt |-> NULL]

stumpless_open_sqlite3_target(t) ==
  /\ Call(t)
  /\ target = NULL
  /\ target' = new_sqlite3_target
  /\ db' = [db EXCEPT !.open = TRUE]
  /\ UNCHANGED << rows, mutex, entry, frame >>

\* The database cannot be opened, or there is no memory: it is closed again
\* unless it is the application's.
OpenFails(t) ==
  /\ Call(t)
  /\ target = NULL
  /\ UNCHANGED << target, db, rows, mutex, entry, frame >>

finalize(stmt) == IF stmt = NULL THEN db.stmts ELSE db.stmts - 1

\* sqlite3_close_v2 leaves a database that still has a statement to the last
\* finalize, which follows.  The application has no other call with the target.
stumpless_close_sqlite3_target(t) ==
  /\ Call(t)
  /\ target # NULL /\ \A u \in Threads : frame[u] = Idle
  /\ target' = NULL
  /\ \E with \in BOOLEAN : db' = [db EXCEPT !.open = @ /\ ~with, !.stmts = finalize(target.stmt)]
  /\ UNCHANGED << rows, mutex, entry, frame >>

-----------------------------------------------------------------------------
(***************************************************************************)
(* What a target is set to.  The function and its data are written under   *)
(* the mutex and read without it, the data first.                          *)
(***************************************************************************)

\* History: the threads at this step go on with what is no longer so.
Raced(step) == [u \in Threads |-> IF frame[u].step = step THEN [frame[u] EXCEPT !.raced = TRUE] ELSE frame[u]]

stumpless_set_sqlite3_insert_sql(t) ==
  \E sql \in Sqls :
    /\ Call(t)
    /\ target # NULL /\ mutex = NULL
    /\ target' = [target EXCEPT !.sql = sql, !.stmt = NULL]
    /\ db' = [db EXCEPT !.stmts = finalize(target.stmt)]
    /\ UNCHANGED << rows, mutex, entry, frame >>

stumpless_set_sqlite3_prepare(t) ==
  \E func \in {"default", "custom"} :
    /\ Call(t)
    /\ target # NULL /\ mutex = NULL
    /\ target' = [target EXCEPT !.func = func, !.data = func]
    /\ frame' = Raced("get")
    /\ UNCHANGED << db, rows, mutex, entry >>

stumpless_get_sqlite3_prepare(t) ==
  /\ Call(t)
  /\ target # NULL
  /\ frame' = [frame EXCEPT ![t].step = "get", ![t].data = target.data]
  /\ UNCHANGED << target, db, rows, mutex, entry >>

GetFunc(t) ==
  /\ frame[t].step = "get"
  /\ frame' = [frame EXCEPT ![t].step = "got", ![t].func = target.func]
  /\ UNCHANGED << target, db, rows, mutex, entry, calls >>

\* The application replaces the message and frees the old one.
stumpless_set_entry_message(t) ==
  /\ Call(t)
  /\ entry' = [message |-> entry.message + 1, freed |-> entry.freed \cup {entry.message}]
  /\ frame' = Raced("step")
  /\ UNCHANGED << target, db, rows, mutex >>

-----------------------------------------------------------------------------
(***************************************************************************)
(* stumpless_create_default_sqlite3_table.  CREATE TABLE does not compile  *)
(* when there is such a table.                                             *)
(***************************************************************************)

stumpless_create_default_sqlite3_table(t) ==
  /\ Call(t)
  /\ target # NULL /\ mutex = NULL
  /\ \/ ~db.table /\ Begin(t, "create") /\ mutex' = t
     \/ Finish(t, -1) /\ UNCHANGED mutex
  /\ UNCHANGED << target, db, rows, entry >>

StepCreate(t) ==
  /\ frame[t].step = "create"
  /\ \/ /\ db' = [db EXCEPT !.table = TRUE]
        /\ Finish(t, 1) /\ mutex' = NULL
     \/ /\ Finish(t, -1) /\ mutex' = NULL
        /\ UNCHANGED db
     \/ /\ frame[t].try + 1 < Retries
        /\ frame' = [frame EXCEPT ![t].try = @ + 1]
        /\ UNCHANGED << db, mutex >>
  /\ UNCHANGED << target, rows, entry, calls >>

-----------------------------------------------------------------------------
(***************************************************************************)
(* send_entry_to_sqlite3_target, with stumpless_sqlite3_prepare or a       *)
(* function of the application, which may prepare several statements.      *)
(***************************************************************************)

send_entry_to_sqlite3_target(t) ==
  /\ Call(t)
  /\ target # NULL
  /\ Begin(t, "lock")
  /\ UNCHANGED << target, db, rows, mutex, entry >>

Prepared(stmt) == [stmt EXCEPT !.ran = FALSE]

\* Mutant: a statement that was run is not reset, and cannot be bound again.
PrepareKeepsRunning(t) ==
  /\ frame[t].step = "lock" /\ mutex = NULL
  /\ target.func = "default"
  /\ IF target.stmt = NULL
     THEN /\ db.table
          /\ target' = [target EXCEPT !.stmt = [sql |-> target.sql, ran |-> FALSE, message |-> NULL]]
          /\ db' = [db EXCEPT !.stmts = @ + 1]
     ELSE UNCHANGED << target, db >>
  /\ mutex' = t
  /\ Goto(t, "bind")
  /\ UNCHANGED << rows, entry, calls >>

stumpless_sqlite3_prepare(t) ==
  /\ frame[t].step = "lock" /\ mutex = NULL
  /\ target.func = "default"
  /\ IF target.stmt = NULL
     THEN /\ db.table
          /\ target' = [target EXCEPT !.stmt = [sql |-> target.sql, ran |-> FALSE, message |-> NULL]]
          /\ db' = [db EXCEPT !.stmts = @ + 1]
     ELSE target' = [target EXCEPT !.stmt = Prepared(@)] /\ UNCHANGED db
  /\ mutex' = t
  /\ Goto(t, "bind")
  /\ UNCHANGED << rows, entry, calls >>

\* The statement does not compile.
PrepareFails(t) ==
  /\ frame[t].step = "lock" /\ mutex = NULL
  /\ target.func = "default" /\ target.stmt = NULL
  /\ Finish(t, -1)
  /\ UNCHANGED << target, db, rows, mutex, entry, calls >>

CustomPrepare(t) ==
  /\ frame[t].step = "lock" /\ mutex = NULL
  /\ target.func = "custom"
  /\ \/ /\ frame' = [frame EXCEPT ![t].step = "step", ![t].count = Statements, ![t].own = TRUE]
        /\ mutex' = t
     \/ Finish(t, -1) /\ UNCHANGED mutex
  /\ UNCHANGED << target, db, rows, entry, calls >>

\* Mutant: what is bound already is kept.
BindOnce(t) ==
  /\ frame[t].step = "bind"
  /\ target' = [target EXCEPT !.stmt.message = IF @ = NULL THEN entry.message ELSE @]
  /\ frame' = [frame EXCEPT ![t].step = "step", ![t].count = 1]
  /\ UNCHANGED << db, rows, mutex, entry, calls >>

\* Under the mutex of the entry.  A statement that has been run and not been
\* reset cannot be bound.
Bind(t) ==
  /\ frame[t].step = "bind"
  /\ ~target.stmt.ran
  /\ target' = [target EXCEPT !.stmt.message = entry.message]
  /\ frame' = [frame EXCEPT ![t].step = "step", ![t].count = 1]
  /\ UNCHANGED << db, rows, mutex, entry, calls >>

\* There is no builder, or it cannot grow, or a value cannot be bound.
BindFails(t) ==
  /\ frame[t].step = "bind"
  /\ Finish(t, -1)
  /\ mutex' = NULL
  /\ UNCHANGED << target, db, rows, entry, calls >>

Row(t) ==
  LET message == IF frame[t].own THEN entry.message ELSE target.stmt.message
  IN  [call |-> frame[t].call, live |-> message \notin entry.freed, new |-> message >= frame[t].message,
       raced |-> frame[t].raced]

Ran(t) == IF frame[t].own THEN target ELSE [target EXCEPT !.stmt.ran = TRUE]

StepDone(t) ==
  /\ frame[t].step = "step"
  /\ rows' = Append(rows, Row(t))
  /\ target' = Ran(t)
  /\ IF frame[t].i + 1 = frame[t].count
     THEN Finish(t, 1) /\ mutex' = NULL
     ELSE frame' = [frame EXCEPT ![t].i = @ + 1, ![t].try = @ + 1] /\ UNCHANGED mutex
  /\ UNCHANGED << db, entry, calls >>

StepFails(t) ==
  /\ frame[t].step = "step"
  /\ target' = Ran(t)
  /\ Finish(t, -1) /\ mutex' = NULL
  /\ UNCHANGED << db, rows, entry, calls >>

\* The tries are counted over all statements.  When they are used up, an error
\* is raised, and the result is that of a success.
StepBusy(t) ==
  /\ frame[t].step = "step"
  /\ target' = Ran(t)
  /\ IF frame[t].try + 1 >= Retries
     THEN frame' = [frame EXCEPT ![t].step = "done", ![t].result = 1, ![t].busy = TRUE] /\ mutex' = NULL
     ELSE frame' = [frame EXCEPT ![t].try = @ + 1] /\ UNCHANGED mutex
  /\ UNCHANGED << db, rows, entry, calls >>

Done(t) ==
  /\ frame[t].step \in {"done", "got"}
  /\ frame' = [frame EXCEPT ![t] = Idle]
  /\ UNCHANGED << target, db, rows, mutex, entry, calls >>

Next ==
  \E t \in Threads :
    \/ stumpless_open_sqlite3_target(t) \/ OpenFails(t) \/ stumpless_close_sqlite3_target(t)
    \/ stumpless_set_sqlite3_insert_sql(t) \/ stumpless_set_sqlite3_prepare(t)
    \/ stumpless_get_sqlite3_prepare(t) \/ GetFunc(t) \/ stumpless_set_entry_message(t)
    \/ stumpless_create_default_sqlite3_table(t) \/ StepCreate(t)
    \/ send_entry_to_sqlite3_target(t) \/ stumpless_sqlite3_prepare(t) \/ PrepareFails(t) \/ CustomPrepare(t)
    \/ Bind(t) \/ BindFails(t) \/ StepDone(t) \/ StepFails(t) \/ StepBusy(t) \/ Done(t)

Spec == Init /\ [][Next]_vars

-----------------------------------------------------------------------------
(***************************************************************************)
(* Types: tries go beyond their maximum only by those that stored a row,   *)
(* there is at most one statement of the target, and the mutex is held     *)
(* during calls only.                                                      *)
(***************************************************************************)
TypeOK ==
  /\ target \in sqlite3_target \cup {NULL}
  /\ db \in [open : BOOLEAN, table : BOOLEAN, stmts : 0..1]
  /\ mutex # NULL => frame[mutex].step \in {"create", "bind", "step"}
  /\ \A t \in Threads : frame[t].i < Statements /\ frame[t].try < Retries + frame[t].i

RowsOf(t) == Cardinality({i \in DOMAIN rows : rows[i].call = frame[t].call})

(***************************************************************************)
(* What is returned for an entry tells whether it was stored: all of its   *)
(* statements were run once, or the last of them was not.  Left out are    *)
(* calls that found the database busy too often, which return what a       *)
(* success does.                                                           *)
(***************************************************************************)
StoredTold ==
  \A t \in Threads :
    frame[t].step = "done" =>
      /\ frame[t].result = 1 /\ ~frame[t].busy => RowsOf(t) = frame[t].count
      /\ frame[t].result = -1 \/ frame[t].busy => RowsOf(t) = 0 \/ RowsOf(t) < frame[t].count

(***************************************************************************)
(* As the documentation of stumpless_add_entry has it: a result that is    *)
(* not negative means that there was no error, so that the entry is        *)
(* stored.                                                                 *)
(***************************************************************************)
SuccessStored ==
  \A t \in Threads :
    frame[t].step = "done" /\ frame[t].result >= 0 => RowsOf(t) = frame[t].count

(***************************************************************************)
(* A row has a message that the entry had during the call, read while it   *)
(* was allocated, although the statement keeps pointers of earlier calls.  *)
(* Left out are messages that another thread replaced after they were      *)
(* bound and before the row was stored.                                    *)
(***************************************************************************)
RowsFresh == \A i \in DOMAIN rows : rows[i].new /\ (rows[i].live \/ rows[i].raced)

(***************************************************************************)
(* The statement that is kept is always the one that was set last.         *)
(***************************************************************************)
SqlCurrent == target # NULL => (target.stmt = NULL \/ target.stmt.sql = target.sql)

(***************************************************************************)
(* Each statement of the database is the target's, so that it is finalized *)
(* with it, and the database goes when it is closed.                       *)
(***************************************************************************)
StatementsOwned == db.stmts = (IF target = NULL THEN 0 ELSE IF target.stmt = NULL THEN 0 ELSE 1)

(***************************************************************************)
(* A statement is reset before it is bound again, whatever became of it:   *)
(* SQLite refuses to bind one that has been run.                           *)
(***************************************************************************)
BindReady == \A t \in Threads : frame[t].step = "bind" => ~target.stmt.ran

(***************************************************************************)
(* The function and the data that are read belong together, unless they    *)
(* were set in between.                                                    *)
(***************************************************************************)
PairTogether ==
  \A t \in Threads : frame[t].step = "got" /\ ~frame[t].raced => frame[t].func = frame[t].data

(***************************************************************************)
(* What is stored is the entry as it was during the call, and what is      *)
(* returned tells whether it was.                                          *)
(***************************************************************************)
RowsTold == StoredTold /\ RowsFresh

(***************************************************************************)
(* The statement, the SQL and the function of a target belong together,    *)
(* however they are changed, and a statement that fails, or is never run,  *)
(* can be used again and is finalized.                                     *)
(***************************************************************************)
StatementsSound == TypeOK /\ SqlCurrent /\ StatementsOwned /\ BindReady /\ PairTogether
=============================================================================
