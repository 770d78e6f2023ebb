--------------------------- MODULE ProcessGlobals ---------------------------
(***************************************************************************)
(* The atomic variables that all threads of a process share without a      *)
(* mutex: the streams of SharedStream, the pointers of CurrentTarget and   *)
(* the state of Winsock.  No call uses two of them: each behaviour is      *)
(* about one.                                                              *)
(***************************************************************************)
EXTENDS SharedStream

CONSTANTS MaxTargets, MaxFrees

VARIABLES kind, current_target, default_target, created, alive, own, chosen, at, getter, target, serial
VARIABLES wsa_initialized, wsa_data_free, holder, starts, frees, seen, step

pointers == << current_target, default_target, created, alive, own, chosen, at, getter, target, serial >>

sockets == << wsa_initialized, wsa_data_free, holder, starts, frees, seen, step >>

Pointers == INSTANCE CurrentTarget WITH pc <- at, call <- getter

Sockets == INSTANCE Winsock

ASSUME PointersAssumption == Pointers!BoundAssumption

ASSUME SocketsAssumption == MaxFrees \in Nat /\ NULL \notin Threads

GlobalsInit ==
  /\ kind \in {"streams", "pointers", "sockets"}
  /\ Init
  /\ Pointers!Init
  /\ Sockets!Init
  /\ kind # "streams" => usage = "any"
  /\ kind # "pointers" => ~serial

GlobalsNext ==
  \/ kind = "streams" /\ Next /\ UNCHANGED << kind, pointers, sockets >>
  \/ kind = "pointers" /\ Pointers!Next /\ UNCHANGED << kind, vars, sockets >>
  \/ kind = "sockets" /\ Sockets!Next /\ UNCHANGED << kind, vars, pointers >>

GlobalsSpec ==
  /\ GlobalsInit
  /\ [][GlobalsNext]_<< kind, vars, pointers, sockets >>
  /\ Fairness
  /\ Pointers!Fairness

(***************************************************************************)
(* The shared variables, and what each thread has read of them, keep their *)
(* types; the pointers name only targets that were created.                *)
(***************************************************************************)
GlobalsTypeOK == TypeOK /\ Pointers!TypeOK

(***************************************************************************)
(* Neither pointer is left on a target that is closed, the losers of the   *)
(* race for the default target have closed theirs, and a result is open,   *)
(* and the target that was chosen, as long as no call overlaps the opening *)
(* of the default target.                                                  *)
(***************************************************************************)
PointersSound == Pointers!PointersSound

(***************************************************************************)
(* WSAStartup is called once, under the lock, before the first network     *)
(* target is used, however many threads open the first one.                *)
(***************************************************************************)
WinsockStarted == Sockets!WinsockStarted

(***************************************************************************)
(* The retry loop of stumpless_get_default_target ends for every thread.   *)
(***************************************************************************)
CallsReturn == Pointers!CallsReturn
=============================================================================
