------------------------------ MODULE Winsock ------------------------------
(***************************************************************************)
(* The start and the end of Winsock (src/src/config/have_winsock2.c): the  *)
(* first network target of a process calls WSAStartup, under a spin lock   *)
(* that later ones do not take, and stumpless_free_all calls WSACleanup.   *)
(*                                                                         *)
(* Every atomic access is a step.  stumpless_free_all is not thread safe,  *)
(* and is called while no other call is under way and no target is open.   *)
(***************************************************************************)
EXTENDS Integers, FiniteSets

CONSTANTS
  Threads,
  NULL,
  MaxFrees    \* bound on the calls of stumpless_free_all

VARIABLES
  wsa_initialized,
  wsa_data_free,    \* the spin lock
  holder,           \* history: the thread that took it
  starts,           \* successful calls of WSAStartup without a WSACleanup
  frees,            \* history: calls of stumpless_free_all so far
  seen,             \* history: Winsock was "cleaned" up, or "failed" to be
  step              \* where each thread is

winsock == << wsa_initialized, wsa_data_free, holder, starts, frees, seen, step >>

Init ==
  /\ wsa_initialized = FALSE
  /\ wsa_data_free = TRUE
  /\ holder = NULL
  /\ starts = 0
  /\ frees = 0
  /\ seen = {}
  /\ step = [t \in Threads |-> "idle"]

Goto(t, s) == step' = [step EXCEPT ![t] = s]

\* winsock2_init_network_target, up to the first look at wsa_initialized: it
\* goes on with a target ("open") or to the lock.
init_wsa(t) ==
  /\ step[t] = "idle"
  /\ Goto(t, IF wsa_initialized THEN "open" ELSE "lock")
  /\ UNCHANGED << wsa_initialized, wsa_data_free, holder, starts, frees, seen >>

Lock(t) ==
  /\ step[t] \in {"lock", "freeing"}
  /\ wsa_data_free
  /\ wsa_data_free' = FALSE
  /\ holder' = t
  /\ Goto(t, IF step[t] = "lock" THEN "recheck" ELSE "cleanup")
  /\ UNCHANGED << wsa_initialized, starts, frees, seen >>

\* Mutant: whether it was initialized while waiting is not looked at.
RecheckNothing(t) ==
  /\ step[t] = "recheck"
  /\ Goto(t, "startup")
  /\ UNCHANGED << wsa_initialized, wsa_data_free, holder, starts, frees, seen >>

Recheck(t) ==
  /\ step[t] = "recheck"
  /\ Goto(t, IF wsa_initialized THEN "unlock" ELSE "startup")
  /\ UNCHANGED << wsa_initialized, wsa_data_free, holder, starts, frees, seen >>

WSAStartup(t) ==
  /\ step[t] = "startup"
  /\ \/ starts' = starts + 1 /\ Goto(t, "publish")
     \/ starts' = starts /\ Goto(t, "giveup")
  /\ UNCHANGED << wsa_initialized, wsa_data_free, holder, frees, seen >>

Publish(t) ==
  /\ step[t] = "publish"
  /\ wsa_initialized' = TRUE
  /\ Goto(t, "unlock")
  /\ UNCHANGED << wsa_data_free, holder, starts, frees, seen >>

Unlock(t) ==
  /\ step[t] \in {"unlock", "giveup"}
  /\ wsa_data_free' = TRUE
  /\ holder' = NULL
  /\ Goto(t, IF step[t] = "unlock" THEN "open" ELSE "idle")
  /\ UNCHANGED << wsa_initialized, starts, frees, seen >>

winsock2_close_network_target(t) ==
  /\ step[t] = "open"
  /\ Goto(t, "idle")
  /\ UNCHANGED << wsa_initialized, wsa_data_free, holder, starts, frees, seen >>

winsock2_free_all(t) ==
  /\ \A u \in Threads : step[u] = "idle"
  /\ frees < MaxFrees
  /\ frees' = frees + 1
  /\ Goto(t, "freeing")
  /\ UNCHANGED << wsa_initialized, wsa_data_free, holder, starts, seen >>

\* Winsock is told to be initialized no longer if WSACleanup failed, which it
\* always does when there was no WSAStartup.
WSACleanup(t) ==
  /\ step[t] = "cleanup"
  /\ \/ /\ starts > 0
        /\ starts' = starts - 1
        /\ seen' = seen \cup {"cleaned"}
        /\ UNCHANGED wsa_initialized
     \/ /\ wsa_initialized' = FALSE
        /\ seen' = IF starts > 0 THEN seen \cup {"failed"} ELSE seen
        /\ UNCHANGED starts
  /\ Goto(t, "giveup")
  /\ UNCHANGED << wsa_data_free, holder, frees >>

\* A call of stumpless_free_all keeps the other threads out.
Alone(t) == \A u \in Threads \ {t} : step[u] \notin {"freeing", "cleanup"}

Next ==
  \E t \in Threads :
    /\ Alone(t)
    /\ \/ init_wsa(t) \/ Lock(t) \/ Recheck(t) \/ WSAStartup(t) \/ Publish(t) \/ Unlock(t)
       \/ winsock2_close_network_target(t) \/ winsock2_free_all(t) \/ WSACleanup(t)

Spec == Init /\ [][Next]_winsock

-----------------------------------------------------------------------------
(***************************************************************************)
(* Properties.                                                             *)
(***************************************************************************)

Inside == {"recheck", "startup", "publish", "unlock", "giveup", "cleanup"}

TypeOK ==
  /\ wsa_initialized \in BOOLEAN
  /\ wsa_data_free \in BOOLEAN
  /\ wsa_data_free <=> holder = NULL
  /\ starts \in Nat
  /\ frees \in 0..MaxFrees
  /\ seen \subseteq {"cleaned", "failed"}
  /\ step \in [Threads -> Inside \cup {"idle", "lock", "open", "freeing"}]

(***************************************************************************)
(* However many threads create the first network target, one at a time has *)
(* the lock, and Winsock is started by one of them only, as long as no     *)
(* call of WSACleanup failed although Winsock had been started.            *)
(***************************************************************************)
StartedOnce ==
  /\ \A t \in Threads : step[t] \in Inside <=> holder = t
  /\ "failed" \notin seen => starts <= 1

(***************************************************************************)
(* A network target is used only after WSAStartup has succeeded.  Targets  *)
(* that are created after stumpless_free_all are left out: wsa_initialized *)
(* stays set when Winsock is cleaned up.                                   *)
(***************************************************************************)
StartedForTargets == \A t \in Threads : step[t] = "open" /\ "cleaned" \notin seen => starts > 0

(***************************************************************************)
(* The lock of Winsock is held where it should be, and Winsock is started  *)
(* once, before the first target is used.                                  *)
(***************************************************************************)
WinsockStarted == TypeOK /\ StartedOnce /\ StartedForTargets
=============================================================================
