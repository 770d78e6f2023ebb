--------------------------- MODULE CurrentTarget ---------------------------
(***************************************************************************)
(* The current and the default target (src/src/target.c).  Both are atomic *)
(* pointers shared by all threads and no lock protects them together: each *)
(* read, write and compare-and-exchange is a step.  The default target is  *)
(* opened when it is first needed; every open function, also the one used  *)
(* for the default target, ends by making its target the current one.      *)
(*                                                                         *)
(* A target is the number of its creation.                                 *)
(***************************************************************************)
EXTENDS Integers, FiniteSets

CONSTANTS
  Threads,
  NULL,
  MaxTargets   \* how many targets a behaviour may create

BoundAssumption == MaxTargets \in Nat /\ NULL \notin 1 .. MaxTargets

VARIABLES
  current_target,
  default_target,
  created,        \* number of targets created so far
  alive,          \* targets that are open: neither freed nor being freed
  own,            \* of these, the ones the application opened itself
  chosen,         \* history: the target the application opened or set last
  pc,             \* where each thread is
  call,           \* the function a thread is in: get "current" or "default"
  target,         \* the local variable result, and what the call returned
  serial          \* whether the application keeps every other call out of the
                  \* library while one opens the default target

vars == << current_target, default_target, created, alive, own, chosen, pc,
           call, target, serial >>

Targets == 1 .. MaxTargets

Labels == {"idle", "read", "open", "publish", "install", "close", "reset",
           "reread", "settle", "using"}

Init ==
  /\ current_target = NULL
  /\ default_target = NULL
  /\ created = 0
  /\ alive = {}
  /\ own = {}
  /\ chosen = NULL
  /\ pc = [t \in Threads |-> "idle"]
  /\ call = [t \in Threads |-> "current"]
  /\ target = [t \in Threads |-> NULL]
  /\ serial \in BOOLEAN

Opening(t) == pc[t] \in {"open", "publish", "install"}

\* Thread t may take a step.
Turn(t) ==
  /\ serial => \A u \in Threads \ {t} : ~Opening(u)
  /\ UNCHANGED serial

Goto(t, l) == pc' = [pc EXCEPT ![t] = l]

Result(t, r) == target' = [target EXCEPT ![t] = r]

\* config_compare_exchange_ptr on current_target.
ExchangeCurrent(expected, new) ==
  current_target' = IF current_target = expected THEN new ELSE current_target

(***************************************************************************)
(* stumpless_get_current_target returns what the pointer holds, or goes on *)
(* to the default target.                                                  *)
(***************************************************************************)
GetCurrent(t) ==
  /\ Turn(t)
  /\ pc[t] = "idle"
  /\ call' = [call EXCEPT ![t] = "current"]
  /\ Result(t, current_target)
  /\ Goto(t, IF current_target = NULL THEN "read" ELSE "using")
  /\ UNCHANGED << current_target, default_target, created, alive, own, chosen >>

GetDefault(t) ==
  /\ Turn(t)
  /\ pc[t] = "idle"
  /\ call' = [call EXCEPT ![t] = "default"]
  /\ Goto(t, "read")
  /\ UNCHANGED << current_target, default_target, created, alive, own, chosen,
                  target >>

(***************************************************************************)
(* stumpless_get_default_target.                                           *)
(***************************************************************************)
Returning(t) == IF call[t] = "current" THEN "settle" ELSE "using"

\* The read before the loop, and the one at its end.
ReadDefault(t) ==
  /\ Turn(t)
  /\ pc[t] \in {"read", "reread"}
  /\ Result(t, default_target)
  /\ Goto(t, IF default_target = NULL THEN "open" ELSE Returning(t))
  /\ UNCHANGED << current_target, default_target, created, alive, own, chosen,
                  call >>

\* Mutant: two targets are created and one of them returned.
OpenDefaultTwice(t) ==
  /\ Turn(t)
  /\ pc[t] = "open"
  /\ created < MaxTargets
  /\ created' = created + 1
  /\ alive' = alive \cup {created + 1, created + 2}
  /\ Result(t, created + 1)
  /\ Goto(t, "publish")
  /\ UNCHANGED << current_target, default_target, own, chosen, call >>

\* config_open_default_target up to its last call.
OpenDefault(t) ==
  /\ Turn(t)
  /\ pc[t] = "open"
  /\ created < MaxTargets
  /\ created' = created + 1
  /\ alive' = alive \cup {created + 1}
  /\ Result(t, created + 1)
  /\ Goto(t, "publish")
  /\ UNCHANGED << current_target, default_target, own, chosen, call >>

OpenDefaultFails(t) ==
  /\ Turn(t)
  /\ pc[t] = "open"
  /\ Result(t, NULL)
  /\ Goto(t, Returning(t))
  /\ UNCHANGED << current_target, default_target, created, alive, own, chosen,
                  call >>

\* ... which is stumpless_set_current_target.
PublishDefault(t) ==
  /\ Turn(t)
  /\ pc[t] = "publish"
  /\ current_target' = target[t]
  /\ Goto(t, "install")
  /\ UNCHANGED << default_target, created, alive, own, chosen, call, target >>

\* Mutant: the pointer is written without looking whether it is still NULL.
InstallBlindly(t) ==
  /\ Turn(t)
  /\ pc[t] = "install"
  /\ default_target' = target[t]
  /\ Goto(t, Returning(t))
  /\ UNCHANGED << current_target, created, alive, own, chosen, call, target >>

\* Mutant: the losing thread tries the exchange again.
InstallSpins(t) ==
  /\ Turn(t)
  /\ pc[t] = "install"
  /\ default_target = NULL
  /\ default_target' = target[t]
  /\ Goto(t, Returning(t))
  /\ UNCHANGED << current_target, created, alive, own, chosen, call, target >>

\* The exchange on default_target: the thread that loses closes its target.
InstallDefault(t) ==
  /\ Turn(t)
  /\ pc[t] = "install"
  /\ \/ /\ default_target = NULL
        /\ default_target' = target[t]
        /\ Goto(t, Returning(t))
     \/ /\ default_target # NULL
        /\ Goto(t, "close")
        /\ UNCHANGED default_target
  /\ UNCHANGED << current_target, created, alive, own, chosen, call, target >>

\* config_close_default_target destroys what is behind the target first...
CloseLoser(t) ==
  /\ Turn(t)
  /\ pc[t] = "close"
  /\ alive' = alive \ {target[t]}
  /\ Goto(t, "reset")
  /\ UNCHANGED << current_target, default_target, created, own, chosen, call,
                  target >>

\* ... and then, in destroy_target, takes it out of current_target.
ResetLoser(t) ==
  /\ Turn(t)
  /\ pc[t] = "reset"
  /\ ExchangeCurrent(target[t], NULL)
  /\ Goto(t, "reread")
  /\ UNCHANGED << default_target, created, alive, own, chosen, call, target >>

\* The last step of stumpless_get_current_target.
Settle(t) ==
  /\ Turn(t)
  /\ pc[t] = "settle"
  /\ ExchangeCurrent(NULL, target[t])
  /\ Goto(t, "using")
  /\ UNCHANGED << default_target, created, alive, own, chosen, call, target >>

\* The caller logs to the target it was given, until it is done with it.
Done(t) ==
  /\ Turn(t)
  /\ pc[t] = "using"
  /\ Result(t, NULL)
  /\ Goto(t, "idle")
  /\ UNCHANGED << current_target, default_target, created, alive, own, chosen,
                  call >>

(***************************************************************************)
(* The application's own targets.  Closing one, and stumpless_free_all,    *)
(* are documented as MT-Unsafe: no other thread is in the library then.    *)
(***************************************************************************)
OpenTarget(t) ==
  /\ Turn(t)
  /\ pc[t] = "idle"
  /\ created < MaxTargets
  /\ created' = created + 1
  /\ alive' = alive \cup {created + 1}
  /\ own' = own \cup {created + 1}
  /\ current_target' = created + 1
  /\ chosen' = created + 1
  /\ UNCHANGED << default_target, pc, call, target >>

SetCurrent(t) ==
  /\ Turn(t)
  /\ pc[t] = "idle"
  /\ \E o \in own \cup {default_target, NULL} :
       /\ current_target' = o
       /\ chosen' = IF o \in own THEN o ELSE NULL
  /\ UNCHANGED << default_target, created, alive, own, pc, call, target >>

Quiet == \A t \in Threads : pc[t] = "idle"

CloseTarget ==
  /\ Quiet
  /\ \E o \in own :
       /\ alive' = alive \ {o}
       /\ own' = own \ {o}
       /\ ExchangeCurrent(o, NULL)
       /\ chosen' = IF chosen = o THEN NULL ELSE chosen
  /\ UNCHANGED << default_target, created, pc, call, target, serial >>

\* target_free_global.
FreeGlobal ==
  /\ Quiet
  /\ default_target # NULL
  /\ alive' = alive \ {default_target}
  /\ ExchangeCurrent(default_target, NULL)
  /\ default_target' = NULL
  /\ UNCHANGED << created, own, chosen, pc, call, target, serial >>

Call(t) == GetCurrent(t) \/ GetDefault(t) \/ OpenTarget(t) \/ SetCurrent(t)

Progress(t) ==
  \/ ReadDefault(t)
  \/ OpenDefault(t)
  \/ OpenDefaultFails(t)
  \/ PublishDefault(t)
  \/ InstallDefault(t)
  \/ CloseLoser(t)
  \/ ResetLoser(t)
  \/ Settle(t)
  \/ Done(t)

Next ==
  \/ CloseTarget
  \/ FreeGlobal
  \/ \E t \in Threads : Call(t) \/ Progress(t)

\* A thread that is in the library keeps running: its loop takes no lock.
Fairness == \A t \in Threads : WF_vars(Progress(t))

Spec == Init /\ [][Next]_vars /\ Fairness

-----------------------------------------------------------------------------
(***************************************************************************)
(* Properties.                                                             *)
(***************************************************************************)

TypeOK ==
  /\ current_target \in Targets \cup {NULL}
  /\ default_target \in Targets \cup {NULL}
  /\ created \in 0 .. MaxTargets
  /\ alive \subseteq 1 .. created
  /\ own \subseteq alive
  /\ chosen \in own \cup {NULL}
  /\ pc \in [Threads -> Labels]
  /\ call \in [Threads -> {"current", "default"}]
  /\ target \in [Threads -> Targets \cup {NULL}]
  /\ serial \in BOOLEAN

\* The default target is never a closed one: whichever of several threads
\* installs its target, nobody closes that one.
DefaultAlive == default_target # NULL => default_target \in alive

\* The current target is closed only while the thread that closes it is still
\* about to reset it; at rest it is open.
CurrentAlive ==
  current_target \notin alive \cup {NULL} =>
    \E t \in Threads : pc[t] = "reset" /\ target[t] = current_target

\* When no call is under way every target the library opened by itself is the
\* default target: the losers of the race were closed, none was forgotten.
NoStrayDefault == Quiet => alive \ own \subseteq {default_target}

\* What stumpless_get_current_target and stumpless_get_default_target return
\* is open, and stays so while the caller uses it.
ResultAlive ==
  \A t \in Threads :
    pc[t] = "using" => target[t] \in alive \cup {NULL}

\* ResultAlive in an application whose threads do not overlap the opening of
\* the default target.
SerialResultAlive == serial => ResultAlive

\* In such an application the target it opened or set last stays the current
\* one until it is closed; only the default target, when it is first opened,
\* takes its place.
ChoiceKept ==
  serial /\ Quiet /\ chosen # NULL => current_target \in {chosen, default_target}

\* The pointers, and what was read from them, name open targets, and the ones
\* that were asked for.
PointersSound ==
  DefaultAlive /\ CurrentAlive /\ NoStrayDefault /\ SerialResultAlive /\ ChoiceKept

\* Every call returns, however the threads interleave: the retry loop of
\* stumpless_get_default_target ends.
CallsReturn ==
  \A t \in Threads : ~serial /\ pc[t] # "idle" ~> pc[t] = "idle"

=============================================================================
