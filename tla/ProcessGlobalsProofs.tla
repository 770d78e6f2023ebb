------------------------ MODULE ProcessGlobalsProofs ------------------------
(***************************************************************************)
(* Proofs about the atomic variables of a process.                         *)
(***************************************************************************)
EXTENDS ProcessGlobals, TLAPS

-----------------------------------------------------------------------------
(***************************************************************************)
(* Mutual exclusion of the writers of a shared stream, and which stream    *)
(* they write to, for any number of threads and streams.                   *)
(***************************************************************************)

Holding(t) == pc[t] \in {"write", "rest", "release"}

Getting(t) == pc[t] \in {"get", "pointer"}

\* What keeps stumpless_perror from releasing a lock it does not hold: it has
\* an error to print and will get a stream to print it to.
CarefulInv ==
  /\ usage = "console" => \A t \in Threads : call[t] = "write"
  /\ usage = "careful" =>
       /\ NULL \notin given
       /\ \A t \in Threads : Getting(t) /\ call[t] = "perror" => error_valid[t]

\* The pointer holds a stream that was set as soon as anyone may rely on it.
PointerInv ==
  /\ stream_valid => stream \in given
  /\ \A t \in Threads : pc[t] = "publish" => stream \in given
  /\ \A t \in Threads : pc[t] = "pointer" => stream_valid

\* Whoever is between taking the lock and giving it back is alone there.
LockInv ==
  usage # "any" =>
    /\ \A t \in Threads : Holding(t) => ~stream_free
    /\ \A t, u \in Threads : Holding(t) /\ Holding(u) => t = u

\* The stream in effect is one a call may get.
EffectInv ==
  /\ \A t \in Threads : Getting(t) => InEffect \in allowed[t]
  /\ WritesToStreamInEffect

Inv == TypeOK /\ CarefulInv /\ PointerInv /\ LockInv /\ EffectInv

\* Unless usage is "any", stumpless_perror has an error to print and a stream
\* to print it to, so no call goes to its last line without the lock.
LEMMA BeginReleases ==
  ASSUME Inv, usage # "any", NEW t \in Threads, Getting(t),
         NEW s, s \in given \cup {Default}
  PROVE  Begin(t, s) \in {"spin", "idle"}
  BY StreamsAssumption DEF Inv, TypeOK, CarefulInv, Begin

\* Where a call goes once it has a stream.
LEMMA BeginLabel ==
  ASSUME NEW t, NEW s
  PROVE  /\ Begin(t, s) \in {"spin", "release", "idle"}
         /\ Begin(t, s) = "spin" => s # NULL
  BY DEF Begin

\* The invariant holds before the first call.
LEMMA InitInv == Init => Inv
  BY StreamsAssumption
  DEF Init, Inv, TypeOK, Labels, CarefulInv, PointerInv, LockInv, EffectInv,
      Holding, Getting, WritesToStreamInEffect

\* Types are kept.
LEMMA StepTypeOK ==
  ASSUME Inv, [Next]_vars
  PROVE  TypeOK'
<1> USE DEF Inv, TypeOK, Labels
<1>1. CASE UNCHANGED vars
  BY <1>1 DEF vars
<1>2. ASSUME NEW t \in Threads, RaiseError(t) \/ ClearError(t)
      PROVE  TypeOK'
  BY <1>2 DEF RaiseError, ClearError
<1>3. ASSUME NEW t \in Threads, Write(t) \/ Perror(t)
      PROVE  TypeOK'
  BY <1>3 DEF Write, Perror, Enter, Goto, InEffect
<1>4. ASSUME NEW t \in Threads, NEW s \in Streams \cup {NULL}, SetStream(t, s)
      PROVE  TypeOK'
  <2>1. InEffect' \in Streams \cup {Default, NULL}
    BY <1>4 DEF SetStream, InEffect
  <2>2. QED
    BY <1>4, <2>1 DEF SetStream, Observe, Goto
<1>5. ASSUME NEW t \in Threads, GetValid(t) \/ GetPointer(t)
      PROVE  TypeOK'
  BY <1>5, BeginLabel DEF GetValid, GetPointer, Got, Goto
<1>6. ASSUME NEW t \in Threads, Acquire(t) \/ Put(t) \/ Release(t)
      PROVE  TypeOK'
  BY <1>6 DEF Acquire, Put, Release, Goto
<1>7. ASSUME NEW t \in Threads, Publish(t)
      PROVE  TypeOK'
  <2>1. InEffect' \in Streams \cup {Default, NULL}
    BY <1>7 DEF Publish, InEffect
  <2>2. QED
    BY <1>7, <2>1 DEF Publish, Observe, Goto
<1>8. QED
  BY <1>1, <1>2, <1>3, <1>4, <1>5, <1>6, <1>7 DEF Next, Call, Progress

\* A careful application stays one that has an error to print.
LEMMA StepCarefulInv ==
  ASSUME Inv, [Next]_vars
  PROVE  CarefulInv'
<1> USE DEF Inv, TypeOK, CarefulInv, Getting
<1>1. CASE UNCHANGED vars
  BY <1>1 DEF vars
<1>2. ASSUME NEW t \in Threads, RaiseError(t) \/ ClearError(t)
      PROVE  CarefulInv'
  BY <1>2 DEF RaiseError, ClearError
<1>3. ASSUME NEW t \in Threads, Write(t) \/ Perror(t)
      PROVE  CarefulInv'
  BY <1>3 DEF Write, Perror, Enter, Goto
<1>4. ASSUME NEW t \in Threads, NEW s \in Streams \cup {NULL}, SetStream(t, s)
      PROVE  CarefulInv'
  BY <1>4 DEF SetStream, Goto
<1>5. ASSUME NEW t \in Threads, GetValid(t) \/ GetPointer(t)
      PROVE  CarefulInv'
  BY <1>5, BeginLabel DEF GetValid, GetPointer, Got, Goto
<1>6. ASSUME NEW t \in Threads, Acquire(t) \/ Put(t) \/ Release(t) \/ Publish(t)
      PROVE  CarefulInv'
  BY <1>6 DEF Acquire, Put, Release, Publish, Goto
<1>7. QED
  BY <1>1, <1>2, <1>3, <1>4, <1>5, <1>6 DEF Next, Call, Progress

\* The pointer is set before it counts.
LEMMA StepPointerInv ==
  ASSUME Inv, [Next]_vars
  PROVE  PointerInv'
<1> USE DEF Inv, TypeOK, PointerInv
<1>1. CASE UNCHANGED vars
  BY <1>1 DEF vars
<1>2. ASSUME NEW t \in Threads, RaiseError(t) \/ ClearError(t)
      PROVE  PointerInv'
  BY <1>2 DEF RaiseError, ClearError
<1>3. ASSUME NEW t \in Threads, Write(t) \/ Perror(t)
      PROVE  PointerInv'
  BY <1>3 DEF Write, Perror, Enter, Goto
<1>4. ASSUME NEW t \in Threads, NEW s \in Streams \cup {NULL}, SetStream(t, s)
      PROVE  PointerInv'
  BY <1>4 DEF SetStream, Goto
<1>5. ASSUME NEW t \in Threads, GetValid(t) \/ GetPointer(t)
      PROVE  PointerInv'
  BY <1>5, BeginLabel DEF GetValid, GetPointer, Got, Goto
<1>6. ASSUME NEW t \in Threads, Acquire(t) \/ Put(t) \/ Release(t) \/ Publish(t)
      PROVE  PointerInv'
  BY <1>6 DEF Acquire, Put, Release, Publish, Goto
<1>7. QED
  BY <1>1, <1>2, <1>3, <1>4, <1>5, <1>6 DEF Next, Call, Progress

\* Only taking the lock makes a thread a holder, and only a holder frees it.
LEMMA StepLockInv ==
  ASSUME Inv, [Next]_vars
  PROVE  LockInv'
<1> SUFFICES ASSUME usage # "any"
             PROVE  LockInv'
  BY DEF LockInv, Next, Call, Progress, vars, RaiseError, ClearError, Write,
         Perror, SetStream, GetValid, GetPointer, Acquire, Put, Release, Publish
<1> USE DEF Inv, TypeOK, LockInv, Holding
<1>1. CASE UNCHANGED vars
  BY <1>1 DEF vars
<1>2. ASSUME NEW t \in Threads, RaiseError(t) \/ ClearError(t)
      PROVE  LockInv'
  BY <1>2 DEF RaiseError, ClearError
<1>3. ASSUME NEW t \in Threads, Write(t) \/ Perror(t)
      PROVE  LockInv'
  BY <1>3 DEF Write, Perror, Enter, Goto
<1>4. ASSUME NEW t \in Threads, NEW s \in Streams \cup {NULL}, SetStream(t, s)
      PROVE  LockInv'
  BY <1>4 DEF SetStream, Goto
<1>5. ASSUME NEW t \in Threads, GetValid(t) \/ GetPointer(t)
      PROVE  LockInv'
  <2>1. Getting(t)
    BY <1>5 DEF GetValid, GetPointer, Getting
  <2>2. pc[t] = "pointer" => stream \in given
    BY DEF PointerInv
  <2>3. /\ Begin(t, Default) \in {"spin", "idle"}
        /\ pc[t] = "pointer" => Begin(t, stream) \in {"spin", "idle"}
    BY <2>1, <2>2, BeginReleases
  <2>4. QED
    BY <1>5, <2>3 DEF GetValid, GetPointer, Got, Goto
<1>6. ASSUME NEW t \in Threads, Acquire(t) \/ Put(t) \/ Release(t) \/ Publish(t)
      PROVE  LockInv'
  BY <1>6 DEF Acquire, Put, Release, Publish, Goto
<1>7. QED
  BY <1>1, <1>2, <1>3, <1>4, <1>5, <1>6 DEF Next, Call, Progress

\* What is observed is the stream in effect.
LEMMA StepEffectInv ==
  ASSUME Inv, [Next]_vars
  PROVE  EffectInv'
<1> USE DEF Inv, TypeOK, EffectInv, WritesToStreamInEffect, Getting
<1>1. CASE UNCHANGED vars
  BY <1>1 DEF vars, InEffect
<1>2. ASSUME NEW t \in Threads, RaiseError(t) \/ ClearError(t)
      PROVE  EffectInv'
  BY <1>2 DEF RaiseError, ClearError, InEffect
<1>3. ASSUME NEW t \in Threads, Write(t) \/ Perror(t)
      PROVE  EffectInv'
  <2>1. InEffect' = InEffect
    BY <1>3 DEF Write, Perror, InEffect
  <2>2. QED
    BY <1>3, <2>1 DEF Write, Perror, Enter, Goto
<1>4. ASSUME NEW t \in Threads, NEW s \in Streams \cup {NULL}, SetStream(t, s)
      PROVE  EffectInv'
  BY <1>4 DEF SetStream, Observe, Goto
<1>5. ASSUME NEW t \in Threads, GetValid(t) \/ GetPointer(t)
      PROVE  EffectInv'
  <2>1. InEffect' = InEffect
    BY <1>5 DEF GetValid, GetPointer, InEffect
  <2>2. /\ ~stream_valid => InEffect = Default
        /\ pc[t] = "pointer" => InEffect = stream /\ stream \in given
    BY DEF InEffect, PointerInv
  <2>3. QED
    BY <1>5, <2>1, <2>2, BeginLabel DEF GetValid, GetPointer, Got, Goto
<1>6. ASSUME NEW t \in Threads, Acquire(t) \/ Put(t) \/ Release(t)
      PROVE  EffectInv'
  <2>1. InEffect' = InEffect
    BY <1>6 DEF Acquire, Put, Release, InEffect
  <2>2. QED
    BY <1>6, <2>1 DEF Acquire, Put, Release, Goto
<1>7. ASSUME NEW t \in Threads, Publish(t)
      PROVE  EffectInv'
  BY <1>7 DEF Publish, Observe, Goto
<1>8. QED
  BY <1>1, <1>2, <1>3, <1>4, <1>5, <1>6, <1>7 DEF Next, Call, Progress

\* So the invariant holds throughout.
LEMMA AlwaysInv == Spec => []Inv
<1>1. Inv /\ [Next]_vars => Inv'
  BY StepTypeOK, StepCarefulInv, StepPointerInv, StepLockInv, StepEffectInv
  DEF Inv
<1>2. QED
  BY <1>1, InitInv, PTL DEF Spec

\* The console stream never has two writers at once, nor has the error stream
\* of an application that calls stumpless_perror only with an error and a
\* stream to print it to.
THEOREM WritersExclude == Spec => []CarefulOneWriter
<1>1. Inv => CarefulOneWriter
  BY DEF Inv, LockInv, CarefulOneWriter, OneWriter, Writing, Holding
<1>2. QED
  BY <1>1, AlwaysInv, PTL

\* However stumpless_set_error_stream and the two reads of
\* stumpless_get_error_stream interleave, a message goes to a stream that was
\* in effect during the call.
THEOREM StreamInEffectIsUsed == Spec => []WritesToStreamInEffect
<1>1. Inv => WritesToStreamInEffect
  BY DEF Inv, EffectInv
<1>2. QED
  BY <1>1, AlwaysInv, PTL

\* The NULL the pointer is initialised with is never in effect.
THEOREM InitialPointerUnused == Spec => []NoPhantomStream
<1>1. Inv => NoPhantomStream
  BY DEF Inv, PointerInv, NoPhantomStream, InEffect
<1>2. QED
  BY <1>1, AlwaysInv, PTL

-----------------------------------------------------------------------------
(***************************************************************************)
(* Winsock is started once, and before it is used, for any number of       *)
(* threads and of calls of stumpless_free_all.                             *)
(*                                                                         *)
(* wsa_initialized and the calls of WSAStartup agree except between the    *)
(* two steps that change them, which only the holder of the lock is in:    *)
(* that is what StartInv adds.                                             *)
(***************************************************************************)

SpinInv ==
  /\ NULL \notin Threads
  /\ Sockets!TypeOK
  /\ \A t \in Threads : step[t] \in Sockets!Inside <=> holder = t

StartInv ==
  /\ wsa_initialized => starts > 0 \/ "cleaned" \in seen
  /\ \A t \in Threads : step[t] = "startup" => ~wsa_initialized
  /\ \A t \in Threads : step[t] = "publish" => starts > 0 /\ ~wsa_initialized
  /\ \A t \in Threads : step[t] = "unlock" => wsa_initialized
  /\ "failed" \notin seen => starts <= 1
  /\ "failed" \notin seen /\ starts > 0 => wsa_initialized \/ \E t \in Threads : step[t] = "publish"
  /\ Sockets!StartedForTargets

\* Before the first call nobody is inside.
LEMMA SocketsInit ==
  ASSUME Sockets!Init
  PROVE  SpinInv /\ StartInv
<1> USE SocketsAssumption
<1>1. SpinInv
  <2>1. wsa_initialized \in BOOLEAN /\ wsa_data_free \in BOOLEAN /\ (wsa_data_free <=> holder = NULL)
    BY Zenon DEF Sockets!Init
  <2>2. starts \in Nat /\ frees \in 0 .. MaxFrees
    BY DEF Sockets!Init
  <2>3. /\ seen \subseteq {"cleaned", "failed"}
        /\ step \in [Threads -> Sockets!Inside \cup {"idle", "lock", "open", "freeing"}]
        /\ \A t \in Threads : step[t] \in Sockets!Inside <=> holder = t
    BY DEF Sockets!Init, Sockets!Inside
  <2>4. QED
    BY <2>1, <2>2, <2>3 DEF SpinInv, Sockets!TypeOK
<1>2. StartInv
  BY DEF Sockets!Init, StartInv, Sockets!StartedForTargets
<1>3. QED
  BY <1>1, <1>2

\* Whoever is inside holds the lock.
LEMMA SpinStep ==
  ASSUME SpinInv, [Sockets!Next]_(Sockets!winsock)
  PROVE  SpinInv'
<1> USE SocketsAssumption DEF SpinInv, Sockets!TypeOK, Sockets!Inside
<1>1. ASSUME NEW t \in Threads, Sockets!init_wsa(t) \/ Sockets!Lock(t) \/ Sockets!Recheck(t)
      PROVE  SpinInv'
  <2>1. CASE Sockets!init_wsa(t)
    BY <2>1 DEF Sockets!init_wsa, Sockets!Goto
  <2>2. CASE Sockets!Lock(t)
    <3>1. (wsa_data_free <=> holder = NULL)' /\ wsa_data_free' \in BOOLEAN
      BY <2>2, Zenon DEF Sockets!Lock
    <3>2. QED
      BY <2>2, <3>1 DEF Sockets!Lock, Sockets!Goto
  <2>3. CASE Sockets!Recheck(t)
    BY <2>3 DEF Sockets!Recheck, Sockets!Goto
  <2>4. QED
    BY <1>1, <2>1, <2>2, <2>3
<1>2. ASSUME NEW t \in Threads, Sockets!WSAStartup(t) \/ Sockets!Publish(t) \/ Sockets!Unlock(t)
      PROVE  SpinInv'
  <2>1. CASE Sockets!WSAStartup(t)
    BY <2>1 DEF Sockets!WSAStartup, Sockets!Goto
  <2>2. CASE Sockets!Publish(t)
    BY <2>2 DEF Sockets!Publish, Sockets!Goto
  <2>3. CASE Sockets!Unlock(t)
    BY <2>3 DEF Sockets!Unlock, Sockets!Goto
  <2>4. QED
    BY <1>2, <2>1, <2>2, <2>3
<1>3. ASSUME NEW t \in Threads, Sockets!winsock2_close_network_target(t) \/ Sockets!winsock2_free_all(t) \/ Sockets!WSACleanup(t)
      PROVE  SpinInv'
  <2>1. CASE Sockets!winsock2_close_network_target(t)
    BY <2>1 DEF Sockets!winsock2_close_network_target, Sockets!Goto
  <2>2. CASE Sockets!winsock2_free_all(t)
    BY <2>2 DEF Sockets!winsock2_free_all, Sockets!Goto
  <2>3. CASE Sockets!WSACleanup(t)
    <3>1. wsa_initialized' \in BOOLEAN
      BY <2>3, Zenon DEF Sockets!WSACleanup
    <3>2. starts' \in Nat
      BY <2>3 DEF Sockets!WSACleanup
    <3>3. seen' = seen \/ seen' = seen \cup {"cleaned"} \/ seen' = seen \cup {"failed"}
      BY <2>3, Zenon DEF Sockets!WSACleanup
    <3>4. seen' \subseteq {"cleaned", "failed"}
      BY <3>3
    <3>5. QED
      BY <2>3, <3>1, <3>2, <3>4 DEF Sockets!WSACleanup, Sockets!Goto
  <2>4. QED
    BY <1>3, <2>1, <2>2, <2>3
<1>4. CASE UNCHANGED Sockets!winsock
  BY <1>4 DEF Sockets!winsock
<1>5. QED
  BY <1>1, <1>2, <1>3, <1>4 DEF Sockets!Next

\* And wsa_initialized tells the calls of WSAStartup.
LEMMA StartStep ==
  ASSUME SpinInv, StartInv, [Sockets!Next]_(Sockets!winsock)
  PROVE  StartInv'
<1> USE DEF SpinInv, Sockets!TypeOK, Sockets!Inside, StartInv, Sockets!StartedForTargets
<1>1. ASSUME NEW t \in Threads, Sockets!init_wsa(t) \/ Sockets!Lock(t) \/ Sockets!Recheck(t)
      PROVE  StartInv'
  BY <1>1 DEF Sockets!init_wsa, Sockets!Lock, Sockets!Recheck, Sockets!Goto
<1>2. ASSUME NEW t \in Threads, Sockets!WSAStartup(t)
      PROVE  StartInv'
  BY <1>2 DEF Sockets!WSAStartup, Sockets!Goto
<1>3. ASSUME NEW t \in Threads, Sockets!Publish(t) \/ Sockets!Unlock(t)
      PROVE  StartInv'
  BY <1>3 DEF Sockets!Publish, Sockets!Unlock, Sockets!Goto
<1>4. ASSUME NEW t \in Threads, Sockets!winsock2_close_network_target(t) \/ Sockets!winsock2_free_all(t)
      PROVE  StartInv'
  BY <1>4 DEF Sockets!winsock2_close_network_target, Sockets!winsock2_free_all, Sockets!Goto
<1>5. ASSUME NEW t \in Threads, Sockets!WSACleanup(t)
      PROVE  StartInv'
  BY <1>5 DEF Sockets!WSACleanup, Sockets!Goto
<1>6. CASE UNCHANGED Sockets!winsock
  BY <1>6 DEF Sockets!winsock
<1>7. QED
  BY <1>1, <1>2, <1>3, <1>4, <1>5, <1>6 DEF Sockets!Next

(***************************************************************************)
(* However many threads create the first network target at once, init_wsa  *)
(* calls WSAStartup for one of them, under the lock, and none goes on      *)
(* before that has succeeded.                                              *)
(***************************************************************************)
THEOREM StartsOnce == Sockets!Spec => []WinsockStarted
<1>1. Sockets!Init => SpinInv /\ StartInv
  BY SocketsInit
<1>2. SpinInv /\ StartInv /\ [Sockets!Next]_(Sockets!winsock) => (SpinInv /\ StartInv)'
  BY SpinStep, StartStep
<1>3. SpinInv /\ StartInv => WinsockStarted
  BY DEF SpinInv, StartInv, WinsockStarted, Sockets!WinsockStarted, Sockets!StartedOnce
<1>4. QED
  BY <1>1, <1>2, <1>3, PTL DEF Sockets!Spec

-----------------------------------------------------------------------------
(***************************************************************************)
(* The current and the default target, for any number of threads.          *)
(***************************************************************************)

\* A thread that has opened a target for the default one, and not closed it.
Holder(t) == at[t] \in {"publish", "install", "close"}

Making == {target[t] : t \in {u \in Threads : Holder(u)}}

\* The targets that threads are opening are open, are known to nobody else, and
\* are all the library opened besides the default one.
OpeningInv ==
  /\ \A t \in Threads : Holder(t) => target[t] \in alive \ own /\ target[t] # default_target
  /\ \A t, u \in Threads : Holder(t) /\ Holder(u) /\ target[t] = target[u] => t = u
  /\ default_target # NULL => default_target \in alive \ own
  /\ alive \ own \subseteq {default_target} \cup Making

\* What a thread read of default_target stays its value until it returns.
SettleInv == \A t \in Threads : at[t] = "settle" => target[t] \in {NULL, default_target}

\* Threads that do not overlap the opening of the default target never race.
SerialInv ==
  serial =>
    /\ \A t \in Threads : at[t] \notin {"close", "reset", "reread"}
    /\ \A t, u \in Threads : Pointers!Opening(t) /\ Pointers!Opening(u) => t = u
    /\ \A t \in Threads : Pointers!Opening(t) => default_target = NULL
    /\ \A t \in Threads : at[t] = "install" => current_target = target[t]
    /\ chosen # NULL =>
         current_target \in {chosen, default_target} \/ \E t \in Threads : at[t] = "install"

PointersInv ==
  /\ Pointers!TypeOK
  /\ OpeningInv
  /\ Pointers!CurrentAlive
  /\ SettleInv
  /\ SerialInv
  /\ Pointers!SerialResultAlive

\* It holds before the first call.
LEMMA PointersInit == Pointers!Init => PointersInv
BY PointersAssumption
   DEF Pointers!BoundAssumption, Pointers!Init, PointersInv, Pointers!TypeOK, Pointers!Targets, Pointers!Labels,
       OpeningInv, Making, Holder, Pointers!CurrentAlive, SettleInv, SerialInv, Pointers!Opening,
       Pointers!SerialResultAlive, Pointers!ResultAlive
\* Types are kept.
LEMMA TypeOKStep ==
  ASSUME PointersInv, [Pointers!Next]_(Pointers!vars)
  PROVE  Pointers!TypeOK'
<1> USE PointersAssumption DEF Pointers!BoundAssumption, PointersInv, Pointers!TypeOK, Pointers!Targets, Pointers!Labels, Pointers!Goto, Pointers!Result, Pointers!Turn, Pointers!Returning, Pointers!ExchangeCurrent, Pointers!Quiet
<1>1. ASSUME NEW t \in Threads, Pointers!GetCurrent(t) PROVE Pointers!TypeOK'
  BY <1>1 DEF Pointers!GetCurrent
<1>2. ASSUME NEW t \in Threads, Pointers!GetDefault(t) PROVE Pointers!TypeOK'
  BY <1>2 DEF Pointers!GetDefault
<1>3. ASSUME NEW t \in Threads, Pointers!ReadDefault(t) PROVE Pointers!TypeOK'
  BY <1>3 DEF Pointers!ReadDefault
<1>4. ASSUME NEW t \in Threads, Pointers!OpenDefault(t) PROVE Pointers!TypeOK'
  BY <1>4 DEF Pointers!OpenDefault
<1>5. ASSUME NEW t \in Threads, Pointers!OpenDefaultFails(t) PROVE Pointers!TypeOK'
  BY <1>5 DEF Pointers!OpenDefaultFails
<1>6. ASSUME NEW t \in Threads, Pointers!PublishDefault(t) PROVE Pointers!TypeOK'
  BY <1>6 DEF Pointers!PublishDefault
<1>7. ASSUME NEW t \in Threads, Pointers!InstallDefault(t) PROVE Pointers!TypeOK'
  BY <1>7 DEF Pointers!InstallDefault
<1>8. ASSUME NEW t \in Threads, Pointers!CloseLoser(t) PROVE Pointers!TypeOK'
  <2>1. target[t] \notin own
    BY <1>8 DEF Pointers!CloseLoser, OpeningInv, Holder
  <2> QED
    BY <1>8, <2>1 DEF Pointers!CloseLoser
<1>9. ASSUME NEW t \in Threads, Pointers!ResetLoser(t) PROVE Pointers!TypeOK'
  BY <1>9 DEF Pointers!ResetLoser
<1>10. ASSUME NEW t \in Threads, Pointers!Settle(t) PROVE Pointers!TypeOK'
  BY <1>10 DEF Pointers!Settle
<1>11. ASSUME NEW t \in Threads, Pointers!Done(t) PROVE Pointers!TypeOK'
  BY <1>11 DEF Pointers!Done
<1>12. ASSUME NEW t \in Threads, Pointers!OpenTarget(t) PROVE Pointers!TypeOK'
  BY <1>12 DEF Pointers!OpenTarget
<1>13. ASSUME NEW t \in Threads, Pointers!SetCurrent(t) PROVE Pointers!TypeOK'
  BY <1>13 DEF Pointers!SetCurrent
<1>14. CASE Pointers!CloseTarget
  BY <1>14 DEF Pointers!CloseTarget
<1>15. CASE Pointers!FreeGlobal
  <2>1. default_target \notin own
    BY <1>15 DEF Pointers!FreeGlobal, OpeningInv
  <2> QED
    BY <1>15, <2>1 DEF Pointers!FreeGlobal
<1>16. CASE UNCHANGED Pointers!vars
  BY <1>16 DEF Pointers!vars
<1> QED
  BY <1>1, <1>2, <1>3, <1>4, <1>5, <1>6, <1>7, <1>8, <1>9, <1>10, <1>11, <1>12, <1>13, <1>14, <1>15, <1>16 DEF Pointers!Next, Pointers!Call, Pointers!Progress

\* A target that is being opened stays its thread's own.
LEMMA OpeningInvStep ==
  ASSUME PointersInv, [Pointers!Next]_(Pointers!vars)
  PROVE  OpeningInv'
<1> USE PointersAssumption DEF Pointers!BoundAssumption, PointersInv, Pointers!TypeOK, Pointers!Targets, Pointers!Labels, OpeningInv, Making, Holder, Pointers!CurrentAlive, SettleInv, SerialInv, Pointers!Opening, Pointers!SerialResultAlive, Pointers!ResultAlive, Pointers!Goto, Pointers!Result, Pointers!Turn, Pointers!Returning, Pointers!ExchangeCurrent, Pointers!Quiet
<1>1. ASSUME NEW t \in Threads, Pointers!GetCurrent(t) PROVE OpeningInv'
  BY <1>1 DEF Pointers!GetCurrent
<1>2. ASSUME NEW t \in Threads, Pointers!GetDefault(t) PROVE OpeningInv'
  BY <1>2 DEF Pointers!GetDefault
<1>3. ASSUME NEW t \in Threads, Pointers!ReadDefault(t) PROVE OpeningInv'
  BY <1>3 DEF Pointers!ReadDefault
<1>4. ASSUME NEW t \in Threads, Pointers!OpenDefault(t) PROVE OpeningInv'
  BY <1>4 DEF Pointers!OpenDefault
<1>5. ASSUME NEW t \in Threads, Pointers!OpenDefaultFails(t) PROVE OpeningInv'
  BY <1>5 DEF Pointers!OpenDefaultFails
<1>6. ASSUME NEW t \in Threads, Pointers!PublishDefault(t) PROVE OpeningInv'
  BY <1>6 DEF Pointers!PublishDefault
<1>7. ASSUME NEW t \in Threads, Pointers!InstallDefault(t) PROVE OpeningInv'
  BY <1>7 DEF Pointers!InstallDefault
<1>8. ASSUME NEW t \in Threads, Pointers!CloseLoser(t) PROVE OpeningInv'
  <2>1. /\ Holder(t) /\ target[t] \notin own /\ target[t] # default_target
        /\ alive' = alive \ {target[t]} /\ ~Holder(t)'
        /\ \A u \in Threads \ {t} : Holder(u)' <=> Holder(u)
        /\ UNCHANGED << target, own, default_target >>
    BY <1>8 DEF Pointers!CloseLoser
  <2>2. Making \subseteq Making' \cup {target[t]}
    BY <2>1
  <2>3. \A u \in Threads : Holder(u)' => u # t /\ Holder(u) /\ target[u] # target[t]
    BY <2>1
  <2> HIDE DEF Making, Holder
  <2> QED
    BY <2>1, <2>2, <2>3
<1>9. ASSUME NEW t \in Threads, Pointers!ResetLoser(t) PROVE OpeningInv'
  BY <1>9 DEF Pointers!ResetLoser
<1>10. ASSUME NEW t \in Threads, Pointers!Settle(t) PROVE OpeningInv'
  BY <1>10 DEF Pointers!Settle
<1>11. ASSUME NEW t \in Threads, Pointers!Done(t) PROVE OpeningInv'
  BY <1>11 DEF Pointers!Done
<1>12. ASSUME NEW t \in Threads, Pointers!OpenTarget(t) PROVE OpeningInv'
  BY <1>12 DEF Pointers!OpenTarget
<1>13. ASSUME NEW t \in Threads, Pointers!SetCurrent(t) PROVE OpeningInv'
  BY <1>13 DEF Pointers!SetCurrent
<1>14. CASE Pointers!CloseTarget
  BY <1>14 DEF Pointers!CloseTarget
<1>15. CASE Pointers!FreeGlobal
  BY <1>15 DEF Pointers!FreeGlobal
<1>16. CASE UNCHANGED Pointers!vars
  BY <1>16 DEF Pointers!vars
<1> QED
  BY <1>1, <1>2, <1>3, <1>4, <1>5, <1>6, <1>7, <1>8, <1>9, <1>10, <1>11, <1>12, <1>13, <1>14, <1>15, <1>16 DEF Pointers!Next, Pointers!Call, Pointers!Progress

\* Only the thread that closes a target leaves current_target on it.
LEMMA CurrentAliveStep ==
  ASSUME PointersInv, [Pointers!Next]_(Pointers!vars)
  PROVE  Pointers!CurrentAlive'
<1> USE PointersAssumption DEF Pointers!BoundAssumption, PointersInv, Pointers!TypeOK, Pointers!Targets, Pointers!Labels, OpeningInv, Making, Holder, Pointers!CurrentAlive, SettleInv, SerialInv, Pointers!Opening, Pointers!SerialResultAlive, Pointers!ResultAlive, Pointers!Goto, Pointers!Result, Pointers!Turn, Pointers!Returning, Pointers!ExchangeCurrent, Pointers!Quiet
<1>1. ASSUME NEW t \in Threads, Pointers!GetCurrent(t) PROVE Pointers!CurrentAlive'
  BY <1>1 DEF Pointers!GetCurrent
<1>2. ASSUME NEW t \in Threads, Pointers!GetDefault(t) PROVE Pointers!CurrentAlive'
  BY <1>2 DEF Pointers!GetDefault
<1>3. ASSUME NEW t \in Threads, Pointers!ReadDefault(t) PROVE Pointers!CurrentAlive'
  BY <1>3 DEF Pointers!ReadDefault
<1>4. ASSUME NEW t \in Threads, Pointers!OpenDefault(t) PROVE Pointers!CurrentAlive'
  BY <1>4 DEF Pointers!OpenDefault
<1>5. ASSUME NEW t \in Threads, Pointers!OpenDefaultFails(t) PROVE Pointers!CurrentAlive'
  BY <1>5 DEF Pointers!OpenDefaultFails
<1>6. ASSUME NEW t \in Threads, Pointers!PublishDefault(t) PROVE Pointers!CurrentAlive'
  BY <1>6 DEF Pointers!PublishDefault
<1>7. ASSUME NEW t \in Threads, Pointers!InstallDefault(t) PROVE Pointers!CurrentAlive'
  BY <1>7 DEF Pointers!InstallDefault
<1>8. ASSUME NEW t \in Threads, Pointers!CloseLoser(t) PROVE Pointers!CurrentAlive'
  BY <1>8 DEF Pointers!CloseLoser
<1>9. ASSUME NEW t \in Threads, Pointers!ResetLoser(t) PROVE Pointers!CurrentAlive'
  BY <1>9 DEF Pointers!ResetLoser
<1>10. ASSUME NEW t \in Threads, Pointers!Settle(t) PROVE Pointers!CurrentAlive'
  BY <1>10 DEF Pointers!Settle
<1>11. ASSUME NEW t \in Threads, Pointers!Done(t) PROVE Pointers!CurrentAlive'
  BY <1>11 DEF Pointers!Done
<1>12. ASSUME NEW t \in Threads, Pointers!OpenTarget(t) PROVE Pointers!CurrentAlive'
  BY <1>12 DEF Pointers!OpenTarget
<1>13. ASSUME NEW t \in Threads, Pointers!SetCurrent(t) PROVE Pointers!CurrentAlive'
  BY <1>13 DEF Pointers!SetCurrent
<1>14. CASE Pointers!CloseTarget
  BY <1>14 DEF Pointers!CloseTarget
<1>15. CASE Pointers!FreeGlobal
  BY <1>15 DEF Pointers!FreeGlobal
<1>16. CASE UNCHANGED Pointers!vars
  BY <1>16 DEF Pointers!vars
<1> QED
  BY <1>1, <1>2, <1>3, <1>4, <1>5, <1>6, <1>7, <1>8, <1>9, <1>10, <1>11, <1>12, <1>13, <1>14, <1>15, <1>16 DEF Pointers!Next, Pointers!Call, Pointers!Progress

\* No thread that still has to return sees default_target change.
LEMMA SettleInvStep ==
  ASSUME PointersInv, [Pointers!Next]_(Pointers!vars)
  PROVE  SettleInv'
<1> USE PointersAssumption DEF Pointers!BoundAssumption, PointersInv, Pointers!TypeOK, Pointers!Targets, Pointers!Labels, OpeningInv, Making, Holder, Pointers!CurrentAlive, SettleInv, SerialInv, Pointers!Opening, Pointers!SerialResultAlive, Pointers!ResultAlive, Pointers!Goto, Pointers!Result, Pointers!Turn, Pointers!Returning, Pointers!ExchangeCurrent, Pointers!Quiet
<1>1. ASSUME NEW t \in Threads, Pointers!GetCurrent(t) PROVE SettleInv'
  BY <1>1 DEF Pointers!GetCurrent
<1>2. ASSUME NEW t \in Threads, Pointers!GetDefault(t) PROVE SettleInv'
  BY <1>2 DEF Pointers!GetDefault
<1>3. ASSUME NEW t \in Threads, Pointers!ReadDefault(t) PROVE SettleInv'
  BY <1>3 DEF Pointers!ReadDefault
<1>4. ASSUME NEW t \in Threads, Pointers!OpenDefault(t) PROVE SettleInv'
  BY <1>4 DEF Pointers!OpenDefault
<1>5. ASSUME NEW t \in Threads, Pointers!OpenDefaultFails(t) PROVE SettleInv'
  BY <1>5 DEF Pointers!OpenDefaultFails
<1>6. ASSUME NEW t \in Threads, Pointers!PublishDefault(t) PROVE SettleInv'
  BY <1>6 DEF Pointers!PublishDefault
<1>7. ASSUME NEW t \in Threads, Pointers!InstallDefault(t) PROVE SettleInv'
  BY <1>7 DEF Pointers!InstallDefault
<1>8. ASSUME NEW t \in Threads, Pointers!CloseLoser(t) PROVE SettleInv'
  BY <1>8 DEF Pointers!CloseLoser
<1>9. ASSUME NEW t \in Threads, Pointers!ResetLoser(t) PROVE SettleInv'
  BY <1>9 DEF Pointers!ResetLoser
<1>10. ASSUME NEW t \in Threads, Pointers!Settle(t) PROVE SettleInv'
  BY <1>10 DEF Pointers!Settle
<1>11. ASSUME NEW t \in Threads, Pointers!Done(t) PROVE SettleInv'
  BY <1>11 DEF Pointers!Done
<1>12. ASSUME NEW t \in Threads, Pointers!OpenTarget(t) PROVE SettleInv'
  BY <1>12 DEF Pointers!OpenTarget
<1>13. ASSUME NEW t \in Threads, Pointers!SetCurrent(t) PROVE SettleInv'
  BY <1>13 DEF Pointers!SetCurrent
<1>14. CASE Pointers!CloseTarget
  BY <1>14 DEF Pointers!CloseTarget
<1>15. CASE Pointers!FreeGlobal
  BY <1>15 DEF Pointers!FreeGlobal
<1>16. CASE UNCHANGED Pointers!vars
  BY <1>16 DEF Pointers!vars
<1> QED
  BY <1>1, <1>2, <1>3, <1>4, <1>5, <1>6, <1>7, <1>8, <1>9, <1>10, <1>11, <1>12, <1>13, <1>14, <1>15, <1>16 DEF Pointers!Next, Pointers!Call, Pointers!Progress

\* Without overlapping openings nobody loses the race.
LEMMA SerialInvStep ==
  ASSUME PointersInv, [Pointers!Next]_(Pointers!vars)
  PROVE  SerialInv'
<1> USE PointersAssumption DEF Pointers!BoundAssumption, PointersInv, Pointers!TypeOK, Pointers!Targets, Pointers!Labels, OpeningInv, Making, Holder, Pointers!CurrentAlive, SettleInv, SerialInv, Pointers!Opening, Pointers!SerialResultAlive, Pointers!ResultAlive, Pointers!Goto, Pointers!Result, Pointers!Turn, Pointers!Returning, Pointers!ExchangeCurrent, Pointers!Quiet
<1>1. ASSUME NEW t \in Threads, Pointers!GetCurrent(t) PROVE SerialInv'
  BY <1>1 DEF Pointers!GetCurrent
<1>2. ASSUME NEW t \in Threads, Pointers!GetDefault(t) PROVE SerialInv'
  BY <1>2 DEF Pointers!GetDefault
<1>3. ASSUME NEW t \in Threads, Pointers!ReadDefault(t) PROVE SerialInv'
  BY <1>3 DEF Pointers!ReadDefault
<1>4. ASSUME NEW t \in Threads, Pointers!OpenDefault(t) PROVE SerialInv'
  BY <1>4 DEF Pointers!OpenDefault
<1>5. ASSUME NEW t \in Threads, Pointers!OpenDefaultFails(t) PROVE SerialInv'
  BY <1>5 DEF Pointers!OpenDefaultFails
<1>6. ASSUME NEW t \in Threads, Pointers!PublishDefault(t) PROVE SerialInv'
  BY <1>6 DEF Pointers!PublishDefault
<1>7. ASSUME NEW t \in Threads, Pointers!InstallDefault(t) PROVE SerialInv'
  <2>1. SUFFICES ASSUME serial PROVE SerialInv'
    BY <1>7 DEF Pointers!InstallDefault
  <2>2. /\ default_target = NULL /\ default_target' = target[t]
        /\ at' = [at EXCEPT ![t] = IF getter[t] = "current" THEN "settle" ELSE "using"]
        /\ UNCHANGED << current_target, chosen, target, serial >>
    BY <1>7, <2>1 DEF Pointers!InstallDefault
  <2>3. \A u \in Threads : ~Pointers!Opening(u)'
    BY <1>7, <2>1, <2>2 DEF Pointers!InstallDefault
  <2>4. \A u \in Threads : at[u] = "install" => u = t
    BY <1>7, <2>1 DEF Pointers!InstallDefault
  <2>5. \A u \in Threads : at'[u] \notin {"close", "reset", "reread"}
    BY <2>1, <2>2
  <2>6. \A u \in Threads : at'[u] # "install"
    BY <2>2, <2>4
  <2>7. at[t] = "install" /\ current_target = target[t]
    BY <1>7, <2>1 DEF Pointers!InstallDefault
  <2>8. current_target' = default_target'
    BY <2>2, <2>7
  <2> HIDE DEF Pointers!Opening
  <2> QED
    BY <2>3, <2>5, <2>6, <2>8
<1>8. ASSUME NEW t \in Threads, Pointers!CloseLoser(t) PROVE SerialInv'
  BY <1>8 DEF Pointers!CloseLoser
<1>9. ASSUME NEW t \in Threads, Pointers!ResetLoser(t) PROVE SerialInv'
  BY <1>9 DEF Pointers!ResetLoser
<1>10. ASSUME NEW t \in Threads, Pointers!Settle(t) PROVE SerialInv'
  BY <1>10 DEF Pointers!Settle
<1>11. ASSUME NEW t \in Threads, Pointers!Done(t) PROVE SerialInv'
  BY <1>11 DEF Pointers!Done
<1>12. ASSUME NEW t \in Threads, Pointers!OpenTarget(t) PROVE SerialInv'
  BY <1>12 DEF Pointers!OpenTarget
<1>13. ASSUME NEW t \in Threads, Pointers!SetCurrent(t) PROVE SerialInv'
  BY <1>13 DEF Pointers!SetCurrent
<1>14. CASE Pointers!CloseTarget
  BY <1>14 DEF Pointers!CloseTarget
<1>15. CASE Pointers!FreeGlobal
  BY <1>15 DEF Pointers!FreeGlobal
<1>16. CASE UNCHANGED Pointers!vars
  BY <1>16 DEF Pointers!vars
<1> QED
  BY <1>1, <1>2, <1>3, <1>4, <1>5, <1>6, <1>7, <1>8, <1>9, <1>10, <1>11, <1>12, <1>13, <1>14, <1>15, <1>16 DEF Pointers!Next, Pointers!Call, Pointers!Progress

\* And a result is not closed while it is used.
LEMMA SerialResultAliveStep ==
  ASSUME PointersInv, [Pointers!Next]_(Pointers!vars)
  PROVE  Pointers!SerialResultAlive'
<1> USE PointersAssumption DEF Pointers!BoundAssumption, PointersInv, Pointers!TypeOK, Pointers!Targets, Pointers!Labels, OpeningInv, Making, Holder, Pointers!CurrentAlive, SettleInv, SerialInv, Pointers!Opening, Pointers!SerialResultAlive, Pointers!ResultAlive, Pointers!Goto, Pointers!Result, Pointers!Turn, Pointers!Returning, Pointers!ExchangeCurrent, Pointers!Quiet
<1>1. ASSUME NEW t \in Threads, Pointers!GetCurrent(t) PROVE Pointers!SerialResultAlive'
  BY <1>1 DEF Pointers!GetCurrent
<1>2. ASSUME NEW t \in Threads, Pointers!GetDefault(t) PROVE Pointers!SerialResultAlive'
  BY <1>2 DEF Pointers!GetDefault
<1>3. ASSUME NEW t \in Threads, Pointers!ReadDefault(t) PROVE Pointers!SerialResultAlive'
  BY <1>3 DEF Pointers!ReadDefault
<1>4. ASSUME NEW t \in Threads, Pointers!OpenDefault(t) PROVE Pointers!SerialResultAlive'
  BY <1>4 DEF Pointers!OpenDefault
<1>5. ASSUME NEW t \in Threads, Pointers!OpenDefaultFails(t) PROVE Pointers!SerialResultAlive'
  BY <1>5 DEF Pointers!OpenDefaultFails
<1>6. ASSUME NEW t \in Threads, Pointers!PublishDefault(t) PROVE Pointers!SerialResultAlive'
  BY <1>6 DEF Pointers!PublishDefault
<1>7. ASSUME NEW t \in Threads, Pointers!InstallDefault(t) PROVE Pointers!SerialResultAlive'
  BY <1>7 DEF Pointers!InstallDefault
<1>8. ASSUME NEW t \in Threads, Pointers!CloseLoser(t) PROVE Pointers!SerialResultAlive'
  BY <1>8 DEF Pointers!CloseLoser
<1>9. ASSUME NEW t \in Threads, Pointers!ResetLoser(t) PROVE Pointers!SerialResultAlive'
  BY <1>9 DEF Pointers!ResetLoser
<1>10. ASSUME NEW t \in Threads, Pointers!Settle(t) PROVE Pointers!SerialResultAlive'
  BY <1>10 DEF Pointers!Settle
<1>11. ASSUME NEW t \in Threads, Pointers!Done(t) PROVE Pointers!SerialResultAlive'
  BY <1>11 DEF Pointers!Done
<1>12. ASSUME NEW t \in Threads, Pointers!OpenTarget(t) PROVE Pointers!SerialResultAlive'
  BY <1>12 DEF Pointers!OpenTarget
<1>13. ASSUME NEW t \in Threads, Pointers!SetCurrent(t) PROVE Pointers!SerialResultAlive'
  BY <1>13 DEF Pointers!SetCurrent
<1>14. CASE Pointers!CloseTarget
  BY <1>14 DEF Pointers!CloseTarget
<1>15. CASE Pointers!FreeGlobal
  BY <1>15 DEF Pointers!FreeGlobal
<1>16. CASE UNCHANGED Pointers!vars
  BY <1>16 DEF Pointers!vars
<1> QED
  BY <1>1, <1>2, <1>3, <1>4, <1>5, <1>6, <1>7, <1>8, <1>9, <1>10, <1>11, <1>12, <1>13, <1>14, <1>15, <1>16 DEF Pointers!Next, Pointers!Call, Pointers!Progress

\* All steps keep all of it.
LEMMA PointersStep == PointersInv /\ [Pointers!Next]_(Pointers!vars) => PointersInv'
BY TypeOKStep, OpeningInvStep, CurrentAliveStep, SettleInvStep, SerialInvStep, SerialResultAliveStep DEF PointersInv

\* So it holds throughout.
LEMMA PointersAlways == Pointers!Spec => []PointersInv
<1>1. Pointers!Init => PointersInv
  BY PointersInit
<1>2. PointersInv /\ [Pointers!Next]_(Pointers!vars) => PointersInv'
  BY PointersStep
<1> QED
  BY <1>1, <1>2, PTL DEF Pointers!Spec

(***************************************************************************)
(* Neither pointer is left on a closed target, the losers of the race to   *)
(* open the default target have closed theirs, and what the getters return *)
(* is open, and what was chosen, while no call overlaps such an opening:   *)
(* for any number of threads and targets.                                  *)
(***************************************************************************)
THEOREM PointersAreSound == Pointers!Spec => []PointersSound
<1>1. PointersInv => PointersSound
  <2> SUFFICES ASSUME PointersInv PROVE PointersSound
    OBVIOUS
  <2>1. Pointers!DefaultAlive
    BY DEF PointersInv, OpeningInv, Pointers!DefaultAlive
  <2>2. Pointers!NoStrayDefault
    BY DEF PointersInv, OpeningInv, Making, Holder, Pointers!NoStrayDefault, Pointers!Quiet
  <2>3. Pointers!ChoiceKept
    BY DEF PointersInv, SerialInv, Pointers!ChoiceKept, Pointers!Quiet
  <2> QED
    BY <2>1, <2>2, <2>3 DEF PointersInv, PointersSound, Pointers!PointersSound
<1> QED
  BY <1>1, PointersAlways, PTL

(***************************************************************************)
(* The shared variables of error.c and target.c, and what each thread has  *)
(* read of them, keep their types, in the process as a whole.              *)
(***************************************************************************)
THEOREM GlobalsTypeCorrect == GlobalsSpec => []GlobalsTypeOK
<1>1. GlobalsInit => Inv /\ PointersInv
  BY InitInv, PointersInit DEF GlobalsInit
<1>2. Inv /\ PointersInv /\ [GlobalsNext]_<< kind, vars, pointers, sockets >> => (Inv /\ PointersInv)'
  <2> SUFFICES ASSUME Inv, PointersInv, [GlobalsNext]_<< kind, vars, pointers, sockets >> PROVE (Inv /\ PointersInv)'
    OBVIOUS
  <2>1. [Next]_vars /\ [Pointers!Next]_(Pointers!vars)
    BY DEF GlobalsNext, pointers, Pointers!vars
  <2>2. Inv'
    BY <2>1, StepTypeOK, StepCarefulInv, StepPointerInv, StepLockInv, StepEffectInv DEF Inv
  <2> QED
    BY <2>1, <2>2, PointersStep
<1>3. Inv /\ PointersInv => GlobalsTypeOK
  BY DEF Inv, PointersInv, GlobalsTypeOK
<1> QED
  BY <1>1, <1>2, <1>3, PTL DEF GlobalsSpec
=============================================================================
