------------------------ MODULE NetworkTargetProofs ------------------------
(***************************************************************************)
(* The mutexes, the handle and the destination of a network target are     *)
(* right for any number of threads, destinations, messages and             *)
(* connections, and messages arrive whole: proofs of NetworkTarget.        *)
(*                                                                         *)
(* LocksMatch is inductive once the labels are known to be a function on   *)
(* the threads.  The others need it: only who holds a mutex changes what   *)
(* that mutex protects.  ArriveInv adds that what was sent of a message is *)
(* the last that its connection received while its thread holds the mutex. *)
(***************************************************************************)
EXTENDS NetworkTarget, SequenceTheorems, FiniteSetTheorems, TLAPS

\* The labels of the threads, and nobody's name for a thread.
LabelsInv == NULL \notin Threads /\ pc \in [Threads -> Labels]

LocksInv == LabelsInv /\ LocksMatch

\* The handles the process has open are connections that were made, the
\* target's handle is open or none unless it is just being replaced, and it is
\* connected to the destination unless that is just being changed.
ConnectionInv ==
  /\ peer \in Seq(Destinations \cup {NULL})
  /\ destination \in Destinations \cup {NULL}
  /\ fds \subseteq DOMAIN peer
  /\ handle \in {0} \cup DOMAIN peer
  /\ (\A t \in Threads : pc[t] # "reconnect") => handle \in fds \cup {0}
  /\ (\A t \in Threads : pc[t] \notin {"reopen", "reconnect"}) /\ handle \in fds => peer[handle] = destination

-----------------------------------------------------------------------------

\* In an application that never opens the target from two threads: who is about
\* to open it, or to connect it again, is alone in that and finds no connection,
\* and what is open is the target's.  Without a target there is nothing open.
SerialInv ==
  /\ ~alive => \A t \in Threads : pc[t] = "idle"
  /\ serial =>
       /\ ~alive => fds = {}
       /\ fds \subseteq {handle}
       /\ \A t \in Threads : pc[t] \in {"open", "connect"} => handle = 0 /\ fds = {}
       /\ \A t \in Threads : pc[t] = "reconnect" => fds = {}
       /\ \A t, u \in Threads : pc[t] \in {"open", "connect"} /\ pc[u] \in {"open", "connect"} => t = u
       /\ \A t, u \in Threads : pc[t] \in {"open", "connect"} => pc[u] # "reconnect"

\* A thread that sends has a message, of which it has sent a part at most, and
\* has sent nothing before that.
MessageInv ==
  \A t \in Threads :
    /\ pc[t] \in {"prepare", "lock", "recv", "send"} => call[t] = "add"
    /\ call[t] = "add" /\ pc[t] \in {"check", "open", "connect", "prepare", "lock", "recv", "send"} =>
         msg[t] \in Messages
    /\ pc[t] \notin {"recv", "send", "done"} => sent[t] = 0
    /\ pc[t] = "recv" => transport = "tcp"
    /\ transport = "udp" /\ pc[t] = "send" => sent[t] = 0
    /\ pc[t] \in {"lock", "recv", "send"} => sent[t] <= want[t]

TypeInv == TypeOK /\ MessageInv /\ Len(received) = Len(peer)

LEMMA LocksInit ==
  ASSUME NULL \notin Threads, Init
  PROVE  LocksInv
BY DEF Init, LocksInv, LabelsInv, LocksMatch, Labels

LEMMA LocksStep ==
  ASSUME LocksInv, [Next]_vars
  PROVE  LocksInv'
<1> USE DEF LocksInv, LabelsInv, LocksMatch, Labels
<1>1. CASE New \/ (\E d \in Destinations : Open(d)) \/ Close \/ (\E h \in Handles : PeerCloses(h))
  BY <1>1 DEF New, Open, Created, Close, PeerCloses, locks
<1>2. CASE \E t \in Threads : Call(t)
  BY <1>2 DEF Call, AddEntry, OpenTarget, SetDestination, stumpless_set_transport_port, SetMaxSize, Goto, locks
<1>3. ASSUME NEW t \in Threads, CheckOpen(t) \/ LockToOpen(t) \/ ConnectOpen(t) \/ winsock2_open_target(t)
      PROVE  LocksInv'
  BY <1>3 DEF CheckOpen, LockToOpen, ConnectOpen, winsock2_open_target, ConnectToOpen, Opened, Return, Goto, locks
<1>4. ASSUME NEW t \in Threads, Prepare(t) \/ LockToSend(t) \/ CheckFin(t) \/ Done(t)
      PROVE  LocksInv'
  BY <1>4 DEF Prepare, LockToSend, LoopStart, CheckFin, Done, Return, Goto, locks
<1>5. ASSUME NEW t \in Threads, Send(t) \/ SendFails(t)
      PROVE  LocksInv'
  BY <1>5 DEF Send, LoopStart, SendFails, Return, Goto, locks
<1>6. ASSUME NEW t \in Threads, Reopen(t) \/ Reconnect(t) \/ winsock2_reopen_target(t)
      PROVE  LocksInv'
  BY <1>6 DEF Reopen, Reconnect, winsock2_reopen_target, Reconnected, Goto, locks
<1>7. CASE UNCHANGED vars
  BY <1>7 DEF vars, locks
<1>8. QED
  BY <1>1, <1>2, <1>3, <1>4, <1>5, <1>6, <1>7 DEF Next, Progress

(***************************************************************************)
(* No path through a call returns with a mutex, gives back one that        *)
(* another thread has taken or uses the connection without its mutex: the  *)
(* locking of have_sys_socket.c and have_winsock2.c.                       *)
(***************************************************************************)
THEOREM LocksAreReturned ==
  ASSUME NULL \notin Threads
  PROVE  Spec => []LocksMatch
<1>1. Init => LocksInv
  BY LocksInit
<1>2. LocksInv /\ [Next]_vars => LocksInv'
  BY LocksStep
<1>3. LocksInv => LocksMatch
  BY DEF LocksInv
<1>4. QED
  BY <1>1, <1>2, <1>3, PTL DEF Spec

-----------------------------------------------------------------------------

LEMMA ConnectionInit ==
  ASSUME Init
  PROVE  ConnectionInv
BY DEF Init, ConnectionInv

\* What a new connection, or none, is to the target.
LEMMA ConnectedKeeps ==
  ASSUME ConnectionInv, NEW d \in Destinations \cup {NULL},
         NEW left, left \subseteq fds,
         Connected(d, left) \/ NotConnected(left)
  PROVE  /\ peer' \in Seq(Destinations \cup {NULL})
         /\ fds' \subseteq DOMAIN peer'
         /\ handle' \in {0} \cup DOMAIN peer'
         /\ handle' \in fds' \cup {0}
         /\ handle' \in fds' => peer'[handle'] = d
<1>1. CASE Connected(d, left)
  BY <1>1 DEF Connected, ConnectionInv
<1>2. CASE NotConnected(left)
  BY <1>2 DEF NotConnected, ConnectionInv
<1>3. QED
  BY <1>1, <1>2

LEMMA ConnectionStep ==
  ASSUME LocksInv, ConnectionInv, [Next]_vars
  PROVE  ConnectionInv'
<1> USE DEF ConnectionInv
<1>1. CASE New \/ Close
  BY <1>1 DEF New, Created, Close, connection, locks
<1>2. ASSUME NEW d \in Destinations, Open(d)
      PROVE  ConnectionInv'
  BY <1>2, ConnectedKeeps DEF Open, Created, connection, locks
<1>3. CASE \E h \in Handles : PeerCloses(h)
  BY <1>3 DEF PeerCloses, settings, locks
<1>4. CASE \E t \in Threads : Call(t)
  BY <1>4 DEF Call, AddEntry, OpenTarget, SetDestination, stumpless_set_transport_port, SetMaxSize, Goto,
              connection, settings, locks, LocksInv, LabelsInv, LocksMatch
<1>5. ASSUME NEW t \in Threads,
             CheckOpen(t) \/ LockToOpen(t) \/ Prepare(t) \/ LockToSend(t) \/ SendFails(t) \/ Done(t)
      PROVE  ConnectionInv'
  BY <1>5 DEF CheckOpen, LockToOpen, Opened, Prepare, LockToSend, LoopStart, SendFails, Done, Return, Goto,
              connection, settings, locks, LocksInv, LabelsInv, LocksMatch
<1>6. ASSUME NEW t \in Threads, ConnectOpen(t) \/ winsock2_open_target(t)
      PROVE  ConnectionInv'
  BY <1>6, ConnectedKeeps DEF ConnectOpen, winsock2_open_target, ConnectToOpen, Opened, Return, Goto,
              settings, locks, LocksInv, LabelsInv, LocksMatch
<1>7. ASSUME NEW t \in Threads, CheckFin(t) \/ Send(t)
      PROVE  ConnectionInv'
  BY <1>7 DEF CheckFin, Send, LoopStart, Return, Goto, settings, locks, LocksInv, LabelsInv, LocksMatch
<1>8. ASSUME NEW t \in Threads, Reopen(t)
      PROVE  ConnectionInv'
  BY <1>8 DEF Reopen, IsOpen, Goto, settings, locks, LocksInv, LabelsInv, LocksMatch
<1>9. ASSUME NEW t \in Threads, Reconnect(t) \/ winsock2_reopen_target(t)
      PROVE  ConnectionInv'
  BY <1>9, ConnectedKeeps DEF Reconnect, winsock2_reopen_target, winsock_open_socket, Reconnected, Goto,
              settings, locks, LocksInv, LabelsInv, LocksMatch
<1>10. CASE UNCHANGED vars
  BY <1>10 DEF vars, connection, settings, locks
<1>11. QED
  BY <1>1, <1>2, <1>3, <1>4, <1>5, <1>6, <1>7, <1>8, <1>9, <1>10 DEF Next, Progress

LEMMA ConnectionAlways ==
  ASSUME NULL \notin Threads
  PROVE  Spec => [](LocksInv /\ ConnectionInv)
<1>1. Init => LocksInv /\ ConnectionInv
  BY LocksInit, ConnectionInit
<1>2. LocksInv /\ ConnectionInv /\ [Next]_vars => (LocksInv /\ ConnectionInv)'
  BY LocksStep, ConnectionStep
<1>3. QED
  BY <1>1, <1>2, PTL DEF Spec

(***************************************************************************)
(* Nothing is sent to the old destination once stumpless_set_destination   *)
(* has returned, whoever opened, lost or replaced the connection.          *)
(***************************************************************************)
THEOREM DestinationInEffect ==
  ASSUME NULL \notin Threads
  PROVE  Spec => []ConnectedToDestination
<1>1. LocksInv /\ ConnectionInv => ConnectedToDestination
  BY DEF LocksInv, LabelsInv, LocksMatch, ConnectionInv, ConnectedToDestination
<1>2. QED
  BY <1>1, ConnectionAlways, PTL

-----------------------------------------------------------------------------

LEMMA SerialInit ==
  ASSUME Init
  PROVE  SerialInv
BY DEF Init, SerialInv

LEMMA SerialStep ==
  ASSUME LocksInv, ConnectionInv, SerialInv, [Next]_vars
  PROVE  SerialInv'
<1> USE DEF SerialInv, LocksInv, LabelsInv, LocksMatch
<1>1. CASE New
  BY <1>1 DEF New, Created, connection, locks
<1>2. ASSUME NEW d \in Destinations, Open(d)
      PROVE  SerialInv'
  BY <1>2 DEF Open, Created, Connected, connection, locks, ConnectionInv
<1>3. CASE Close
  BY <1>3 DEF Close, Quiet, locks
<1>4. CASE \E h \in Handles : PeerCloses(h)
  BY <1>4 DEF PeerCloses, settings, locks
<1>5. CASE \E t \in Threads : Call(t)
  BY <1>5 DEF Call, AddEntry, OpenTarget, SetDestination, stumpless_set_transport_port, SetMaxSize, Goto,
              connection, settings, locks
<1>6. ASSUME NEW t \in Threads, CheckOpen(t)
      PROVE  SerialInv'
  BY <1>6 DEF CheckOpen, Opened, IsOpen, Return, Goto, connection, settings, locks, ConnectionInv
<1>7. ASSUME NEW t \in Threads, LockToOpen(t) \/ Prepare(t) \/ LockToSend(t) \/ SendFails(t) \/ Done(t)
      PROVE  SerialInv'
  BY <1>7 DEF LockToOpen, Prepare, LockToSend, LoopStart, SendFails, Done, Return, Goto, connection, settings, locks
<1>8. ASSUME NEW t \in Threads, ConnectOpen(t) \/ winsock2_open_target(t)
      PROVE  SerialInv'
  BY <1>8 DEF ConnectOpen, winsock2_open_target, ConnectToOpen, Connected, NotConnected, Opened, Return, Goto,
              settings, locks
<1>9. ASSUME NEW t \in Threads, CheckFin(t) \/ Send(t)
      PROVE  SerialInv'
  BY <1>9 DEF CheckFin, Send, LoopStart, Return, Goto, settings, locks
<1>10. ASSUME NEW t \in Threads, Reopen(t)
      PROVE  SerialInv'
  BY <1>10 DEF Reopen, IsOpen, Goto, settings, locks
<1>11. ASSUME NEW t \in Threads, Reconnect(t) \/ winsock2_reopen_target(t)
      PROVE  SerialInv'
  BY <1>11 DEF Reconnect, winsock2_reopen_target, winsock_open_socket, Reconnected, Connected, NotConnected, Goto,
              settings, locks
<1>12. CASE UNCHANGED vars
  BY <1>12 DEF vars, connection, settings, locks
<1>13. QED
  BY <1>1, <1>2, <1>3, <1>4, <1>5, <1>6, <1>7, <1>8, <1>9, <1>10, <1>11, <1>12 DEF Next, Progress

-----------------------------------------------------------------------------

LEMMA TypeInit ==
  ASSUME BoundsAssumption, Init
  PROVE  TypeInv
<1>1. TypeOK
  <2>1. peer = << >> /\ received = << >> /\ made = {}
    BY DEF Init, made
  <2>2. peer \in Seq(Destinations \cup {NULL}) /\ received \in Seq(Seq(Messages \X (1 .. MsgLen)))
    BY <2>1
  <2>3. pc \in [Threads -> Labels] /\ handle \in {0} /\ fds = {} /\ fin = {}
    BY DEF Init, Labels
  <2>4. call \in [Threads -> {"add", "open"}] /\ msg \in [Threads -> Messages \cup {0}]
    BY DEF Init
  <2>5. want \in [Threads -> 0 .. MsgLen] /\ sent \in [Threads -> 0 .. MsgLen] /\ result \in [Threads -> {-1, 0, 1}]
    BY DEF BoundsAssumption, Init
  <2>6. max_msg_size \in 1 .. MsgLen /\ added \in 0 .. MaxMessages
    BY DEF BoundsAssumption, Init
  <2>7. QED
    BY <2>1, <2>2, <2>3, <2>4, <2>5, <2>6 DEF Init, TypeOK
<1>2. MessageInv
  BY DEF Init, MessageInv
<1>3. Len(received) = Len(peer)
  BY DEF Init
<1>4. QED
  BY <1>1, <1>2, <1>3 DEF TypeInv

\* Connecting keeps the types of what it changes.
LEMMA ConnectedTypes ==
  ASSUME BoundsAssumption, TypeOK, Len(received) = Len(peer), NEW d \in Destinations \cup {NULL},
         NEW left, left \subseteq fds,
         Connected(d, left) \/ NotConnected(left)
  PROVE  /\ peer' \in Seq(Destinations \cup {NULL})
         /\ made' \subseteq Handles
         /\ handle' \in {0} \cup made'
         /\ fds' \subseteq made'
         /\ fin' \subseteq made'
         /\ received' \in Seq(Seq(Messages \X (1 .. MsgLen)))
         /\ Len(received') = Len(peer')
<1>1. CASE Connected(d, left)
  BY <1>1 DEF BoundsAssumption, Connected, TypeOK, made, Handles
<1>2. CASE NotConnected(left)
  BY <1>2 DEF NotConnected, TypeOK, made
<1>3. QED
  BY <1>1, <1>2

LEMMA ArriveTypes ==
  ASSUME BoundsAssumption, TypeInv, NEW t \in Threads, pc[t] = "send", handle # 0, NEW k \in Taken(t), Arrive(t, k)
  PROVE  /\ received' \in Seq(Seq(Messages \X (1 .. MsgLen)))
         /\ Len(received') = Len(received)
         /\ sent[t] + k \in 0 .. want[t]
<1>1. /\ msg[t] \in Messages
      /\ k \in Nat
      /\ sent[t] + k \in 0 .. want[t]
      /\ want[t] \in 0 .. MsgLen
  BY DEF BoundsAssumption, TypeInv, TypeOK, MessageInv, Taken
<1>2. [i \in 1 .. k |-> << msg[t], i >>] \in Seq(Messages \X (1 .. MsgLen))
  BY <1>1 DEF BoundsAssumption, TypeInv, TypeOK
<1> DEFINE S == Seq(Messages \X (1 .. MsgLen))
<1>3. /\ received \in Seq(S)
      /\ received' = [received EXCEPT ![handle] = @ \o [i \in 1 .. k |-> << msg[t], i >>]]
  BY DEF Arrive, TypeInv, TypeOK
<1>4. handle \in 1 .. Len(received)
  BY DEF TypeInv, TypeOK, made
<1>5. received[handle] \o [i \in 1 .. k |-> << msg[t], i >>] \in S
  <2>1. received[handle] \in S
    BY <1>3, <1>4
  <2>2. QED
    BY <1>2, <2>1
<1> HIDE DEF S
<1>6. received' \in Seq(S) /\ Len(received') = Len(received)
  BY <1>3, <1>4, <1>5, ExceptSeq
<1>7. QED
  BY <1>1, <1>6 DEF S

LEMMA TypeStep ==
  ASSUME BoundsAssumption, TypeInv, [Next]_vars
  PROVE  TypeInv'
<1> USE DEF BoundsAssumption, TypeInv, TypeOK, MessageInv, Labels
<1>1. CASE New
  BY <1>1 DEF New, Created, connection, locks, locals, made
<1>2. ASSUME NEW d \in Destinations, Open(d)
      PROVE  TypeInv'
  <2>1. /\ peer' \in Seq(Destinations \cup {NULL})
        /\ made' \subseteq Handles
        /\ handle' \in {0} \cup made'
        /\ fds' \subseteq made'
        /\ fin' \subseteq made'
        /\ received' \in Seq(Seq(Messages \X (1 .. MsgLen)))
        /\ Len(received') = Len(peer')
    <3>1. CASE Connected(d, fds)
      BY <3>1, ConnectedTypes
    <3>2. CASE handle' = 0 /\ UNCHANGED connection
      BY <3>2 DEF connection, made
    <3>3. QED
      BY <1>2, <3>1, <3>2 DEF Open
  <2>2. odelay' \in BOOLEAN /\ Created(d)
    BY <1>2 DEF Open
  <2>3. QED
    BY <2>1, <2>2 DEF Created, locks, locals
<1>3. CASE Close
  BY <1>3 DEF Close, Quiet, locks, locals, made
<1>4. CASE \E h \in Handles : PeerCloses(h)
  BY <1>4 DEF PeerCloses, settings, locks, locals, made
<1>5. ASSUME NEW t \in Threads, AddEntry(t) \/ OpenTarget(t)
      PROVE  TypeInv'
  <2>1. CASE AddEntry(t)
    <3>1. added + 1 \in Messages
      BY <2>1 DEF AddEntry, Messages
    <3>2. QED
      BY <2>1, <3>1 DEF AddEntry, Goto, connection, settings, locks, made
  <2>2. CASE OpenTarget(t)
    BY <2>2 DEF OpenTarget, Goto, connection, settings, locks, made
  <2>3. QED
    BY <1>5, <2>1, <2>2
<1>6. ASSUME NEW t \in Threads, NEW d \in Destinations, SetDestination(t, d)
      PROVE  TypeInv'
  BY <1>6 DEF SetDestination, Goto, connection, locals, made
<1>7. ASSUME NEW t \in Threads, NEW n \in 1 .. MsgLen, SetMaxSize(t, n)
      PROVE  TypeInv'
  BY <1>7 DEF SetMaxSize, connection, locks, locals, made
<1>8. ASSUME NEW t \in Threads, CheckOpen(t) \/ LockToOpen(t)
      PROVE  TypeInv'
  BY <1>8 DEF CheckOpen, LockToOpen, Opened, Return, Goto, connection, settings, locks, locals, made
<1>9. ASSUME NEW t \in Threads, Prepare(t) \/ LockToSend(t)
      PROVE  TypeInv'
  <2>1. CASE Prepare(t)
    <3>1. PICK n \in 0 .. MsgLen : want' = [want EXCEPT ![t] = n]
      <4>1. max_msg_size \in 0 .. MsgLen /\ MsgLen \in 0 .. MsgLen
        OBVIOUS
      <4>2. (IF MsgLen > max_msg_size THEN max_msg_size ELSE MsgLen) \in 0 .. MsgLen
        BY <4>1
      <4>3. QED
        BY <2>1, <4>1, <4>2 DEF Prepare
    <3>2. TypeOK'
      BY <2>1, <3>1 DEF Prepare, Return, Goto, connection, settings, locks, made
    <3>3. MessageInv'
      BY <2>1, <3>1 DEF Prepare, Return, Goto, connection, settings, locks
    <3>4. QED
      BY <2>1, <3>2, <3>3 DEF Prepare, connection
  <2>2. CASE LockToSend(t)
    BY <2>2 DEF LockToSend, LoopStart, Goto, connection, settings, locals, made
  <2>3. QED
    BY <1>9, <2>1, <2>2
<1>10. ASSUME NEW t \in Threads, SendFails(t) \/ Done(t) \/ CheckFin(t)
      PROVE  TypeInv'
  <2>1. CASE SendFails(t)
    BY <2>1 DEF SendFails, Return, Goto, connection, settings, made
  <2>2. CASE Done(t)
    BY <2>2 DEF Done, Goto, connection, settings, locks, made
  <2>3. CASE CheckFin(t)
    BY <2>3 DEF CheckFin, Return, Goto, settings, made
  <2>4. QED
    BY <1>10, <2>1, <2>2, <2>3
<1>11. ASSUME NEW t \in Threads, ConnectToOpen(t)
      PROVE  TypeInv'
  BY <1>11, ConnectedTypes DEF ConnectToOpen, Opened, Return, Goto, settings, locks, locals
<1>12. ASSUME NEW t \in Threads, Send(t)
      PROVE  TypeInv'
  <2>1. PICK k \in Taken(t) :
          /\ Arrive(t, k)
          /\ sent' = [sent EXCEPT ![t] = @ + k]
          /\ IF sent[t] + k < want[t]
             THEN Goto(t, LoopStart) /\ UNCHANGED << net_lock, result >>
             ELSE Return(t, 1) /\ net_lock' = NULL
    BY <1>12 DEF Send
  <2>2. /\ received' \in Seq(Seq(Messages \X (1 .. MsgLen)))
        /\ Len(received') = Len(received)
        /\ sent[t] + k \in 0 .. want[t]
    BY <1>12, <2>1, ArriveTypes DEF Send
  <2>3. transport = "udp" => sent[t] + k = want[t]
    BY <1>12 DEF Send, Taken
  <2>4. TypeOK'
    <3>1. sent' \in [Threads -> 0 .. MsgLen]
      BY <2>1, <2>2
    <3>2. pc' \in [Threads -> Labels] /\ result' \in [Threads -> {-1, 0, 1}] /\ net_lock' \in Threads \cup {NULL}
      BY <2>1 DEF LoopStart, Return, Goto
    <3>3. QED
      BY <1>12, <2>2, <3>1, <3>2 DEF Send, settings, made
  <2>5. MessageInv'
    BY <1>12, <2>1, <2>2, <2>3 DEF Send, LoopStart, Return, Goto, settings
  <2>6. QED
    BY <1>12, <2>2, <2>4, <2>5 DEF Send
<1>13. ASSUME NEW t \in Threads, Reopen(t)
      PROVE  TypeInv'
  BY <1>13 DEF Reopen, Goto, settings, locks, locals, made
<1>14. ASSUME NEW t \in Threads, Reconnected(t), Connected(destination, fds) \/ NotConnected(fds)
      PROVE  TypeInv'
  BY <1>14, ConnectedTypes DEF Reconnected, Goto, settings, locks, locals
<1>15. CASE UNCHANGED vars
  BY <1>15 DEF vars, connection, settings, locks, locals, made
<1>16. QED
  BY <1>1, <1>2, <1>3, <1>4, <1>5, <1>6, <1>7, <1>8, <1>9, <1>10, <1>11, <1>12, <1>13, <1>14, <1>15
     DEF Next, Call, Progress, stumpless_set_transport_port, ConnectOpen, winsock2_open_target,
         Reconnect, winsock2_reopen_target, winsock_open_socket

(***************************************************************************)
(* However many threads use the target, its handle is open or none, every  *)
(* state has its type, and an application that does not open the target    *)
(* from two threads at once leaves no connection open that the target does *)
(* not know of.                                                            *)
(***************************************************************************)
THEOREM ConnectionIsOwned ==
  ASSUME BoundsAssumption, NULL \notin Threads
  PROVE  Spec => []ConnectionOwned
<1> DEFINE Inv == LocksInv /\ ConnectionInv /\ SerialInv /\ TypeInv
<1>1. Init => Inv
  BY LocksInit, ConnectionInit, SerialInit, TypeInit
<1>2. Inv /\ [Next]_vars => Inv'
  BY LocksStep, ConnectionStep, SerialStep, TypeStep
<1>3. Inv => ConnectionOwned
  BY DEF LocksInv, LabelsInv, LocksMatch, ConnectionInv, SerialInv, TypeInv, ConnectionOwned, HandleLive,
         NoLeakedConnection
<1>4. QED
  BY <1>1, <1>2, <1>3, PTL DEF Spec

-----------------------------------------------------------------------------
(***************************************************************************)
(* What arrives.  A message has a number of its own and is sent by one     *)
(* thread, under the mutex of the connection: until that thread returns,   *)
(* its units are the last ones of the connection, and of no other.         *)
(***************************************************************************)

\* The units a peer has received are in order and not mixed up.
Whole(r) ==
  /\ \A i, j, k \in 1 .. Len(r) : i < j /\ j < k /\ r[i][1] = r[k][1] => r[i][1] = r[j][1]
  /\ \A i \in 1 .. Len(r) : r[i][2] > 1 => i > 1 /\ r[i - 1] = << r[i][1], r[i][2] - 1 >>

\* The last n units are those of message m.
EndsWith(r, m, n) == n \in 0 .. Len(r) /\ \A i \in 1 .. Len(r) : r[i][1] = m <=> i > Len(r) - n

Absent(m) == \A h \in 1 .. Len(received) : \A i \in 1 .. Len(received[h]) : received[h][i][1] # m

\* Message m is w units long where it arrived.
Arrived(m, w) ==
  \E h \in 1 .. Len(received) : \E p \in Nat :
    /\ p + w <= Len(received[h])
    /\ \A i \in 1 .. Len(received[h]) : received[h][i][1] = m <=> i \in p + 1 .. p + w

Sending(t) ==
  /\ \A h \in 1 .. Len(received) : h # handle =>
       \A i \in 1 .. Len(received[h]) : received[h][i][1] # msg[t]
  /\ handle \in 1 .. Len(received) => EndsWith(received[handle], msg[t], sent[t])

Delivering(t) ==
  /\ pc[t] \in {"check", "open", "connect", "prepare", "lock"} => Absent(msg[t])
  /\ pc[t] \in {"recv", "send"} => Sending(t)
  /\ pc[t] = "done" /\ call[t] = "add" /\ result[t] = 1 => Arrived(msg[t], want[t])

\* Messages are numbered in the order of their calls.
Numbered ==
  /\ \A h \in 1 .. Len(received) : \A i \in 1 .. Len(received[h]) : received[h][i][1] <= added
  /\ \A t \in Threads : msg[t] <= added
  /\ \A t \in Threads : pc[t] \in {"idle", "reopen", "reconnect"} => msg[t] = 0
  /\ \A t, u \in Threads : msg[t] = msg[u] /\ msg[t] # 0 => t = u

ArriveInv ==
  /\ Numbered
  /\ \A t \in Threads : Delivering(t)
  /\ \A h \in 1 .. Len(received) : Whole(received[h])

LEMMA Concatenated ==
  ASSUME NEW U, NEW r \in Seq(U), NEW s \in Seq(U)
  PROVE  /\ Len(r \o s) = Len(r) + Len(s) /\ Len(r) \in Nat /\ Len(s) \in Nat
         /\ \A i \in 1 .. Len(r) : (r \o s)[i] = r[i]
         /\ \A i \in Len(r) + 1 .. Len(r) + Len(s) : (r \o s)[i] = s[i - Len(r)] /\ i - Len(r) \in 1 .. Len(s)
BY ConcatProperties

\* Units 1 to k of message m, after what has been received of it so far.
LEMMA AppendedWhole ==
  ASSUME NEW r, NEW q, NEW m \in Nat, NEW n \in Nat, NEW k \in Nat,
         Whole(r), EndsWith(r, m, n), Len(r) \in Nat, Len(q) = Len(r) + k,
         \A i \in 1 .. Len(r) : q[i] = r[i],
         \A i \in Len(r) + 1 .. Len(r) + k : q[i] = << m, i - Len(r) >>
  PROVE  Whole(q) /\ EndsWith(q, m, n + k)
<1>2. /\ Len(q) = Len(r) + k /\ Len(r) \in Nat
      /\ \A i \in 1 .. Len(r) : q[i] = r[i]
      /\ \A i \in Len(r) + 1 .. Len(r) + k : q[i] = << m, i - Len(r) >>
  OBVIOUS
<1>3. \A i \in 1 .. Len(q) : i \in 1 .. Len(r) \/ i \in Len(r) + 1 .. Len(r) + k
  BY <1>2
<1>5. EndsWith(q, m, n + k)
  <2>1. n + k \in 0 .. Len(q)
    BY <1>2 DEF EndsWith
  <2>2. ASSUME NEW i \in 1 .. Len(r) PROVE q[i][1] = m <=> i > Len(q) - (n + k)
    <3>1. r[i][1] = m <=> i > Len(r) - n
      BY DEF EndsWith
    <3>2. Len(q) - (n + k) = Len(r) - n
      BY <1>2
    <3> QED
      BY <1>2, <3>1, <3>2
  <2>3. ASSUME NEW i \in Len(r) + 1 .. Len(r) + k PROVE q[i][1] = m /\ i > Len(q) - (n + k)
    BY <1>2
  <2> QED
    <3>1. \A i \in 1 .. Len(q) : q[i][1] = m <=> i > Len(q) - (n + k)
      BY <1>3, <2>2, <2>3
    <3> QED
      BY <2>1, <3>1 DEF EndsWith
<1>6. ASSUME NEW i \in 1 .. Len(q), NEW j \in 1 .. Len(q), NEW l \in 1 .. Len(q), i < j, j < l, q[i][1] = q[l][1]
      PROVE  q[i][1] = q[j][1]
  <2>1. CASE l \in 1 .. Len(r)
    <3>1. i \in 1 .. Len(r) /\ j \in 1 .. Len(r)
      <4>1. i < j /\ j < l
        BY <1>6
      <4>2. Len(q) \in Nat /\ Len(r) \in Nat
        BY <1>2
      <4>3. i \in Nat /\ j \in Nat /\ l \in Nat /\ i >= 1 /\ j >= 1 /\ l <= Len(r)
        BY <2>1, <4>2
      <4> QED
        BY <4>1, <4>2, <4>3
    <3>2. q[i] = r[i] /\ q[j] = r[j] /\ q[l] = r[l]
      BY <1>2, <2>1, <3>1
    <3> QED
      BY <1>6, <2>1, <3>1, <3>2 DEF Whole
  <2>2. CASE l \in Len(r) + 1 .. Len(r) + k
    <3>1. q[l][1] = m
      BY <1>2, <2>2
    <3>2. i > Len(q) - (n + k)
      BY <1>5, <1>6, <3>1 DEF EndsWith
    <3>3. Len(q) - (n + k) \in Int
      BY <1>2
    <3>4. j > Len(q) - (n + k)
      BY <1>6, <3>2, <3>3
    <3> QED
      BY <1>5, <1>6, <3>1, <3>4 DEF EndsWith
  <2> QED
    BY <1>3, <2>1, <2>2
<1>7. ASSUME NEW i \in 1 .. Len(q), q[i][2] > 1
      PROVE  i > 1 /\ q[i - 1] = << q[i][1], q[i][2] - 1 >>
  <2>1. CASE i \in 1 .. Len(r)
    <3>1. q[i] = r[i]
      BY <1>2, <2>1
    <3>2. i > 1 /\ r[i - 1] = << r[i][1], r[i][2] - 1 >>
      BY <1>7, <2>1, <3>1 DEF Whole
    <3>3. i - 1 \in 1 .. Len(r)
      BY <1>2, <2>1, <3>2
    <3> QED
      BY <1>2, <3>1, <3>2, <3>3
  <2>2. CASE i \in Len(r) + 1 .. Len(r) + k
    <3>1. q[i][1] = m /\ q[i][2] = i - Len(r)
      BY <1>2, <2>2
    <3>2. i - 1 \in Len(r) + 1 .. Len(r) + k /\ (i - 1) - Len(r) = (i - Len(r)) - 1 /\ i > 1
      BY <1>2, <1>7, <2>2, <3>1
    <3> QED
      BY <1>2, <3>1, <3>2
  <2> QED
    BY <1>3, <2>1, <2>2
<1>8. Whole(q)
  BY <1>6, <1>7 DEF Whole
<1> QED
  BY <1>5, <1>8

LEMMA ArriveInit ==
  ASSUME BoundsAssumption, Init
  PROVE  ArriveInv
<1>1. Len(received) = 0 /\ 1 .. 0 = {}
  BY DEF Init
<1>2. Numbered
  BY <1>1 DEF Init, Numbered
<1>3. \A t \in Threads : Delivering(t)
  BY DEF Init, Delivering
<1> QED
  BY <1>1, <1>2, <1>3 DEF ArriveInv

LEMMA UnitTypes ==
  ASSUME BoundsAssumption, TypeInv, NEW h \in 1 .. Len(received), NEW i \in 1 .. Len(received[h])
  PROVE  received[h][i][1] \in Messages /\ received[h][i][1] \in Nat /\ received[h][i][1] > 0
<1> DEFINE M == Messages
           L == 1 .. MsgLen
           S == Seq(M \X L)
<1>1. received \in Seq(S)
  BY DEF TypeInv, TypeOK
<1> HIDE DEF S
<1>2. received[h] \in S
  BY <1>1
<1> USE DEF S
<1> HIDE DEF M, L
<1>3. received[h][i] \in M \X L
  BY <1>2
<1>4. received[h][i][1] \in M
  BY <1>3
<1>5. M \subseteq Nat \ {0}
  BY DEF M, Messages, BoundsAssumption
<1>6. \A x \in M : x \in Nat /\ x > 0
  BY <1>5
<1>7. received[h][i][1] \in Nat /\ received[h][i][1] > 0
  BY <1>4, <1>6
<1> QED
  BY <1>4, <1>7 DEF M

\* What the peers have received, and one more that has received nothing.
Grown == received' = received \/ received' = Append(received, << >>)

LEMMA GrownKeeps ==
  ASSUME TypeInv, Grown
  PROVE  /\ Len(received) \in Nat /\ Len(received') \in Nat
         /\ Len(received) <= Len(received')
         /\ \A h \in 1 .. Len(received) : h \in 1 .. Len(received') /\ received'[h] = received[h]
         /\ \A h \in 1 .. Len(received') : h \in 1 .. Len(received) \/ Len(received'[h]) = 0
<1>1. received \in Seq(Seq(Messages \X (1 .. MsgLen)))
  BY DEF TypeInv, TypeOK
<1>2. CASE received' = received
  BY <1>1, <1>2
<1>3. CASE received' = Append(received, << >>)
  <2>1. Len(received) \in Nat /\ Len(received') = Len(received) + 1
    BY <1>1, <1>3
  <2>2. \A h \in 1 .. Len(received) : received'[h] = received[h]
    BY <1>1, <1>3
  <2>3. received'[Len(received) + 1] = << >>
    BY <1>1, <1>3
  <2> QED
    BY <2>1, <2>2, <2>3
<1> QED
  BY <1>2, <1>3 DEF Grown

LEMMA GrownArrived ==
  ASSUME TypeInv, Grown, NEW m, NEW w
  PROVE  /\ Absent(m) => Absent(m)'
         /\ Arrived(m, w) => Arrived(m, w)'
<1>1. /\ \A h \in 1 .. Len(received) : h \in 1 .. Len(received') /\ received'[h] = received[h]
      /\ \A h \in 1 .. Len(received') : h \in 1 .. Len(received) \/ Len(received'[h]) = 0
  BY GrownKeeps
<1>2. Absent(m) => Absent(m)'
  <2> SUFFICES ASSUME Absent(m), NEW h \in 1 .. Len(received'), NEW i \in 1 .. Len(received'[h])
               PROVE  received'[h][i][1] # m
    BY DEF Absent
  <2>1. h \in 1 .. Len(received)
    BY <1>1
  <2> QED
    BY <1>1, <2>1 DEF Absent
<1>3. Arrived(m, w) => Arrived(m, w)'
  BY <1>1 DEF Arrived
<1> QED
  BY <1>2, <1>3

\* A thread that does nothing, while nothing arrives.
LEMMA OthersDeliver ==
  ASSUME TypeInv, Grown, NEW u \in Threads, Delivering(u),
         pc'[u] = pc[u], call'[u] = call[u], msg'[u] = msg[u], want'[u] = want[u],
         sent'[u] = sent[u], result'[u] = result[u],
         pc[u] \in {"recv", "send"} => handle' = handle /\ received' = received
  PROVE  Delivering(u)'
<1>1. PICK m : m = msg[u]
  OBVIOUS
<1>2. PICK w : w = want[u]
  OBVIOUS
<1>3. /\ Absent(m) => Absent(m)'
      /\ Arrived(m, w) => Arrived(m, w)'
  BY GrownArrived
<1>4. pc'[u] \in {"check", "open", "connect", "prepare", "lock"} => Absent(msg[u])'
  <2>1. Absent(msg[u])' <=> Absent(m)'
    BY <1>1 DEF Absent
  <2>2. Absent(msg[u]) <=> Absent(m)
    BY <1>1 DEF Absent
  <2> QED
    BY <1>3, <2>1, <2>2 DEF Delivering
<1>5. pc'[u] = "done" /\ call'[u] = "add" /\ result'[u] = 1 => Arrived(msg[u], want[u])'
  <2>1. Arrived(msg[u], want[u])' <=> Arrived(m, w)'
    BY <1>1, <1>2 DEF Arrived
  <2>2. Arrived(msg[u], want[u]) <=> Arrived(m, w)
    BY <1>1, <1>2 DEF Arrived
  <2> QED
    BY <1>3, <2>1, <2>2 DEF Delivering
<1>6. pc'[u] \in {"recv", "send"} => Sending(u)'
  BY DEF Delivering, Sending, EndsWith
<1> QED
  BY <1>4, <1>5, <1>6 DEF Delivering

\* A step in which nothing arrives, by thread t.
LEMMA StepDelivers ==
  ASSUME TypeInv, ArriveInv, Grown, NEW t \in Threads,
         \A u \in Threads \ {t} :
           /\ pc'[u] = pc[u] /\ call'[u] = call[u] /\ msg'[u] = msg[u] /\ want'[u] = want[u]
           /\ sent'[u] = sent[u] /\ result'[u] = result[u]
           /\ pc[u] \in {"recv", "send"} => handle' = handle /\ received' = received,
         Delivering(t)', Numbered'
  PROVE  ArriveInv'
<1>1. \A u \in Threads : Delivering(u)'
  BY OthersDeliver DEF ArriveInv
<1>2. \A h \in 1 .. Len(received') : Whole(received'[h])
  <2> SUFFICES ASSUME NEW h \in 1 .. Len(received')
               PROVE  Whole(received'[h])
    OBVIOUS
  <2>1. CASE h \in 1 .. Len(received)
    BY <2>1, GrownKeeps DEF ArriveInv
  <2>2. CASE Len(received'[h]) = 0
    BY <2>2 DEF Whole
  <2> QED
    BY <2>1, <2>2, GrownKeeps
<1> QED
  BY <1>1, <1>2 DEF ArriveInv, Whole

LEMMA StepNumbered ==
  ASSUME BoundsAssumption, TypeInv, Numbered, Grown, added' \in {added, added + 1}, NEW t \in Threads,
         \A u \in Threads \ {t} : msg'[u] = msg[u] /\ pc'[u] = pc[u],
         \/ msg'[t] = 0
         \/ /\ msg'[t] = msg[t]
            /\ pc'[t] \in {"idle", "reopen", "reconnect"} => pc[t] \in {"idle", "reopen", "reconnect"}
         \/ msg'[t] = added + 1 /\ added' = added + 1 /\ pc'[t] \in {"check", "prepare"}
  PROVE  Numbered'
<1>1. added \in Nat /\ \A u \in Threads : msg[u] \in Nat /\ msg[u] <= added
  BY DEF BoundsAssumption, TypeInv, TypeOK, Messages, Numbered
<1>2. \A u \in Threads : msg'[u] <= added'
  BY <1>1
<1>3. \A u \in Threads : pc'[u] \in {"idle", "reopen", "reconnect"} => msg'[u] = 0
  BY DEF Numbered
<1>4. \A u, v \in Threads : msg'[u] = msg'[v] /\ msg'[u] # 0 => u = v
  BY <1>1 DEF Numbered
<1>5. ASSUME NEW h \in 1 .. Len(received'), NEW i \in 1 .. Len(received'[h])
      PROVE  received'[h][i][1] <= added'
  <2>1. h \in 1 .. Len(received) /\ received'[h] = received[h]
    BY GrownKeeps
  <2>2. received[h][i][1] <= added
    BY <2>1 DEF Numbered
  <2>3. received[h][i][1] \in Nat
    BY <2>1, UnitTypes
  <2> QED
    BY <1>1, <2>1, <2>2, <2>3
<1> QED
  BY <1>2, <1>3, <1>4, <1>5 DEF Numbered

\* Between two calls of send, and when the last one is done.
LEMMA SendArrives ==
  ASSUME BoundsAssumption, LocksInv, TypeInv, ArriveInv, NEW t \in Threads, Send(t)
  PROVE  ArriveInv'
<1>1. PICK k \in Taken(t) :
        /\ Arrive(t, k)
        /\ sent' = [sent EXCEPT ![t] = @ + k]
        /\ IF sent[t] + k < want[t]
           THEN Goto(t, LoopStart) /\ UNCHANGED << net_lock, result >>
           ELSE Return(t, 1) /\ net_lock' = NULL
  BY DEF Send
<1>2. /\ Len(received') = Len(received)
      /\ sent[t] + k \in 0 .. want[t]
  BY <1>1, ArriveTypes DEF Send
<1>3. /\ pc[t] = "send" /\ handle' = handle /\ msg' = msg /\ want' = want /\ call' = call /\ added' = added
  BY DEF Send
<1>4. /\ sent[t] \in Nat /\ want[t] \in Nat /\ k \in Nat /\ msg[t] \in Nat /\ msg[t] # 0
      /\ msg[t] <= added /\ added \in Nat
  BY <1>3 DEF BoundsAssumption, TypeInv, TypeOK, MessageInv, Messages, Taken, ArriveInv, Numbered
<1>5. handle \in 1 .. Len(received) /\ Len(received) \in Nat
  BY DEF Send, TypeInv, TypeOK, made
<1>6. PICK m \in Nat : m = msg[t]
  BY <1>4
<1>7. PICK n \in Nat : n = sent[t]
  BY <1>4
<1>8. PICK r : r = received[handle]
  OBVIOUS
<1>s. PICK s : s = [i \in 1 .. k |-> << m, i >>]
  OBVIOUS
<1>9. PICK q : q = r \o s
  OBVIOUS
<1>10. /\ received'[handle] = q
       /\ \A h \in 1 .. Len(received) : h # handle => received'[h] = received[h]
  <2>1. received' = [received EXCEPT ![handle] = q]
    BY <1>1, <1>6, <1>8, <1>s, <1>9 DEF Arrive
  <2>2. received \in Seq(Seq(Messages \X (1 .. MsgLen)))
    BY DEF TypeInv, TypeOK
  <2> QED
    BY <1>5, <2>1, <2>2
<1>11. r \in Seq(Messages \X (1 .. MsgLen))
  <2> DEFINE S == Seq(Messages \X (1 .. MsgLen))
  <2>1. received \in Seq(S)
    BY DEF TypeInv, TypeOK
  <2> HIDE DEF S
  <2>2. r \in S
    BY <1>5, <1>8, <2>1
  <2> QED
    BY <2>2 DEF S
<1>12. Whole(r) /\ EndsWith(r, m, n)
  BY <1>3, <1>5, <1>6, <1>7, <1>8 DEF ArriveInv, Delivering, Sending
<1>13. /\ Len(q) = Len(r) + k /\ Len(r) \in Nat
       /\ \A i \in 1 .. Len(r) : q[i] = r[i]
       /\ \A i \in Len(r) + 1 .. Len(r) + k : q[i] = << m, i - Len(r) >>
       /\ Whole(q)
       /\ EndsWith(q, m, n + k)
  <2> DEFINE U == Messages \X (1 .. MsgLen)
  <2>1. r \in Seq(U) /\ k \in Nat
    BY <1>4, <1>11
  <2>2. m \in Messages /\ \A i \in 1 .. k : i \in 1 .. MsgLen
    BY <1>2, <1>3, <1>4, <1>6 DEF TypeInv, TypeOK, BoundsAssumption, MessageInv
  <2>3. s \in Seq(U)
    BY <1>4, <1>s, <2>2
  <2>4. Len(s) = k /\ \A i \in 1 .. k : s[i] = << m, i >>
    BY <1>4, <1>s
  <2> HIDE DEF U
  <2>5. /\ Len(q) = Len(r) + Len(s) /\ Len(r) \in Nat
        /\ \A i \in 1 .. Len(r) : q[i] = r[i]
        /\ \A i \in Len(r) + 1 .. Len(r) + Len(s) : q[i] = s[i - Len(r)] /\ i - Len(r) \in 1 .. Len(s)
    BY <1>9, <2>1, <2>3, Concatenated
  <2>6. \A i \in Len(r) + 1 .. Len(r) + k : q[i] = << m, i - Len(r) >>
    BY <2>4, <2>5
  <2>7. /\ Len(q) = Len(r) + k /\ Len(r) \in Nat
        /\ \A i \in 1 .. Len(r) : q[i] = r[i]
    BY <2>4, <2>5
  <2> QED
    BY <1>12, <2>1, <2>6, <2>7, AppendedWhole
<1>14. \A i \in 1 .. Len(q) : i \in 1 .. Len(r) \/ i \in Len(r) + 1 .. Len(r) + k
  BY <1>4, <1>13
<1>15. \A h \in 1 .. Len(received') : Whole(received'[h])
  BY <1>2, <1>10, <1>13 DEF ArriveInv
<1>16. Numbered'
  <2>1. ASSUME NEW h \in 1 .. Len(received), NEW i \in 1 .. Len(received'[h])
        PROVE  received'[h][i][1] <= added
    <3>1. CASE h # handle
      BY <1>10, <3>1 DEF ArriveInv, Numbered
    <3>2. CASE h = handle /\ i \in 1 .. Len(r)
      BY <1>5, <1>8, <1>10, <1>13, <3>2 DEF ArriveInv, Numbered
    <3>3. CASE h = handle /\ i \in Len(r) + 1 .. Len(r) + k
      <4>1. received'[h][i] = << m, i - Len(r) >>
        BY <1>10, <1>13, <3>3
      <4> QED
        BY <1>4, <1>6, <4>1
    <3> QED
      BY <1>10, <1>14, <3>1, <3>2, <3>3
  <2>2. \A u \in Threads : pc'[u] \in {"idle", "reopen", "reconnect"} => pc[u] \in {"idle", "reopen", "reconnect"}
    <3>1. pc \in [Threads -> Labels]
      BY DEF TypeInv, TypeOK
    <3>2. pc' = [pc EXCEPT ![t] = LoopStart] \/ pc' = [pc EXCEPT ![t] = "done"]
      BY <1>1 DEF Return, Goto
    <3>3. LoopStart \in {"recv", "send"}
      BY DEF LoopStart
    <3> QED
      BY <3>1, <3>2, <3>3
  <2> QED
    BY <1>2, <1>3, <2>1, <2>2 DEF ArriveInv, Numbered
<1>17. Delivering(t)'
  <2>1. CASE sent[t] + k < want[t]
    <3>1. pc'[t] \in {"recv", "send"} /\ sent'[t] = n + k /\ msg'[t] = m
      BY <1>1, <1>3, <1>6, <1>7, <2>1 DEF Goto, LoopStart, TypeInv, TypeOK
    <3>2. Sending(t)'
      <4>1. \A h \in 1 .. Len(received') : h # handle' =>
              \A i \in 1 .. Len(received'[h]) : received'[h][i][1] # msg'[t]
        BY <1>2, <1>3, <1>10 DEF ArriveInv, Delivering, Sending
      <4>2. EndsWith(received'[handle'], msg'[t], sent'[t])
        BY <1>3, <1>10, <1>13, <3>1
      <4> QED
        BY <4>1, <4>2 DEF Sending, EndsWith
    <3> QED
      BY <3>1, <3>2 DEF Delivering
  <2>2. CASE ~(sent[t] + k < want[t])
    <3>1. pc'[t] = "done"
      BY <1>1, <2>2 DEF Return, Goto, TypeInv, TypeOK
    <3>2. n + k = want[t]
      BY <1>2, <1>4, <1>7, <2>2
    <3>3. PICK w : w = want[t]
      OBVIOUS
    <3>4. Len(q) - w \in Nat /\ (Len(q) - w) + w = Len(q)
      <4>1. n + k \in 0 .. Len(q) /\ Len(q) \in Nat
        BY <1>4, <1>13 DEF EndsWith
      <4>2. w \in Nat /\ w <= Len(q)
        BY <1>4, <3>2, <3>3, <4>1
      <4> QED
        BY <4>1, <4>2
    <3>5. \A i \in 1 .. Len(q) : q[i][1] = m <=> i \in (Len(q) - w) + 1 .. (Len(q) - w) + w
      <4>1. \A i \in 1 .. Len(q) : q[i][1] = m <=> i > Len(q) - w
        BY <1>13, <3>2, <3>3 DEF EndsWith
      <4>2. Len(q) \in Nat /\ w \in Nat
        BY <1>4, <1>13, <3>3
      <4>3. \A i \in 1 .. Len(q) : i > Len(q) - w <=> i \in (Len(q) - w) + 1 .. (Len(q) - w) + w
        BY <4>2
      <4> QED
        BY <4>1, <4>3
    <3>6. Len(q) <= Len(q)
      BY <1>4, <1>13
    <3>7. \E h \in 1 .. Len(received') : \E p \in Nat :
            /\ p + w <= Len(received'[h])
            /\ \A i \in 1 .. Len(received'[h]) : received'[h][i][1] = m <=> i \in p + 1 .. p + w
      BY <1>2, <1>5, <1>10, <3>4, <3>5, <3>6
    <3>8. Arrived(msg[t], want[t])'
      BY <1>3, <1>6, <3>3, <3>7 DEF Arrived
    <3> QED
      BY <3>1, <3>8 DEF Delivering
  <2> QED
    BY <2>1, <2>2
<1>18. ASSUME NEW u \in Threads, u # t
       PROVE  Delivering(u)'
  <2>1. pc'[u] = pc[u] /\ msg'[u] = msg[u] /\ want'[u] = want[u] /\ call'[u] = call[u] /\ result'[u] = result[u]
    BY <1>1, <1>3, <1>18 DEF Return, Goto, TypeInv, TypeOK
  <2>2. pc[u] \notin {"recv", "send"}
    BY <1>3, <1>18 DEF LocksInv, LocksMatch
  <2>3. PICK x : x = msg[u]
    OBVIOUS
  <2>4. PICK w : w = want[u]
    OBVIOUS
  <2>5. x # m
    BY <1>4, <1>6, <1>18, <2>3 DEF ArriveInv, Numbered
  <2>6. ASSUME Absent(x) PROVE Absent(x)'
    <3> SUFFICES ASSUME NEW h \in 1 .. Len(received), NEW i \in 1 .. Len(received'[h])
                 PROVE  received'[h][i][1] # x
      BY <1>2 DEF Absent
    <3>1. CASE h # handle
      BY <1>10, <2>6, <3>1 DEF Absent
    <3>2. CASE h = handle /\ i \in 1 .. Len(r)
      BY <1>5, <1>8, <1>10, <1>13, <2>6, <3>2 DEF Absent
    <3>3. CASE h = handle /\ i \in Len(r) + 1 .. Len(r) + k
      BY <1>10, <1>13, <2>5, <3>3
    <3> QED
      BY <1>10, <1>14, <3>1, <3>2, <3>3
  <2>7. ASSUME Arrived(x, w), w \in Nat PROVE Arrived(x, w)'
    <3>1. PICK h \in 1 .. Len(received) : \E p \in Nat :
            /\ p + w <= Len(received[h])
            /\ \A i \in 1 .. Len(received[h]) : received[h][i][1] = x <=> i \in p + 1 .. p + w
      BY <2>7 DEF Arrived
    <3>2. PICK p \in Nat :
            /\ p + w <= Len(received[h])
            /\ \A i \in 1 .. Len(received[h]) : received[h][i][1] = x <=> i \in p + 1 .. p + w
      BY <3>1
    <3>3. CASE h # handle
      BY <1>2, <1>10, <3>2, <3>3 DEF Arrived
    <3>4. CASE h = handle
      <4>1. p + w <= Len(q) /\ p + w <= Len(r)
        BY <1>4, <1>8, <1>13, <2>7, <3>2, <3>4
      <4>2. ASSUME NEW i \in 1 .. Len(q) PROVE q[i][1] = x <=> i \in p + 1 .. p + w
        <5>1. CASE i \in 1 .. Len(r)
          BY <1>8, <1>13, <3>2, <3>4, <5>1
        <5>2. CASE i \in Len(r) + 1 .. Len(r) + k
          <6>1. q[i][1] # x
            BY <1>13, <2>5, <5>2
          <6>2. i \notin p + 1 .. p + w
            BY <1>13, <2>7, <4>1, <5>2
          <6> QED
            BY <6>1, <6>2
        <5> QED
          BY <1>14, <5>1, <5>2
      <4> QED
        BY <1>2, <1>10, <3>4, <4>1, <4>2 DEF Arrived
    <3> QED
      BY <3>3, <3>4
  <2>8. pc'[u] \in {"check", "open", "connect", "prepare", "lock"} => Absent(msg[u])'
    BY <2>1, <2>3, <2>6 DEF ArriveInv, Delivering, Absent
  <2>9. pc'[u] = "done" /\ call'[u] = "add" /\ result'[u] = 1 => Arrived(msg[u], want[u])'
    <3>1. w \in Nat
      BY <2>4 DEF TypeInv, TypeOK, BoundsAssumption
    <3>2. Arrived(msg[u], want[u])' <=> Arrived(x, w)'
      BY <2>1, <2>3, <2>4 DEF Arrived
    <3>3. Arrived(msg[u], want[u]) <=> Arrived(x, w)
      BY <2>3, <2>4 DEF Arrived
    <3> QED
      BY <2>1, <2>7, <3>1, <3>2, <3>3 DEF ArriveInv, Delivering
  <2> QED
    BY <2>1, <2>2, <2>8, <2>9 DEF Delivering
<1> QED
  BY <1>15, <1>16, <1>17, <1>18 DEF ArriveInv, Whole

LEMMA ArriveStep ==
  ASSUME BoundsAssumption, LocksInv, SerialInv, TypeInv, ArriveInv, [Next]_vars
  PROVE  ArriveInv'
<1>1. pc \in [Threads -> Labels] /\ TypeOK /\ Numbered
  BY DEF TypeInv, TypeOK, ArriveInv
<1>2. ASSUME \A u \in Threads : pc[u] = "idle", pc' = pc, msg' = msg, added' = added, Grown
      PROVE  ArriveInv'
  <2>1. \A u \in Threads : Delivering(u)'
    BY <1>2 DEF Delivering
  <2>2. Numbered'
    <3>1. \A u \in Threads : msg'[u] <= added' /\ (pc'[u] \in {"idle", "reopen", "reconnect"} => msg'[u] = 0)
      BY <1>1, <1>2 DEF Numbered
    <3>2. \A h \in 1 .. Len(received') : \A i \in 1 .. Len(received'[h]) : received'[h][i][1] <= added'
      <4> SUFFICES ASSUME NEW h \in 1 .. Len(received'), NEW i \in 1 .. Len(received'[h])
                   PROVE  received'[h][i][1] <= added
        BY <1>2
      <4>1. h \in 1 .. Len(received) /\ received'[h] = received[h]
        BY <1>2, GrownKeeps
      <4> QED
        BY <1>1, <4>1 DEF Numbered
    <3> QED
      BY <1>1, <1>2, <3>1, <3>2 DEF Numbered
  <2>3. \A h \in 1 .. Len(received') : Whole(received'[h])
    <3> SUFFICES ASSUME NEW h \in 1 .. Len(received')
                 PROVE  Whole(received'[h])
      OBVIOUS
    <3>1. CASE h \in 1 .. Len(received)
      BY <1>2, <3>1, GrownKeeps DEF ArriveInv
    <3>2. CASE Len(received'[h]) = 0
      BY <3>2 DEF Whole
    <3> QED
      BY <1>2, <3>1, <3>2, GrownKeeps
  <2> QED
    BY <2>1, <2>2, <2>3 DEF ArriveInv, Whole
<1>3. ASSUME ~alive, New \/ \E d \in Destinations : Open(d)
      PROVE  ArriveInv'
  <2>1. Grown
    BY <1>3 DEF New, Open, Created, Connected, connection, Grown
  <2>2. pc' = pc /\ msg' = msg /\ added' = added
    BY <1>3 DEF New, Open, Created, locals
  <2> QED
    BY <1>2, <1>3, <2>1, <2>2 DEF SerialInv
<1>4. CASE Close
  BY <1>2, <1>4 DEF Close, Quiet, Grown, locals
<1>5. ASSUME UNCHANGED << pc, locals, received, handle >>
      PROVE  ArriveInv'
  <2>1. UNCHANGED << pc, call, added, msg, want, sent, result, received, handle >>
    BY <1>5 DEF locals
  <2>2. Grown
    BY <2>1 DEF Grown
  <2>3. \A u \in Threads : Delivering(u)'
    BY <2>1, <2>2, OthersDeliver DEF ArriveInv
  <2>4. Numbered'
    BY <1>1, <2>1 DEF Numbered
  <2>5. \A h \in 1 .. Len(received') : Whole(received'[h])
    BY <2>1 DEF ArriveInv
  <2> QED
    BY <2>3, <2>4, <2>5 DEF ArriveInv, Whole
<1>6. CASE \E h \in Handles : PeerCloses(h)
  BY <1>5, <1>6 DEF PeerCloses
<1>7. ASSUME NEW t \in Threads, AddEntry(t)
      PROVE  ArriveInv'
  <2>1. Grown /\ handle' = handle /\ received' = received
    BY <1>7 DEF AddEntry, connection, Grown
  <2>2. /\ pc'[t] \in {"check", "prepare"} /\ msg'[t] = added + 1 /\ added' = added + 1
        /\ \A u \in Threads \ {t} : pc'[u] = pc[u] /\ msg'[u] = msg[u] /\ call'[u] = call[u]
        /\ UNCHANGED << want, sent, result >>
    BY <1>1, <1>7 DEF AddEntry, Goto, TypeOK
  <2>3. Numbered'
    BY <1>1, <2>1, <2>2, StepNumbered
  <2>4. Absent(msg[t])'
    <3> SUFFICES ASSUME NEW h \in 1 .. Len(received), NEW i \in 1 .. Len(received[h])
                 PROVE  received[h][i][1] # added + 1
      BY <2>1, <2>2 DEF Absent
    <3>1. received[h][i][1] <= added /\ received[h][i][1] \in Nat
      BY <1>1, UnitTypes DEF Numbered
    <3>2. added \in Nat
      BY <1>1 DEF TypeOK, BoundsAssumption
    <3> QED
      BY <3>1, <3>2
  <2>5. Delivering(t)'
    BY <2>2, <2>4 DEF Delivering
  <2> QED
    BY <2>1, <2>2, <2>3, <2>5, StepDelivers
<1>8. ASSUME NEW t \in Threads, OpenTarget(t)
      PROVE  ArriveInv'
  <2>1. Grown /\ handle' = handle /\ received' = received
    BY <1>8 DEF OpenTarget, connection, Grown
  <2>2. /\ pc[t] = "idle" /\ pc'[t] = "check" /\ msg' = msg /\ added' = added
        /\ \A u \in Threads \ {t} : pc'[u] = pc[u] /\ call'[u] = call[u]
        /\ UNCHANGED << want, sent, result >>
    BY <1>1, <1>8 DEF OpenTarget, Goto, TypeOK
  <2>3. Numbered'
    BY <1>1, <2>1, <2>2, StepNumbered
  <2>4. Absent(msg[t])'
    <3>1. msg[t] = 0
      BY <1>1, <2>2 DEF Numbered
    <3>2. \A h \in 1 .. Len(received) : \A i \in 1 .. Len(received[h]) : received[h][i][1] # 0
      BY UnitTypes
    <3> QED
      BY <2>1, <2>2, <3>1, <3>2 DEF Absent
  <2>5. Delivering(t)'
    BY <2>2, <2>4 DEF Delivering
  <2> QED
    BY <2>1, <2>2, <2>3, <2>5, StepDelivers
<1>9. ASSUME NEW t \in Threads, NEW d \in Destinations, SetDestination(t, d)
      PROVE  ArriveInv'
  <2>1. Grown /\ handle' = handle /\ received' = received
    BY <1>9 DEF SetDestination, connection, Grown
  <2>2. /\ pc[t] = "idle" /\ pc'[t] = "reopen" /\ msg' = msg /\ added' = added
        /\ \A u \in Threads \ {t} : pc'[u] = pc[u]
        /\ UNCHANGED << call, want, sent, result >>
    BY <1>1, <1>9 DEF SetDestination, Goto, locals
  <2>3. Numbered'
    BY <1>1, <2>1, <2>2, StepNumbered
  <2>4. Delivering(t)'
    BY <2>2 DEF Delivering
  <2> QED
    BY <2>1, <2>2, <2>3, <2>4, StepDelivers
<1>10. ASSUME NEW t \in Threads, NEW n \in 1 .. MsgLen, SetMaxSize(t, n)
       PROVE  ArriveInv'
  BY <1>5, <1>10 DEF SetMaxSize, connection
<1>11. ASSUME NEW t \in Threads, Grown, UNCHANGED << call, added, msg >>,
              \A u \in Threads \ {t} :
                pc'[u] = pc[u] /\ want'[u] = want[u] /\ sent'[u] = sent[u] /\ result'[u] = result[u],
              \A u \in Threads \ {t} : pc[u] \in {"recv", "send"} => handle' = handle /\ received' = received,
              \/ pc'[t] \in {"idle", "reconnect"} /\ pc[t] \in {"reopen", "reconnect"}
              \/ pc'[t] = "done" /\ result'[t] = -1
              \/ pc'[t] = "done" /\ call[t] = "open"
              \/ /\ pc'[t] \in {"check", "open", "connect", "prepare", "lock"}
                 /\ pc[t] \in {"check", "open", "connect", "prepare", "lock"}
              \/ pc'[t] \in {"recv", "send"} /\ Sending(t)'
       PROVE  ArriveInv'
  <2>1. Numbered'
    BY <1>1, <1>11, StepNumbered
  <2>2. Delivering(t)'
    <3>1. CASE pc'[t] \in {"check", "open", "connect", "prepare", "lock"}
      <4>1. PICK m : m = msg[t]
        OBVIOUS
      <4>2. Absent(m)
        BY <1>11, <3>1, <4>1 DEF ArriveInv, Delivering
      <4>3. Absent(m)'
        BY <1>11, <4>2, GrownArrived
      <4>4. Absent(msg[t])'
        BY <1>11, <4>1, <4>3 DEF Absent
      <4> QED
        BY <3>1, <4>4 DEF Delivering
    <3>2. CASE pc'[t] \notin {"check", "open", "connect", "prepare", "lock"}
      BY <1>11, <3>2 DEF Delivering
    <3> QED
      BY <3>1, <3>2
  <2> QED
    BY <1>11, <2>1, <2>2, StepDelivers
<1>12. ASSUME NEW t \in Threads, CheckOpen(t)
       PROVE  ArriveInv'
  <2>1. Grown /\ handle' = handle /\ received' = received
    BY <1>12 DEF CheckOpen, connection, Grown
  <2>2. /\ UNCHANGED << call, added, msg, want, sent >>
        /\ \A u \in Threads \ {t} : pc'[u] = pc[u] /\ result'[u] = result[u]
        /\ pc[t] = "check"
        /\ pc'[t] \in {"prepare", "open"} \/ (pc'[t] = "done" /\ call[t] = "open")
    BY <1>1, <1>12 DEF CheckOpen, Opened, Return, Goto, TypeOK
  <2> QED
    BY <1>11, <2>1, <2>2
<1>13. ASSUME NEW t \in Threads, LockToOpen(t)
       PROVE  ArriveInv'
  <2>1. Grown /\ handle' = handle /\ received' = received
    BY <1>13 DEF LockToOpen, connection, Grown
  <2>2. /\ UNCHANGED << call, added, msg, want, sent, result >>
        /\ \A u \in Threads \ {t} : pc'[u] = pc[u]
        /\ pc[t] = "open" /\ pc'[t] = "connect"
    BY <1>1, <1>13 DEF LockToOpen, Goto, locals
  <2> QED
    BY <1>11, <2>1, <2>2
<1>14. ASSUME NEW t \in Threads, ConnectToOpen(t)
       PROVE  ArriveInv'
  <2>1. Grown
    BY <1>14 DEF ConnectToOpen, Connected, NotConnected, Grown
  <2>2. /\ UNCHANGED << call, added, msg, want, sent >>
        /\ \A u \in Threads \ {t} : pc'[u] = pc[u] /\ result'[u] = result[u]
        /\ pc[t] = "connect"
        /\ \/ pc'[t] = "prepare"
           \/ pc'[t] = "done" /\ call[t] = "open"
           \/ pc'[t] = "done" /\ result'[t] = -1
    BY <1>1, <1>14 DEF ConnectToOpen, Opened, Return, Goto, TypeOK
  <2>3. \A u \in Threads : pc[u] \notin {"recv", "send"}
    BY <1>14 DEF ConnectToOpen, LocksInv, LocksMatch, LabelsInv
  <2> QED
    BY <1>11, <2>1, <2>2, <2>3
<1>15. ASSUME NEW t \in Threads, Prepare(t)
       PROVE  ArriveInv'
  <2>1. Grown /\ handle' = handle /\ received' = received
    BY <1>15 DEF Prepare, connection, Grown
  <2>2. /\ UNCHANGED << call, added, msg, sent >>
        /\ \A u \in Threads \ {t} : pc'[u] = pc[u] /\ result'[u] = result[u] /\ want'[u] = want[u]
        /\ pc[t] = "prepare"
        /\ pc'[t] = "lock" \/ (pc'[t] = "done" /\ result'[t] = -1)
    BY <1>1, <1>15 DEF Prepare, Return, Goto, TypeOK
  <2> QED
    BY <1>11, <2>1, <2>2
<1>16. ASSUME NEW t \in Threads, LockToSend(t)
       PROVE  ArriveInv'
  <2>1. Grown /\ handle' = handle /\ received' = received
    BY <1>16 DEF LockToSend, connection, Grown
  <2>2. /\ UNCHANGED << call, added, msg, want, sent, result >>
        /\ \A u \in Threads \ {t} : pc'[u] = pc[u]
        /\ pc[t] = "lock" /\ pc'[t] \in {"recv", "send"}
    BY <1>1, <1>16 DEF LockToSend, LoopStart, Goto, locals
  <2>3. Absent(msg[t]) /\ sent[t] = 0
    BY <2>2 DEF ArriveInv, Delivering, TypeInv, MessageInv
  <2>4. Sending(t)'
    <3>1. handle \in 1 .. Len(received) => EndsWith(received[handle], msg[t], 0)
      <4> SUFFICES ASSUME handle \in 1 .. Len(received)
                   PROVE  EndsWith(received[handle], msg[t], 0)
        OBVIOUS
      <4>1. Len(received[handle]) \in Nat
        <5> DEFINE S == Seq(Messages \X (1 .. MsgLen))
        <5>1. received \in Seq(S)
          BY <1>1 DEF TypeOK
        <5> HIDE DEF S
        <5>2. received[handle] \in S
          BY <5>1
        <5> QED
          BY <5>2 DEF S
      <4>2. \A i \in 1 .. Len(received[handle]) : received[handle][i][1] # msg[t]
        BY <2>3 DEF Absent
      <4> QED
        BY <4>1, <4>2 DEF EndsWith
    <3> QED
      BY <2>1, <2>2, <2>3, <3>1 DEF Sending, Absent, EndsWith
  <2> QED
    BY <1>11, <2>1, <2>2, <2>4
<1>17. ASSUME NEW t \in Threads, CheckFin(t)
       PROVE  ArriveInv'
  <2>1. Grown /\ received' = received
    BY <1>17 DEF CheckFin, Grown
  <2>2. /\ UNCHANGED << call, added, msg, want, sent >>
        /\ \A u \in Threads \ {t} : pc'[u] = pc[u] /\ result'[u] = result[u]
        /\ pc[t] = "recv"
        /\ (pc'[t] = "send" /\ handle' = handle) \/ (pc'[t] = "done" /\ result'[t] = -1)
    BY <1>1, <1>17 DEF CheckFin, Return, Goto, TypeOK
  <2>3. \A u \in Threads \ {t} : pc[u] \notin {"recv", "send"}
    BY <2>2 DEF LocksInv, LocksMatch
  <2>4. handle' = handle => Sending(t)'
    BY <2>1, <2>2 DEF ArriveInv, Delivering, Sending, EndsWith
  <2> QED
    BY <1>11, <2>1, <2>2, <2>3, <2>4
<1>18. ASSUME NEW t \in Threads, SendFails(t)
       PROVE  ArriveInv'
  <2>1. Grown /\ handle' = handle /\ received' = received
    BY <1>18 DEF SendFails, connection, Grown
  <2>2. /\ UNCHANGED << call, added, msg, want, sent >>
        /\ \A u \in Threads \ {t} : pc'[u] = pc[u] /\ result'[u] = result[u]
        /\ pc'[t] = "done" /\ result'[t] = -1
    BY <1>1, <1>18 DEF SendFails, Return, Goto, TypeOK
  <2> QED
    BY <1>11, <2>1, <2>2
<1>19. ASSUME NEW t \in Threads, Done(t)
       PROVE  ArriveInv'
  <2>1. Grown /\ handle' = handle /\ received' = received
    BY <1>19 DEF Done, connection, Grown
  <2>2. /\ pc'[t] = "idle" /\ msg'[t] = 0 /\ added' = added
        /\ \A u \in Threads \ {t} : pc'[u] = pc[u] /\ result'[u] = result[u] /\ msg'[u] = msg[u]
        /\ \A u \in Threads \ {t} : call'[u] = call[u] /\ want'[u] = want[u] /\ sent'[u] = sent[u]
    BY <1>1, <1>19 DEF Done, Goto, TypeOK
  <2>3. Numbered'
    BY <1>1, <2>1, <2>2, StepNumbered
  <2>4. Delivering(t)'
    BY <2>2 DEF Delivering
  <2> QED
    BY <2>1, <2>2, <2>3, <2>4, StepDelivers
<1>20. ASSUME NEW t \in Threads, Reopen(t)
       PROVE  ArriveInv'
  <2>1. Grown /\ handle' = handle /\ received' = received
    BY <1>20 DEF Reopen, Grown
  <2>2. /\ UNCHANGED << call, added, msg, want, sent, result >>
        /\ \A u \in Threads \ {t} : pc'[u] = pc[u]
        /\ pc[t] = "reopen" /\ pc'[t] \in {"idle", "reconnect"}
    BY <1>1, <1>20 DEF Reopen, Goto, locals
  <2> QED
    BY <1>11, <2>1, <2>2
<1>21. ASSUME NEW t \in Threads, Reconnected(t), Connected(destination, fds) \/ NotConnected(fds)
       PROVE  ArriveInv'
  <2>1. Grown
    BY <1>21 DEF Connected, NotConnected, Grown
  <2>2. /\ UNCHANGED << call, added, msg, want, sent, result >>
        /\ \A u \in Threads \ {t} : pc'[u] = pc[u]
        /\ pc[t] = "reconnect" /\ pc'[t] = "idle"
    BY <1>1, <1>21 DEF Reconnected, Goto, locals
  <2>3. \A u \in Threads : pc[u] \notin {"recv", "send"}
    BY <2>2 DEF LocksInv, LocksMatch
  <2> QED
    BY <1>11, <2>1, <2>2, <2>3
<1>22. CASE UNCHANGED vars
  BY <1>5, <1>22 DEF vars, connection, locals
<1>23. New \/ (\E d \in Destinations : Open(d)) => ~alive
  BY DEF New, Open, Created
<1>24. QED
  BY <1>3, <1>4, <1>6, <1>7, <1>8, <1>9, <1>10, <1>12, <1>13, <1>14, <1>15, <1>16, <1>17, <1>18, <1>19, <1>20,
     <1>21, <1>22, <1>23, SendArrives
     DEF Next, Call, Progress, stumpless_set_transport_port, ConnectOpen, winsock2_open_target,
         Reconnect, winsock2_reopen_target, winsock_open_socket

(***************************************************************************)
(* The units of a message arrive at a peer one after another, with none of *)
(* another message between them, and a call that reports success has sent  *)
(* as many as it meant to: the mutex of the connection is kept from the    *)
(* first call of send to the last.                                         *)
(***************************************************************************)
THEOREM MessagesAlwaysArrive ==
  ASSUME BoundsAssumption, NULL \notin Threads
  PROVE  Spec => []MessagesArrive
<1> DEFINE Inv == LocksInv /\ ConnectionInv /\ SerialInv /\ TypeInv /\ ArriveInv
<1>1. Init => Inv
  BY LocksInit, ConnectionInit, SerialInit, TypeInit, ArriveInit
<1>2. Inv /\ [Next]_vars => Inv'
  BY LocksStep, ConnectionStep, SerialStep, TypeStep, ArriveStep
<1>3. Inv => MessagesArrive
  <2> SUFFICES ASSUME Inv PROVE MessagesArrive
    OBVIOUS
  <2>1. made = 1 .. Len(received)
    BY DEF TypeInv, TypeOK, made
  <2>2. \A h \in made : DOMAIN received[h] = 1 .. Len(received[h]) /\ Len(received[h]) \in Nat
    <3> DEFINE S == Seq(Messages \X (1 .. MsgLen))
    <3>1. received \in Seq(S)
      BY DEF TypeInv, TypeOK
    <3> HIDE DEF S
    <3>2. \A h \in made : received[h] \in S
      BY <2>1, <3>1
    <3> QED
      BY <3>2 DEF S
  <2>3. MessagesContiguous
    <3> SUFFICES ASSUME NEW h \in made
                 PROVE  /\ \A i, j, k \in DOMAIN received[h] :
                             i < j /\ j < k /\ received[h][i][1] = received[h][k][1] =>
                               received[h][i][1] = received[h][j][1]
                        /\ \A i \in DOMAIN received[h] :
                             received[h][i][2] > 1 =>
                               i > 1 /\ received[h][i - 1] = << received[h][i][1], received[h][i][2] - 1 >>
      BY DEF MessagesContiguous
    <3>1. Whole(received[h])
      BY <2>1 DEF ArriveInv
    <3>2. DOMAIN received[h] = 1 .. Len(received[h])
      BY <2>2
    <3> QED
      BY <3>1, <3>2, Zenon DEF Whole
  <2>4. SuccessMeansSent
    <3> SUFFICES ASSUME NEW t \in Threads, pc[t] = "done", call[t] = "add", result[t] = 1
                 PROVE  \E h \in made :
                          Cardinality({i \in DOMAIN received[h] : received[h][i][1] = msg[t]}) = want[t]
      BY DEF SuccessMeansSent
    <3>1. PICK h \in made : \E p \in Nat :
            /\ p + want[t] <= Len(received[h])
            /\ \A i \in 1 .. Len(received[h]) : received[h][i][1] = msg[t] <=> i \in p + 1 .. p + want[t]
      BY <2>1 DEF ArriveInv, Delivering, Arrived
    <3>2. PICK p \in Nat :
            /\ p + want[t] <= Len(received[h])
            /\ \A i \in 1 .. Len(received[h]) : received[h][i][1] = msg[t] <=> i \in p + 1 .. p + want[t]
      BY <3>1
    <3>3. want[t] \in Nat
      BY DEF TypeInv, TypeOK, BoundsAssumption
    <3>4. \A i \in p + 1 .. p + want[t] : i \in 1 .. Len(received[h])
      BY <2>2, <3>2, <3>3
    <3>5. {i \in DOMAIN received[h] : received[h][i][1] = msg[t]} = p + 1 .. p + want[t]
      BY <2>2, <3>2, <3>4
    <3>6. Cardinality(p + 1 .. p + want[t]) = want[t]
      <4>1. p + 1 \in Int /\ p + want[t] \in Int
        BY <3>3
      <4>2. Cardinality(p + 1 .. p + want[t])
              = IF p + 1 > p + want[t] THEN 0 ELSE (p + want[t]) - (p + 1) + 1
        BY <4>1, FS_Interval
      <4> QED
        BY <3>3, <4>2
    <3> QED
      BY <3>5, <3>6
  <2> QED
    BY <2>3, <2>4 DEF MessagesArrive
<1>4. QED
  BY <1>1, <1>2, <1>3, PTL DEF Spec
=============================================================================
