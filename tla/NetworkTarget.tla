--------------------------- MODULE NetworkTarget ---------------------------
(***************************************************************************)
(* A network target (src/src/target/network.c over                         *)
(* src/src/config/have_sys_socket.c or have_winsock2.c) and the threads    *)
(* that open it, send to it and change where it sends to.  Two mutexes     *)
(* protect it: the target's own, which sending does not take, and the one  *)
(* of the connection.                                                      *)
(*                                                                         *)
(* A message is MsgLen units long, its length prefix included; a handle is *)
(* the number of the connection it was made for.  Whether the target uses  *)
(* IPv4 or IPv6 makes no difference here.                                  *)
(***************************************************************************)
EXTENDS Integers, Sequences, FiniteSets

CONSTANTS
  Threads,
  Destinations,
  NULL,
  MsgLen,
  MaxMessages,   \* how many messages a behaviour may send
  MaxHandles     \* how many connections it may make

BoundsAssumption ==
  MsgLen \in Nat \ {0} /\ MaxMessages \in Nat /\ MaxHandles \in Nat

VARIABLES
  alive,          \* the target exists
  provider,       \* "sys_socket" or "winsock2", whichever the library was built with
  transport,      \* "tcp" or "udp", the same for every target of a behaviour
  odelay,         \* option STUMPLESS_OPTION_ODELAY
  destination,
  max_msg_size,
  handle,         \* 0 for the closed target's -1
  target_lock,    \* the holder of the target's mutex
  net_lock,       \* the holder of the connection's mutex
  fds,            \* the handles the process has open
  fin,            \* those of them whose peer has closed its end
  peer,           \* destination each connection was made to
  received,       \* units each peer has received: <<message, position in it>>
  pc,             \* where each thread is
  call,           \* what it is doing: "add" an entry or "open" the target
  added,          \* number of messages sent or about to be
  msg,            \* its message
  want,           \* units it means to send
  sent,           \* sent_bytes
  result,         \* what its call returned: 1, or -1 on failure
  serial          \* the application never has two threads open the target

connection == << fds, fin, peer, received >>
locals == << call, added, msg, want, sent, result >>
locks == << target_lock, net_lock >>
settings == << provider, transport, odelay, destination, max_msg_size >>

vars == << alive, settings, handle, locks, connection, pc, locals, serial >>

Handles == 1 .. MaxHandles
Messages == 1 .. MaxMessages

Labels == {"idle", "done", "check", "open", "connect", "prepare", "lock", "recv", "send",
           "reopen", "reconnect"}

made == DOMAIN peer

Init ==
  /\ alive = FALSE
  /\ provider \in {"sys_socket", "winsock2"}
  /\ transport \in {"tcp", "udp"}
  /\ odelay = FALSE
  /\ destination = NULL
  /\ max_msg_size = MsgLen
  /\ handle = 0
  /\ target_lock = NULL
  /\ net_lock = NULL
  /\ fds = {}
  /\ fin = {}
  /\ peer = << >>
  /\ received = << >>
  /\ pc = [t \in Threads |-> "idle"]
  /\ call = [t \in Threads |-> "add"]
  /\ added = 0
  /\ msg = [t \in Threads |-> 0]
  /\ want = [t \in Threads |-> 0]
  /\ sent = [t \in Threads |-> 0]
  /\ result = [t \in Threads |-> 0]
  /\ serial \in BOOLEAN

Goto(t, l) == pc' = [pc EXCEPT ![t] = l]

Return(t, r) ==
  /\ result' = [result EXCEPT ![t] = r]
  /\ Goto(t, "done")

Quiet == \A t \in Threads : pc[t] = "idle"

(***************************************************************************)
(* config_int_connect: a socket connected to d, or none when any of its    *)
(* steps fails.  left is what the process keeps open besides.              *)
(***************************************************************************)
Connected(d, left) ==
  /\ Len(peer) < MaxHandles
  /\ handle' = Len(peer) + 1
  /\ peer' = Append(peer, d)
  /\ received' = Append(received, << >>)
  /\ fds' = left \cup {Len(peer) + 1}
  /\ UNCHANGED fin

NotConnected(left) ==
  /\ handle' = 0
  /\ fds' = left
  /\ UNCHANGED << fin, peer, received >>

\* winsock_open_socket takes the same steps, and closes the socket if one fails.
winsock_open_socket(d, left) == Connected(d, left) \/ NotConnected(left)

(***************************************************************************)
(* The target's life.  Creating it happens before, and closing it after,   *)
(* any use of it by another thread.                                        *)
(***************************************************************************)

\* new_network_target.
Created(d) ==
  /\ ~alive
  /\ alive' = TRUE
  /\ destination' = d
  /\ max_msg_size' = MsgLen
  /\ UNCHANGED << provider, transport, locks, pc, locals, serial >>

\* stumpless_new_network_target.
New ==
  /\ Created(NULL)
  /\ odelay' \in BOOLEAN
  /\ handle' = 0
  /\ UNCHANGED connection

\* stumpless_open_network_target, which leaves no target when it fails.
Open(d) ==
  /\ Created(d)
  /\ \/ odelay' = TRUE /\ handle' = 0 /\ UNCHANGED connection
     \/ odelay' = FALSE /\ Connected(d, fds)

Close ==
  /\ alive
  /\ Quiet
  /\ alive' = FALSE
  /\ destination' = NULL
  /\ handle' = 0
  /\ fds' = fds \ {handle}
  /\ UNCHANGED << provider, transport, odelay, max_msg_size, locks, fin, peer, received,
                  pc, locals, serial >>

(***************************************************************************)
(* stumpless_open_target, called by the application and, for each entry,   *)
(* by stumpless_add_entry when the option is set.                          *)
(***************************************************************************)
AddEntry(t) ==
  /\ alive
  /\ pc[t] = "idle"
  /\ added < MaxMessages
  /\ added' = added + 1
  /\ msg' = [msg EXCEPT ![t] = added + 1]
  /\ call' = [call EXCEPT ![t] = "add"]
  /\ Goto(t, IF odelay THEN "check" ELSE "prepare")
  /\ UNCHANGED << alive, settings, handle, locks, connection, want, sent,
                  result, serial >>

OpenTarget(t) ==
  /\ alive
  /\ pc[t] = "idle"
  /\ call' = [call EXCEPT ![t] = "open"]
  /\ Goto(t, "check")
  /\ UNCHANGED << alive, settings, handle, locks, connection, added, msg, want,
                  sent, result, serial >>

\* What follows once the target is open.
Opened(t) ==
  IF call[t] = "add" THEN Goto(t, "prepare") /\ UNCHANGED result ELSE Return(t, 1)

\* network_target_is_open.
IsOpen == handle # 0

\* stumpless_target_is_open takes the target's mutex and gives it back.
CheckOpen(t) ==
  /\ pc[t] = "check"
  /\ target_lock = NULL
  /\ serial => \A u \in Threads : pc[u] \notin {"open", "connect"}
  /\ IF IsOpen THEN Opened(t) ELSE Goto(t, "open") /\ UNCHANGED result
  /\ UNCHANGED << alive, settings, handle, locks, connection, call, added,
                  msg, want, sent, serial >>

LockToOpen(t) ==
  /\ pc[t] = "open"
  /\ target_lock = NULL
  /\ target_lock' = t
  /\ Goto(t, "connect")
  /\ UNCHANGED << alive, settings, handle, net_lock, connection, locals, serial >>

\* The new handle replaces the old one, whatever that was.
ConnectToOpen(t) ==
  /\ pc[t] = "connect"
  /\ net_lock = NULL
  /\ \/ Connected(destination, fds) /\ Opened(t)
     \/ NotConnected(fds) /\ Return(t, -1)
  /\ target_lock' = NULL
  /\ UNCHANGED << alive, settings, net_lock, call, added, msg, want, sent,
                  serial >>

\* sys_socket_open_tcp4_target and its like.
ConnectOpen(t) == provider = "sys_socket" /\ ConnectToOpen(t)

\* winsock2_open_tcp4_target and its like.
winsock2_open_target(t) == provider = "winsock2" /\ ConnectToOpen(t)

(***************************************************************************)
(* Sending, under the connection's mutex only.                             *)
(***************************************************************************)

\* sendto_network_target up to the call that sends.
Prepare(t) ==
  /\ pc[t] = "prepare"
  /\ \/ /\ transport = "udp"
        /\ want' = [want EXCEPT ![t] = IF MsgLen > max_msg_size THEN max_msg_size
                                                                ELSE MsgLen]
        /\ Goto(t, "lock")
        /\ UNCHANGED result
     \/ /\ transport = "tcp"
        /\ want' = [want EXCEPT ![t] = MsgLen]
        /\ \/ Goto(t, "lock") /\ UNCHANGED result
           \/ Return(t, -1)   \* the send buffer could not be enlarged
  /\ UNCHANGED << alive, settings, handle, locks, connection, call, added, msg,
                  sent, serial >>

\* Where the loop over a message begins: winsock2_sendto_tcp_target has no way
\* to look for the end of the stream.
LoopStart == IF transport = "tcp" /\ provider = "sys_socket" THEN "recv" ELSE "send"

LockToSend(t) ==
  /\ pc[t] = "lock"
  /\ net_lock = NULL
  /\ net_lock' = t
  /\ Goto(t, LoopStart)
  /\ UNCHANGED << alive, settings, handle, target_lock, connection, locals, serial >>

\* recv: the peer has closed the connection, or there is nothing to read.
CheckFin(t) ==
  /\ pc[t] = "recv"
  /\ \/ /\ handle \in fin
        /\ fds' = fds \ {handle}
        /\ handle' = 0
        /\ net_lock' = NULL
        /\ Return(t, -1)
     \/ /\ handle \notin fin
        /\ Goto(t, "send")
        /\ UNCHANGED << net_lock, handle, fds, result >>
  /\ UNCHANGED << alive, settings, target_lock, fin, peer, received, call,
                  added, msg, want, sent, serial >>

\* The first k units of t's message arrive: send is always given the message
\* from its start.
Arrive(t, k) ==
  received' = [received EXCEPT ![handle] =
                 @ \o [i \in 1 .. k |-> << msg[t], i >>]]

\* How much of the rest one call of send may take: a datagram is sent whole.
Taken(t) == IF transport = "tcp" THEN 1 .. want[t] - sent[t] ELSE {want[t]}

\* Mutant: the mutex is given back between two calls of send.
SendUnlocked(t) ==
  /\ pc[t] = "send"
  /\ handle # 0
  /\ \E k \in Taken(t) :
       /\ Arrive(t, k)
       /\ sent' = [sent EXCEPT ![t] = @ + k]
       /\ net_lock' = NULL
       /\ IF sent[t] + k < want[t]
          THEN Goto(t, "lock") /\ UNCHANGED result
          ELSE Return(t, 1)
  /\ UNCHANGED << alive, settings, handle, target_lock, fds, fin, peer, call,
                  added, msg, want, serial >>

\* One call of send, and the end of the loop when all is sent.
Send(t) ==
  /\ pc[t] = "send"
  /\ handle # 0
  /\ \E k \in Taken(t) :
       /\ Arrive(t, k)
       /\ sent' = [sent EXCEPT ![t] = @ + k]
       /\ IF sent[t] + k < want[t]
          THEN Goto(t, LoopStart) /\ UNCHANGED << net_lock, result >>
          ELSE Return(t, 1) /\ net_lock' = NULL
  /\ UNCHANGED << alive, settings, handle, target_lock, fds, fin, peer, call,
                  added, msg, want, serial >>

\* send fails, as it always does on a closed handle.
SendFails(t) ==
  /\ pc[t] = "send"
  /\ net_lock' = NULL
  /\ Return(t, -1)
  /\ UNCHANGED << alive, settings, handle, target_lock, connection, call,
                  added, msg, want, sent, serial >>

\* The caller has seen the result.
Done(t) ==
  /\ pc[t] = "done"
  /\ Goto(t, "idle")
  /\ msg' = [msg EXCEPT ![t] = 0]
  /\ want' = [want EXCEPT ![t] = 0]
  /\ sent' = [sent EXCEPT ![t] = 0]
  /\ result' = [result EXCEPT ![t] = 0]
  /\ call' = [call EXCEPT ![t] = "add"]
  /\ UNCHANGED << alive, settings, handle, locks, connection, added, serial >>

(***************************************************************************)
(* Changing where the target sends to, and how much in one datagram.       *)
(***************************************************************************)

\* stumpless_set_destination.
SetDestination(t, d) ==
  /\ alive
  /\ pc[t] = "idle"
  /\ target_lock = NULL
  /\ target_lock' = t
  /\ destination' = d
  /\ Goto(t, "reopen")
  /\ UNCHANGED << alive, provider, transport, odelay, max_msg_size, handle, net_lock,
                  connection, locals, serial >>

\* A destination stands for a host and a port: the port is replaced likewise.
stumpless_set_transport_port(t, d) == SetDestination(t, d)

\* Mutant: an open connection is kept.
ReopenKeeps(t) ==
  /\ pc[t] = "reopen"
  /\ net_lock = NULL
  /\ target_lock' = NULL
  /\ Goto(t, "idle")
  /\ UNCHANGED << alive, settings, handle, net_lock, connection, locals, serial >>

\* Mutant: the old connection is not closed.
ReopenLeaves(t) ==
  /\ pc[t] = "reopen"
  /\ net_lock = NULL
  /\ \/ /\ ~IsOpen
        /\ target_lock' = NULL
        /\ Goto(t, "idle")
        /\ UNCHANGED net_lock
     \/ /\ IsOpen
        /\ net_lock' = t
        /\ Goto(t, "reconnect")
        /\ UNCHANGED target_lock
  /\ UNCHANGED << alive, settings, handle, connection, locals, serial >>

\* A target that is open is closed ...
Reopen(t) ==
  /\ pc[t] = "reopen"
  /\ net_lock = NULL
  /\ \/ /\ ~IsOpen
        /\ target_lock' = NULL
        /\ Goto(t, "idle")
        /\ UNCHANGED << net_lock, fds >>
     \/ /\ IsOpen
        /\ net_lock' = t
        /\ fds' = fds \ {handle}
        /\ Goto(t, "reconnect")
        /\ UNCHANGED target_lock
  /\ UNCHANGED << alive, settings, handle, fin, peer, received, locals, serial >>

\* Mutant: the connection's mutex is not given back when connecting fails.
ReconnectKeepsLock(t) ==
  /\ pc[t] = "reconnect"
  /\ \/ Connected(destination, fds) /\ net_lock' = NULL
     \/ NotConnected(fds) /\ UNCHANGED net_lock
  /\ target_lock' = NULL
  /\ Goto(t, "idle")
  /\ UNCHANGED << alive, settings, locals, serial >>

\* ... and connected again; that it could not be is not reported.
Reconnected(t) ==
  /\ pc[t] = "reconnect"
  /\ net_lock' = NULL
  /\ target_lock' = NULL
  /\ Goto(t, "idle")
  /\ UNCHANGED << alive, settings, locals, serial >>

Reconnect(t) ==
  provider = "sys_socket" /\ Reconnected(t) /\ (Connected(destination, fds) \/ NotConnected(fds))

winsock2_reopen_target(t) ==
  provider = "winsock2" /\ Reconnected(t) /\ winsock_open_socket(destination, fds)

SetMaxSize(t, n) ==
  /\ alive
  /\ transport = "udp"
  /\ pc[t] = "idle"
  /\ target_lock = NULL
  /\ max_msg_size' = n
  /\ UNCHANGED << alive, provider, transport, odelay, destination, handle, locks,
                  connection, pc, locals, serial >>

\* The other end of a TCP connection closes it, which one provider looks for.
PeerCloses(h) ==
  /\ transport = "tcp"
  /\ provider = "sys_socket"
  /\ h \in fds \ fin
  /\ fin' = fin \cup {h}
  /\ UNCHANGED << alive, settings, handle, locks, fds, peer, received, pc,
                  locals, serial >>

Call(t) ==
  \/ AddEntry(t)
  \/ OpenTarget(t)
  \/ \E d \in Destinations : SetDestination(t, d) \/ stumpless_set_transport_port(t, d)
  \/ \E n \in 1 .. MsgLen : SetMaxSize(t, n)

Progress(t) ==
  \/ CheckOpen(t)
  \/ LockToOpen(t)
  \/ ConnectOpen(t)
  \/ winsock2_open_target(t)
  \/ Prepare(t)
  \/ LockToSend(t)
  \/ CheckFin(t)
  \/ Send(t)
  \/ SendFails(t)
  \/ Done(t)
  \/ Reopen(t)
  \/ Reconnect(t)
  \/ winsock2_reopen_target(t)

Next ==
  \/ New
  \/ \E d \in Destinations : Open(d)
  \/ Close
  \/ \E t \in Threads : Call(t) \/ Progress(t)
  \/ \E h \in Handles : PeerCloses(h)

Spec == Init /\ [][Next]_vars

-----------------------------------------------------------------------------
(***************************************************************************)
(* Properties.                                                             *)
(***************************************************************************)

TypeOK ==
  /\ alive \in BOOLEAN
  /\ provider \in {"sys_socket", "winsock2"}
  /\ transport \in {"tcp", "udp"}
  /\ odelay \in BOOLEAN
  /\ destination \in Destinations \cup {NULL}
  /\ max_msg_size \in 1 .. MsgLen
  /\ handle \in {0} \cup made
  /\ target_lock \in Threads \cup {NULL}
  /\ net_lock \in Threads \cup {NULL}
  /\ fds \subseteq made
  /\ fin \subseteq made
  /\ peer \in Seq(Destinations \cup {NULL})
  /\ made \subseteq Handles
  /\ received \in Seq(Seq(Messages \X (1 .. MsgLen)))
  /\ pc \in [Threads -> Labels]
  /\ call \in [Threads -> {"add", "open"}]
  /\ added \in 0 .. MaxMessages
  /\ msg \in [Threads -> Messages \cup {0}]
  /\ want \in [Threads -> 0 .. MsgLen]
  /\ sent \in [Threads -> 0 .. MsgLen]
  /\ result \in [Threads -> {-1, 0, 1}]
  /\ serial \in BOOLEAN

\* While nobody holds the connection's mutex the handle is an open one or
\* none: no thread that takes the mutex next finds a handle that was closed,
\* and whose number may belong to another file by then.
HandleLive == net_lock = NULL => handle \in fds \cup {0}

\* An application that never opens the target from two threads leaves no
\* connection open that the target does not know of.
NoLeakedConnection == serial => fds \subseteq {handle}

\* Every handle belongs to the target, and the target's handle is open.
ConnectionOwned == TypeOK /\ HandleLive /\ NoLeakedConnection

\* The target is connected to the destination it was last given, unless a
\* thread is just changing it: nothing is sent to the old destination after
\* stumpless_set_destination has returned.
ConnectedToDestination ==
  target_lock = NULL /\ handle \in fds => peer[handle] = destination

\* The messages of several threads are not mixed up on a connection, though a
\* message may take several calls of send, and no unit of a message comes
\* before, or without, the units before it.
MessagesContiguous ==
  \A h \in made :
    /\ \A i, j, k \in DOMAIN received[h] :
         i < j /\ j < k /\ received[h][i][1] = received[h][k][1] =>
           received[h][i][1] = received[h][j][1]
    /\ \A i \in DOMAIN received[h] :
         LET unit == received[h][i] IN
         unit[2] > 1 => i > 1 /\ received[h][i - 1] = << unit[1], unit[2] - 1 >>

\* When a call reports success one peer has received as many units of its
\* message as it meant to send: all of it over TCP, and over UDP what the
\* largest datagram holds.
SuccessMeansSent ==
  \A t \in Threads :
    pc[t] = "done" /\ call[t] = "add" /\ result[t] = 1 =>
      \E h \in made :
        Cardinality({i \in DOMAIN received[h] : received[h][i][1] = msg[t]})
          = want[t]

\* What arrives over one connection, and what the caller is told of it.
MessagesArrive == MessagesContiguous /\ SuccessMeansSent

\* A mutex is held exactly by the thread that is between taking it and giving
\* it back: no path through a call returns with one, and none gives back one
\* that another thread has taken.
LocksMatch ==
  /\ \A t \in Threads :
       target_lock = t <=> pc[t] \in {"connect", "reopen", "reconnect"}
  /\ \A t \in Threads : net_lock = t <=> pc[t] \in {"recv", "send", "reconnect"}

=============================================================================
