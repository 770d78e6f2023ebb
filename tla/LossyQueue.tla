----------------------------- MODULE LossyQueue -----------------------------
(***************************************************************************)
(* What a buffer target promises its application (the documentation of     *)
(* stumpless_open_buffer_target and stumpless_read_buffer): a queue of     *)
(* messages that forgets the oldest ones when room is needed.  A message   *)
(* is its number; queue is the set of messages not completely read.        *)
(***************************************************************************)
EXTENDS Integers

VARIABLES opened, queue, accepted, result

queueVars == << opened, queue, accepted, result >>

Oldest == CHOOSE m \in queue : \A n \in queue : m <= n

QueueInit ==
  /\ opened = FALSE
  /\ queue = {}
  /\ accepted = 0
  /\ result = [op |-> "close"]

QueueOpen ==
  /\ ~opened
  /\ opened' = TRUE
  /\ queue' = {}
  /\ result' = [op |-> "open"]
  /\ UNCHANGED accepted

QueueClose ==
  /\ opened
  /\ opened' = FALSE
  /\ queue' = {}
  /\ result' = [op |-> "close"]
  /\ UNCHANGED accepted

\* The new message is always kept; what it displaces is the oldest.
QueueSend ==
  /\ opened
  /\ accepted' = accepted + 1
  /\ \E cut \in 0 .. accepted :
       queue' = {m \in queue : m > cut} \cup {accepted + 1}
  /\ result' = [op |-> "send"]
  /\ UNCHANGED opened

QueueReject ==
  /\ opened
  /\ result' = [op |-> "reject"]
  /\ UNCHANGED << opened, queue, accepted >>

\* A read yields nothing only from an empty queue; otherwise characters of
\* the oldest message, which leaves the queue exactly when the read ends it.
QueueRead ==
  /\ opened
  /\ \E ended \in BOOLEAN, text \in SUBSET queue :
       /\ result' = [op |-> "read", text |-> text, ended |-> ended]
       /\ queue' = IF ended THEN queue \ {Oldest} ELSE queue
       /\ ended => queue # {}
       /\ text # {} => text = {Oldest}
  /\ UNCHANGED << opened, accepted >>

QueueNext == QueueOpen \/ QueueClose \/ QueueSend \/ QueueReject \/ QueueRead

QueueSpec == QueueInit /\ [][QueueNext]_queueVars

=============================================================================
