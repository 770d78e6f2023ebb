---------------------------- MODULE BufferTarget ----------------------------
(***************************************************************************)
(* The buffer target (src/src/target/buffer.c): log messages are written   *)
(* into a ring of Size characters owned by the application, each followed  *)
(* by a NUL, and read back with stumpless_read_buffer.                     *)
(*                                                                         *)
(* Every access to the ring holds buffer_mutex from beginning to end, so a *)
(* send and a read are one step each, by whichever thread; what is left to *)
(* go wrong is the arithmetic of the two positions.                        *)
(*                                                                         *)
(* A character is abstracted to the message it belongs to: m > 0 is a text *)
(* character of the m-th accepted message, -m is the NUL that ends it, and *)
(* 0 is a character the ring held before it was given to the library.  The *)
(* code itself only ever tells NUL from the rest (IsNul).                  *)
(***************************************************************************)
EXTENDS Integers, FiniteSets

CONSTANTS
  Size,       \* capacity of the ring (buffer_target.size)
  Lengths,    \* lengths of the formatted messages, without their newline
  ReadSizes,  \* values of max_length that readers pass
  SendBound   \* how many messages are accepted in a behaviour

ASSUME SizeAssumption == Size \in Nat \ {0}
ASSUME LengthsAssumption == Lengths \subseteq Nat \ {0}
ASSUME ReadSizesAssumption == ReadSizes \subseteq Nat \ {0}
ASSUME SendBoundAssumption == SendBound \in Nat

VARIABLES
  opened,          \* whether the target exists
  zeroed,          \* whether the application cleared its memory beforehand
  buffer,          \* the ring
  read_position,
  write_position,
  accepted,        \* messages accepted so far: the newest one's number
  delivered,       \* history: no message up to this one is due to a reader,
                   \* it was read to its end or sent to an earlier target
  result,          \* outcome of the last call on the target
  clear            \* whether the messages happen to meet neither of the two
                   \* boundary cases described at Boundary

vars == << opened, zeroed, buffer, read_position, write_position, accepted,
           delivered, result, clear >>

Index == 0 .. Size - 1

IsNul(b) == b < 0 \/ (b = 0 /\ zeroed)

Outcomes ==
  [op : {"open", "close", "send", "reject"}] \cup
  [op : {"read"}, text : SUBSET Int, count : Nat, ended : BOOLEAN]

(***************************************************************************)
(* stumpless_open_buffer_target: the ring keeps what the memory held.      *)
(***************************************************************************)
Init ==
  /\ opened = FALSE
  /\ zeroed \in BOOLEAN
  /\ buffer = [i \in Index |-> 0]
  /\ read_position = 0
  /\ write_position = 0
  /\ accepted = 0
  /\ delivered = 0
  /\ result = [op |-> "close"]
  /\ clear \in BOOLEAN

Open ==
  /\ ~opened
  /\ opened' = TRUE
  /\ read_position' = 0
  /\ write_position' = 0
  /\ delivered' = accepted
  /\ result' = [op |-> "open"]
  /\ UNCHANGED << zeroed, buffer, accepted, clear >>

Close ==
  /\ opened
  /\ opened' = FALSE
  /\ result' = [op |-> "close"]
  /\ UNCHANGED << zeroed, buffer, read_position, write_position, accepted,
                  delivered, clear >>

(***************************************************************************)
(* sendto_buffer_target.                                                   *)
(***************************************************************************)
BufferRemaining == Size - write_position

\* Mutant: a message that leaves no room for its NUL is not wrapped.
NextWritePositionNoRoom(len) ==
  IF BufferRemaining >= len
  THEN write_position + len + 1
  ELSE len - BufferRemaining + 1

NextWritePosition(len) ==
  IF BufferRemaining > len
  THEN write_position + len + 1
  ELSE len - BufferRemaining + 1

\* Mutant: the terminating NUL is left out.
WrittenNoNul(len, m) ==
  [i \in Index |-> IF (i - write_position) % Size < len THEN m ELSE buffer[i]]

\* The two memcpy calls and the terminating NUL, as one function.
Written(len, m) ==
  [i \in Index |->
     IF i = NextWritePosition(len) - 1 THEN -m
     ELSE IF (i - write_position) % Size < len THEN m
     ELSE buffer[i]]

\* Mutant: the part of the ring before the reader is forgotten.
FreeSpaceLeftToEnd ==
  IF read_position > write_position
  THEN read_position - write_position
  ELSE BufferRemaining

FreeSpaceLeft ==
  IF read_position > write_position
  THEN read_position - write_position
  ELSE BufferRemaining + read_position

\* Mutant: the reader is moved to the write position itself.
SkipOverwrittenToWriter(newbuffer, newwrite) == newwrite % Size

\* Where an overrun moves the reader: past the first surviving character,
\* and past one NUL if that is where it lands.
SkipOverwritten(newbuffer, newwrite) ==
  LET r == (newwrite + 1) % Size
  IN  IF IsNul(newbuffer[r]) THEN (r + 1) % Size ELSE r

(***************************************************************************)
(* The two boundary cases of a send.  A message whose NUL is the last      *)
(* character of the ring leaves write_position equal to Size instead of 0, *)
(* a value the reader's index never takes; one that exactly fills the free *)
(* space leaves it equal to read_position, which is also how an empty ring *)
(* looks.                                                                  *)
(***************************************************************************)
Boundary(len) ==
  \/ write_position + len + 1 = Size
  \/ FreeSpaceLeft = len + 1

Send(len) ==
  /\ opened
  /\ len < Size
  /\ clear => ~Boundary(len)
  /\ accepted < SendBound
  /\ accepted' = accepted + 1
  /\ write_position' = NextWritePosition(len)
  /\ buffer' = Written(len, accepted + 1)
  /\ read_position' = IF FreeSpaceLeft <= len
                      THEN SkipOverwritten(Written(len, accepted + 1),
                                           NextWritePosition(len))
                      ELSE read_position
  /\ result' = [op |-> "send"]
  /\ UNCHANGED << opened, zeroed, delivered, clear >>

\* A message with no room for its NUL is refused with ARGUMENT_TOO_BIG.
SendTooBig(len) ==
  /\ opened
  /\ len >= Size
  /\ result' = [op |-> "reject"]
  /\ UNCHANGED << opened, zeroed, buffer, read_position, write_position,
                  accepted, delivered, clear >>

(***************************************************************************)
(* stumpless_read_buffer.  The loop leaves at the first offset where it    *)
(* has caught up with the writer, has filled the output or has copied a    *)
(* NUL; only a copied NUL moves read_position past the last character.     *)
(***************************************************************************)
Ring(k) == (read_position + k) % Size

StopsAt(k, max_length) ==
  \/ Ring(k) = write_position
  \/ k = max_length - 1
  \/ IsNul(buffer[Ring(k)])

FirstStop(k, max_length) ==
  /\ StopsAt(k, max_length)
  /\ \A j \in 0 .. k - 1 : ~StopsAt(j, max_length)

CopiesNul(k, max_length) ==
  Ring(k) # write_position /\ k < max_length - 1

Read(max_length) ==
  /\ opened
  /\ \E k \in 0 .. max_length - 1 :
       LET nul == CopiesNul(k, max_length)
       IN  /\ FirstStop(k, max_length)
           /\ read_position' = IF nul THEN Ring(k + 1) ELSE Ring(k)
           /\ result' = [op |-> "read",
                         text |-> {buffer[Ring(j)] : j \in 0 .. k - 1},
                         count |-> k + 1,
                         ended |-> nul]
           /\ delivered' = IF nul /\ buffer[Ring(k)] < 0
                           THEN -buffer[Ring(k)]
                           ELSE delivered
  /\ UNCHANGED << opened, zeroed, buffer, write_position, accepted,
                  clear >>

Next ==
  \/ Open
  \/ Close
  \/ \E len \in Lengths : Send(len) \/ SendTooBig(len)
  \/ \E max_length \in ReadSizes : Read(max_length)

Spec == Init /\ [][Next]_vars

-----------------------------------------------------------------------------
(***************************************************************************)
(* Properties.                                                             *)
(***************************************************************************)

\* Type invariant.  Its positions are the memory safety of buffer.c: the
\* reader's index is always inside the ring, the writer's is at most one past
\* its end, and buffer[write_position - 1] exists after every send.
TypeOK ==
  /\ opened \in BOOLEAN
  /\ zeroed \in BOOLEAN
  /\ buffer \in [Index -> Int]
  /\ read_position \in Index
  /\ write_position \in 0 .. Size
  /\ accepted \in Nat
  /\ delivered \in Int
  /\ clear \in BOOLEAN
  /\ result \in Outcomes
  /\ result.op = "send" => write_position > 0

\* Whatever the positions have been through, one stumpless_read_buffer call
\* never returns characters of two messages, nor characters that were in the
\* memory before the first message.
ReadsOneMessage ==
  result.op = "read" =>
    \/ result.text = {}
    \/ \E m \in 1 .. accepted : result.text = {m}

\* A message that sendto_buffer_target accepted can be read: the reader does
\* not take the ring that holds it for an empty one.
NewestReadable == result.op = "send" => read_position # write_position

\* NewestReadable away from the boundary cases.
ClearNewestReadable == clear => NewestReadable

\* stumpless_read_buffer returns no text of a message it has already returned
\* the end of, or that was sent before the target was opened.
NoReread ==
  [][result'.op = "read" => \A m \in result'.text : m > delivered]_vars

(***************************************************************************)
(* Refinement: the messages with a character between the two positions are *)
(* the abstract queue.  A behaviour that is not clear of the boundary      *)
(* cases is mapped to a queue nobody opens.                                *)
(***************************************************************************)
MessageOf(b) == IF b < 0 THEN -b ELSE b

Unread ==
  {MessageOf(buffer[Ring(k)]) :
     k \in 0 .. ((write_position - read_position) % Size) - 1}

QueueResult ==
  IF result.op = "read"
  THEN [op |-> "read", text |-> result.text, ended |-> result.ended]
  ELSE result

Queue ==
  INSTANCE LossyQueue WITH
    opened   <- clear /\ opened,
    queue    <- IF clear /\ opened THEN Unread ELSE {},
    accepted <- IF clear THEN accepted ELSE 0,
    result   <- IF clear THEN QueueResult ELSE [op |-> "close"]

\* Away from the boundary cases the ring behaves as the queue that the
\* documentation describes: messages are read in the order they were accepted,
\* none twice, and only the oldest are lost, only to make room.
ImplementsLossyQueue == Queue!QueueSpec

=============================================================================
