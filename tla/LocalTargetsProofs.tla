------------------------- MODULE LocalTargetsProofs -------------------------
(***************************************************************************)
(* Proofs about the targets of LocalTargets: the ring of BufferTarget, for *)
(* a ring, messages and reads of any size; the registration of event       *)
(* sources (EventSource); and what an entry keeps for the Windows Event    *)
(* Log, with its copy and the events sent (WelData).                       *)
(***************************************************************************)
EXTENDS LocalTargets, SequenceTheorems, FiniteSetTheorems, TLAPS

-----------------------------------------------------------------------------
(***************************************************************************)
(* The ring.                                                               *)
(***************************************************************************)

\* A wrapped index is inside the ring (the "% size" of buffer.c).
LEMMA ModInIndex ==
  ASSUME NEW i \in Int
  PROVE  i % Size \in Index
BY SizeAssumption DEF Index

\* Where a send leaves the writer: never at 0, at most one past the end.
LEMMA NextWritePositionBounds ==
  ASSUME NEW len \in Lengths, len < Size, write_position \in 0 .. Size
  PROVE  NextWritePosition(len) \in 1 .. Size
BY SizeAssumption, LengthsAssumption DEF NextWritePosition, BufferRemaining

\* The ring stays a function on its indexes.
LEMMA WrittenType ==
  ASSUME NEW len, NEW m \in Nat, buffer \in [Index -> Int]
  PROVE  Written(len, m) \in [Index -> Int]
BY DEF Written

LEMMA SkipOverwrittenType ==
  ASSUME NEW newbuffer, NEW newwrite \in Int
  PROVE  SkipOverwritten(newbuffer, newwrite) \in Index
<1> DEFINE r == (newwrite + 1) % Size
<1>1. r \in Index
  BY ModInIndex
<1>2. (r + 1) % Size \in Index
  BY <1>1, ModInIndex DEF Index
<1> QED
  BY <1>1, <1>2 DEF SkipOverwritten

\* The outcomes that are not reads.
LEMMA PlainOutcome ==
  ASSUME NEW op \in {"open", "close", "send", "reject"}
  PROVE  [op |-> op] \in Outcomes
BY DEF Outcomes

LEMMA SendType ==
  ASSUME TypeOK, NEW len \in Lengths, Send(len)
  PROVE  TypeOK'
<1>1. NextWritePosition(len) \in 1 .. Size
  BY NextWritePositionBounds DEF TypeOK, Send
<1>2. accepted + 1 \in Nat
  BY DEF TypeOK
<1>3. Written(len, accepted + 1) \in [Index -> Int]
  BY <1>2, WrittenType DEF TypeOK
<1>4. read_position' \in Index
  BY <1>1, SkipOverwrittenType DEF TypeOK, Send
<1>5. result' \in Outcomes
  BY PlainOutcome DEF Send
<1>6. write_position' \in 0 .. Size /\ write_position' > 0
  BY <1>1, SizeAssumption DEF Send
<1> QED
  BY <1>2, <1>3, <1>4, <1>5, <1>6 DEF TypeOK, Send

LEMMA ReadType ==
  ASSUME TypeOK, NEW max_length \in ReadSizes, Read(max_length)
  PROVE  TypeOK'
<1>1. PICK k \in 0 .. max_length - 1 :
        /\ read_position' \in {Ring(k), Ring(k + 1)}
        /\ result' = [op |-> "read",
                      text |-> {buffer[Ring(j)] : j \in 0 .. k - 1},
                      count |-> k + 1,
                      ended |-> CopiesNul(k, max_length)]
        /\ delivered' \in {-buffer[Ring(k)], delivered}
  BY DEF Read
<1>2. \A j \in Int : Ring(j) \in Index
  <2> TAKE j \in Int
  <2>1. read_position + j \in Int
    BY SizeAssumption DEF TypeOK, Index
  <2> QED
    BY <2>1, ModInIndex DEF Ring
<1>3. k \in Nat /\ k + 1 \in Nat
  BY ReadSizesAssumption
<1>4. read_position' \in Index
  BY <1>1, <1>2, <1>3
<1>5. \A j \in Int : buffer[Ring(j)] \in Int
  BY <1>2 DEF TypeOK
<1>6. {buffer[Ring(j)] : j \in 0 .. k - 1} \in SUBSET Int
  BY <1>3, <1>5
<1>7. CopiesNul(k, max_length) \in BOOLEAN
  BY DEF CopiesNul
<1>8. result' \in Outcomes /\ result'.op # "send"
  BY <1>1, <1>3, <1>6, <1>7 DEF Outcomes
<1>9. delivered' \in Int
  BY <1>1, <1>3, <1>5 DEF TypeOK
<1> QED
  BY <1>4, <1>8, <1>9 DEF TypeOK, Read

LEMMA TypeCorrectInit == Init => TypeOK
<1> SUFFICES ASSUME Init
             PROVE  TypeOK
  OBVIOUS
<1>1. result \in Outcomes /\ result.op # "send"
  BY PlainOutcome DEF Init
<1>2. buffer \in [Index -> Int] /\ 0 \in Index
  BY SizeAssumption DEF Init, Index
<1>3. read_position \in Index /\ write_position \in 0 .. Size
  BY <1>2, SizeAssumption DEF Init
<1>4. accepted \in Nat /\ delivered \in Int
  BY DEF Init
<1>5. opened \in BOOLEAN /\ zeroed \in BOOLEAN /\ clear \in BOOLEAN
  BY DEF Init
<1> QED
  BY <1>1, <1>2, <1>3, <1>4, <1>5 DEF TypeOK

LEMMA TypeCorrectStep == TypeOK /\ [Next]_vars => TypeOK'
<1> SUFFICES ASSUME TypeOK, [Next]_vars
             PROVE  TypeOK'
  OBVIOUS
<1>1. CASE Open
  <2>1. result' \in Outcomes /\ result'.op # "send"
    BY <1>1, PlainOutcome DEF Open
  <2>2. 0 \in Index
    BY SizeAssumption DEF Index
  <2> QED
    BY <1>1, <2>1, <2>2, SizeAssumption DEF Open, TypeOK
<1>2. CASE Close
  <2>1. result' \in Outcomes /\ result'.op # "send"
    BY <1>2, PlainOutcome DEF Close
  <2> QED
    BY <1>2, <2>1 DEF Close, TypeOK
<1>3. ASSUME NEW len \in Lengths, Send(len)
      PROVE  TypeOK'
  BY <1>3, SendType
<1>4. ASSUME NEW len \in Lengths, SendTooBig(len)
      PROVE  TypeOK'
  <2>1. result' \in Outcomes /\ result'.op # "send"
    BY <1>4, PlainOutcome DEF SendTooBig
  <2> QED
    BY <1>4, <2>1 DEF SendTooBig, TypeOK
<1>5. ASSUME NEW max_length \in ReadSizes, Read(max_length)
      PROVE  TypeOK'
  BY <1>5, ReadType
<1>6. CASE UNCHANGED vars
  BY <1>6 DEF vars, TypeOK, Outcomes
<1> QED
  BY <1>1, <1>2, <1>3, <1>4, <1>5, <1>6 DEF Next

\* Type correctness and with it the memory safety of the ring, for every
\* capacity, every set of message lengths and every output buffer a reader
\* may pass to stumpless_read_buffer.
THEOREM TypeCorrect == Spec => []TypeOK
BY TypeCorrectInit, TypeCorrectStep, PTL DEF Spec

-----------------------------------------------------------------------------
(***************************************************************************)
(* NewestReadable away from the boundary cases.  The invariant adds that   *)
(* the writer stays inside the ring, and that a ring of two characters     *)
(* stays at its start: the only message it accepts is a boundary case, and *)
(* elsewhere the reader's second step past an overwritten NUL would come   *)
(* back to the writer.                                                     *)
(***************************************************************************)
ReadableInv ==
  /\ TypeOK
  /\ clear => /\ NewestReadable
              /\ write_position # Size
              /\ Size = 2 => write_position = 0

\* Wrapping one step, without the remainder.
LEMMA StepWraps ==
  ASSUME NEW i \in 0 .. Size - 1
  PROVE  (i + 1) % Size = IF i + 1 = Size THEN 0 ELSE i + 1
BY SizeAssumption

\* The overrun adjustment of sendto_buffer_target never leaves the reader on
\* the writer in a ring of more than two characters.
LEMMA SkipLeavesWriter ==
  ASSUME Size > 2, NEW newbuffer, NEW w \in 1 .. Size - 1
  PROVE  SkipOverwritten(newbuffer, w) # w
<1> DEFINE r == (w + 1) % Size
<1>1. r = IF w + 1 = Size THEN 0 ELSE w + 1
  BY StepWraps, SizeAssumption
<1>2. r \in 0 .. Size - 1
  BY <1>1, SizeAssumption
<1>3. (r + 1) % Size = IF r + 1 = Size THEN 0 ELSE r + 1
  BY <1>2, StepWraps
<1>4. r # w /\ (r + 1) % Size # w
  BY <1>1, <1>3, SizeAssumption
<1> HIDE DEF r
<1>5. SkipOverwritten(newbuffer, w) \in {r, (r + 1) % Size}
  BY DEF SkipOverwritten, r
<1> QED
  BY <1>4, <1>5

LEMMA ClearSendReadable ==
  ASSUME ReadableInv, clear, NEW len \in Lengths, Send(len)
  PROVE  read_position' # write_position' /\ write_position' # Size /\ Size > 2
<1>1. ~Boundary(len)
  BY DEF Send
<1>2. len \in Nat \ {0} /\ len < Size
  BY LengthsAssumption DEF Send
<1>3. write_position \in 0 .. Size - 1 /\ read_position \in 0 .. Size - 1
  BY SizeAssumption DEF ReadableInv, TypeOK, Index
<1>4. Size > 2
  BY <1>1, <1>2, SizeAssumption DEF ReadableInv, Boundary
<1> DEFINE w == NextWritePosition(len)
<1>5. w \in 1 .. Size - 1
  BY <1>1, <1>2, <1>3, SizeAssumption
     DEF NextWritePosition, BufferRemaining, Boundary
<1>6. CASE FreeSpaceLeft <= len
  <2>1. read_position' = SkipOverwritten(Written(len, accepted + 1), w)
    BY <1>1, <1>6 DEF Send
  <2> QED
    BY <1>1, <1>4, <1>5, <2>1, SkipLeavesWriter, SizeAssumption DEF Send
<1>7. CASE ~(FreeSpaceLeft <= len)
  <2>1. read_position' = read_position /\ write_position' = w
    BY <1>1, <1>7 DEF Send
  <2>2. read_position # w
    BY <1>1, <1>2, <1>3, <1>7, SizeAssumption
       DEF NextWritePosition, BufferRemaining, FreeSpaceLeft, Boundary
  <2> QED
    BY <1>4, <1>5, <2>1, <2>2, SizeAssumption
<1> QED
  BY <1>6, <1>7

LEMMA ReadableInit == Init => ReadableInv
BY TypeCorrectInit, SizeAssumption DEF Init, ReadableInv, NewestReadable

LEMMA ReadableStep == ReadableInv /\ [Next]_vars => ReadableInv'
<1> SUFFICES ASSUME ReadableInv, [Next]_vars
             PROVE  ReadableInv'
  OBVIOUS
<1>1. TypeOK'
  BY TypeCorrectStep DEF ReadableInv
<1>2. ASSUME NEW len \in Lengths, Send(len)
      PROVE  ReadableInv'
  <2>1. clear' = clear
    BY <1>2 DEF Send
  <2>2. clear => /\ read_position' # write_position'
                 /\ write_position' # Size
                 /\ Size # 2
    BY <1>2, ClearSendReadable, SizeAssumption
  <2> QED
    BY <1>1, <2>1, <2>2 DEF ReadableInv, NewestReadable
<1>3. ASSUME result'.op # "send", clear' = clear,
             write_position' \in {0, write_position}
      PROVE  ReadableInv'
  BY <1>1, <1>3, SizeAssumption DEF ReadableInv, NewestReadable
<1>4. CASE Open
  BY <1>3, <1>4 DEF Open
<1>5. CASE Close
  BY <1>3, <1>5 DEF Close
<1>6. ASSUME NEW len \in Lengths, SendTooBig(len)
      PROVE  ReadableInv'
  BY <1>3, <1>6 DEF SendTooBig
<1>7. ASSUME NEW max_length \in ReadSizes, Read(max_length)
      PROVE  ReadableInv'
  BY <1>3, <1>7 DEF Read
<1>8. CASE UNCHANGED vars
  BY <1>1, <1>8 DEF vars, ReadableInv, NewestReadable
<1> QED
  BY <1>2, <1>4, <1>5, <1>6, <1>7, <1>8 DEF Next

\* Away from the two boundary cases every accepted message leaves a ring that
\* stumpless_read_buffer does not take for an empty one, whatever the sizes.
THEOREM NewestIsReadable == Spec => []ClearNewestReadable
<1>1. ReadableInv => ClearNewestReadable
  BY DEF ReadableInv, ClearNewestReadable
<1> QED
  BY <1>1, ReadableInit, ReadableStep, PTL DEF Spec

-----------------------------------------------------------------------------
(***************************************************************************)
(* ReadsOneMessage.  A read returns the characters up to a NUL, so what    *)
(* has to hold is that characters without a NUL between them belong to the *)
(* same message.  It holds of what was written since the target was        *)
(* opened: the ring up to the writer until the writer wraps for the first  *)
(* time, and from then on the whole ring, across its end too.  A message   *)
(* never continues an older one because a NUL precedes the writer.         *)
(***************************************************************************)
Run(f, i, j) == \A x \in i .. j : f[x] > 0

Runs(f, top) == \A i, j \in 0 .. top - 1 : i <= j /\ Run(f, i, j) => f[i] = f[j]

RunsAround(f) == \A i, j \in Index : Run(f, i, Size - 1) /\ Run(f, 0, j) => f[i] = f[j]

Known(f, top, n) == \A i \in 0 .. top - 1 : f[i] # 0 /\ f[i] <= n

RingInv ==
  /\ TypeOK
  /\ ReadsOneMessage
  /\ write_position > 0 => buffer[write_position - 1] < 0
  /\ \/ /\ write_position < Size /\ read_position <= write_position
        /\ Runs(buffer, write_position) /\ Known(buffer, write_position, accepted)
     \/ /\ write_position > 0
        /\ Runs(buffer, Size) /\ RunsAround(buffer) /\ Known(buffer, Size, accepted)

\* The distance of an index from the writer, without the remainder.
LEMMA FromWriter ==
  ASSUME NEW i \in Index, NEW w \in 0 .. Size
  PROVE  (i - w) % Size = IF i >= w THEN i - w ELSE i - w + Size
<1>1. Size \in Nat \ {0} /\ i \in 0 .. Size - 1
  BY SizeAssumption DEF Index
<1>2. CASE i >= w
  <2>1. i - w \in 0 .. Size - 1
    BY <1>1, <1>2
  <2> QED
    BY <1>1, <1>2, <2>1
<1>3. CASE i < w
  <2>1. i - w + Size \in 0 .. Size - 1 /\ i - w \in Int
    BY <1>1, <1>3
  <2>2. (i - w) % Size = i - w + Size
    BY <1>1, <2>1
  <2> QED
    BY <1>1, <1>3, <2>2
<1> QED
  BY <1>1, <1>2, <1>3

\* What a send writes, when it does not reach the end of the ring and when it
\* does: the message's text, its NUL, and all else as it was.
LEMMA WrittenPlain ==
  ASSUME TypeOK, NEW len \in Lengths, BufferRemaining > len, NEW m, NEW i \in Index
  PROVE  /\ NextWritePosition(len) = write_position + len + 1
         /\ Written(len, m)[i] = IF i = write_position + len THEN -m
                                 ELSE IF i \in write_position .. write_position + len - 1 THEN m
                                 ELSE buffer[i]
<1>1. /\ Size \in Nat \ {0} /\ i \in 0 .. Size - 1
      /\ write_position \in 0 .. Size /\ len \in Nat \ {0}
      /\ Size - write_position > len
  BY SizeAssumption, LengthsAssumption DEF TypeOK, Index, BufferRemaining
<1>2. NextWritePosition(len) = write_position + len + 1
  BY DEF NextWritePosition
<1>3. NextWritePosition(len) - 1 = write_position + len
  BY <1>1, <1>2
<1>4. (i - write_position) % Size = IF i >= write_position THEN i - write_position
                                    ELSE i - write_position + Size
  BY <1>1, FromWriter
<1>5. (i - write_position) % Size < len <=> i \in write_position .. write_position + len - 1
  BY <1>1, <1>4
<1>6. Written(len, m)[i] = IF i = NextWritePosition(len) - 1 THEN -m
                           ELSE IF (i - write_position) % Size < len THEN m ELSE buffer[i]
  BY DEF Written
<1> QED
  BY <1>2, <1>3, <1>5, <1>6

LEMMA WrittenWrapped ==
  ASSUME TypeOK, NEW len \in Lengths, len < Size, ~(BufferRemaining > len), NEW m, NEW i \in Index
  PROVE  /\ NextWritePosition(len) = len - BufferRemaining + 1
         /\ NextWritePosition(len) \in 1 .. write_position
         /\ Written(len, m)[i] = IF i = NextWritePosition(len) - 1 THEN -m
                                 ELSE IF i >= write_position \/ i < NextWritePosition(len) - 1 THEN m
                                 ELSE buffer[i]
<1>1. /\ Size \in Nat \ {0} /\ i \in 0 .. Size - 1
      /\ write_position \in 0 .. Size /\ len \in Nat \ {0}
      /\ Size - write_position <= len /\ BufferRemaining = Size - write_position
  BY SizeAssumption, LengthsAssumption DEF TypeOK, Index, BufferRemaining
<1>2. NextWritePosition(len) = len - BufferRemaining + 1
  BY DEF NextWritePosition
<1>3. /\ NextWritePosition(len) - 1 = len - (Size - write_position)
      /\ NextWritePosition(len) \in 1 .. write_position
  BY <1>1, <1>2
<1>4. (i - write_position) % Size = IF i >= write_position THEN i - write_position
                                    ELSE i - write_position + Size
  BY <1>1, FromWriter
<1>5. i # NextWritePosition(len) - 1 =>
        ((i - write_position) % Size < len <=>
           i >= write_position \/ i < NextWritePosition(len) - 1)
  BY <1>1, <1>3, <1>4
<1>6. Written(len, m)[i] = IF i = NextWritePosition(len) - 1 THEN -m
                           ELSE IF (i - write_position) % Size < len THEN m ELSE buffer[i]
  BY DEF Written
<1> QED
  BY <1>2, <1>3, <1>5, <1>6

\* A message that does not reach the end of the ring, over what was there.
LEMMA PlainRuns ==
  ASSUME NEW w \in 0 .. Size - 1, NEW b \in w .. Size - 1, NEW n \in Nat,
         NEW f \in [Index -> Int], NEW g \in [Index -> Int],
         w > 0 => f[w - 1] < 0,
         \A i \in Index : g[i] = IF i = b THEN -(n + 1) ELSE IF i \in w .. b - 1 THEN n + 1 ELSE f[i]
  PROVE  /\ Runs(f, w) => Runs(g, b + 1)
         /\ Runs(f, Size) => Runs(g, Size)
         /\ Runs(f, w) /\ b + 1 = Size => RunsAround(g)
         /\ w > 0 /\ RunsAround(f) => RunsAround(g)
         /\ Known(f, w, n) => Known(g, b + 1, n + 1)
         /\ Known(f, Size, n) => Known(g, Size, n + 1)
<1>1. Size \in Nat \ {0} /\ Index = 0 .. Size - 1
  BY SizeAssumption DEF Index
<1>2. g[b] < 0 /\ b \in Index
  BY <1>1
<1>3. w > 0 => g[w - 1] < 0 /\ w - 1 \in Index
  BY <1>1
<1>4. \A i \in Index : f[i] \in Int /\ (i < w \/ i > b => g[i] = f[i]) /\ (i \in w .. b - 1 => g[i] = n + 1)
  BY <1>1
<1>5. ASSUME NEW i \in Index, NEW j \in Index, i <= j, Run(g, i, j)
      PROVE  \/ j < w /\ Run(f, i, j) /\ g[i] = f[i] /\ g[j] = f[j]
             \/ i > b /\ Run(f, i, j) /\ g[i] = f[i] /\ g[j] = f[j]
             \/ g[i] = n + 1 /\ g[j] = n + 1 /\ i \in w .. b - 1 /\ j \in w .. b - 1
  <2>1. \A x \in i .. j : x \in Index /\ g[x] > 0
    BY <1>1, <1>5 DEF Run
  <2>2. b \notin i .. j
    BY <1>2, <2>1
  <2>3. w > 0 => w - 1 \notin i .. j
    BY <1>3, <2>1
  <2>4. \/ j < w \/ i > b \/ (i \in w .. b - 1 /\ j \in w .. b - 1)
    BY <1>1, <1>5, <2>2, <2>3
  <2>5. CASE j < w \/ i > b
    <3>1. \A x \in i .. j : g[x] = f[x]
      BY <1>1, <1>4, <2>1, <2>5
    <3>2. i \in i .. j /\ j \in i .. j
      BY <1>1, <1>5
    <3>3. Run(f, i, j)
      BY <2>1, <3>1 DEF Run
    <3> QED
      BY <2>5, <3>1, <3>2, <3>3
  <2>6. CASE i \in w .. b - 1 /\ j \in w .. b - 1
    BY <1>4, <2>6
  <2> QED
    BY <2>4, <2>5, <2>6
<1>6. ASSUME Runs(f, w) PROVE Runs(g, b + 1)
  <2> SUFFICES ASSUME NEW i \in 0 .. b, NEW j \in 0 .. b, i <= j, Run(g, i, j)
               PROVE  g[i] = g[j]
    BY <1>1 DEF Runs
  <2>1. i \in Index /\ j \in Index /\ ~(i > b)
    BY <1>1
  <2>2. j < w => i \in 0 .. w - 1 /\ j \in 0 .. w - 1
    BY <1>1
  <2> QED
    BY <1>5, <1>6, <2>1, <2>2 DEF Runs
<1>7. ASSUME Runs(f, Size) PROVE Runs(g, Size)
  BY <1>1, <1>5, <1>7 DEF Runs
<1>8. ASSUME NEW i \in Index, NEW j \in Index, Run(g, i, Size - 1), Run(g, 0, j)
      PROVE  /\ b + 1 # Size
             /\ w > 0 /\ RunsAround(f) => g[i] = g[j]
  <2>1. i > b
    BY <1>1, <1>2, <1>8 DEF Run
  <2>2. b + 1 # Size
    BY <1>1, <2>1
  <2>3. Run(f, i, Size - 1) /\ g[i] = f[i]
    <3>1. Size - 1 \in Index /\ i <= Size - 1 /\ ~(i \in w .. b - 1)
      BY <1>1, <2>1
    <3>2. Size - 1 >= w
      BY <1>1
    <3> QED
      BY <1>1, <1>5, <1>8, <2>1, <3>1, <3>2
  <2>4. ASSUME w > 0 PROVE j < w
    <3>1. w - 1 \notin 0 .. j
      BY <1>3, <1>8, <2>4 DEF Run
    <3> QED
      BY <1>1, <2>4, <3>1
  <2>5. ASSUME w > 0 PROVE Run(f, 0, j) /\ g[j] = f[j]
    <3>1. 0 \in Index /\ 0 <= j
      BY <1>1
    <3>2. ~(0 > b) /\ ~(0 \in w .. b - 1)
      BY <1>1, <2>5
    <3> QED
      BY <1>5, <1>8, <3>1, <3>2
  <2> QED
    BY <2>2, <2>3, <2>5 DEF RunsAround
<1>9. /\ Runs(f, w) /\ b + 1 = Size => RunsAround(g)
      /\ w > 0 /\ RunsAround(f) => RunsAround(g)
  BY <1>8 DEF RunsAround
<1>10. ASSUME NEW i \in Index, i <= b \/ (f[i] # 0 /\ f[i] <= n),
              i < w => f[i] # 0 /\ f[i] <= n
       PROVE  g[i] # 0 /\ g[i] <= n + 1
  <2>1. CASE i = b
    BY <1>1, <2>1
  <2>2. CASE i \in w .. b - 1
    BY <1>4, <2>2
  <2>3. CASE i < w \/ i > b
    <3>1. g[i] = f[i] /\ f[i] \in Int /\ f[i] # 0 /\ f[i] <= n
      BY <1>1, <1>4, <1>10, <2>3
    <3> QED
      BY <3>1
  <2> QED
    BY <1>1, <2>1, <2>2, <2>3
<1>11. Known(f, w, n) => Known(g, b + 1, n + 1)
  <2> SUFFICES ASSUME Known(f, w, n), NEW i \in 0 .. b PROVE g[i] # 0 /\ g[i] <= n + 1
    BY <1>1 DEF Known
  <2>1. i \in Index /\ i <= b /\ (i < w => i \in 0 .. w - 1)
    BY <1>1
  <2> QED
    BY <1>10, <2>1 DEF Known
<1>12. Known(f, Size, n) => Known(g, Size, n + 1)
  BY <1>1, <1>10 DEF Known
<1> QED
  BY <1>6, <1>7, <1>9, <1>11, <1>12

\* A message that wraps: from w to the end, and from the beginning to its NUL
\* at b, before w.
LEMMA WrappedRuns ==
  ASSUME NEW w \in 1 .. Size, NEW b \in 0 .. w - 1, NEW n \in Nat,
         NEW f \in [Index -> Int], NEW g \in [Index -> Int],
         f[w - 1] < 0,
         \A i \in Index : g[i] = IF i = b THEN -(n + 1) ELSE IF i >= w \/ i < b THEN n + 1 ELSE f[i]
  PROVE  /\ Runs(f, w) => Runs(g, Size)
         /\ RunsAround(g)
         /\ Known(f, w, n) => Known(g, Size, n + 1)
<1>1. Size \in Nat \ {0} /\ Index = 0 .. Size - 1
  BY SizeAssumption DEF Index
<1>2. g[b] < 0 /\ b \in Index
  BY <1>1
<1>3. g[w - 1] < 0 /\ w - 1 \in Index
  BY <1>1
<1>4. \A i \in Index : f[i] \in Int /\ (b < i /\ i < w => g[i] = f[i]) /\ (i >= w \/ i < b => g[i] = n + 1)
  BY <1>1
<1>5. ASSUME Runs(f, w) PROVE Runs(g, Size)
  <2> SUFFICES ASSUME NEW i \in Index, NEW j \in Index, i <= j, Run(g, i, j)
               PROVE  g[i] = g[j]
    BY <1>1 DEF Runs
  <2>1. \A x \in i .. j : x \in Index /\ g[x] > 0
    BY <1>1 DEF Run
  <2>2. b \notin i .. j /\ w - 1 \notin i .. j
    BY <1>2, <1>3, <2>1
  <2>3. \/ j < b \/ i >= w \/ (b < i /\ j < w)
    BY <1>1, <2>2
  <2>4. CASE j < b \/ i >= w
    BY <1>1, <1>4, <2>4
  <2>5. CASE b < i /\ j < w
    <3>1. \A x \in i .. j : g[x] = f[x]
      BY <1>1, <1>4, <2>1, <2>5
    <3>2. Run(f, i, j) /\ i \in i .. j /\ j \in i .. j /\ i \in 0 .. w - 1 /\ j \in 0 .. w - 1
      BY <1>1, <2>1, <2>5, <3>1 DEF Run
    <3> QED
      BY <1>5, <3>1, <3>2 DEF Runs
  <2> QED
    BY <2>3, <2>4, <2>5
<1>6. ASSUME NEW i \in Index, NEW j \in Index, Run(g, i, Size - 1), Run(g, 0, j)
      PROVE  g[i] = g[j]
  <2>1. i >= w
    <3>1. w - 1 \notin i .. Size - 1
      BY <1>3, <1>6 DEF Run
    <3> QED
      BY <1>1, <3>1
  <2>2. j < b
    <3>1. b \notin 0 .. j
      BY <1>2, <1>6 DEF Run
    <3> QED
      BY <1>1, <3>1
  <2> QED
    BY <1>4, <2>1, <2>2
<1>7. ASSUME Known(f, w, n), NEW i \in Index PROVE g[i] # 0 /\ g[i] <= n + 1
  <2>1. CASE i = b
    BY <1>1, <2>1
  <2>2. CASE i >= w \/ i < b
    BY <1>4, <2>2
  <2>3. CASE b < i /\ i < w
    <3>1. g[i] = f[i] /\ f[i] \in Int /\ f[i] # 0 /\ f[i] <= n
      BY <1>1, <1>4, <1>7, <2>3 DEF Known
    <3> QED
      BY <3>1
  <2> QED
    BY <1>1, <2>1, <2>2, <2>3
<1> QED
  BY <1>1, <1>5, <1>6, <1>7 DEF RunsAround, Known

LEMMA SendRing ==
  ASSUME RingInv, NEW len \in Lengths, Send(len)
  PROVE  RingInv'
<1>1. /\ Size \in Nat \ {0} /\ write_position \in 0 .. Size /\ len \in Nat \ {0} /\ len < Size
      /\ accepted \in Nat /\ Index = 0 .. Size - 1 /\ read_position \in 0 .. Size - 1
      /\ buffer \in [Index -> Int]
  BY SizeAssumption, LengthsAssumption DEF RingInv, TypeOK, Index, Send
<1>2. TypeOK'
  BY SendType DEF RingInv
<1>3. ReadsOneMessage'
  BY DEF Send, ReadsOneMessage
<1>4. /\ write_position' = NextWritePosition(len)
      /\ buffer' = Written(len, accepted + 1)
      /\ accepted' = accepted + 1
  BY DEF Send
<1>5. /\ write_position > 0 => buffer[write_position - 1] < 0
      /\ \/ /\ write_position < Size /\ read_position <= write_position
            /\ Runs(buffer, write_position) /\ Known(buffer, write_position, accepted)
         \/ /\ write_position > 0
            /\ Runs(buffer, Size) /\ RunsAround(buffer) /\ Known(buffer, Size, accepted)
  BY DEF RingInv
<1>6. buffer' \in [Index -> Int]
  BY <1>2 DEF TypeOK
<1>7. CASE BufferRemaining > len
  <2>0. PICK b \in Int : b = write_position + len
    BY <1>1
  <2>1. b \in write_position .. Size - 1 /\ write_position \in 0 .. Size - 1 /\ b + 1 \in 1 .. Size
    BY <1>1, <1>7, <2>0 DEF BufferRemaining
  <2>2. /\ write_position' = b + 1
        /\ \A i \in Index : buffer'[i] = IF i = b THEN -(accepted + 1)
                                         ELSE IF i \in write_position .. b - 1 THEN accepted + 1
                                         ELSE buffer[i]
    <3>1. 0 \in Index
      BY <1>1
    <3>2. \A i \in Index :
            /\ NextWritePosition(len) = write_position + len + 1
            /\ Written(len, accepted + 1)[i] =
                 IF i = write_position + len THEN -(accepted + 1)
                 ELSE IF i \in write_position .. write_position + len - 1 THEN accepted + 1
                 ELSE buffer[i]
      BY <1>7, WrittenPlain DEF RingInv
    <3>3. write_position' = b + 1
      <4>1. NextWritePosition(len) = write_position + len + 1
        BY <3>1, <3>2
      <4> QED
        BY <1>1, <1>4, <2>0, <4>1
    <3>4. ASSUME NEW i \in Index
          PROVE  buffer'[i] = IF i = b THEN -(accepted + 1)
                              ELSE IF i \in write_position .. b - 1 THEN accepted + 1
                              ELSE buffer[i]
      <4>1. buffer'[i] = Written(len, accepted + 1)[i]
        BY <1>4
      <4>2. Written(len, accepted + 1)[i] =
              IF i = b THEN -(accepted + 1)
              ELSE IF i \in write_position .. b - 1 THEN accepted + 1
              ELSE buffer[i]
        BY <1>1, <2>0, <3>2
      <4> QED
        BY <4>1, <4>2
    <3> QED
      BY <3>3, <3>4
  <2>3. /\ Runs(buffer, write_position) => Runs(buffer', b + 1)
        /\ Runs(buffer, Size) => Runs(buffer', Size)
        /\ Runs(buffer, write_position) /\ b + 1 = Size => RunsAround(buffer')
        /\ write_position > 0 /\ RunsAround(buffer) => RunsAround(buffer')
        /\ Known(buffer, write_position, accepted) => Known(buffer', b + 1, accepted + 1)
        /\ Known(buffer, Size, accepted) => Known(buffer', Size, accepted + 1)
    BY <1>1, <1>5, <1>6, <2>1, <2>2, PlainRuns
  <2>4. write_position' > 0 /\ write_position' - 1 = b
    BY <1>1, <2>1, <2>2
  <2>5. buffer'[write_position' - 1] < 0
    BY <1>1, <2>1, <2>2, <2>4
  <2>6. read_position <= write_position => read_position' = read_position
    BY <1>1, <1>7 DEF Send, FreeSpaceLeft, BufferRemaining
  <2>7. CASE /\ read_position <= write_position
             /\ Runs(buffer, write_position) /\ Known(buffer, write_position, accepted)
    <3>1. read_position' <= write_position'
      BY <1>1, <2>1, <2>2, <2>6, <2>7
    <3>2. Runs(buffer', write_position') /\ Known(buffer', write_position', accepted')
      BY <1>4, <2>2, <2>3, <2>7
    <3>3. CASE b + 1 = Size
      BY <1>2, <1>3, <1>4, <2>2, <2>3, <2>4, <2>5, <2>7, <3>2, <3>3 DEF RingInv, Runs, Run, RunsAround, Known
    <3>4. CASE b + 1 # Size
      <4>1. write_position' < Size
        BY <1>1, <2>1, <2>2, <3>4
      <4> QED
        BY <1>2, <1>3, <2>5, <3>1, <3>2, <4>1 DEF RingInv, Runs, Run, RunsAround, Known
    <3> QED
      BY <3>3, <3>4
  <2>8. CASE /\ write_position > 0
             /\ Runs(buffer, Size) /\ RunsAround(buffer) /\ Known(buffer, Size, accepted)
    BY <1>2, <1>3, <1>4, <2>3, <2>4, <2>5, <2>8 DEF RingInv, Runs, Run, RunsAround, Known
  <2> QED
    BY <1>5, <2>7, <2>8
<1>8. CASE ~(BufferRemaining > len)
  <2> DEFINE b == NextWritePosition(len) - 1
  <2>1. 0 \in Index
    BY <1>1
  <2>2. /\ NextWritePosition(len) \in 1 .. write_position
        /\ \A i \in Index : buffer'[i] = IF i = b THEN -(accepted + 1)
                                         ELSE IF i >= write_position \/ i < b THEN accepted + 1
                                         ELSE buffer[i]
    BY <1>1, <1>4, <1>8, <2>1, WrittenWrapped DEF RingInv
  <2>3. write_position \in 1 .. Size /\ b \in 0 .. write_position - 1 /\ b \in Index
    BY <1>1, <2>2
  <2>4. write_position' - 1 = b /\ write_position' > 0
    BY <1>1, <1>4, <2>2
  <2> HIDE DEF b
  <2>5. buffer[write_position - 1] < 0
    BY <1>1, <1>5, <2>3
  <2>6. Runs(buffer, write_position) /\ Known(buffer, write_position, accepted)
    BY <1>1, <1>5, <2>3 DEF Runs, Known
  <2>7. Runs(buffer', Size) /\ RunsAround(buffer') /\ Known(buffer', Size, accepted + 1)
    <3>1. accepted \in Nat /\ buffer \in [Index -> Int]
      BY <1>1
    <3>2. \A i \in Index : buffer'[i] = IF i = b THEN -(accepted + 1)
                                       ELSE IF i >= write_position \/ i < b THEN accepted + 1
                                       ELSE buffer[i]
      BY <2>2
    <3>3. write_position \in 1 .. Size /\ b \in 0 .. write_position - 1
      BY <2>3
    <3> QED
      BY <1>6, <2>5, <2>6, <3>1, <3>2, <3>3, WrappedRuns
  <2>8. buffer'[write_position' - 1] < 0
    BY <1>1, <2>2, <2>3, <2>4
  <2> QED
    BY <1>2, <1>3, <1>4, <2>4, <2>7, <2>8 DEF RingInv, Runs, Run, RunsAround, Known
<1> QED
  BY <1>7, <1>8

\* An index of the reader, without the remainder.
LEMMA FromReader ==
  ASSUME NEW r \in Index, NEW j \in 0 .. Size
  PROVE  (r + j) % Size = IF r + j < Size THEN r + j ELSE r + j - Size
<1>1. Size \in Nat \ {0} /\ r \in 0 .. Size - 1
  BY SizeAssumption DEF Index
<1>2. CASE r + j < Size
  <2>1. r + j \in 0 .. Size - 1
    BY <1>1, <1>2
  <2> QED
    BY <1>1, <1>2, <2>1
<1>3. CASE r + j >= Size
  <2>1. r + j - Size \in 0 .. Size - 1 /\ r + j \in Int
    BY <1>1, <1>3
  <2>2. (r + j) % Size = r + j - Size
    BY <1>1, <2>1
  <2> QED
    BY <1>1, <1>3, <2>2
<1> QED
  BY <1>1, <1>2, <1>3

\* A read stays behind a writer that has not wrapped yet.
LEMMA ReadBehindWriter ==
  ASSUME TypeOK, write_position < Size, read_position <= write_position,
         NEW max_length \in ReadSizes, NEW k \in 0 .. max_length - 1,
         FirstStop(k, max_length)
  PROVE  /\ read_position + k <= write_position
         /\ \A j \in 0 .. k : Ring(j) = read_position + j
         /\ Ring(k) # write_position => Ring(k + 1) = read_position + k + 1
<1>1. /\ Size \in Nat \ {0} /\ Index = 0 .. Size - 1
      /\ read_position \in 0 .. Size - 1 /\ write_position \in 0 .. Size - 1
      /\ max_length \in Nat \ {0} /\ k \in Nat
  BY SizeAssumption, ReadSizesAssumption DEF TypeOK, Index
<1>2. \A j \in 0 .. Size : Ring(j) = IF read_position + j < Size THEN read_position + j
                                     ELSE read_position + j - Size
  BY <1>1, FromReader DEF Ring
<1>3. read_position + k <= write_position
  <2>1. SUFFICES ASSUME read_position + k > write_position PROVE FALSE
    BY <1>1
  <2> DEFINE d == write_position - read_position
  <2>2. d \in 0 .. k - 1 /\ d \in 0 .. Size /\ read_position + d = write_position
    BY <1>1, <2>1
  <2>3. Ring(d) = write_position
    BY <1>1, <1>2, <2>2
  <2> HIDE DEF d
  <2> QED
    BY <2>2, <2>3 DEF FirstStop, StopsAt
<1>4. \A j \in 0 .. k : j \in 0 .. Size /\ read_position + j < Size
  BY <1>1, <1>3
<1>5. \A j \in 0 .. k : Ring(j) = read_position + j
  BY <1>2, <1>4
<1>6. ASSUME Ring(k) # write_position PROVE Ring(k + 1) = read_position + k + 1
  <2>1. Ring(k) = read_position + k
    BY <1>1, <1>5
  <2>2. k + 1 \in 0 .. Size /\ read_position + (k + 1) < Size
    BY <1>1, <1>3, <1>6, <2>1
  <2> QED
    BY <1>1, <1>2, <2>2
<1> QED
  BY <1>3, <1>5, <1>6

\* A read ends at the latest at the NUL before the writer, so it goes around
\* the end of the ring at most once.
LEMMA ReadOnceAround ==
  ASSUME TypeOK, write_position > 0, buffer[write_position - 1] < 0,
         NEW max_length \in ReadSizes, NEW k \in 0 .. max_length - 1,
         FirstStop(k, max_length)
  PROVE  /\ k < Size
         /\ \A j \in 0 .. k : Ring(j) = IF read_position + j < Size THEN read_position + j
                                        ELSE read_position + j - Size
<1>1. /\ Size \in Nat \ {0} /\ Index = 0 .. Size - 1
      /\ read_position \in 0 .. Size - 1 /\ write_position \in 1 .. Size
      /\ max_length \in Nat \ {0} /\ k \in Nat
  BY SizeAssumption, ReadSizesAssumption DEF TypeOK, Index
<1>2. \A j \in 0 .. Size : Ring(j) = IF read_position + j < Size THEN read_position + j
                                     ELSE read_position + j - Size
  BY <1>1, FromReader DEF Ring
<1>3. PICK d \in 0 .. Size - 1 : Ring(d) = write_position - 1
  <2> DEFINE e == IF write_position - 1 >= read_position THEN write_position - 1 - read_position
                  ELSE write_position - 1 - read_position + Size
  <2>1. e \in 0 .. Size - 1 /\ e \in 0 .. Size
    BY <1>1
  <2>2. (IF read_position + e < Size THEN read_position + e ELSE read_position + e - Size)
          = write_position - 1
    BY <1>1
  <2>3. Ring(e) = write_position - 1
    BY <1>2, <2>1, <2>2
  <2> QED
    BY <2>1, <2>3
<1>4. StopsAt(d, max_length)
  BY <1>3 DEF StopsAt, IsNul
<1>5. k <= d
  <2>1. d \notin 0 .. k - 1
    BY <1>4 DEF FirstStop
  <2> QED
    BY <1>1, <2>1
<1> QED
  BY <1>1, <1>2, <1>5

\* What the characters a read copies have in common.
LEMMA ReadOneRun ==
  ASSUME RingInv, NEW max_length \in ReadSizes, NEW k \in 0 .. max_length - 1,
         FirstStop(k, max_length), NEW j \in 0 .. k - 1
  PROVE  /\ buffer[Ring(j)] = buffer[read_position]
         /\ buffer[read_position] \in 1 .. accepted
<1>1. /\ Size \in Nat \ {0} /\ Index = 0 .. Size - 1 /\ TypeOK
      /\ read_position \in 0 .. Size - 1 /\ write_position \in 0 .. Size
      /\ max_length \in Nat \ {0} /\ k \in Nat /\ k > 0 /\ accepted \in Nat
      /\ \A i \in Index : buffer[i] \in Int
  BY SizeAssumption, ReadSizesAssumption DEF RingInv, TypeOK, Index
<1>2. \A x \in 0 .. k - 1 : ~(buffer[Ring(x)] < 0)
  BY DEF FirstStop, StopsAt, IsNul
<1>3. CASE /\ write_position < Size /\ read_position <= write_position
           /\ Runs(buffer, write_position) /\ Known(buffer, write_position, accepted)
  <2>1. /\ read_position + k <= write_position
        /\ \A x \in 0 .. k : Ring(x) = read_position + x
    BY <1>1, <1>3, ReadBehindWriter
  <2>2. \A i \in read_position .. read_position + k - 1 :
          i \in 0 .. write_position - 1 /\ i - read_position \in 0 .. k - 1 /\ i \in Index
    BY <1>1, <2>1
  <2>3. \A i \in read_position .. read_position + k - 1 : Ring(i - read_position) = i
    BY <1>1, <2>1, <2>2
  <2>4. ASSUME NEW i \in read_position .. read_position + k - 1 PROVE buffer[i] \in 1 .. accepted
    <3>1. ~(buffer[i] < 0)
      BY <1>2, <2>2, <2>3
    <3>2. buffer[i] # 0 /\ buffer[i] <= accepted
      BY <1>3, <2>2 DEF Known
    <3>3. buffer[i] \in Int
      BY <1>1, <2>2
    <3> QED
      BY <1>1, <3>1, <3>2, <3>3
  <2>5. read_position \in read_position .. read_position + k - 1
    BY <1>1
  <2>6. Ring(j) = read_position + j /\ read_position + j \in read_position .. read_position + k - 1
    BY <1>1, <2>1
  <2>7. Run(buffer, read_position, read_position + j)
    <3>1. \A x \in read_position .. read_position + j : x \in read_position .. read_position + k - 1
      BY <1>1
    <3> QED
      BY <1>1, <2>4, <3>1 DEF Run
  <2>8. buffer[read_position] = buffer[read_position + j]
    <3>1. read_position \in 0 .. write_position - 1 /\ read_position + j \in 0 .. write_position - 1
      BY <2>2, <2>5, <2>6
    <3>2. read_position <= read_position + j
      BY <1>1
    <3> QED
      BY <1>3, <2>7, <3>1, <3>2 DEF Runs
  <2> QED
    BY <2>4, <2>5, <2>6, <2>8
<1>4. CASE /\ write_position > 0
           /\ Runs(buffer, Size) /\ RunsAround(buffer) /\ Known(buffer, Size, accepted)
  <2>1. buffer[write_position - 1] < 0
    BY <1>4 DEF RingInv
  <2>2. /\ k < Size
        /\ \A x \in 0 .. k : Ring(x) = IF read_position + x < Size THEN read_position + x
                                       ELSE read_position + x - Size
    BY <1>1, <1>4, <2>1, ReadOnceAround
  <2>3. ASSUME NEW x \in 0 .. k - 1 PROVE Ring(x) \in Index /\ buffer[Ring(x)] \in 1 .. accepted
    <3>1. Ring(x) \in 0 .. Size - 1
      BY <1>1, <2>2
    <3>2. buffer[Ring(x)] # 0 /\ buffer[Ring(x)] <= accepted
      BY <1>4, <3>1 DEF Known
    <3>3. buffer[Ring(x)] \in Int /\ ~(buffer[Ring(x)] < 0)
      BY <1>1, <1>2, <3>1
    <3> QED
      BY <1>1, <3>1, <3>2, <3>3
  <2>4. Ring(0) = read_position /\ 0 \in 0 .. k - 1
    BY <1>1, <2>2
  <2>5. CASE read_position + j < Size
    <3>1. Ring(j) = read_position + j
      BY <1>1, <2>2, <2>5
    <3>2. ASSUME NEW i \in read_position .. read_position + j PROVE buffer[i] > 0
      <4>1. i - read_position \in 0 .. k - 1 /\ read_position + (i - read_position) = i
        BY <1>1
      <4>2. i < Size /\ i - read_position \in 0 .. k
        BY <1>1, <2>5
      <4>3. Ring(i - read_position) = i
        BY <2>2, <4>1, <4>2
      <4>4. buffer[i] \in 1 .. accepted
        BY <2>3, <4>1, <4>3
      <4> QED
        BY <1>1, <4>4
    <3>3. Run(buffer, read_position, read_position + j)
      BY <3>2 DEF Run
    <3>4. /\ read_position \in 0 .. Size - 1 /\ read_position + j \in 0 .. Size - 1
          /\ read_position <= read_position + j
      BY <1>1, <2>5
    <3> QED
      BY <1>4, <2>3, <2>4, <3>1, <3>3, <3>4 DEF Runs
  <2>6. CASE read_position + j >= Size
    <3>1. Ring(j) = read_position + j - Size
      BY <1>1, <2>2, <2>6
    <3>2. ASSUME NEW i \in read_position .. Size - 1 PROVE buffer[i] > 0
      <4>1. i - read_position \in 0 .. k - 1 /\ read_position + (i - read_position) = i
        BY <1>1, <2>6
      <4>2. i < Size /\ i - read_position \in 0 .. k
        BY <1>1, <2>6
      <4>3. Ring(i - read_position) = i
        BY <2>2, <4>1, <4>2
      <4>4. buffer[i] \in 1 .. accepted
        BY <2>3, <4>1, <4>3
      <4> QED
        BY <1>1, <4>4
    <3>3. ASSUME NEW i \in 0 .. read_position + j - Size PROVE buffer[i] > 0
      <4>1. PICK y \in 0 .. k - 1 : read_position + y = i + Size
        <5>1. i + Size - read_position \in 0 .. k - 1
          BY <1>1, <2>6
        <5>2. read_position + (i + Size - read_position) = i + Size
          BY <1>1
        <5> QED
          BY <5>1, <5>2
      <4>2. y \in 0 .. k /\ ~(i + Size < Size) /\ i + Size - Size = i
        BY <1>1
      <4>3. Ring(y) = i
        <5>1. Ring(y) = IF read_position + y < Size THEN read_position + y
                        ELSE read_position + y - Size
          BY <2>2, <4>2
        <5> QED
          BY <1>1, <4>1, <4>2, <5>1
      <4>4. buffer[i] \in 1 .. accepted
        BY <2>3, <4>1, <4>3
      <4> QED
        BY <1>1, <4>4
    <3>4. read_position \in Index /\ read_position + j - Size \in Index
      BY <1>1, <2>2, <2>6
    <3>5. Run(buffer, read_position, Size - 1) /\ Run(buffer, 0, read_position + j - Size)
      BY <3>2, <3>3 DEF Run
    <3> QED
      BY <1>4, <2>3, <2>4, <3>1, <3>4, <3>5 DEF RunsAround
  <2> QED
    BY <1>1, <2>5, <2>6
<1> QED
  BY <1>3, <1>4 DEF RingInv

LEMMA ReadRing ==
  ASSUME RingInv, NEW max_length \in ReadSizes, Read(max_length)
  PROVE  RingInv'
<1>1. TypeOK' /\ TypeOK
  BY ReadType DEF RingInv
<1>2. PICK k \in 0 .. max_length - 1 :
        /\ FirstStop(k, max_length)
        /\ read_position' = IF CopiesNul(k, max_length) THEN Ring(k + 1) ELSE Ring(k)
        /\ result'.text = {buffer[Ring(j)] : j \in 0 .. k - 1}
  BY DEF Read
<1>3. \A j \in 0 .. k - 1 : /\ buffer[Ring(j)] = buffer[read_position]
                            /\ buffer[read_position] \in 1 .. accepted
  BY <1>2, ReadOneRun
<1>4. UNCHANGED << buffer, write_position, accepted >>
  BY DEF Read
<1>5. ReadsOneMessage'
  <2>1. k \in Nat
    BY ReadSizesAssumption
  <2>2. CASE k = 0
    <3>1. result'.text = {}
      BY <1>2, <2>1, <2>2
    <3> QED
      BY <3>1 DEF ReadsOneMessage
  <2>3. CASE k > 0
    <3>1. 0 \in 0 .. k - 1
      BY <2>1, <2>3
    <3>2. result'.text = {buffer[read_position]} /\ buffer[read_position] \in 1 .. accepted
      BY <1>2, <1>3, <3>1
    <3> QED
      BY <1>4, <3>2 DEF ReadsOneMessage
  <2> QED
    BY <2>1, <2>2, <2>3
<1>6. CASE /\ write_position < Size /\ read_position <= write_position
           /\ Runs(buffer, write_position) /\ Known(buffer, write_position, accepted)
  <2>1. /\ read_position + k <= write_position
        /\ \A j \in 0 .. k : Ring(j) = read_position + j
        /\ Ring(k) # write_position => Ring(k + 1) = read_position + k + 1
    BY <1>1, <1>2, <1>6, ReadBehindWriter
  <2>2. /\ read_position \in Int /\ write_position \in Int /\ k \in Nat /\ Ring(k) = read_position + k
    BY <1>1, <2>1, ReadSizesAssumption, SizeAssumption DEF TypeOK, Index
  <2>3. read_position' <= write_position
    BY <1>2, <2>1, <2>2 DEF CopiesNul
  <2> QED
    BY <1>1, <1>4, <1>5, <1>6, <2>3 DEF RingInv, Runs, Run, RunsAround, Known
<1>7. CASE /\ write_position > 0
           /\ Runs(buffer, Size) /\ RunsAround(buffer) /\ Known(buffer, Size, accepted)
  BY <1>1, <1>4, <1>5, <1>7 DEF RingInv, Runs, Run, RunsAround, Known
<1> QED
  BY <1>6, <1>7 DEF RingInv

\* One call of stumpless_read_buffer never mixes two messages and never returns
\* what the memory held before the first one, whatever the capacity, the
\* lengths of the messages, the sizes of the reads and the overruns.
THEOREM ReadsAreOneMessage == Spec => []ReadsOneMessage
<1>1. Init => RingInv
  <2> SUFFICES ASSUME Init PROVE RingInv
    OBVIOUS
  <2>1. TypeOK /\ ReadsOneMessage
    BY TypeCorrectInit DEF Init, ReadsOneMessage
  <2> QED
    BY <2>1, SizeAssumption DEF Init, RingInv, Runs, Known
<1>2. RingInv /\ [Next]_vars => RingInv'
  <2> SUFFICES ASSUME RingInv, [Next]_vars PROVE RingInv'
    OBVIOUS
  <2>1. TypeOK'
    BY TypeCorrectStep DEF RingInv
  <2>2. ASSUME UNCHANGED << buffer, read_position, write_position, accepted >>, ReadsOneMessage'
        PROVE  RingInv'
    BY <2>1, <2>2 DEF RingInv, Runs, Run, RunsAround, Known
  <2>3. CASE Open
    <3>1. ReadsOneMessage' /\ write_position' = 0 /\ read_position' = 0
      BY <2>3 DEF Open, ReadsOneMessage
    <3> QED
      BY <2>1, <3>1, SizeAssumption DEF RingInv, Runs, Known
  <2>4. CASE Close
    BY <2>2, <2>4 DEF Close, ReadsOneMessage
  <2>5. ASSUME NEW len \in Lengths, Send(len) PROVE RingInv'
    BY <2>5, SendRing
  <2>6. ASSUME NEW len \in Lengths, SendTooBig(len) PROVE RingInv'
    BY <2>2, <2>6 DEF SendTooBig, ReadsOneMessage
  <2>7. ASSUME NEW max_length \in ReadSizes, Read(max_length) PROVE RingInv'
    BY <2>7, ReadRing
  <2>8. CASE UNCHANGED vars
    BY <2>2, <2>8 DEF vars, RingInv, ReadsOneMessage
  <2> QED
    BY <2>3, <2>4, <2>5, <2>6, <2>7, <2>8 DEF Next
<1>3. RingInv => ReadsOneMessage
  BY DEF RingInv
<1> QED
  BY <1>1, <1>2, <1>3, PTL DEF Spec

-----------------------------------------------------------------------------
(***************************************************************************)
(* ImplementsLossyQueue.  The characters between the two positions, oldest *)
(* first, are a window on the messages: their numbers never decrease, and  *)
(* increase exactly across a NUL, and the last character is the NUL of the *)
(* newest message.  A send appends a message to the window and an overrun  *)
(* drops some of its first characters; a read drops the characters it      *)
(* returns.  The queue is the set of the window's messages.                *)
(***************************************************************************)
Unended(c, i, j) == \A z \in i .. j - 1 : c[z] > 0

Window(c, d, n) ==
  /\ \A i \in 0 .. d - 1 : c[i] # 0 /\ MessageOf(c[i]) <= n
  /\ \A i, j \in 0 .. d - 1 :
       i < j => IF Unended(c, i, j) THEN MessageOf(c[i]) = MessageOf(c[j])
                ELSE MessageOf(c[i]) < MessageOf(c[j])
  /\ d > 0 => c[d - 1] < 0

Messages(c, d) == {MessageOf(c[i]) : i \in 0 .. d - 1}

PlaceOf(r, i) == (r + i) % Size

Apart(r, w) == (w - r) % Size

View(f, r, w) == [i \in 0 .. Apart(r, w) - 1 |-> f[PlaceOf(r, i)]]

WindowInv ==
  /\ ReadableInv
  /\ clear /\ opened => Window(View(buffer, read_position, write_position),
                              Apart(read_position, write_position), accepted)

LEMMA MessageOfType ==
  ASSUME NEW b \in Int
  PROVE  MessageOf(b) \in Nat /\ (b # 0 => MessageOf(b) > 0)
BY DEF MessageOf

\* Messages never go back inside a window.
LEMMA WindowOrdered ==
  ASSUME NEW d \in Nat, NEW n \in Nat, NEW c \in [0 .. d - 1 -> Int], Window(c, d, n),
         NEW i \in 0 .. d - 1, NEW j \in 0 .. d - 1, i <= j
  PROVE  MessageOf(c[i]) <= MessageOf(c[j])
<1>1. c[i] \in Int /\ c[j] \in Int
  OBVIOUS
<1>2. MessageOf(c[i]) \in Nat /\ MessageOf(c[j]) \in Nat
  BY <1>1, MessageOfType
<1>3. CASE i = j
  BY <1>2, <1>3
<1>4. CASE i < j
  BY <1>2, <1>4 DEF Window
<1> QED
  BY <1>3, <1>4

\* The window c2 is c, of length d, with message m of len characters and its
\* NUL at the end and without its first e characters.
Appended(c2, c, d, len, e, m) ==
  \A i \in 0 .. d + len - e :
    c2[i] = IF e + i < d THEN c[e + i] ELSE IF e + i < d + len THEN m ELSE -m

\* What QueueSend says of the queue.
Displaced(new, old, n) ==
  \E cut \in 0 .. n : new = {m \in old : m > cut} \cup {n + 1}

\* A send: the window loses e first characters of what it was with the new
\* message, len characters and a NUL, at its end.
LEMMA WindowAfterSend ==
  ASSUME NEW d \in Nat, NEW n \in Nat, NEW c \in [0 .. d - 1 -> Int], Window(c, d, n),
         NEW len \in Nat \ {0}, NEW e \in 0 .. d + len,
         NEW c2 \in [0 .. d + len - e -> Int], Appended(c2, c, d, len, e, n + 1)
  PROVE  /\ Window(c2, d + len + 1 - e, n + 1)
         /\ Displaced(Messages(c2, d + len + 1 - e), Messages(c, d), n)
<1>1. PICK top \in Nat : top = d + len - e
  OBVIOUS
<1>2. /\ d + len + 1 - e = top + 1
      /\ 0 .. (top + 1) - 1 = 0 .. top /\ (top + 1) - 1 = top
      /\ 0 .. d + len - e = 0 .. top
  BY <1>1
<1>3. ASSUME NEW i \in 0 .. top
      PROVE  /\ e + i < d => /\ e + i \in 0 .. d - 1
                             /\ c2[i] = c[e + i]
                             /\ c[e + i] # 0
                             /\ MessageOf(c[e + i]) \in 1 .. n
                             /\ MessageOf(c2[i]) \in 1 .. n
             /\ ~(e + i < d) => /\ c2[i] = IF i < top THEN n + 1 ELSE -(n + 1)
                                /\ c2[i] # 0
                                /\ MessageOf(c2[i]) = n + 1
  <2>1. c2[i] = IF e + i < d THEN c[e + i] ELSE IF e + i < d + len THEN n + 1 ELSE -(n + 1)
    BY <1>2 DEF Appended
  <2>2. CASE e + i < d
    <3>1. e + i \in 0 .. d - 1
      BY <2>2
    <3>2. c[e + i] \in Int /\ c[e + i] # 0 /\ MessageOf(c[e + i]) <= n
      BY <3>1 DEF Window
    <3>3. MessageOf(c[e + i]) \in 1 .. n
      <4>1. MessageOf(c[e + i]) \in Nat /\ MessageOf(c[e + i]) > 0
        BY <3>2, MessageOfType
      <4> QED
        BY <3>2, <4>1
    <3> QED
      BY <2>1, <2>2, <3>1, <3>2, <3>3
  <2>3. CASE ~(e + i < d)
    <3>1. e + i < d + len <=> i < top
      BY <1>1
    <3>2. c2[i] = IF i < top THEN n + 1 ELSE -(n + 1)
      BY <2>1, <2>3, <3>1
    <3>3. c2[i] # 0 /\ MessageOf(c2[i]) = n + 1
      BY <3>2 DEF MessageOf
    <3> QED
      BY <2>3, <3>2, <3>3
  <2> QED
    BY <2>2, <2>3
<1>4. Window(c2, top + 1, n + 1)
  <2>1. ASSUME NEW i \in 0 .. top PROVE c2[i] # 0 /\ MessageOf(c2[i]) <= n + 1
    BY <1>3
  <2>2. ASSUME NEW i \in 0 .. top, NEW j \in 0 .. top, i < j
        PROVE  IF Unended(c2, i, j) THEN MessageOf(c2[i]) = MessageOf(c2[j])
               ELSE MessageOf(c2[i]) < MessageOf(c2[j])
    <3>1. CASE e + j < d
      <4>1. e + i < d /\ e + i < e + j
        BY <2>2, <3>1
      <4>2. e + i \in 0 .. d - 1 /\ e + j \in 0 .. d - 1
            /\ c2[i] = c[e + i] /\ c2[j] = c[e + j]
        BY <1>3, <3>1, <4>1
      <4>3. Unended(c2, i, j) <=> Unended(c, e + i, e + j)
        <5>1. ASSUME Unended(c2, i, j), NEW z \in e + i .. e + j - 1 PROVE c[z] > 0
          <6>1. PICK y \in i .. j - 1 : z = e + y
            <7>1. z - e \in i .. j - 1 /\ z = e + (z - e)
              BY <2>2
            <7> QED
              BY <7>1
          <6>2. y \in 0 .. top /\ e + y < d
            BY <2>2, <3>1
          <6> QED
            BY <1>3, <5>1, <6>1, <6>2 DEF Unended
        <5>2. ASSUME Unended(c, e + i, e + j), NEW y \in i .. j - 1 PROVE c2[y] > 0
          <6>1. y \in 0 .. top /\ e + y < d /\ e + y \in e + i .. e + j - 1
            BY <2>2, <3>1
          <6> QED
            BY <1>3, <5>2, <6>1 DEF Unended
        <5> QED
          BY <5>1, <5>2 DEF Unended
      <4> QED
        BY <4>1, <4>2, <4>3 DEF Window
    <3>2. CASE ~(e + j < d) /\ e + i < d
      <4>1. MessageOf(c2[i]) < MessageOf(c2[j])
        <5>1. MessageOf(c2[i]) \in 1 .. n /\ MessageOf(c2[j]) = n + 1
          BY <1>3, <3>2
        <5> QED
          BY <5>1
      <4>2. ~Unended(c2, i, j)
        <5>1. PICK y \in i .. j - 1 : e + y = d - 1
          <6>1. d - 1 - e \in i .. j - 1 /\ e + (d - 1 - e) = d - 1
            BY <2>2, <3>2
          <6> QED
            BY <6>1
        <5>2. y \in 0 .. top /\ e + y < d /\ d > 0
          BY <2>2, <5>1, <3>2
        <5>3. c2[y] = c[d - 1] /\ c[d - 1] < 0 /\ c2[y] \in Int
          BY <1>2, <1>3, <5>1, <5>2 DEF Window
        <5>4. ~(c2[y] > 0)
          BY <5>3
        <5> QED
          BY <5>4 DEF Unended
      <4> QED
        BY <4>1, <4>2
    <3>3. CASE ~(e + i < d)
      <4>1. ~(e + j < d)
        BY <2>2, <3>3
      <4>2. MessageOf(c2[i]) = n + 1 /\ MessageOf(c2[j]) = n + 1
        BY <1>3, <3>3, <4>1
      <4>3. Unended(c2, i, j)
        <5>1. ASSUME NEW y \in i .. j - 1 PROVE c2[y] > 0
          <6>1. y \in 0 .. top /\ ~(e + y < d) /\ y < top
            BY <2>2, <3>3
          <6>2. c2[y] = n + 1
            BY <1>3, <6>1
          <6> QED
            BY <6>2
        <5> QED
          BY <5>1 DEF Unended
      <4> QED
        BY <4>2, <4>3
    <3> QED
      BY <3>1, <3>2, <3>3
  <2>3. c2[top] < 0
    <3>1. top \in 0 .. top /\ ~(e + top < d)
      BY <1>1
    <3>2. c2[top] = -(n + 1)
      BY <1>3, <3>1
    <3> QED
      BY <3>2
  <2> QED
    BY <1>2, <2>1, <2>2, <2>3 DEF Window
<1>5. PICK cut \in 0 .. n : cut + 1 = MessageOf(c2[0])
  <2>1. 0 \in 0 .. top
    OBVIOUS
  <2>2. MessageOf(c2[0]) \in 1 .. n + 1
    BY <1>3, <2>1
  <2>3. MessageOf(c2[0]) - 1 \in 0 .. n /\ (MessageOf(c2[0]) - 1) + 1 = MessageOf(c2[0])
    BY <2>2
  <2> QED
    BY <2>3
<1>6. Messages(c2, top + 1) = {m \in Messages(c, d) : m > cut} \cup {n + 1}
  <2>1. ASSUME NEW i \in 0 .. top
        PROVE  MessageOf(c2[i]) \in {m \in Messages(c, d) : m > cut} \cup {n + 1}
    <3>1. CASE e + i < d
      <4>1. MessageOf(c2[i]) \in Messages(c, d)
        BY <1>3, <3>1 DEF Messages
      <4>2. MessageOf(c2[0]) <= MessageOf(c2[i])
        <5>1. 0 \in 0 .. (top + 1) - 1 /\ i \in 0 .. (top + 1) - 1 /\ 0 <= i
          BY <1>2
        <5>2. c2 \in [0 .. (top + 1) - 1 -> Int] /\ top + 1 \in Nat /\ n + 1 \in Nat
          BY <1>2
        <5> QED
          BY <1>4, <5>1, <5>2, WindowOrdered
      <4>3. MessageOf(c2[i]) > cut
        BY <1>3, <1>5, <3>1, <4>2
      <4> QED
        BY <4>1, <4>3
    <3>2. CASE ~(e + i < d)
      BY <1>3, <3>2
    <3> QED
      BY <3>1, <3>2
  <2>2. ASSUME NEW i \in 0 .. d - 1, MessageOf(c[i]) > cut
        PROVE  \E j \in 0 .. top : MessageOf(c[i]) = MessageOf(c2[j])
    <3>1. c[i] \in Int /\ MessageOf(c[i]) \in Nat /\ MessageOf(c[i]) <= n
      BY MessageOfType DEF Window
    <3>2. CASE i >= e
      <4>1. PICK j \in 0 .. top : e + j = i
        <5>1. i - e \in 0 .. top /\ e + (i - e) = i
          BY <1>1, <3>2
        <5> QED
          BY <5>1
      <4>2. e + j < d
        BY <4>1
      <4> QED
        BY <1>3, <4>1, <4>2
    <3>3. CASE i < e
      <4>1. 0 \in 0 .. top /\ e + 0 = e
        OBVIOUS
      <4>2. e < d
        <5>1. ASSUME ~(e < d) PROVE FALSE
          <6>1. MessageOf(c2[0]) = n + 1
            BY <1>3, <4>1, <5>1
          <6> QED
            BY <1>5, <2>2, <3>1, <6>1
        <5> QED
          BY <5>1
      <4>3. e \in 0 .. d - 1 /\ c2[0] = c[e] /\ MessageOf(c2[0]) \in 1 .. n
        BY <1>3, <4>1, <4>2
      <4>4. MessageOf(c[i]) <= MessageOf(c[e])
        <5>1. i <= e /\ e \in 0 .. d - 1
          BY <3>3, <4>3
        <5> QED
          BY <5>1, WindowOrdered
      <4>5. MessageOf(c[i]) = MessageOf(c2[0])
        BY <1>5, <2>2, <3>1, <4>3, <4>4
      <4> QED
        BY <4>1, <4>5
    <3> QED
      BY <3>2, <3>3
  <2>3. \E j \in 0 .. top : n + 1 = MessageOf(c2[j])
    <3>1. top \in 0 .. top /\ ~(e + top < d)
      BY <1>1
    <3> QED
      BY <1>3, <3>1
  <2>4. Messages(c2, top + 1) = {MessageOf(c2[j]) : j \in 0 .. top}
    BY <1>2 DEF Messages
  <2>5. \A m \in Messages(c2, top + 1) : m \in {x \in Messages(c, d) : x > cut} \cup {n + 1}
    BY <2>1, <2>4
  <2>6. \A m \in Messages(c, d) : m > cut => m \in Messages(c2, top + 1)
    BY <2>2, <2>4 DEF Messages
  <2>7. n + 1 \in Messages(c2, top + 1)
    BY <2>3, <2>4
  <2> QED
    BY <2>5, <2>6, <2>7
<1>7. Displaced(Messages(c2, top + 1), Messages(c, d), n)
  BY <1>5, <1>6 DEF Displaced
<1> QED
  BY <1>2, <1>4, <1>7

\* The window c2, of length d2, is another one without its first e characters.
Advanced(c2, c, d2, e) == \A i \in 0 .. d2 - 1 : c2[i] = c[e + i]

\* A read: the window loses its first e characters.
LEMMA WindowAfterRead ==
  ASSUME NEW d \in Nat, NEW n \in Nat, NEW c \in [0 .. d - 1 -> Int], Window(c, d, n),
         NEW e \in 0 .. d, NEW d2 \in Nat, d - d2 = e, NEW c2 \in [0 .. d2 - 1 -> Int],
         Advanced(c2, c, d2, e)
  PROVE  Window(c2, d2, n)
<1>1. ASSUME NEW i \in 0 .. d2 - 1
      PROVE  e + i \in 0 .. d - 1 /\ c2[i] = c[e + i]
  BY DEF Advanced
<1>2. ASSUME NEW i \in 0 .. d2 - 1 PROVE c2[i] # 0 /\ MessageOf(c2[i]) <= n
  BY <1>1 DEF Window
<1>3. ASSUME NEW i \in 0 .. d2 - 1, NEW j \in 0 .. d2 - 1, i < j
      PROVE  IF Unended(c2, i, j) THEN MessageOf(c2[i]) = MessageOf(c2[j])
             ELSE MessageOf(c2[i]) < MessageOf(c2[j])
  <2>1. Unended(c2, i, j) <=> Unended(c, e + i, e + j)
    <3>1. ASSUME Unended(c2, i, j), NEW z \in e + i .. e + j - 1 PROVE c[z] > 0
      <4>1. PICK y \in i .. j - 1 : z = e + y
        <5>1. z - e \in i .. j - 1 /\ z = e + (z - e)
          BY <1>3
        <5> QED
          BY <5>1
      <4>2. y \in 0 .. d2 - 1
        BY <1>3
      <4> QED
        BY <1>1, <3>1, <4>1, <4>2 DEF Unended
    <3>2. ASSUME Unended(c, e + i, e + j), NEW y \in i .. j - 1 PROVE c2[y] > 0
      <4>1. y \in 0 .. d2 - 1 /\ e + y \in e + i .. e + j - 1
        BY <1>3
      <4> QED
        BY <1>1, <3>2, <4>1 DEF Unended
    <3> QED
      BY <3>1, <3>2 DEF Unended
  <2>2. e + i < e + j
    BY <1>3
  <2> QED
    BY <1>1, <2>1, <2>2 DEF Window
<1>4. ASSUME d2 > 0 PROVE c2[d2 - 1] < 0
  <2>1. d2 - 1 \in 0 .. d2 - 1 /\ e + (d2 - 1) = d - 1 /\ d > 0
    BY <1>4
  <2> QED
    BY <1>1, <2>1 DEF Window
<1> QED
  BY <1>2, <1>3, <1>4 DEF Window

\* The characters of a window up to its first NUL are those of its oldest
\* message.
LEMMA FirstMessage ==
  ASSUME NEW d \in Nat, NEW n \in Nat, NEW c \in [0 .. d - 1 -> Int], Window(c, d, n),
         NEW k \in 0 .. d - 1, Unended(c, 0, k)
  PROVE  /\ \A j \in 0 .. k : MessageOf(c[j]) = MessageOf(c[0])
         /\ \A j \in 0 .. d - 1 : MessageOf(c[0]) <= MessageOf(c[j])
         /\ c[k] < 0 => \A j \in k + 1 .. d - 1 : MessageOf(c[0]) < MessageOf(c[j])
<1>1. 0 \in 0 .. d - 1
  OBVIOUS
<1>2. ASSUME NEW j \in 0 .. k PROVE MessageOf(c[j]) = MessageOf(c[0])
  <2>1. CASE j = 0
    BY <2>1
  <2>2. CASE 0 < j
    <3>1. Unended(c, 0, j)
      BY DEF Unended
    <3>2. j \in 0 .. d - 1
      OBVIOUS
    <3> QED
      BY <1>1, <2>2, <3>1, <3>2 DEF Window
  <2> QED
    BY <2>1, <2>2
<1>3. ASSUME NEW j \in 0 .. d - 1 PROVE MessageOf(c[0]) <= MessageOf(c[j])
  <2>1. 0 <= j
    OBVIOUS
  <2> QED
    BY <1>1, <2>1, WindowOrdered
<1>4. ASSUME c[k] < 0, NEW j \in k + 1 .. d - 1 PROVE MessageOf(c[0]) < MessageOf(c[j])
  <2>1. k \in 0 .. j - 1 /\ c[k] \in Int /\ j \in 0 .. d - 1 /\ 0 < j
    OBVIOUS
  <2>2. ~(c[k] > 0)
    BY <1>4, <2>1
  <2>3. ~Unended(c, 0, j)
    BY <2>1, <2>2 DEF Unended
  <2> QED
    BY <1>1, <2>1, <2>3 DEF Window
<1> QED
  BY <1>2, <1>3, <1>4

\* What QueueRead says of the queue, for a read that returns part of the
\* message m and for one that returns its end.
Kept(new, old) == new = old

Removed(new, old, m) == new = old \ {m}

Left(new, old, ended, m) == IF ended THEN Removed(new, old, m) ELSE Kept(new, old)

First(c) == MessageOf(c[0])

\* A read that returns part of a message leaves it in the queue.
LEMMA MessagesAfterPart ==
  ASSUME NEW d \in Nat, NEW n \in Nat, NEW c \in [0 .. d - 1 -> Int], Window(c, d, n),
         NEW k \in 0 .. d - 1, Unended(c, 0, k),
         NEW d2 \in Nat, d - d2 = k, NEW c2 \in [0 .. d2 - 1 -> Int],
         Advanced(c2, c, d2, k)
  PROVE  Kept(Messages(c2, d2), Messages(c, d))
<1>1. ASSUME NEW i \in 0 .. d2 - 1 PROVE MessageOf(c2[i]) \in Messages(c, d)
  <2>1. k + i \in 0 .. d - 1
    OBVIOUS
  <2> QED
    BY <2>1 DEF Messages, Advanced
<1>2. ASSUME NEW i \in 0 .. d - 1 PROVE MessageOf(c[i]) \in Messages(c2, d2)
  <2>1. CASE i < k
    <3>1. 0 \in 0 .. d2 - 1 /\ k + 0 = k /\ k \in 0 .. k /\ i \in 0 .. k
      BY <2>1
    <3>2. MessageOf(c[i]) = MessageOf(c[k])
      <4>1. \A j \in 0 .. k : MessageOf(c[j]) = MessageOf(c[0])
        BY FirstMessage
      <4> QED
        BY <3>1, <4>1
    <3>3. MessageOf(c2[0]) = MessageOf(c[k])
      BY <3>1 DEF Advanced
    <3> QED
      BY <3>1, <3>2, <3>3 DEF Messages
  <2>2. CASE i >= k
    <3>1. i - k \in 0 .. d2 - 1 /\ k + (i - k) = i
      BY <2>2
    <3>2. c2[i - k] = c[i]
      BY <3>1 DEF Advanced
    <3> QED
      BY <3>1, <3>2 DEF Messages
  <2> QED
    BY <2>1, <2>2
<1> QED
  BY <1>1, <1>2 DEF Messages, Kept

\* A read that returns the end of a message removes that message only.
LEMMA MessagesAfterEnd ==
  ASSUME NEW d \in Nat, NEW n \in Nat, NEW c \in [0 .. d - 1 -> Int], Window(c, d, n),
         NEW k \in 0 .. d - 1, Unended(c, 0, k), c[k] < 0,
         NEW e \in Nat, e - k = 1, NEW d2 \in Nat, d - d2 = e, NEW c2 \in [0 .. d2 - 1 -> Int],
         Advanced(c2, c, d2, e)
  PROVE  Removed(Messages(c2, d2), Messages(c, d), First(c))
<1>3. e = k + 1
  OBVIOUS
<1>1. /\ \A j \in 0 .. k : MessageOf(c[j]) = MessageOf(c[0])
      /\ \A j \in k + 1 .. d - 1 : MessageOf(c[0]) < MessageOf(c[j])
  BY FirstMessage
<1>2. ASSUME NEW i \in 0 .. d2 - 1
      PROVE  MessageOf(c2[i]) \in Messages(c, d) \ {MessageOf(c[0])}
  <2>1. (k + 1) + i \in k + 1 .. d - 1 /\ (k + 1) + i \in 0 .. d - 1 /\ 0 \in 0 .. d - 1
    OBVIOUS
  <2>2. c2[i] = c[(k + 1) + i] /\ c2[i] \in Int /\ c[0] \in Int
    BY <1>3, <2>1 DEF Advanced
  <2>3. MessageOf(c2[i]) \in Nat /\ MessageOf(c[0]) \in Nat
    BY <2>2, MessageOfType
  <2>4. MessageOf(c[0]) < MessageOf(c2[i])
    BY <1>1, <2>1, <2>2
  <2>5. MessageOf(c[0]) # MessageOf(c2[i])
    BY <2>3, <2>4
  <2> QED
    BY <2>1, <2>2, <2>5 DEF Messages
<1>4. ASSUME NEW i \in 0 .. d - 1, MessageOf(c[i]) # MessageOf(c[0])
      PROVE  MessageOf(c[i]) \in Messages(c2, d2)
  <2>1. i \notin 0 .. k
    BY <1>1, <1>4
  <2>2. i - (k + 1) \in 0 .. d2 - 1 /\ (k + 1) + (i - (k + 1)) = i
    BY <2>1
  <2>3. c2[i - (k + 1)] = c[i]
    BY <1>3, <2>2 DEF Advanced
  <2> QED
    BY <2>2, <2>3 DEF Messages
<1> QED
  BY <1>2, <1>4 DEF Messages, First, Removed

\* The ring's positions, without the remainders.
LEMMA PlaceIs ==
  ASSUME NEW r \in Index, NEW i \in 0 .. Size
  PROVE  /\ PlaceOf(r, i) = IF r + i < Size THEN r + i ELSE r + i - Size
         /\ PlaceOf(r, i) \in Index
<1>1. Size \in Nat \ {0} /\ Index = 0 .. Size - 1
  BY SizeAssumption DEF Index
<1>2. PlaceOf(r, i) = IF r + i < Size THEN r + i ELSE r + i - Size
  BY FromReader DEF PlaceOf
<1> QED
  BY <1>1, <1>2

LEMMA AtTurns ==
  ASSUME NEW r \in Index, NEW i \in 0 .. Size
  PROVE  \E p \in Nat : p = PlaceOf(r, i) /\ p < Size /\ (r + i = p \/ r + i = p + Size)
<1>1. PlaceOf(r, i) = (IF r + i < Size THEN r + i ELSE r + i - Size) /\ PlaceOf(r, i) \in Index
  BY PlaceIs
<1>2. PlaceOf(r, i) \in Nat /\ PlaceOf(r, i) < Size /\ Size \in Nat /\ r \in Nat /\ i \in Nat
  BY <1>1, SizeAssumption DEF Index
<1>3. r + i = PlaceOf(r, i) \/ r + i = PlaceOf(r, i) + Size
  BY <1>1, <1>2
<1> QED
  BY <1>2, <1>3

LEMMA ApartIs ==
  ASSUME NEW r \in Index, NEW w \in Index
  PROVE  /\ Apart(r, w) = IF w >= r THEN w - r ELSE w - r + Size
         /\ Apart(r, w) \in 0 .. Size - 1
         /\ Apart(r, w) \in Nat
<1>1. Size \in Nat \ {0} /\ Index = 0 .. Size - 1
  BY SizeAssumption DEF Index
<1>2. Apart(r, w) = IF w >= r THEN w - r ELSE w - r + Size
  <2>1. r \in 0 .. Size
    BY <1>1
  <2> QED
    BY <2>1, FromWriter DEF Apart
<1> QED
  BY <1>1, <1>2

LEMMA ViewType ==
  ASSUME NEW r \in Index, NEW w \in Index, NEW f \in [Index -> Int]
  PROVE  /\ View(f, r, w) \in [0 .. Apart(r, w) - 1 -> Int]
         /\ \A i \in 0 .. Apart(r, w) - 1 : View(f, r, w)[i] = f[PlaceOf(r, i)]
<1>1. Size \in Nat \ {0} /\ Apart(r, w) \in 0 .. Size - 1
  BY SizeAssumption, ApartIs
<1>2. \A i \in 0 .. Apart(r, w) - 1 : i \in 0 .. Size
  BY <1>1
<1>3. \A i \in 0 .. Apart(r, w) - 1 : f[PlaceOf(r, i)] \in Int
  BY <1>2, PlaceIs
<1> QED
  BY <1>3 DEF View

\* What a send writes, seen from the writer.
LEMMA WrittenAt ==
  ASSUME TypeOK, NEW len \in Lengths, len < Size, write_position # Size,
         NextWritePosition(len) # Size, NEW m, NEW j \in 0 .. Size - 1
  PROVE  /\ NextWritePosition(len) = PlaceOf(write_position, len + 1)
         /\ Written(len, m)[PlaceOf(write_position, j)]
              = IF j < len THEN m ELSE IF j = len THEN -m ELSE buffer[PlaceOf(write_position, j)]
<1>1. /\ Size \in Nat \ {0} /\ Index = 0 .. Size - 1 /\ len \in Nat \ {0}
      /\ write_position \in Index /\ BufferRemaining = Size - write_position
      /\ len + 1 \in 0 .. Size /\ j \in 0 .. Size
  BY SizeAssumption, LengthsAssumption DEF TypeOK, Index, BufferRemaining
<1>2. /\ PlaceOf(write_position, len + 1) = IF write_position + (len + 1) < Size
                                       THEN write_position + (len + 1)
                                       ELSE write_position + (len + 1) - Size
      /\ PlaceOf(write_position, j) = IF write_position + j < Size THEN write_position + j
                                 ELSE write_position + j - Size
      /\ PlaceOf(write_position, j) \in Index
  BY <1>1, PlaceIs
<1> DEFINE i == PlaceOf(write_position, j)
<1>3. i \in Index /\ i = IF write_position + j < Size THEN write_position + j
                         ELSE write_position + j - Size
  BY <1>2
<1> HIDE DEF i
<1>4. CASE BufferRemaining > len
  <2>1. /\ NextWritePosition(len) = write_position + len + 1
        /\ Written(len, m)[i] = IF i = write_position + len THEN -m
                                ELSE IF i \in write_position .. write_position + len - 1 THEN m
                                ELSE buffer[i]
    BY <1>3, <1>4, WrittenPlain
  <2>2. NextWritePosition(len) = PlaceOf(write_position, len + 1)
    BY <1>1, <1>2, <1>4, <2>1
  <2>3. /\ i = write_position + len <=> j = len
        /\ i \in write_position .. write_position + len - 1 <=> j < len
    BY <1>1, <1>3, <1>4
  <2>4. j = len => ~(j < len)
    BY <1>1
  <2>5. Written(len, m)[i] = IF j < len THEN m ELSE IF j = len THEN -m ELSE buffer[i]
    BY <2>1, <2>3, <2>4
  <2> QED
    BY <2>2, <2>5 DEF i
<1>5. CASE ~(BufferRemaining > len)
  <2>1. /\ NextWritePosition(len) = len - BufferRemaining + 1
        /\ Written(len, m)[i] = IF i = NextWritePosition(len) - 1 THEN -m
                                ELSE IF i >= write_position \/ i < NextWritePosition(len) - 1 THEN m
                                ELSE buffer[i]
    BY <1>3, <1>5, WrittenWrapped
  <2>2. NextWritePosition(len) - 1 = len + write_position - Size
    BY <1>1, <2>1
  <2>3. NextWritePosition(len) = PlaceOf(write_position, len + 1)
    BY <1>1, <1>2, <1>5, <2>1
  <2>4. /\ i = NextWritePosition(len) - 1 <=> j = len
        /\ j # len => (i >= write_position \/ i < NextWritePosition(len) - 1 <=> j < len)
    BY <1>1, <1>3, <1>5, <2>2
  <2>5. j = len => ~(j < len)
    BY <1>1
  <2>6. Written(len, m)[i] = IF j < len THEN m ELSE IF j = len THEN -m ELSE buffer[i]
    BY <2>1, <2>4, <2>5
  <2> QED
    BY <2>3, <2>6 DEF i
<1> QED
  BY <1>4, <1>5

\* Where the characters of the window after a send that fits are, seen from
\* the writer before it.
LEMMA FitPositions ==
  ASSUME NEW r \in Index, NEW w \in Index, NEW d \in Nat, d = Apart(r, w),
         NEW len \in Nat \ {0}, d + len + 1 < Size, NEW w2 \in Index, w2 = PlaceOf(w, len + 1)
  PROVE  /\ Apart(r, w2) = d + len + 1
         /\ \A i \in 0 .. d + len : \E j \in 0 .. Size - 1 :
              /\ PlaceOf(r, i) = PlaceOf(w, j)
              /\ i < d => j > len
              /\ ~(i < d) => i = d + j
<1>1. /\ Size \in Nat \ {0} /\ Index = 0 .. Size - 1
      /\ d \in 0 .. Size - 1 /\ len + 1 \in 0 .. Size
  BY SizeAssumption DEF Index
<1>2. d = IF w >= r THEN w - r ELSE w - r + Size
  BY ApartIs
<1>3. w2 = IF w + (len + 1) < Size THEN w + (len + 1) ELSE w + (len + 1) - Size
  BY <1>1, PlaceIs
<1>4. Apart(r, w2) = d + len + 1
  <2>1. Apart(r, w2) = IF w2 >= r THEN w2 - r ELSE w2 - r + Size
    BY ApartIs
  <2> QED
    BY <1>1, <1>2, <1>3, <2>1
<1>5. ASSUME NEW i \in 0 .. d + len
      PROVE  \E j \in 0 .. Size - 1 : /\ PlaceOf(r, i) = PlaceOf(w, j)
                                      /\ i < d => j > len
                                      /\ ~(i < d) => i = d + j
  <2>1. i \in 0 .. Size
    BY <1>1
  <2>2. PlaceOf(r, i) = IF r + i < Size THEN r + i ELSE r + i - Size
    BY <2>1, PlaceIs
  <2>3. PICK j \in 0 .. Size - 1 : j = IF i < d THEN i - d + Size ELSE i - d
    <3>1. CASE i < d
      <4>1. i - d + Size \in 0 .. Size - 1
        BY <1>1, <3>1
      <4> QED
        BY <3>1, <4>1
    <3>2. CASE ~(i < d)
      <4>1. i - d \in 0 .. Size - 1
        BY <1>1, <3>2
      <4> QED
        BY <3>2, <4>1
    <3> QED
      BY <3>1, <3>2
  <2>4. PlaceOf(w, j) = IF w + j < Size THEN w + j ELSE w + j - Size
    <3>1. j \in 0 .. Size
      BY <1>1
    <3> QED
      BY <3>1, PlaceIs
  <2>5. PlaceOf(w, j) = PlaceOf(r, i)
    BY <1>1, <1>2, <2>2, <2>3, <2>4
  <2>6. i < d => j > len
    <3>1. i \in Nat /\ j \in Nat /\ Size \in Nat
      BY <1>1
    <3> HAVE i < d
    <3>2. j = i - d + Size
      BY <2>3
    <3> QED
      BY <3>1, <3>2
  <2>7. ~(i < d) => i = d + j
    <3>1. i \in Nat /\ j \in Nat
      BY <1>1
    <3> HAVE ~(i < d)
    <3>2. j = i - d
      BY <2>3
    <3> QED
      BY <3>1, <3>2
  <2> QED
    BY <2>5, <2>6, <2>7
<1> QED
  BY <1>4, <1>5

\* What is in view from r2 is, from character e on, what was in view from r,
\* d characters of it, and then what is written from w on.
PlaceMoved(r2, r, w, d, len, e) ==
  \A i \in 0 .. d + len - e : \E j \in 0 .. Size - 1 :
    /\ PlaceOf(r2, i) = PlaceOf(w, j)
    /\ e + i < d => j > len /\ PlaceOf(w, j) = PlaceOf(r, e + i)
    /\ ~(e + i < d) => e + i = d + j

\* The same after an overrun, which leaves the reader one or two characters
\* (q) past the writer; e characters of the window are lost.
LEMMA OverrunPositions ==
  ASSUME NEW r \in Index, NEW w \in Index, NEW w2 \in Index, NEW r2 \in Index,
         NEW d \in Nat, NEW len \in Nat \ {0}, NEW q \in Nat, NEW e \in Nat,
         len < Size, d < Size, q = 1 \/ q = 2, q < Size, e + Size = d + len + 1 + q,
         r + d = w \/ r + d = w + Size,
         w + len + 1 = w2 \/ w + len + 1 = w2 + Size,
         w2 + q = r2 \/ w2 + q = r2 + Size
  PROVE  /\ Apart(r2, w2) = d + len + 1 - e
         /\ PlaceMoved(r2, r, w, d, len, e)
<1>5. Apart(r2, w2) = d + len + 1 - e
  <2>1. /\ Size \in Nat /\ w2 \in Nat /\ r2 \in Nat /\ w2 < Size /\ r2 < Size
    BY SizeAssumption DEF Index
  <2>2. Apart(r2, w2) = IF w2 >= r2 THEN w2 - r2 ELSE w2 - r2 + Size
    BY ApartIs
  <2>3. Apart(r2, w2) = Size - q
    BY <2>1, <2>2
  <2> QED
    BY <2>1, <2>3
<1> SUFFICES ASSUME NEW i \in 0 .. d + len - e
             PROVE  \E j \in 0 .. Size - 1 :
                      /\ PlaceOf(r2, i) = PlaceOf(w, j)
                      /\ e + i < d => j > len /\ PlaceOf(w, j) = PlaceOf(r, e + i)
                      /\ ~(e + i < d) => e + i = d + j
  BY <1>5 DEF PlaceMoved
<1>6. i \in Nat /\ i < Size - q
  BY SizeAssumption
<1>1. /\ Size \in Nat /\ i \in 0 .. Size
      /\ r \in Nat /\ w \in Nat /\ w2 \in Nat /\ r2 \in Nat
      /\ r < Size /\ w < Size /\ w2 < Size /\ r2 < Size
  BY <1>6, SizeAssumption DEF Index
<1>2. PICK p \in Nat : p = PlaceOf(r2, i) /\ p < Size /\ (r2 + i = p \/ r2 + i = p + Size)
  BY <1>1, AtTurns
<1>3. CASE e + i < d
  <2>1. PICK j \in Nat : j = len + 1 + q + i
    OBVIOUS
  <2>2. j \in 0 .. Size - 1 /\ j \in 0 .. Size /\ e + i \in 0 .. Size /\ j > len
    BY <1>1, <1>3, <2>1
  <2>3. PICK x \in Nat : x = PlaceOf(w, j) /\ x < Size /\ (w + j = x \/ w + j = x + Size)
    BY <2>2, AtTurns
  <2>4. PICK y \in Nat : /\ y = PlaceOf(r, e + i) /\ y < Size
                         /\ r + (e + i) = y \/ r + (e + i) = y + Size
    BY <2>2, AtTurns
  <2>5. x = p
    BY <1>1, <1>2, <2>1, <2>3
  <2>6. x = y
    BY <1>1, <2>1, <2>3, <2>4
  <2> QED
    BY <1>2, <1>3, <2>2, <2>3, <2>4, <2>5, <2>6
<1>4. CASE ~(e + i < d)
  <2>1. PICK j \in Nat : e + i = d + j
    <3>1. e + i - d \in Nat /\ e + i = d + (e + i - d)
      BY <1>4
    <3> QED
      BY <3>1
  <2>2. j \in 0 .. Size - 1 /\ j \in 0 .. Size
    BY <1>1, <2>1
  <2>3. PICK x \in Nat : x = PlaceOf(w, j) /\ x < Size /\ (w + j = x \/ w + j = x + Size)
    BY <2>2, AtTurns
  <2>4. x = p
    BY <1>1, <1>2, <2>1, <2>3
  <2> QED
    BY <1>2, <1>4, <2>1, <2>2, <2>3, <2>4
<1> QED
  BY <1>3, <1>4

\* The ring g is f with message m of len characters and its NUL from w on.
Overwritten(g, f, w, len, m) ==
  \A j \in 0 .. Size - 1 :
    g[PlaceOf(w, j)] = IF j < len THEN m ELSE IF j = len THEN -m ELSE f[PlaceOf(w, j)]

\* The characters of the window after a send, from where they were before it.
LEMMA ViewAfterSend ==
  ASSUME NEW r \in Index, NEW w \in Index, NEW r2 \in Index, NEW w2 \in Index,
         NEW f \in [Index -> Int], NEW g \in [Index -> Int], NEW n \in Nat,
         NEW len \in Nat \ {0}, NEW d \in Nat, NEW e \in 0 .. d + len,
         Apart(r, w) = d, Apart(r2, w2) = d + len + 1 - e, Window(View(f, r, w), d, n),
         Overwritten(g, f, w, len, n + 1), PlaceMoved(r2, r, w, d, len, e)
  PROVE  /\ Window(View(g, r2, w2), Apart(r2, w2), n + 1)
         /\ Displaced(Messages(View(g, r2, w2), Apart(r2, w2)), Messages(View(f, r, w), d), n)
<1>1. /\ View(f, r, w) \in [0 .. d - 1 -> Int]
      /\ \A i \in 0 .. d - 1 : View(f, r, w)[i] = f[PlaceOf(r, i)]
  BY ViewType
<1>2. Apart(r2, w2) - 1 = d + len - e
  OBVIOUS
<1>3. /\ View(g, r2, w2) \in [0 .. d + len - e -> Int]
      /\ \A i \in 0 .. d + len - e : View(g, r2, w2)[i] = g[PlaceOf(r2, i)]
  <2>1. /\ View(g, r2, w2) \in [0 .. Apart(r2, w2) - 1 -> Int]
        /\ \A i \in 0 .. Apart(r2, w2) - 1 : View(g, r2, w2)[i] = g[PlaceOf(r2, i)]
    BY ViewType
  <2> QED
    BY <1>2, <2>1
<1>4. ASSUME NEW i \in 0 .. d + len - e
      PROVE  View(g, r2, w2)[i] = IF e + i < d THEN View(f, r, w)[e + i]
                                  ELSE IF e + i < d + len THEN n + 1 ELSE -(n + 1)
  <2>1. PICK j \in 0 .. Size - 1 :
           /\ PlaceOf(r2, i) = PlaceOf(w, j)
           /\ e + i < d => j > len /\ PlaceOf(w, j) = PlaceOf(r, e + i)
           /\ ~(e + i < d) => e + i = d + j
    BY DEF PlaceMoved
  <2>2. View(g, r2, w2)[i] = IF j < len THEN n + 1 ELSE IF j = len THEN -(n + 1) ELSE f[PlaceOf(w, j)]
    BY <1>3, <2>1 DEF Overwritten
  <2>3. j \in Int
    BY SizeAssumption
  <2>4. CASE e + i < d
    <3>1. j > len /\ PlaceOf(w, j) = PlaceOf(r, e + i)
      BY <2>1, <2>4
    <3>2. ~(j < len) /\ j # len
      BY <2>3, <3>1
    <3>3. e + i \in 0 .. d - 1
      BY <2>4
    <3>4. View(f, r, w)[e + i] = f[PlaceOf(r, e + i)]
      BY <1>1, <3>3
    <3> QED
      BY <2>2, <2>4, <3>1, <3>2, <3>4
  <2>5. CASE ~(e + i < d)
    <3>1. e + i = d + j
      BY <2>1, <2>5
    <3>2. (j < len <=> e + i < d + len) /\ (~(j < len) => j = len)
      BY <2>3, <3>1
    <3> QED
      BY <2>2, <2>5, <3>2
  <2> QED
    BY <2>4, <2>5
<1>5. Appended(View(g, r2, w2), View(f, r, w), d, len, e, n + 1)
  BY <1>4 DEF Appended
<1>6. /\ Window(View(g, r2, w2), d + len + 1 - e, n + 1)
      /\ Displaced(Messages(View(g, r2, w2), d + len + 1 - e), Messages(View(f, r, w), d), n)
  <2> HIDE DEF View
  <2> QED
    BY <1>1, <1>3, <1>5, WindowAfterSend
<1> QED
  BY <1>6

\* The room that sendto_buffer_target computes is what the window leaves.
LEMMA SpaceIs ==
  ASSUME ReadableInv, clear
  PROVE  /\ read_position \in Index /\ write_position \in Index
         /\ Apart(read_position, write_position) \in Nat
         /\ FreeSpaceLeft = Size - Apart(read_position, write_position)
         /\ \/ read_position + Apart(read_position, write_position) = write_position
            \/ read_position + Apart(read_position, write_position) = write_position + Size
<1>1. /\ read_position \in Index /\ write_position \in Index /\ Size \in Nat \ {0}
      /\ read_position \in Nat /\ write_position \in Nat
  BY SizeAssumption DEF ReadableInv, TypeOK, Index
<1>2. /\ Apart(read_position, write_position) \in Nat
      /\ Apart(read_position, write_position)
           = IF write_position >= read_position THEN write_position - read_position
             ELSE write_position - read_position + Size
  BY <1>1, ApartIs
<1>3. PICK d \in Nat : d = Apart(read_position, write_position)
  BY <1>2
<1>4. FreeSpaceLeft = Size - d
  BY <1>1, <1>2, <1>3 DEF FreeSpaceLeft, BufferRemaining
<1>5. read_position + d = write_position \/ read_position + d = write_position + Size
  BY <1>1, <1>2, <1>3
<1> QED
  BY <1>1, <1>3, <1>4, <1>5

LEMMA SendWindow ==
  ASSUME WindowInv, clear, NEW len \in Lengths, Send(len)
  PROVE  LET before == View(buffer, read_position, write_position)
             after  == View(buffer', read_position', write_position')
             d      == Apart(read_position, write_position)
             d2     == Apart(read_position', write_position')
         IN  /\ Window(after, d2, accepted + 1)
             /\ Displaced(Messages(after, d2), Messages(before, d), accepted)
<1>1. /\ TypeOK /\ TypeOK' /\ ReadableInv /\ opened /\ ~Boundary(len) /\ len < Size
      /\ len \in Nat \ {0} /\ Size \in Nat \ {0} /\ accepted \in Nat
      /\ buffer \in [Index -> Int] /\ buffer' \in [Index -> Int]
      /\ write_position # Size
  <2>1. TypeOK /\ ReadableInv
    BY DEF WindowInv, ReadableInv
  <2>2. TypeOK'
    BY <2>1, SendType
  <2> QED
    BY <2>1, <2>2, LengthsAssumption, SizeAssumption DEF Send, TypeOK, ReadableInv
<1>2. /\ write_position' = NextWritePosition(len) /\ write_position' # Size /\ Size > 2
      /\ buffer' = Written(len, accepted + 1)
  BY <1>1, ClearSendReadable DEF Send
<1>3. /\ read_position \in Index /\ write_position \in Index
      /\ read_position' \in Index /\ write_position' \in Index
  <2>1. read_position \in Index /\ write_position \in Index /\ read_position' \in Index
    BY <1>1, SpaceIs DEF TypeOK
  <2>2. write_position' \in 0 .. Size /\ write_position' # Size
    BY <1>1, <1>2 DEF TypeOK
  <2>3. write_position' \in Index
    BY <2>2, SizeAssumption DEF Index
  <2> QED
    BY <2>1, <2>3
<1>4. PICK d \in Nat :
        /\ d = Apart(read_position, write_position) /\ d < Size
        /\ FreeSpaceLeft = Size - d
        /\ read_position + d = write_position \/ read_position + d = write_position + Size
  <2>1. Apart(read_position, write_position) \in 0 .. Size - 1
    BY <1>3, ApartIs
  <2>2. Apart(read_position, write_position) < Size
    BY <1>1, <2>1
  <2> QED
    BY <1>1, <2>2, SpaceIs
<1>5. /\ write_position' = PlaceOf(write_position, len + 1)
      /\ Overwritten(buffer', buffer, write_position, len, accepted + 1)
  <2>1. \A j \in 0 .. Size - 1 :
          /\ NextWritePosition(len) = PlaceOf(write_position, len + 1)
          /\ Written(len, accepted + 1)[PlaceOf(write_position, j)]
               = IF j < len THEN accepted + 1 ELSE IF j = len THEN -(accepted + 1)
                 ELSE buffer[PlaceOf(write_position, j)]
    BY <1>1, <1>2, WrittenAt
  <2>2. 0 \in 0 .. Size - 1
    BY <1>1
  <2> QED
    BY <1>2, <2>1, <2>2 DEF Overwritten
<1>6. Window(View(buffer, read_position, write_position), d, accepted)
  BY <1>1, <1>4 DEF WindowInv
<1>7. ASSUME NEW e \in 0 .. d + len,
             Apart(read_position', write_position') = d + len + 1 - e,
             PlaceMoved(read_position', read_position, write_position, d, len, e)
      PROVE  /\ Window(View(buffer', read_position', write_position'),
                       Apart(read_position', write_position'), accepted + 1)
             /\ Displaced(Messages(View(buffer', read_position', write_position'),
                                   Apart(read_position', write_position')),
                          Messages(View(buffer, read_position, write_position), d), accepted)
  BY <1>1, <1>3, <1>4, <1>5, <1>6, <1>7, ViewAfterSend
<1>8. CASE ~(FreeSpaceLeft <= len)
  <2>1. read_position' = read_position
    BY <1>8 DEF Send
  <2>2. d + len + 1 < Size
    <3>1. FreeSpaceLeft # len + 1
      BY <1>1 DEF Boundary
    <3> QED
      BY <1>1, <1>4, <1>8, <3>1
  <2>3. /\ Apart(read_position, write_position') = d + len + 1
        /\ \A i \in 0 .. d + len : \E j \in 0 .. Size - 1 :
             /\ PlaceOf(read_position, i) = PlaceOf(write_position, j)
             /\ i < d => j > len
             /\ ~(i < d) => i = d + j
    BY <1>1, <1>3, <1>4, <1>5, <2>2, FitPositions
  <2>4. PlaceMoved(read_position', read_position, write_position, d, len, 0)
    <3>1. \A i \in 0 .. d + len : 0 + i = i
      BY <1>1
    <3>2. d + len - 0 = d + len
      BY <1>1
    <3> QED
      BY <2>1, <2>3, <3>1, <3>2 DEF PlaceMoved
  <2>5. 0 \in 0 .. d + len /\ d + len + 1 = d + len + 1 - 0
    BY <1>1
  <2> QED
    BY <1>4, <1>7, <2>1, <2>3, <2>4, <2>5
<1>9. CASE FreeSpaceLeft <= len
  <2>1. read_position' = SkipOverwritten(buffer', write_position')
    BY <1>2, <1>9 DEF Send
  <2>2. PICK q \in Nat : /\ q = 1 \/ q = 2
                         /\ \/ write_position' + q = read_position'
                            \/ write_position' + q = read_position' + Size
    <3>1. PICK w2 \in Index : w2 = write_position'
      BY <1>3
    <3>2. w2 \in 0 .. Size - 1
      BY <1>1 DEF Index
    <3>3. PICK r \in Int : r = (w2 + 1) % Size
      BY <1>1, <3>2
    <3>4. r = (IF w2 + 1 = Size THEN 0 ELSE w2 + 1) /\ r \in 0 .. Size - 1
      <4>1. (w2 + 1) % Size = IF w2 + 1 = Size THEN 0 ELSE w2 + 1
        BY <3>2, StepWraps
      <4> QED
        BY <1>1, <3>2, <3>3, <4>1
    <3>5. (r + 1) % Size = IF r + 1 = Size THEN 0 ELSE r + 1
      BY <3>4, StepWraps
    <3>6. read_position' = r \/ read_position' = (r + 1) % Size
      BY <2>1, <3>1, <3>3 DEF SkipOverwritten
    <3>7. CASE read_position' = r
      <4>1. w2 + 1 = read_position' \/ w2 + 1 = read_position' + Size
        BY <1>1, <3>2, <3>4, <3>7
      <4> QED
        BY <3>1, <4>1
    <3>8. CASE read_position' = (r + 1) % Size
      <4>1. w2 + 2 = read_position' \/ w2 + 2 = read_position' + Size
        BY <1>1, <1>2, <3>2, <3>4, <3>5, <3>8
      <4> QED
        BY <3>1, <4>1
    <3> QED
      BY <3>6, <3>7, <3>8
  <2>3. d + len >= Size
    BY <1>1, <1>4, <1>9
  <2>4. PICK e \in Nat : e + Size = d + len + 1 + q
    <3>1. d + len + 1 + q - Size \in Nat /\ (d + len + 1 + q - Size) + Size = d + len + 1 + q
      BY <1>1, <2>3
    <3> QED
      BY <3>1
  <2>5. q < Size /\ e \in 0 .. d + len /\ d + len - e = Size - q - 1
    BY <1>1, <1>2, <1>4, <2>2, <2>4
  <2>6. \/ write_position + len + 1 = write_position'
        \/ write_position + len + 1 = write_position' + Size
    <3>1. len + 1 \in 0 .. Size
      BY <1>1
    <3>2. write_position' = IF write_position + (len + 1) < Size THEN write_position + (len + 1)
                            ELSE write_position + (len + 1) - Size
      BY <1>3, <1>5, <3>1, PlaceIs
    <3>3. write_position \in Int /\ write_position' \in Int
      BY <1>1 DEF TypeOK
    <3> QED
      BY <1>1, <3>2, <3>3
  <2>7. PICK r \in Index, w \in Index, r2 \in Index, w2 \in Index :
          /\ r = read_position /\ w = write_position
          /\ r2 = read_position' /\ w2 = write_position'
    BY <1>3
  <2>8. /\ Apart(r2, w2) = d + len + 1 - e
        /\ PlaceMoved(r2, r, w, d, len, e)
    <3>1. /\ r + d = w \/ r + d = w + Size
          /\ w + len + 1 = w2 \/ w + len + 1 = w2 + Size
          /\ w2 + q = r2 \/ w2 + q = r2 + Size
      BY <1>4, <2>2, <2>6, <2>7
    <3>2. len \in Nat \ {0} /\ len < Size /\ d < Size
      BY <1>1, <1>4
    <3> QED
      BY <2>2, <2>4, <2>5, <3>1, <3>2, OverrunPositions
  <2> QED
    BY <1>4, <1>7, <2>5, <2>7, <2>8
<1> QED
  BY <1>8, <1>9

\* The window as seen from a reader that has moved e characters on.
LEMMA ReadPositions ==
  ASSUME NEW r \in Index, NEW w \in Index, NEW d \in Nat, Apart(r, w) = d, NEW e \in 0 .. d,
         NEW r2 \in Index, PlaceOf(r, e) = r2
  PROVE  /\ Apart(r2, w) = d - e
         /\ \A i \in 0 .. (d - e) - 1 : PlaceOf(r2, i) = PlaceOf(r, e + i)
<1>1. /\ Size \in Nat /\ r \in Nat /\ w \in Nat /\ r2 \in Nat /\ e \in Nat /\ e <= d
      /\ r < Size /\ w < Size /\ r2 < Size
  BY SizeAssumption DEF Index
<1>2. d < Size /\ (r + d = w \/ r + d = w + Size)
  <2>1. d = (IF w >= r THEN w - r ELSE w - r + Size) /\ d \in 0 .. Size - 1
    BY ApartIs
  <2> QED
    BY <1>1, <2>1
<1>3. r + e = r2 \/ r + e = r2 + Size
  <2>1. e \in 0 .. Size
    BY <1>1, <1>2
  <2> QED
    BY <2>1, AtTurns
<1>4. Apart(r2, w) = d - e
  <2>1. Apart(r2, w) = IF w >= r2 THEN w - r2 ELSE w - r2 + Size
    BY ApartIs
  <2> QED
    BY <1>1, <1>2, <1>3, <2>1
<1>5. ASSUME NEW i \in 0 .. (d - e) - 1 PROVE PlaceOf(r2, i) = PlaceOf(r, e + i)
  <2>1. i \in Nat /\ i \in 0 .. Size /\ e + i \in 0 .. Size
    BY <1>1, <1>2
  <2>2. PICK p \in Nat : p = PlaceOf(r2, i) /\ p < Size /\ (r2 + i = p \/ r2 + i = p + Size)
    BY <2>1, AtTurns
  <2>3. PICK x \in Nat : /\ x = PlaceOf(r, e + i) /\ x < Size
                         /\ r + (e + i) = x \/ r + (e + i) = x + Size
    BY <2>1, AtTurns
  <2>4. p = x
    BY <1>1, <1>2, <1>3, <2>1, <2>2, <2>3
  <2> QED
    BY <2>2, <2>3, <2>4
<1> QED
  BY <1>4, <1>5

\* Where a read stops: at the first NUL of the window, at the end of the
\* output, or at once when the window is empty.
LEMMA ReadStops ==
  ASSUME WindowInv, clear, opened, NEW max_length \in ReadSizes,
         NEW k \in 0 .. max_length - 1, FirstStop(k, max_length),
         NEW d \in Nat, d = Apart(read_position, write_position),
         NEW c, c = View(buffer, read_position, write_position)
  PROVE  /\ k \in 0 .. d /\ (d > 0 => k < d)
         /\ Unended(c, 0, k)
         /\ CopiesNul(k, max_length) => k < d /\ c[k] < 0
<1>1. /\ read_position \in Index /\ write_position \in Index /\ buffer \in [Index -> Int]
      /\ Size \in Nat \ {0} /\ max_length \in Nat \ {0} /\ k \in Nat /\ accepted \in Nat
  BY SpaceIs, SizeAssumption, ReadSizesAssumption DEF WindowInv, ReadableInv, TypeOK
<1>2. d \in 0 .. Size - 1 /\ Window(c, d, accepted)
  BY <1>1, ApartIs DEF WindowInv
<1>3. \A j \in 0 .. d - 1 : c[j] = buffer[Ring(j)] /\ c[j] \in Int /\ c[j] # 0
  <2>1. /\ c \in [0 .. d - 1 -> Int]
        /\ \A j \in 0 .. d - 1 : c[j] = buffer[PlaceOf(read_position, j)]
    BY <1>1, ViewType
  <2> QED
    BY <1>2, <2>1 DEF Ring, PlaceOf, Window
<1>4. Ring(d) = write_position /\ \A j \in 0 .. d - 1 : Ring(j) # write_position
  <2>1. PICK r \in Nat, w \in Nat : /\ r = read_position /\ w = write_position
                                    /\ r < Size /\ w < Size
    BY <1>1 DEF Index
  <2>2. r + d = w \/ r + d = w + Size
    BY <2>1, SpaceIs DEF WindowInv
  <2>3. \A j \in 0 .. Size : \E p \in Nat :
          p = Ring(j) /\ p < Size /\ (r + j = p \/ r + j = p + Size)
    BY <1>1, <2>1, AtTurns DEF Ring, PlaceOf
  <2>4. Ring(d) = w
    <3>1. d \in 0 .. Size
      BY <1>1, <1>2
    <3>2. PICK p \in Nat : p = Ring(d) /\ p < Size /\ (r + d = p \/ r + d = p + Size)
      BY <2>3, <3>1
    <3>3. p = w
      BY <1>1, <2>1, <2>2, <3>2
    <3> QED
      BY <3>2, <3>3
  <2>5. ASSUME NEW j \in 0 .. d - 1 PROVE Ring(j) # w
    <3>1. j \in 0 .. Size /\ j \in Nat /\ j < d
      BY <1>1, <1>2
    <3>2. PICK p \in Nat : p = Ring(j) /\ p < Size /\ (r + j = p \/ r + j = p + Size)
      BY <2>3, <3>1
    <3>3. p # w
      BY <1>1, <1>2, <2>1, <2>2, <3>1, <3>2
    <3> QED
      BY <3>2, <3>3
  <2> QED
    BY <2>1, <2>4, <2>5
<1>5. k <= d
  <2>1. StopsAt(d, max_length)
    BY <1>4 DEF StopsAt
  <2>2. d \notin 0 .. k - 1
    BY <2>1 DEF FirstStop
  <2> QED
    BY <1>1, <2>2
<1>6. d > 0 => k < d
  <2>1. SUFFICES ASSUME d > 0 PROVE k < d
    OBVIOUS
  <2>2. d - 1 \in 0 .. d - 1 /\ d - 1 \in Nat
    BY <2>1
  <2>3. c[d - 1] < 0 /\ c[d - 1] = buffer[Ring(d - 1)]
    BY <1>2, <1>3, <2>1, <2>2 DEF Window
  <2>4. StopsAt(d - 1, max_length)
    BY <2>3 DEF StopsAt, IsNul
  <2>5. d - 1 \notin 0 .. k - 1
    BY <2>4 DEF FirstStop
  <2> QED
    BY <1>1, <1>5, <2>2, <2>5
<1>7. Unended(c, 0, k)
  <2>1. ASSUME NEW j \in 0 .. k - 1 PROVE c[j] > 0
    <3>1. j \in 0 .. d - 1
      BY <1>1, <1>5
    <3>2. ~IsNul(buffer[Ring(j)])
      BY DEF FirstStop, StopsAt
    <3>3. ~(c[j] < 0) /\ c[j] \in Int /\ c[j] # 0
      BY <1>3, <3>1, <3>2 DEF IsNul
    <3> QED
      BY <3>3
  <2> QED
    BY <2>1 DEF Unended
<1>8. ASSUME CopiesNul(k, max_length) PROVE k < d /\ c[k] < 0
  <2>1. Ring(k) # write_position /\ k # max_length - 1
    BY <1>1, <1>8 DEF CopiesNul
  <2>2. k < d /\ k \in 0 .. d - 1
    <3>1. k # d
      BY <1>4, <2>1
    <3> QED
      BY <1>1, <1>5, <3>1
  <2>3. IsNul(buffer[Ring(k)])
    BY <2>1 DEF FirstStop, StopsAt
  <2>4. c[k] = buffer[Ring(k)] /\ c[k] # 0
    BY <1>3, <2>2
  <2> QED
    BY <2>2, <2>3, <2>4 DEF IsNul
<1> QED
  BY <1>1, <1>5, <1>6, <1>7, <1>8

\* What a read does to the window and to the queue (QueueRead).
LEMMA ReadWindow ==
  ASSUME WindowInv, clear, opened, NEW max_length \in ReadSizes, Read(max_length),
         NEW d \in Nat, d = Apart(read_position, write_position),
         NEW c, c = View(buffer, read_position, write_position),
         NEW d2, d2 = Apart(read_position', write_position'),
         NEW c2, c2 = View(buffer', read_position', write_position')
  PROVE  /\ Window(c2, d2, accepted)
         /\ \E ended \in BOOLEAN, content \in SUBSET Messages(c, d), count \in Nat :
              /\ result' = [op |-> "read", text |-> content, count |-> count, ended |-> ended]
              /\ Left(Messages(c2, d2), Messages(c, d), ended, First(c))
              /\ ended => d > 0
              /\ content # {} => d > 0 /\ content = {First(c)}
<1>1. /\ read_position \in Index /\ write_position \in Index /\ buffer \in [Index -> Int]
      /\ Size \in Nat \ {0} /\ accepted \in Nat /\ d < Size
      /\ write_position' = write_position /\ buffer' = buffer
  <2>1. /\ read_position \in Index /\ write_position \in Index /\ buffer \in [Index -> Int]
        /\ Size \in Nat \ {0} /\ accepted \in Nat
    BY SpaceIs, SizeAssumption DEF WindowInv, ReadableInv, TypeOK
  <2>2. d \in 0 .. Size - 1
    BY <2>1, ApartIs
  <2> QED
    BY <2>1, <2>2 DEF Read
<1>2. /\ Window(c, d, accepted) /\ c \in [0 .. d - 1 -> Int]
      /\ \A j \in 0 .. d - 1 : c[j] = buffer[PlaceOf(read_position, j)]
  BY <1>1, ViewType DEF WindowInv
<1>3. PICK k \in 0 .. max_length - 1 :
        /\ FirstStop(k, max_length)
        /\ read_position' = IF CopiesNul(k, max_length) THEN Ring(k + 1) ELSE Ring(k)
        /\ result' = [op |-> "read",
                      text |-> {buffer[Ring(j)] : j \in 0 .. k - 1},
                      count |-> k + 1,
                      ended |-> CopiesNul(k, max_length)]
  BY DEF Read
<1>4. /\ k \in 0 .. d /\ (d > 0 => k < d)
      /\ Unended(c, 0, k)
      /\ CopiesNul(k, max_length) => k < d /\ c[k] < 0
  BY <1>3, ReadStops
<1>5. CopiesNul(k, max_length) \in BOOLEAN /\ k + 1 \in Nat /\ k \in Nat
  BY <1>4 DEF CopiesNul
<1>6. PICK e \in 0 .. d : /\ e = (IF CopiesNul(k, max_length) THEN k + 1 ELSE k)
                          /\ read_position' = PlaceOf(read_position, e)
  <2>1. CASE CopiesNul(k, max_length)
    <3>1. k + 1 \in 0 .. d
      BY <1>4, <1>5, <2>1
    <3> QED
      BY <1>3, <2>1, <3>1 DEF Ring, PlaceOf
  <2>2. CASE ~CopiesNul(k, max_length)
    BY <1>3, <1>4, <2>2 DEF Ring, PlaceOf
  <2> QED
    BY <2>1, <2>2
<1>7. PICK r2 \in Index : r2 = read_position'
  <2>1. e \in 0 .. Size
    BY <1>1
  <2> QED
    BY <1>1, <1>6, <2>1, PlaceIs
<1>8. /\ d2 = d - e /\ d - d2 = e /\ d2 \in Nat
      /\ \A i \in 0 .. d2 - 1 : PlaceOf(r2, i) = PlaceOf(read_position, e + i)
  <2>1. Apart(r2, write_position) = d - e /\ d2 = Apart(r2, write_position)
        /\ \A i \in 0 .. (d - e) - 1 : PlaceOf(r2, i) = PlaceOf(read_position, e + i)
    BY <1>1, <1>6, <1>7, ReadPositions
  <2>2. d - e \in Nat
    OBVIOUS
  <2> QED
    BY <2>1, <2>2
<1>9. c2 \in [0 .. d2 - 1 -> Int] /\ Advanced(c2, c, d2, e)
  <2>1. c2 = View(buffer, r2, write_position) /\ d2 = Apart(r2, write_position)
    BY <1>1, <1>7
  <2>2. c2 \in [0 .. d2 - 1 -> Int] /\ \A i \in 0 .. d2 - 1 : c2[i] = buffer[PlaceOf(r2, i)]
    BY <1>1, <2>1, ViewType
  <2>3. \A i \in 0 .. d2 - 1 : e + i \in 0 .. d - 1
    BY <1>8
  <2> QED
    BY <1>2, <1>8, <2>2, <2>3 DEF Advanced
<1>10. Window(c2, d2, accepted)
  BY <1>1, <1>2, <1>8, <1>9, WindowAfterRead
<1>11. CASE d = 0
  <2>1. k = 0 /\ e = 0 /\ ~CopiesNul(k, max_length) /\ d2 = 0
    BY <1>4, <1>5, <1>6, <1>8, <1>11
  <2>2. {buffer[Ring(j)] : j \in 0 .. k - 1} = {}
    BY <2>1
  <2>3. Messages(c, d) = {} /\ Messages(c2, d2) = {}
    BY <1>11, <2>1 DEF Messages
  <2>4. result' = [op |-> "read", text |-> {}, count |-> k + 1, ended |-> FALSE]
    BY <1>3, <1>5, <2>1, <2>2
  <2>5. Left(Messages(c2, d2), Messages(c, d), FALSE, First(c))
    BY <2>3 DEF Left, Kept
  <2> QED
    BY <1>5, <1>10, <2>4, <2>5
<1>12. CASE d > 0
  <2>1. k \in 0 .. d - 1 /\ 0 \in 0 .. d - 1
    BY <1>4, <1>12
  <2>2. \A j \in 0 .. k : MessageOf(c[j]) = First(c)
    BY <1>1, <1>2, <1>4, <2>1, FirstMessage DEF First
  <2>3. \A j \in 0 .. k - 1 : buffer[Ring(j)] = First(c)
    <3> SUFFICES ASSUME NEW j \in 0 .. k - 1 PROVE buffer[Ring(j)] = First(c)
      OBVIOUS
    <3>1. j \in 0 .. d - 1 /\ j \in 0 .. k
      BY <2>1
    <3>2. c[j] = buffer[Ring(j)] /\ c[j] > 0 /\ c[j] \in Int
      BY <1>2, <1>4, <3>1 DEF Ring, PlaceOf, Unended
    <3>3. MessageOf(c[j]) = c[j]
      BY <3>2 DEF MessageOf
    <3> QED
      BY <2>2, <3>1, <3>2, <3>3
  <2>4. First(c) \in Messages(c, d)
    BY <2>1 DEF Messages, First
  <2>5. PICK content \in SUBSET Messages(c, d) :
          /\ content = {buffer[Ring(j)] : j \in 0 .. k - 1}
          /\ content # {} => content = {First(c)}
    <3>1. {buffer[Ring(j)] : j \in 0 .. k - 1} \in SUBSET Messages(c, d)
      BY <2>3, <2>4
    <3>2. {buffer[Ring(j)] : j \in 0 .. k - 1} # {} =>
            {buffer[Ring(j)] : j \in 0 .. k - 1} = {First(c)}
      BY <2>3
    <3> QED
      BY <3>1, <3>2
  <2>6. Left(Messages(c2, d2), Messages(c, d), CopiesNul(k, max_length), First(c))
    <3>1. PICK ended \in BOOLEAN : ended = CopiesNul(k, max_length)
      BY <1>5
    <3>2. ended => c[k] < 0
      BY <1>4, <3>1
    <3>3. e - k = IF ended THEN 1 ELSE 0
      BY <1>5, <1>6, <3>1
    <3>4. Left(Messages(c2, d2), Messages(c, d), ended, First(c))
      <4>1. /\ accepted \in Nat /\ Window(c, d, accepted) /\ c \in [0 .. d - 1 -> Int]
            /\ k \in 0 .. d - 1 /\ Unended(c, 0, k)
            /\ d2 \in Nat /\ d - d2 = e
            /\ c2 \in [0 .. d2 - 1 -> Int] /\ Advanced(c2, c, d2, e)
        BY <1>1, <1>2, <1>4, <1>8, <1>9, <2>1
      <4>2. CASE ended
        <5>1. e - k = 1 /\ e \in Nat /\ c[k] < 0
          BY <3>2, <3>3, <4>2
        <5>2. Removed(Messages(c2, d2), Messages(c, d), First(c))
          BY <4>1, <5>1, MessagesAfterEnd
        <5> QED
          BY <4>2, <5>2 DEF Left
      <4>3. CASE ~ended
        <5>1. d - d2 = k /\ Advanced(c2, c, d2, k)
          BY <3>3, <4>1, <4>3
        <5>2. Kept(Messages(c2, d2), Messages(c, d))
          BY <4>1, <5>1, MessagesAfterPart
        <5> QED
          BY <4>3, <5>2 DEF Left
      <4> QED
        BY <4>2, <4>3
    <3> QED
      BY <3>1, <3>4
  <2>7. result' = [op |-> "read", text |-> content, count |-> k + 1,
                   ended |-> CopiesNul(k, max_length)]
    BY <1>3, <2>5
  <2> QED
    BY <1>5, <1>10, <1>12, <2>5, <2>6, <2>7
<1> QED
  BY <1>11, <1>12

\* The queue is the set of the window's messages, before and after a step.
LEMMA UnreadIs ==
  Unread = Messages(View(buffer, read_position, write_position),
                    Apart(read_position, write_position))
<1>1. \A i \in 0 .. Apart(read_position, write_position) - 1 :
        View(buffer, read_position, write_position)[i] = buffer[Ring(i)]
  BY DEF View, Ring, PlaceOf
<1> QED
  BY <1>1 DEF Unread, Messages, Apart

LEMMA UnreadIsNext ==
  Unread' = Messages(View(buffer', read_position', write_position'),
                     Apart(read_position', write_position'))
<1>1. \A i \in 0 .. Apart(read_position', write_position') - 1 :
        View(buffer', read_position', write_position')[i] = buffer'[(read_position' + i) % Size]
  BY DEF View, PlaceOf
<1> QED
  BY <1>1 DEF Unread, Messages, Apart, Ring

\* The message that QueueRead calls the oldest is the first of the window.
LEMMA LeastOf ==
  ASSUME NEW S \in SUBSET Int, NEW x \in S, \A n \in S : x <= n
  PROVE  (CHOOSE m \in S : \A n \in S : m <= n) = x
<1>1. PICK y : y = CHOOSE m \in S : \A n \in S : m <= n
  OBVIOUS
<1>2. y \in S /\ \A n \in S : y <= n
  BY <1>1
<1>3. x <= y /\ y <= x /\ x \in Int /\ y \in Int
  BY <1>2
<1>4. y = x
  BY <1>3
<1> QED
  BY <1>1, <1>4

LEMMA OldestIs ==
  ASSUME WindowInv, clear, opened,
         NEW d \in Nat, d = Apart(read_position, write_position), d > 0,
         NEW c, c = View(buffer, read_position, write_position)
  PROVE  Queue!Oldest = First(c)
<1>1. /\ read_position \in Index /\ write_position \in Index /\ buffer \in [Index -> Int]
      /\ accepted \in Nat
  BY SpaceIs DEF WindowInv, ReadableInv, TypeOK
<1>2. Window(c, d, accepted) /\ c \in [0 .. d - 1 -> Int]
  BY <1>1, ViewType DEF WindowInv
<1>3. Unread = Messages(c, d)
  BY UnreadIs
<1>4. 0 \in 0 .. d - 1
  OBVIOUS
<1>5. \A i \in 0 .. d - 1 : MessageOf(c[i]) \in Int /\ First(c) <= MessageOf(c[i])
  <2> TAKE i \in 0 .. d - 1
  <2>1. c[i] \in Int /\ 0 <= i
    BY <1>2
  <2>2. MessageOf(c[i]) \in Int
    BY <2>1, MessageOfType
  <2>3. MessageOf(c[0]) <= MessageOf(c[i])
    BY <1>1, <1>2, <1>4, <2>1, WindowOrdered
  <2> QED
    BY <2>2, <2>3 DEF First
<1>6. PICK S \in SUBSET Int : S = IF clear /\ opened THEN Unread ELSE {}
  BY <1>3, <1>5 DEF Messages
<1>7. First(c) \in S /\ \A n \in S : First(c) <= n
  BY <1>3, <1>4, <1>5, <1>6 DEF Messages, First
<1>8. (CHOOSE m \in S : \A n \in S : m <= n) = First(c)
  BY <1>7, LeastOf
<1> QED
  BY <1>6, <1>8 DEF Queue!Oldest

\* The window is an invariant, and every step of the ring is one of the queue.
LEMMA WindowStep ==
  ASSUME WindowInv, [Next]_vars
  PROVE  WindowInv' /\ [Queue!QueueNext]_Queue!queueVars
<1>1. ReadableInv' /\ ReadableInv /\ TypeOK'
  BY ReadableStep DEF WindowInv, ReadableInv
<1>2. clear' = clear
  BY DEF Next, vars, Open, Close, Send, SendTooBig, Read
<1>3. CASE ~clear
  <2>1. UNCHANGED Queue!queueVars
    BY <1>2, <1>3 DEF Queue!queueVars
  <2> QED
    BY <1>1, <1>2, <1>3, <2>1 DEF WindowInv
<1>4. CASE clear
  <2>1. clear' /\ clear
    BY <1>2, <1>4
  <2>2. /\ Unread = Messages(View(buffer, read_position, write_position),
                             Apart(read_position, write_position))
        /\ Unread' = Messages(View(buffer', read_position', write_position'),
                              Apart(read_position', write_position'))
    BY UnreadIs, UnreadIsNext
  <2>3. CASE Open
    <3>1. Apart(read_position', write_position') = 0
      BY <2>3, SizeAssumption DEF Open, Apart
    <3>2. Unread' = {}
      BY <2>2, <3>1 DEF Messages
    <3>3. WindowInv'
      BY <1>1, <3>1 DEF WindowInv, Window
    <3>4. Queue!QueueOpen
      BY <2>1, <2>3, <3>2 DEF Open, Queue!QueueOpen, QueueResult
    <3> QED
      BY <3>3, <3>4 DEF Queue!QueueNext
  <2>4. CASE Close
    <3>1. WindowInv'
      BY <1>1, <2>4 DEF Close, WindowInv
    <3>2. Queue!QueueClose
      BY <2>1, <2>4 DEF Close, Queue!QueueClose, QueueResult
    <3> QED
      BY <3>1, <3>2 DEF Queue!QueueNext
  <2>5. ASSUME NEW len \in Lengths, Send(len)
        PROVE  WindowInv' /\ Queue!QueueNext
    <3>1. /\ Window(View(buffer', read_position', write_position'),
                    Apart(read_position', write_position'), accepted + 1)
          /\ Displaced(Unread', Unread, accepted)
      BY <2>1, <2>2, <2>5, SendWindow
    <3>2. accepted' = accepted + 1 /\ opened /\ opened' /\ result' = [op |-> "send"]
      BY <2>5 DEF Send
    <3>3. WindowInv'
      BY <1>1, <3>1, <3>2 DEF WindowInv
    <3>4. Queue!QueueSend
      BY <2>1, <3>1, <3>2 DEF Queue!QueueSend, QueueResult, Displaced
    <3> QED
      BY <3>3, <3>4 DEF Queue!QueueNext
  <2>6. ASSUME NEW len \in Lengths, SendTooBig(len)
        PROVE  WindowInv' /\ Queue!QueueNext
    <3>1. UNCHANGED << opened, buffer, read_position, write_position, accepted >>
          /\ opened /\ result' = [op |-> "reject"]
      BY <2>6 DEF SendTooBig
    <3>2. WindowInv'
      BY <1>1, <2>1, <3>1 DEF WindowInv
    <3>3. Unread' = Unread
      BY <2>2, <3>1
    <3>4. Queue!QueueReject
      BY <2>1, <3>1, <3>3 DEF Queue!QueueReject, QueueResult
    <3> QED
      BY <3>2, <3>4 DEF Queue!QueueNext
  <2>7. ASSUME NEW max_length \in ReadSizes, Read(max_length)
        PROVE  WindowInv' /\ Queue!QueueNext
    <3>1. opened /\ opened' /\ accepted' = accepted
      BY <2>7 DEF Read
    <3>2. PICK d \in Nat : d = Apart(read_position, write_position)
      BY <1>1, <2>1, SpaceIs
    <3>3. PICK c : c = View(buffer, read_position, write_position)
      OBVIOUS
    <3>4. PICK d2 : d2 = Apart(read_position', write_position')
      OBVIOUS
    <3>5. PICK c2 : c2 = View(buffer', read_position', write_position')
      OBVIOUS
    <3>6. /\ Window(c2, d2, accepted)
          /\ \E ended \in BOOLEAN, content \in SUBSET Messages(c, d), count \in Nat :
               /\ result' = [op |-> "read", text |-> content, count |-> count, ended |-> ended]
               /\ Left(Messages(c2, d2), Messages(c, d), ended, First(c))
               /\ ended => d > 0
               /\ content # {} => d > 0 /\ content = {First(c)}
      BY <2>1, <2>7, <3>1, <3>2, <3>3, <3>4, <3>5, ReadWindow
    <3>7. WindowInv'
      BY <1>1, <3>1, <3>4, <3>5, <3>6 DEF WindowInv
    <3>8. PICK ended \in BOOLEAN, content \in SUBSET Unread, count \in Nat :
            /\ result' = [op |-> "read", text |-> content, count |-> count, ended |-> ended]
            /\ Left(Unread', Unread, ended, First(c))
            /\ ended => d > 0
            /\ content # {} => d > 0 /\ content = {First(c)}
      BY <2>2, <3>2, <3>3, <3>4, <3>5, <3>6
    <3>9. d > 0 => Queue!Oldest = First(c) /\ Unread # {}
      <4>1. ASSUME d > 0 PROVE Unread # {}
        <5>1. 0 \in 0 .. d - 1
          BY <4>1
        <5> QED
          BY <2>2, <3>2, <5>1 DEF Messages
      <4>2. ASSUME d > 0 PROVE Queue!Oldest = First(c)
        BY <2>1, <3>1, <3>2, <3>3, <4>2, OldestIs
      <4> QED
        BY <4>1, <4>2
    <3>10. QueueResult' = [op |-> "read", text |-> content, ended |-> ended]
      BY <3>8 DEF QueueResult
    <3>11. /\ Unread' = IF ended THEN Unread \ {Queue!Oldest} ELSE Unread
           /\ ended => Unread # {}
           /\ content # {} => content = {Queue!Oldest}
      BY <3>8, <3>9 DEF Left, Removed, Kept
    <3>12. Queue!QueueRead
      BY <2>1, <3>1, <3>10, <3>11 DEF Queue!QueueRead
    <3> QED
      BY <3>7, <3>12 DEF Queue!QueueNext
  <2>8. CASE UNCHANGED vars
    <3>1. UNCHANGED << opened, buffer, read_position, write_position, accepted, result >>
      BY <2>8 DEF vars
    <3>2. WindowInv'
      BY <1>1, <2>1, <3>1 DEF WindowInv
    <3>3. Unread' = Unread
      BY <2>2, <3>1
    <3>4. UNCHANGED Queue!queueVars
      BY <2>1, <3>1, <3>3 DEF Queue!queueVars, QueueResult
    <3> QED
      BY <3>2, <3>4
  <2> QED
    BY <2>3, <2>4, <2>5, <2>6, <2>7, <2>8 DEF Next
<1> QED
  BY <1>3, <1>4

\* The ring of characters of buffer.c implements the queue that its
\* documentation promises, away from the two boundary cases and for a ring,
\* messages and reads of any size: messages are read in the order they were
\* sent, none twice, and a send loses none but the oldest ones.
THEOREM RingImplementsQueue == Spec => ImplementsLossyQueue
<1>1. Init => Queue!QueueInit
  BY DEF Init, Queue!QueueInit, QueueResult
<1>2. Init => WindowInv
  BY ReadableInit DEF Init, WindowInv
<1>3. WindowInv /\ [Next]_vars => WindowInv' /\ [Queue!QueueNext]_Queue!queueVars
  BY WindowStep
<1> QED
  BY <1>1, <1>2, <1>3, PTL DEF Spec, ImplementsLossyQueue, Queue!QueueSpec

-----------------------------------------------------------------------------
(***************************************************************************)
(* Lists of sources.                                                       *)
(***************************************************************************)

Has(q, s) == \E i \in DOMAIN q : q[i] = s

NoRepeat(q) == \A i, j \in DOMAIN q : q[i] = q[j] => i = j

\* What the two operators of the model say.
LEMMA ContainsIs == \A q, s : Source!multi_sz_contains(q, s) <=> Has(q, s)
BY DEF Source!multi_sz_contains, Source!ToSet, Has

LEMMA ListedIs == \A s : s \in Source!Listed <=> key # NONE /\ Has(key, s)
BY DEF Source!Listed, Source!ToSet, Has

\* The list of no source and the list of one.
LEMMA ShortLists ==
  ASSUME NEW S, NEW s \in S
  PROVE  /\ << >> \in Seq(S) /\ NoRepeat(<< >>) /\ \A x : ~Has(<< >>, x)
         /\ << s >> \in Seq(S) /\ NoRepeat(<< s >>) /\ \A x : Has(<< s >>, x) <=> x = s
BY DEF NoRepeat, Has

\* A source in front of a list.
LEMMA InFront ==
  ASSUME NEW S, NEW s \in S, NEW q \in Seq(S)
  PROVE  /\ << s >> \o q \in Seq(S)
         /\ \A x : Has(<< s >> \o q, x) <=> x = s \/ Has(q, x)
         /\ NoRepeat(q) /\ ~Has(q, s) => NoRepeat(<< s >> \o q)
<1> DEFINE r == << s >> \o q
<1>1. /\ r \in Seq(S) /\ Len(r) = Len(q) + 1 /\ DOMAIN r = 1 .. Len(q) + 1 /\ DOMAIN q = 1 .. Len(q)
      /\ Len(q) \in Nat
  OBVIOUS
<1>2. r[1] = s /\ \A i \in 1 .. Len(q) : r[i + 1] = q[i]
  OBVIOUS
<1>3. \A i \in DOMAIN r : i = 1 \/ (i - 1 \in DOMAIN q /\ r[i] = q[i - 1])
  <2> SUFFICES ASSUME NEW i \in DOMAIN r, i # 1 PROVE i - 1 \in DOMAIN q /\ r[i] = q[i - 1]
    OBVIOUS
  <2>1. i - 1 \in 1 .. Len(q) /\ (i - 1) + 1 = i
    BY <1>1
  <2> QED
    BY <1>1, <1>2, <2>1
<1> HIDE DEF r
<1>4. \A x : Has(r, x) <=> x = s \/ Has(q, x)
  BY <1>1, <1>2, <1>3 DEF Has
<1>5. ASSUME NoRepeat(q), ~Has(q, s) PROVE NoRepeat(r)
  BY <1>1, <1>2, <1>3, <1>5 DEF Has, NoRepeat
<1> QED
  BY <1>1, <1>4, <1>5 DEF r

\* One list behind another.
LEMMA Behind ==
  ASSUME NEW S, NEW a \in Seq(S), NEW b \in Seq(S)
  PROVE  /\ a \o b \in Seq(S) /\ Len(a \o b) = Len(a) + Len(b) /\ DOMAIN (a \o b) = 1 .. Len(a) + Len(b)
         /\ \A i \in 1 .. Len(a) + Len(b) : (a \o b)[i] = IF i <= Len(a) THEN a[i] ELSE b[i - Len(a)]
OBVIOUS

\* A list without one of its sources.
LEMMA LeftOut ==
  ASSUME NEW S, NEW s \in S, NEW q \in Seq(S), NoRepeat(q), Has(q, s)
  PROVE  /\ Source!Without(q, s) \in Seq(S)
         /\ \A x : Has(Source!Without(q, s), x) <=> x # s /\ Has(q, x)
         /\ NoRepeat(Source!Without(q, s))
<1> DEFINE k == CHOOSE i \in DOMAIN q : q[i] = s
           a == SubSeq(q, 1, k - 1)
           b == SubSeq(q, k + 1, Len(q))
           r == a \o b
<1>1. k \in DOMAIN q /\ q[k] = s /\ k \in 1 .. Len(q) /\ Len(q) \in Nat /\ DOMAIN q = 1 .. Len(q)
  BY DEF Has
<1>2. Source!Without(q, s) = r
  BY DEF Source!Without, Source!RemoveAt
<1> HIDE DEF k
<1>3. a \in Seq(S) /\ Len(a) = k - 1 /\ \A i \in 1 .. k - 1 : a[i] = q[i]
  BY <1>1
<1>4. b \in Seq(S) /\ Len(b) = Len(q) - k /\ \A i \in 1 .. Len(q) - k : b[i] = q[i + k]
  BY <1>1
<1> HIDE DEF a, b
<1>5. r \in Seq(S) /\ Len(r) = Len(q) - 1 /\ DOMAIN r = 1 .. Len(q) - 1
  <2>1. /\ r \in Seq(S) /\ Len(r) = Len(a) + Len(b) /\ DOMAIN r = 1 .. Len(a) + Len(b)
    BY <1>3, <1>4, Behind
  <2>2. Len(a) + Len(b) = Len(q) - 1
    BY <1>1, <1>3, <1>4
  <2> QED
    BY <2>1, <2>2
<1>6. \A i \in DOMAIN r : r[i] = IF i < k THEN q[i] ELSE q[i + 1]
  <2> SUFFICES ASSUME NEW i \in 1 .. Len(q) - 1 PROVE r[i] = IF i < k THEN q[i] ELSE q[i + 1]
    BY <1>5
  <2>0. /\ i \in Int /\ k \in Int /\ i \in 1 .. Len(a) + Len(b)
        /\ r[i] = IF i <= Len(a) THEN a[i] ELSE b[i - Len(a)]
    <3>1. i \in 1 .. Len(a) + Len(b)
      BY <1>1, <1>3, <1>4
    <3>2. /\ (a \o b)[i] = IF i <= Len(a) THEN a[i] ELSE b[i - Len(a)]
      BY <1>3, <1>4, <3>1, Behind
    <3> QED
      BY <1>1, <3>1, <3>2
  <2>1. CASE i < k
    BY <1>1, <1>3, <2>0, <2>1
  <2>2. CASE i >= k
    <3>1. i - (k - 1) \in 1 .. Len(q) - k /\ (i - (k - 1)) + k = i + 1
      BY <1>1, <2>2
    <3>2. r[i] = b[i - (k - 1)]
      BY <1>1, <1>3, <2>0, <2>2
    <3> QED
      BY <1>1, <1>4, <2>2, <3>1, <3>2
  <2> QED
    BY <2>0, <2>1, <2>2
<1> HIDE DEF r
<1>7. \A x : Has(r, x) => x # s /\ Has(q, x)
  BY <1>1, <1>5, <1>6 DEF Has, NoRepeat
<1>8. ASSUME NEW x, x # s, Has(q, x) PROVE Has(r, x)
  <2>1. PICK j \in 1 .. Len(q) : q[j] = x /\ j # k
    BY <1>1, <1>8 DEF Has
  <2>2. CASE j < k
    BY <1>1, <1>5, <1>6, <2>1, <2>2 DEF Has
  <2>3. CASE j > k
    <3>1. j - 1 \in 1 .. Len(q) - 1 /\ ~(j - 1 < k) /\ (j - 1) + 1 = j
      BY <1>1, <2>3
    <3> QED
      BY <1>5, <1>6, <2>1, <3>1 DEF Has
  <2> QED
    BY <1>1, <2>1, <2>2, <2>3
<1>9. NoRepeat(r)
  BY <1>1, <1>5, <1>6 DEF NoRepeat
<1> QED
  BY <1>2, <1>5, <1>7, <1>8, <1>9

\* There are as many sources in a list as it is long.
LEMMA SameFinite == \A S : Source!Cardinality(S) = Cardinality(S)
BY Zenon DEF Source!Cardinality, Cardinality

LEMMA CountOnce ==
  ASSUME NEW S, NEW q \in Seq(S), NoRepeat(q)
  PROVE  Source!Cardinality(Source!ToSet(q)) = Len(q)
<1> DEFINE T == Source!ToSet(q)
<1>1. DOMAIN q = 1 .. Len(q) /\ Len(q) \in Nat /\ T = {q[i] : i \in 1 .. Len(q)}
  BY DEF Source!ToSet
<1>2. [i \in 1 .. Len(q) |-> q[i]] \in Bijection(1 .. Len(q), T)
  BY <1>1 DEF NoRepeat, Bijection, Injection, Surjection, IsInjective
<1>3. ExistsBijection(1 .. Len(q), T)
  BY <1>2 DEF ExistsBijection
<1>4. Cardinality(T) = Len(q)
  BY <1>1, <1>3, FS_CountingElements
<1> QED
  BY <1>4, SameFinite

-----------------------------------------------------------------------------
(***************************************************************************)
(* The invariant of the registration.                                      *)
(***************************************************************************)

CallRecord ==
  [step : Source!Steps, op : {NONE, "add", "remove"}, source : Sources \cup {NONE}, settings : Settings \cup {NONE},
   sources : Seq(Sources), size : Nat, result : {NONE, "success", "failure"}]

CallersTyped ==
  /\ caller \in [Callers -> CallRecord]
  /\ held \in [Callers -> SUBSET {"name", "key", "sources", "transaction", "subkey"}]
  /\ seen \in [overlapped : BOOLEAN, silent : BOOLEAN, untransacted : BOOLEAN]
  /\ requests \in 0 .. MaxRequests

RegistryTyped ==
  /\ key \in Seq(Sources) \cup {NONE}
  /\ subkey \in [Sources -> Settings \cup {NONE}]

At(c, S) == caller[c].step \in S

\* What a call was asked for goes with where it is.
AskedInv ==
  \A c \in Callers :
    /\ ~At(c, {"idle", "dead"}) => /\ caller[c].source \in Sources
                                   /\ \/ caller[c].op = "add" /\ caller[c].settings \in Settings
                                      \/ caller[c].op = "remove"
    /\ At(c, {"create", "list", "begin", "commit"}) => caller[c].op = "add"
    /\ At(c, {"unlist", "delete"}) => caller[c].op = "remove"

\* No list has a source twice, neither the one in the registry nor the one that
\* a call has read, however old it is.
ListsInv ==
  /\ key # NONE => NoRepeat(key)
  /\ \A c \in Callers : NoRepeat(caller[c].sources)
  /\ \A c \in Callers : At(c, {"list"}) => ~Has(caller[c].sources, caller[c].source)
  /\ \A c \in Callers : At(c, {"unlist"}) => /\ Has(caller[c].sources, caller[c].source)
                                             /\ caller[c].sources # << caller[c].source >>

\* There is no source without a key of the log.
KeyInv == key = NONE => \A s \in Sources : subkey[s] = NONE

\* A call that may have changed something, or is going to.
Working(c) == ~At(c, {"idle", "dead"}) /\ (At(c, {"return"}) => caller[c].result # "failure")

\* If calls do not overlap there is at most one of them.
AloneInv == ~seen.overlapped => \A c, d \in Callers : Working(c) /\ Working(d) => c = d

IsListed(s) == key # NONE /\ Has(key, s)

\* What a call knows of the registry when no other one interferes.
KnownOf(c) ==
  LET f == caller[c] IN
  /\ f.step = "create" => key = NONE
  /\ f.step \in {"list", "unlist"} => key = f.sources
  /\ f.step \in {"begin", "commit"} => IsListed(f.source)
  /\ f.step = "delete" => IF f.sources \in {<< >>, << f.source >>} THEN key = f.sources ELSE ~IsListed(f.source)
  /\ f.step = "return" /\ f.result # "failure" /\ ~seen.silent =>
       IF f.op = "add" THEN IsListed(f.source) /\ subkey[f.source] = f.settings
       ELSE ~IsListed(f.source) /\ subkey[f.source] = NONE

KnownInv == ~seen.overlapped => \A c \in Callers : KnownOf(c)

\* Nothing is left open behind a call.
HandlesInv ==
  \A c \in Callers :
    /\ At(c, {"idle"}) => held[c] = {}
    /\ At(c, {"return"}) /\ ~seen.untransacted => held[c] \subseteq {"name"}

SourceInv ==
  /\ CallersTyped /\ RegistryTyped
  /\ AskedInv /\ ListsInv /\ KeyInv /\ AloneInv /\ KnownInv /\ HandlesInv

-----------------------------------------------------------------------------
(***************************************************************************)
(* The invariant is kept.                                                  *)
(***************************************************************************)

\* The four public functions ask for one of two things.
MayAsk(op, s, g) == s \in Sources /\ ((op = "add" /\ g \in Settings) \/ (op = "remove" /\ g = NONE))

Asks(c) ==
  \E op \in {"add", "remove"}, s \in Sources, g \in Settings \cup {NONE} :
    MayAsk(op, s, g) /\ (Source!Request(c, op, s, g) \/ Source!Unconverted(c, op, s, g))

LEMMA CallsAsk ==
  ASSUME NEW c \in Callers,
         \/ \E s \in Sources, g \in Settings :
              Source!stumpless_add_wel_event_source(c, s, g) \/ Source!stumpless_add_wel_event_source_w(c, s, g)
         \/ \E s \in Sources : Source!stumpless_remove_wel_event_source(c, s)
         \/ Source!stumpless_add_default_wel_event_source(c)
  PROVE  Asks(c)
<1>1. ASSUME NEW s \in Sources, NEW g \in Settings, Source!Request(c, "add", s, g) \/ Source!Unconverted(c, "add", s, g)
      PROVE Asks(c)
  BY <1>1, Zenon DEF Asks, MayAsk
<1>2. ASSUME NEW s \in Sources, Source!Request(c, "remove", s, NONE) \/ Source!Unconverted(c, "remove", s, NONE)
      PROVE Asks(c)
  BY <1>2, Zenon DEF Asks, MayAsk
<1>3. (CHOOSE x \in Sources : TRUE) \in Sources /\ (CHOOSE x \in Settings : TRUE) \in Settings
  BY SourceAssumption
<1>4. CASE Source!stumpless_add_default_wel_event_source(c)
  BY <1>1, <1>3, <1>4 DEF Source!stumpless_add_default_wel_event_source
<1> QED
  BY <1>1, <1>2, <1>4 DEF Source!stumpless_add_wel_event_source, Source!stumpless_add_wel_event_source_w,
                          Source!stumpless_remove_wel_event_source

\* Where a call goes with the list that it has read.
GoesOn(c, q, n) ==
  /\ n \in {"begin", "list", "unlist", "delete"}
  /\ caller' = [caller EXCEPT ![c] = [caller[c] EXCEPT !.step = n, !.sources = q]]
  /\ n \in {"begin", "list"} <=> caller[c].op = "add"
  /\ n = "begin" => Has(q, caller[c].source)
  /\ n = "list" => ~Has(q, caller[c].source)
  /\ n = "unlist" => Has(q, caller[c].source) /\ q \notin {<< >>, << caller[c].source >>}
  /\ n = "delete" => q \in {<< >>, << caller[c].source >>} \/ ~Has(q, caller[c].source)

LEMMA WithSourcesGoesOn ==
  ASSUME NEW c \in Callers, NEW q, Source!WithSources(c, q)
  PROVE  \E n \in {"begin", "list", "unlist", "delete"} : GoesOn(c, q, n)
<1> DEFINE f == caller[c]
           listed == Source!multi_sz_contains(q, f.source)
           n == IF f.op = "add" THEN IF listed THEN "begin" ELSE "list"
                ELSE IF listed /\ q # << f.source >> THEN "unlist" ELSE "delete"
<1>1. Source!multi_sz_contains(q, f.source) <=> Has(q, f.source)
  BY ContainsIs
<1>2. caller' = [caller EXCEPT ![c] = [f EXCEPT !.step = n, !.sources = q]]
  BY DEF Source!WithSources, Source!To
<1>0. ~Has(<< >>, f.source)
  BY DEF Has
<1>3. CASE f.op = "add" /\ Has(q, f.source)
  <2>1. n = "begin"
    BY <1>1, <1>3
  <2>2. GoesOn(c, q, "begin")
    BY <1>0, <1>2, <1>3, <2>1 DEF GoesOn
  <2> QED
    BY <2>2
<1>4. CASE f.op = "add" /\ ~Has(q, f.source)
  <2>1. n = "list"
    BY <1>1, <1>4
  <2>2. GoesOn(c, q, "list")
    BY <1>0, <1>2, <1>4, <2>1 DEF GoesOn
  <2> QED
    BY <2>2
<1>5. CASE f.op # "add" /\ q = << f.source >>
  <2>1. n = "delete"
    BY <1>1, <1>5
  <2>2. GoesOn(c, q, "delete")
    BY <1>0, <1>2, <1>5, <2>1 DEF GoesOn
  <2> QED
    BY <2>2
<1>6. CASE f.op # "add" /\ q # << f.source >> /\ Has(q, f.source)
  <2>1. n = "unlist"
    BY <1>1, <1>6
  <2>2. GoesOn(c, q, "unlist")
    BY <1>0, <1>2, <1>6, <2>1 DEF GoesOn
  <2> QED
    BY <2>2
<1>7. CASE f.op # "add" /\ ~Has(q, f.source)
  <2>1. n = "delete"
    BY <1>1, <1>7
  <2>2. GoesOn(c, q, "delete")
    BY <1>0, <1>2, <1>7, <2>1 DEF GoesOn
  <2> QED
    BY <2>2
<1> QED
  BY <1>3, <1>4, <1>5, <1>6, <1>7

\* What happens to the record of a call: it starts afresh, or moves on.
Started(c, n, op, s, g, r) ==
  /\ caller' \in [Callers -> CallRecord]
  /\ caller'[c].step = n /\ caller'[c].op = op /\ caller'[c].source = s /\ caller'[c].settings = g
  /\ caller'[c].sources = << >> /\ caller'[c].result = r
  /\ \A d \in Callers : d # c => caller'[d] = caller[d]

Moved(c, n, q, r) ==
  /\ caller' \in [Callers -> CallRecord]
  /\ caller'[c].step = n /\ caller'[c].op = caller[c].op /\ caller'[c].source = caller[c].source
  /\ caller'[c].settings = caller[c].settings
  /\ caller'[c].sources = q /\ caller'[c].result = r
  /\ \A d \in Callers : d # c => caller'[d] = caller[d]

LEMMA Begun ==
  ASSUME caller \in [Callers -> CallRecord], NEW c \in Callers, NEW n \in Source!Steps, NEW op \in {NONE, "add", "remove"},
         NEW s \in Sources \cup {NONE}, NEW g \in Settings \cup {NONE}, NEW r \in {NONE, "success", "failure"}
  PROVE  /\ Source!To(c, [Source!Idle EXCEPT !.step = n, !.op = op, !.source = s, !.settings = g]) =>
              Started(c, n, op, s, g, NONE)
         /\ Source!To(c, [Source!Idle EXCEPT !.step = n, !.op = op, !.source = s, !.settings = g, !.result = r]) =>
              Started(c, n, op, s, g, r)
         /\ Source!To(c, [Source!Idle EXCEPT !.step = n]) => Started(c, n, NONE, NONE, NONE, NONE)
         /\ Source!To(c, Source!Idle) => Started(c, "idle", NONE, NONE, NONE, NONE)
<1> DEFINE a == [Source!Idle EXCEPT !.step = n, !.op = op, !.source = s, !.settings = g]
           b == [Source!Idle EXCEPT !.step = n, !.op = op, !.source = s, !.settings = g, !.result = r]
           d == [Source!Idle EXCEPT !.step = n]
<1>0. << >> \in Seq(Sources) /\ 0 \in Nat
  OBVIOUS
<1>1. a \in CallRecord /\ a.step = n /\ a.op = op /\ a.source = s /\ a.settings = g /\ a.sources = << >> /\ a.result = NONE
  <2>1. a \in CallRecord
    BY <1>0 DEF CallRecord, Source!Idle
  <2>2. a.step = n /\ a.op = op /\ a.source = s /\ a.settings = g /\ a.sources = << >> /\ a.result = NONE
    BY DEF Source!Idle
  <2> QED
    BY <2>1, <2>2
<1>2. b \in CallRecord /\ b.step = n /\ b.op = op /\ b.source = s /\ b.settings = g /\ b.sources = << >> /\ b.result = r
  <2>1. b \in CallRecord
    BY <1>0 DEF CallRecord, Source!Idle
  <2>2. b.step = n /\ b.op = op /\ b.source = s /\ b.settings = g /\ b.sources = << >> /\ b.result = r
    BY DEF Source!Idle
  <2> QED
    BY <2>1, <2>2
<1>3. d \in CallRecord /\ d.step = n /\ d.op = NONE /\ d.source = NONE /\ d.settings = NONE /\ d.sources = << >> /\ d.result = NONE
  <2>1. d \in CallRecord
    BY <1>0 DEF CallRecord, Source!Idle
  <2>2. d.step = n /\ d.op = NONE /\ d.source = NONE /\ d.settings = NONE /\ d.sources = << >> /\ d.result = NONE
    BY DEF Source!Idle
  <2> QED
    BY <2>1, <2>2
<1>4. /\ Source!Idle \in CallRecord /\ Source!Idle.step = "idle" /\ Source!Idle.op = NONE /\ Source!Idle.source = NONE
      /\ Source!Idle.settings = NONE /\ Source!Idle.sources = << >> /\ Source!Idle.result = NONE
  BY DEF CallRecord, Source!Idle, Source!Steps
<1> HIDE DEF a, b, d
<1>5. Source!To(c, a) => Started(c, n, op, s, g, NONE)
  BY <1>1 DEF Source!To, Started
<1>6. Source!To(c, b) => Started(c, n, op, s, g, r)
  BY <1>2 DEF Source!To, Started
<1>7. Source!To(c, d) => Started(c, n, NONE, NONE, NONE, NONE)
  BY <1>3 DEF Source!To, Started
<1>8. Source!To(c, Source!Idle) => Started(c, "idle", NONE, NONE, NONE, NONE)
  BY <1>4 DEF Source!To, Started
<1> QED
  BY <1>5, <1>6, <1>7, <1>8 DEF a, b, d

LEMMA Moving ==
  ASSUME caller \in [Callers -> CallRecord], NEW c \in Callers, NEW n \in Source!Steps, NEW q \in Seq(Sources),
         NEW z \in Nat, NEW r \in {NONE, "success", "failure"}
  PROVE  /\ Source!Goto(c, n) => Moved(c, n, caller[c].sources, caller[c].result)
         /\ Source!To(c, [caller[c] EXCEPT !.step = n, !.result = r]) => Moved(c, n, caller[c].sources, r)
         /\ Source!To(c, [caller[c] EXCEPT !.step = n, !.sources = q]) => Moved(c, n, q, caller[c].result)
         /\ Source!To(c, [caller[c] EXCEPT !.step = n, !.size = z]) => Moved(c, n, caller[c].sources, caller[c].result)
<1> DEFINE f == caller[c]
           a == [f EXCEPT !.step = n]
           b == [f EXCEPT !.step = n, !.result = r]
           d == [f EXCEPT !.step = n, !.sources = q]
           e == [f EXCEPT !.step = n, !.size = z]
<1>1. f \in CallRecord
  OBVIOUS
<1> HIDE DEF f
<1>2. a \in CallRecord /\ a.step = n /\ a.op = f.op /\ a.source = f.source /\ a.settings = f.settings /\ a.sources = f.sources
      /\ a.result = f.result
  BY <1>1 DEF CallRecord
<1>3. b \in CallRecord /\ b.step = n /\ b.op = f.op /\ b.source = f.source /\ b.settings = f.settings /\ b.sources = f.sources
      /\ b.result = r
  BY <1>1 DEF CallRecord
<1>4. d \in CallRecord /\ d.step = n /\ d.op = f.op /\ d.source = f.source /\ d.settings = f.settings /\ d.sources = q
      /\ d.result = f.result
  BY <1>1 DEF CallRecord
<1>5. e \in CallRecord /\ e.step = n /\ e.op = f.op /\ e.source = f.source /\ e.settings = f.settings /\ e.sources = f.sources
      /\ e.result = f.result
  BY <1>1 DEF CallRecord
<1> HIDE DEF a, b, d, e
<1>6. Source!To(c, a) => Moved(c, n, f.sources, f.result)
  BY <1>2 DEF Source!To, Moved, f
<1>7. Source!To(c, b) => Moved(c, n, f.sources, r)
  BY <1>3 DEF Source!To, Moved, f
<1>8. Source!To(c, d) => Moved(c, n, q, f.result)
  BY <1>4 DEF Source!To, Moved, f
<1>9. Source!To(c, e) => Moved(c, n, f.sources, f.result)
  BY <1>5 DEF Source!To, Moved, f
<1> QED
  BY <1>6, <1>7, <1>8, <1>9 DEF a, b, d, e, f, Source!Goto

(***************************************************************************)
(* What a step of a call does, by the fields of its record.                *)
(***************************************************************************)

Quiet == key' = key /\ subkey' = subkey

Unseen == seen' = seen

NewCall(c) ==
  \E op \in {"add", "remove"}, s \in Sources, g \in Settings \cup {NONE} :
    /\ At(c, {"idle"}) /\ MayAsk(op, s, g) /\ Quiet
    /\ \/ /\ Started(c, "open", op, s, g, NONE)
          /\ seen' = [seen EXCEPT !.overlapped = @ \/ \E d \in Callers : ~At(d, {"idle", "dead"})]
       \/ Started(c, "return", op, s, g, "failure") /\ Unseen /\ held'[c] = held[c]

Ends(c) == \E n \in {"idle", "dead"} : Started(c, n, NONE, NONE, NONE, NONE) /\ Quiet /\ Unseen /\ held'[c] = {}

Fails(c) ==
  /\ ~At(c, {"idle", "dead", "return"}) /\ Moved(c, "return", caller[c].sources, "failure") /\ Quiet
  /\ \/ Unseen /\ held'[c] \subseteq {"name"}
     \/ seen' = [seen EXCEPT !.untransacted = TRUE]

SaysNothing(c) ==
  /\ At(c, {"read"}) /\ Moved(c, "return", caller[c].sources, "success") /\ Quiet /\ held'[c] = {}
  /\ seen' = [seen EXCEPT !.silent = TRUE]

Opens(c) ==
  /\ At(c, {"open"}) /\ Quiet /\ Unseen
  /\ \/ caller[c].op = "add" /\ key = NONE /\ Moved(c, "create", caller[c].sources, caller[c].result)
     \/ Moved(c, "read", caller[c].sources, caller[c].result)

Reads(c) ==
  /\ At(c, {"read", "reread"}) /\ key # NONE /\ Quiet /\ Unseen
  /\ \/ Moved(c, "reread", caller[c].sources, caller[c].result)
     \/ \E n \in {"begin", "list", "unlist", "delete"} :
          GoesOn(c, key, n) /\ Moved(c, n, key, caller[c].result)

Creates(c) ==
  LET f == caller[c] IN
  /\ At(c, {"create"}) /\ key' = << f.source >> /\ subkey' = [subkey EXCEPT ![f.source] = f.settings] /\ Unseen
  /\ Moved(c, "return", f.sources, "success") /\ held'[c] = {"name"}

Lists(c) ==
  /\ At(c, {"list"}) /\ key # NONE /\ key' = << caller[c].source >> \o caller[c].sources /\ subkey' = subkey /\ Unseen
  /\ Moved(c, "begin", caller[c].sources, caller[c].result)

Begins(c) == At(c, {"begin"}) /\ Quiet /\ Unseen /\ Moved(c, "commit", caller[c].sources, caller[c].result)

Commits(c) ==
  LET f == caller[c] IN
  /\ At(c, {"commit"}) /\ key # NONE /\ key' = key /\ subkey' = [subkey EXCEPT ![f.source] = f.settings] /\ Unseen
  /\ Moved(c, "return", f.sources, "success") /\ held'[c] = {}

Unlists(c) ==
  /\ At(c, {"unlist"}) /\ key # NONE /\ key' = Source!Without(caller[c].sources, caller[c].source) /\ subkey' = subkey /\ Unseen
  /\ Moved(c, "delete", caller[c].sources, caller[c].result)

Deletes(c) ==
  LET f == caller[c] IN
  /\ At(c, {"delete"}) /\ Unseen /\ Moved(c, "return", f.sources, "success") /\ held'[c] = {}
  /\ \/ f.sources \in {<< >>, << f.source >>} /\ key' = NONE /\ subkey' = [s \in Sources |-> NONE]
     \/ f.sources \notin {<< >>, << f.source >>} /\ key' = key /\ subkey' = [subkey EXCEPT ![f.source] = NONE]

CallStep(c) ==
  /\ \A d \in Callers : d # c => held'[d] = held[d]
  /\ held' \in [Callers -> SUBSET {"name", "key", "sources", "transaction", "subkey"}]
  /\ requests' \in 0 .. MaxRequests
  /\ \/ NewCall(c) \/ Ends(c) \/ Fails(c) \/ SaysNothing(c) \/ Opens(c) \/ Reads(c) \/ Creates(c)
     \/ Lists(c) \/ Begins(c) \/ Commits(c) \/ Unlists(c) \/ Deletes(c)

\* Each action is one of these.
LEMMA ActionIs ==
  ASSUME CallersTyped, key \in Seq(Sources) \cup {NONE}, NEW c \in Callers,
         \/ Asks(c) \/ Source!EndRequest(c) \/ Source!Die(c) \/ Source!add_event_source(c)
         \/ Source!stumpless_remove_wel_event_source_w(c) \/ Source!get_sources_value(c) \/ Source!ReadAgain(c)
         \/ Source!create_event_source_subkey(c) \/ Source!ListSource(c) \/ Source!BeginTransaction(c)
         \/ Source!populate_event_source_subkey(c) \/ Source!UnlistSource(c) \/ Source!DeleteTree(c)
  PROVE  CallStep(c)
<1> DEFINE H == SUBSET {"name", "key", "sources", "transaction", "subkey"}
           Rest0 == /\ \A d \in Callers : d # c => held'[d] = held[d]
                    /\ held' \in [Callers -> H]
                    /\ requests' \in 0 .. MaxRequests
<1>0. /\ caller \in [Callers -> CallRecord] /\ caller[c] \in CallRecord
      /\ caller[c].sources \in Seq(Sources) /\ caller[c].result \in {NONE, "success", "failure"}
  BY DEF CallersTyped, CallRecord
<1> USE SourceAssumption DEF Rest0, Source!Holding
<1>1. ASSUME NEW op \in {"add", "remove"}, NEW s \in Sources, NEW g \in Settings \cup {NONE}, MayAsk(op, s, g),
             Source!Request(c, op, s, g)
      PROVE  CallStep(c)
  <2>1. Source!To(c, [Source!Idle EXCEPT !.step = "open", !.op = op, !.source = s, !.settings = g])
    BY <1>1 DEF Source!Request
  <2>2. Started(c, "open", op, s, g, NONE)
    <3>1. /\ "open" \in Source!Steps /\ op \in {NONE, "add", "remove"} /\ s \in Sources \cup {NONE}
          /\ g \in Settings \cup {NONE} /\ "failure" \in {NONE, "success", "failure"}
      BY DEF Source!Steps
    <3> QED
      BY <1>0, <2>1, <3>1, Begun, Zenon
  <2>3. Rest0
    BY <1>1 DEF Source!Request, CallersTyped
  <2>4. NewCall(c)
    <3>1. /\ At(c, {"idle"}) /\ Quiet
          /\ seen' = [seen EXCEPT !.overlapped = @ \/ \E d \in Callers : ~At(d, {"idle", "dead"})]
      BY <1>1 DEF Source!Request, At, Quiet
    <3> QED
      BY <1>1, <2>2, <3>1, Zenon DEF NewCall
  <2> QED
    BY <2>3, <2>4, Zenon DEF CallStep
<1>2. ASSUME NEW op \in {"add", "remove"}, NEW s \in Sources, NEW g \in Settings \cup {NONE}, MayAsk(op, s, g),
             Source!Unconverted(c, op, s, g)
      PROVE  CallStep(c)
  <2>1. Source!To(c, [Source!Idle EXCEPT !.step = "return", !.op = op, !.source = s, !.settings = g, !.result = "failure"])
    BY <1>2 DEF Source!Unconverted
  <2>2. Started(c, "return", op, s, g, "failure")
    <3>1. /\ "return" \in Source!Steps /\ op \in {NONE, "add", "remove"} /\ s \in Sources \cup {NONE}
          /\ g \in Settings \cup {NONE} /\ "failure" \in {NONE, "success", "failure"}
      BY DEF Source!Steps
    <3> QED
      BY <1>0, <2>1, <3>1, Begun, Zenon
  <2>3. Rest0
    BY <1>2 DEF Source!Unconverted, CallersTyped
  <2>4. NewCall(c)
    <3>1. At(c, {"idle"}) /\ Quiet /\ Unseen /\ held'[c] = held[c]
      BY <1>2 DEF Source!Unconverted, At, Quiet, Unseen
    <3> QED
      BY <1>2, <2>2, <3>1, Zenon DEF NewCall
  <2> QED
    BY <2>3, <2>4, Zenon DEF CallStep
<1>3. ASSUME Source!EndRequest(c) \/ Source!Die(c) PROVE CallStep(c)
  <2>1. Started(c, "idle", NONE, NONE, NONE, NONE) \/ Started(c, "dead", NONE, NONE, NONE, NONE)
    <3>1. Source!To(c, Source!Idle) \/ Source!To(c, [Source!Idle EXCEPT !.step = "dead"])
      BY <1>3 DEF Source!EndRequest, Source!Die
    <3> QED
      BY <1>0, <3>1, Begun DEF Source!Steps
  <2>2. Rest0 /\ Quiet /\ Unseen /\ held'[c] = {}
    BY <1>3 DEF Source!EndRequest, Source!Die, CallersTyped, Quiet, Unseen
  <2> QED
    BY <2>1, <2>2, Zenon DEF CallStep, Ends
<1>r. ASSUME NEW r \in {"success", "failure"}, NEW h \in H, Source!Return(c, r, h)
      PROVE  /\ Moved(c, "return", caller[c].sources, r) /\ held'[c] = h
             /\ \A d \in Callers : d # c => held'[d] = held[d]
             /\ held' \in [Callers -> H]
  BY <1>0, <1>r, Moving DEF Source!Return, Source!Steps, CallersTyped
<1>g. ASSUME NEW n \in Source!Steps, Source!Goto(c, n) PROVE Moved(c, n, caller[c].sources, caller[c].result)
  BY <1>0, <1>g, Moving
<1>q. requests' = requests => requests' \in 0 .. MaxRequests
  BY DEF CallersTyped
<1>w. ASSUME key # NONE, Source!WithSources(c, key)
      PROVE  \E n \in {"begin", "list", "unlist", "delete"} : GoesOn(c, key, n) /\ Moved(c, n, key, caller[c].result)
  <2>1. PICK n \in {"begin", "list", "unlist", "delete"} : GoesOn(c, key, n)
    BY <1>w, WithSourcesGoesOn
  <2>2. Source!To(c, [caller[c] EXCEPT !.step = n, !.sources = key])
    BY <2>1 DEF GoesOn, Source!To
  <2>3. key \in Seq(Sources) /\ n \in Source!Steps
    BY <1>w DEF Source!Steps
  <2> QED
    BY <1>0, <2>1, <2>2, <2>3, Moving
<1>h. ASSUME NEW h \in H, held' = [held EXCEPT ![c] = h]
      PROVE (\A d \in Callers : d # c => held'[d] = held[d]) /\ held' \in [Callers -> H]
  BY <1>h DEF CallersTyped
<1>u. ASSUME held' = held
      PROVE (\A d \in Callers : d # c => held'[d] = held[d]) /\ held' \in [Callers -> H]
  BY <1>u DEF CallersTyped
<1>f. ASSUME Source!Return(c, "failure", {}) \/ Source!Return(c, "failure", {"name"}), Quiet, Unseen,
             requests' = requests, ~At(c, {"idle", "dead", "return"})
      PROVE  CallStep(c)
  BY <1>f, <1>r, <1>q DEF CallStep, Fails
<1>s. "open" \in Source!Steps /\ "create" \in Source!Steps /\ "read" \in Source!Steps /\ "reread" \in Source!Steps
      /\ "begin" \in Source!Steps /\ "commit" \in Source!Steps /\ "delete" \in Source!Steps
  BY DEF Source!Steps
<1> HIDE DEF Source!Holding
<1>4. ASSUME Source!add_event_source(c) \/ Source!stumpless_remove_wel_event_source_w(c) PROVE CallStep(c)
  <2>1. At(c, {"open"}) /\ Quiet /\ Unseen /\ requests' = requests /\ ~At(c, {"idle", "dead", "return"})
    BY <1>4 DEF Source!add_event_source, Source!stumpless_remove_wel_event_source_w, At, Quiet, Unseen
  <2>2. \/ caller[c].op = "add" /\ key = NONE /\ Source!Goto(c, "create") /\ held' = held
        \/ Source!Goto(c, "read") /\ held' = [held EXCEPT ![c] = {"name", "key"}]
        \/ Source!Return(c, "failure", {})
    BY <1>4, Zenon DEF Source!add_event_source, Source!stumpless_remove_wel_event_source_w, Source!Holding
  <2>3. CASE caller[c].op = "add" /\ key = NONE /\ Source!Goto(c, "create") /\ held' = held
    <3>1. Moved(c, "create", caller[c].sources, caller[c].result)
      BY <1>g, <1>s, <2>3
    <3> QED
      BY <1>q, <1>u, <2>1, <2>3, <3>1, Zenon DEF CallStep, Opens
  <2>4. CASE Source!Goto(c, "read") /\ held' = [held EXCEPT ![c] = {"name", "key"}]
    <3>1. Moved(c, "read", caller[c].sources, caller[c].result)
      BY <1>g, <1>s, <2>4
    <3>2. {"name", "key"} \in H
      OBVIOUS
    <3> QED
      BY <1>q, <1>h, <2>1, <2>4, <3>1, <3>2, Zenon DEF CallStep, Opens
  <2> QED
    BY <1>f, <2>1, <2>2, <2>3, <2>4
<1>5. ASSUME Source!get_sources_value(c) \/ Source!ReadAgain(c) PROVE CallStep(c)
  <2>1. At(c, {"read", "reread"}) /\ Quiet /\ requests' = requests /\ ~At(c, {"idle", "dead", "return"})
    BY <1>5 DEF Source!get_sources_value, Source!ReadAgain, At, Quiet
  <2>2. \/ key # NONE /\ Source!WithSources(c, key) /\ held' = [held EXCEPT ![c] = {"name", "key", "sources"}] /\ Unseen
        \/ key # NONE /\ Source!To(c, [caller[c] EXCEPT !.step = "reread", !.size = Len(key)]) /\ held' = held /\ Unseen
        \/ At(c, {"read"}) /\ Source!Return(c, "success", {}) /\ seen' = [seen EXCEPT !.silent = TRUE]
        \/ Source!Return(c, "failure", {}) /\ Unseen
    <3>1. CASE Source!get_sources_value(c)
      BY <3>1 DEF Source!get_sources_value, Source!Holding, Unseen, At
    <3>2. CASE Source!ReadAgain(c)
      BY <3>2 DEF Source!ReadAgain, Source!Holding, Unseen, At
    <3> QED
      BY <1>5, <3>1, <3>2
  <2>3. CASE key # NONE /\ Source!WithSources(c, key) /\ held' = [held EXCEPT ![c] = {"name", "key", "sources"}] /\ Unseen
    <3>1. Reads(c)
      BY <1>w, <2>1, <2>3, Zenon DEF Reads
    <3>2. {"name", "key", "sources"} \in H
      OBVIOUS
    <3> QED
      BY <1>q, <1>h, <2>1, <2>3, <3>1, <3>2, Zenon DEF CallStep
  <2>4. CASE key # NONE /\ Source!To(c, [caller[c] EXCEPT !.step = "reread", !.size = Len(key)]) /\ held' = held /\ Unseen
    <3>1. Moved(c, "reread", caller[c].sources, caller[c].result)
      <4>1. Len(key) \in Nat
        BY <2>4
      <4> QED
        BY <1>0, <1>s, <2>4, <4>1, Moving
    <3> QED
      BY <1>q, <1>u, <2>1, <2>4, <3>1, Zenon DEF CallStep, Reads
  <2>5. CASE At(c, {"read"}) /\ Source!Return(c, "success", {}) /\ seen' = [seen EXCEPT !.silent = TRUE]
    <3>1. SaysNothing(c) /\ Rest0
      BY <1>q, <1>r, <2>1, <2>5 DEF SaysNothing
    <3> QED
      BY <3>1, Zenon DEF CallStep
  <2> QED
    BY <1>f, <2>1, <2>2, <2>3, <2>4, <2>5
<1>6. ASSUME Source!create_event_source_subkey(c) PROVE CallStep(c)
  <2>1. At(c, {"create"}) /\ Unseen /\ requests' = requests /\ ~At(c, {"idle", "dead", "return"})
    BY <1>6 DEF Source!create_event_source_subkey, At, Unseen
  <2>2. \/ /\ key' = << caller[c].source >> /\ subkey' = [subkey EXCEPT ![caller[c].source] = caller[c].settings]
           /\ Source!Return(c, "success", {"name"})
        \/ Source!Return(c, "failure", {"name"}) /\ Quiet
    BY <1>6 DEF Source!create_event_source_subkey, Quiet
  <2>3. CASE /\ key' = << caller[c].source >> /\ subkey' = [subkey EXCEPT ![caller[c].source] = caller[c].settings]
             /\ Source!Return(c, "success", {"name"})
    <3>1. Creates(c) /\ Rest0
      BY <1>q, <1>r, <2>1, <2>3 DEF Creates
    <3> QED
      BY <3>1, Zenon DEF CallStep
  <2> QED
    BY <1>f, <2>1, <2>2, <2>3
<1>7. ASSUME Source!ListSource(c) PROVE CallStep(c)
  <2>1. At(c, {"list"}) /\ Unseen /\ requests' = requests /\ ~At(c, {"idle", "dead", "return"}) /\ subkey' = subkey
    BY <1>7 DEF Source!ListSource, At, Unseen
  <2>2. \/ /\ key # NONE /\ key' = << caller[c].source >> \o caller[c].sources
           /\ Source!Goto(c, "begin") /\ held' = held
        \/ Source!Return(c, "failure", {}) /\ Quiet
    BY <1>7, Zenon DEF Source!ListSource, Quiet
  <2>3. CASE key # NONE /\ key' = << caller[c].source >> \o caller[c].sources /\ Source!Goto(c, "begin") /\ held' = held
    <3>1. Moved(c, "begin", caller[c].sources, caller[c].result)
      BY <1>g, <1>s, <2>3
    <3>2. Lists(c)
      BY <2>1, <2>3, <3>1, Zenon DEF Lists
    <3> QED
      BY <1>q, <1>u, <2>1, <2>3, <3>2, Zenon DEF CallStep
  <2> QED
    BY <1>f, <2>1, <2>2, <2>3
<1>8. ASSUME Source!BeginTransaction(c) PROVE CallStep(c)
  <2>1. At(c, {"begin"}) /\ Quiet /\ requests' = requests /\ ~At(c, {"idle", "dead", "return"}) /\ held[c] \in H
    BY <1>8 DEF Source!BeginTransaction, At, Quiet, CallersTyped
  <2>2. \/ Source!Goto(c, "commit") /\ held' = [held EXCEPT ![c] = held[c] \cup {"transaction", "subkey"}] /\ Unseen
        \/ Source!Return(c, "failure", held[c]) /\ seen' = [seen EXCEPT !.untransacted = TRUE]
    BY <1>8, Zenon DEF Source!BeginTransaction, Unseen, Source!Holding
  <2>3. CASE Source!Goto(c, "commit") /\ held' = [held EXCEPT ![c] = held[c] \cup {"transaction", "subkey"}] /\ Unseen
    <3>1. Moved(c, "commit", caller[c].sources, caller[c].result)
      BY <1>g, <1>s, <2>3
    <3>2. Begins(c)
      BY <2>1, <2>3, <3>1, Zenon DEF Begins
    <3>3. held[c] \cup {"transaction", "subkey"} \in H
      BY <2>1
    <3> QED
      BY <1>q, <1>h, <2>1, <2>3, <3>2, <3>3, Zenon DEF CallStep
  <2>4. CASE Source!Return(c, "failure", held[c]) /\ seen' = [seen EXCEPT !.untransacted = TRUE]
    <3>1. Fails(c) /\ Rest0
      BY <1>q, <1>r, <2>1, <2>4 DEF Fails
    <3> QED
      BY <3>1, Zenon DEF CallStep
  <2> QED
    BY <2>2, <2>3, <2>4
<1>9. ASSUME Source!populate_event_source_subkey(c) PROVE CallStep(c)
  <2>1. At(c, {"commit"}) /\ Unseen /\ requests' = requests /\ ~At(c, {"idle", "dead", "return"}) /\ key' = key
    BY <1>9 DEF Source!populate_event_source_subkey, At, Unseen
  <2>2. \/ /\ key # NONE /\ subkey' = [subkey EXCEPT ![caller[c].source] = caller[c].settings]
           /\ Source!Return(c, "success", {})
        \/ Source!Return(c, "failure", {}) /\ Quiet
    BY <1>9, <2>1 DEF Source!populate_event_source_subkey, Quiet
  <2>3. CASE /\ key # NONE /\ subkey' = [subkey EXCEPT ![caller[c].source] = caller[c].settings]
             /\ Source!Return(c, "success", {})
    <3>1. Commits(c) /\ Rest0
      BY <1>q, <1>r, <2>1, <2>3 DEF Commits
    <3> QED
      BY <3>1, Zenon DEF CallStep
  <2> QED
    BY <1>f, <2>1, <2>2, <2>3
<1>10. ASSUME Source!UnlistSource(c) PROVE CallStep(c)
  <2>1. At(c, {"unlist"}) /\ Unseen /\ requests' = requests /\ ~At(c, {"idle", "dead", "return"}) /\ subkey' = subkey
    BY <1>10 DEF Source!UnlistSource, At, Unseen
  <2>2. \/ /\ key # NONE /\ key' = Source!Without(caller[c].sources, caller[c].source)
           /\ Source!Goto(c, "delete") /\ held' = held
        \/ Source!Return(c, "failure", {}) /\ Quiet
    BY <1>10, Zenon DEF Source!UnlistSource, Quiet
  <2>3. CASE /\ key # NONE /\ key' = Source!Without(caller[c].sources, caller[c].source)
             /\ Source!Goto(c, "delete") /\ held' = held
    <3>1. Moved(c, "delete", caller[c].sources, caller[c].result)
      BY <1>g, <1>s, <2>3
    <3>2. Unlists(c)
      BY <2>1, <2>3, <3>1, Zenon DEF Unlists
    <3> QED
      BY <1>q, <1>u, <2>1, <2>3, <3>2, Zenon DEF CallStep
  <2> QED
    BY <1>f, <2>1, <2>2, <2>3
<1>11. ASSUME Source!DeleteTree(c) PROVE CallStep(c)
  <2> DEFINE f == caller[c]
             short == f.sources \in {<< >>, << f.source >>}
  <2>1. At(c, {"delete"}) /\ Unseen /\ requests' = requests /\ ~At(c, {"idle", "dead", "return"})
    BY <1>11 DEF Source!DeleteTree, At, Unseen
  <2>2. \/ short /\ key' = NONE /\ subkey' = [s \in Sources |-> NONE] /\ Source!Return(c, "success", {})
        \/ ~short /\ key' = key /\ subkey' = [subkey EXCEPT ![f.source] = NONE] /\ Source!Return(c, "success", {})
        \/ Source!Return(c, "failure", {}) /\ Quiet
    BY <1>11, Zenon DEF Source!DeleteTree, Quiet
  <2>3. CASE /\ \/ short /\ key' = NONE /\ subkey' = [s \in Sources |-> NONE]
                \/ ~short /\ key' = key /\ subkey' = [subkey EXCEPT ![f.source] = NONE]
             /\ Source!Return(c, "success", {})
    <3>1. Moved(c, "return", f.sources, "success") /\ held'[c] = {} /\ Rest0
      BY <1>q, <1>r, <2>1, <2>3
    <3>2. Deletes(c)
      BY <2>1, <2>3, <3>1, Zenon DEF Deletes
    <3> QED
      BY <3>1, <3>2, Zenon DEF CallStep
  <2> QED
    BY <1>f, <2>1, <2>2, <2>3, Zenon
<1>12. ASSUME Asks(c) PROVE CallStep(c)
  BY <1>1, <1>2, <1>12 DEF Asks
<1> QED
  BY <1>3, <1>4, <1>5, <1>6, <1>7, <1>8, <1>9, <1>10, <1>11, <1>12


\* What is registered keeps its type.
LEMMA RegistryTypedStep ==
  ASSUME SourceInv, NEW c \in Callers, CallStep(c)
  PROVE  RegistryTyped'
<1> USE SourceAssumption DEF SourceInv, At, Quiet, Unseen, CallersTyped, RegistryTyped, AskedInv, ListsInv
<1>1. CASE NewCall(c)
  BY <1>1 DEF NewCall, Started, Moved, MayAsk
<1>2. CASE Ends(c)
  BY <1>2 DEF Ends, Started, Moved
<1>3. CASE Fails(c)
  BY <1>3 DEF Fails, Started, Moved
<1>4. CASE SaysNothing(c)
  BY <1>4 DEF SaysNothing, Started, Moved
<1>5. CASE Opens(c)
  BY <1>5 DEF Opens, Started, Moved
<1>6. CASE Reads(c)
  BY <1>6 DEF Reads, Started, Moved, GoesOn
<1>7. CASE Creates(c)
  BY <1>7 DEF Creates, Started, Moved
<1>8. CASE Lists(c)
  <2>1. caller[c].source \in Sources /\ caller[c].sources \in Seq(Sources)
    BY <1>8 DEF Lists, CallRecord
  <2>2. key' \in Seq(Sources)
    BY <1>8, <2>1, InFront DEF Lists
  <2> QED
    BY <1>8, <2>2 DEF Lists
<1>9. CASE Begins(c)
  BY <1>9 DEF Begins, Started, Moved
<1>10. CASE Commits(c)
  BY <1>10 DEF Commits, Started, Moved
<1>11. CASE Unlists(c)
  <2>1. /\ caller[c].source \in Sources /\ caller[c].sources \in Seq(Sources)
        /\ NoRepeat(caller[c].sources) /\ Has(caller[c].sources, caller[c].source)
    BY <1>11 DEF Unlists, CallRecord
  <2>2. key' \in Seq(Sources)
    BY <1>11, <2>1, LeftOut DEF Unlists
  <2> QED
    BY <1>11, <2>2 DEF Unlists
<1>12. CASE Deletes(c)
  BY <1>12 DEF Deletes, Started, Moved
<1> QED
  BY <1>1, <1>2, <1>3, <1>4, <1>5, <1>6, <1>7, <1>8, <1>9, <1>10, <1>11, <1>12 DEF CallStep

\* A call keeps what it was asked for.
LEMMA AskedStep ==
  ASSUME SourceInv, NEW c \in Callers, CallStep(c)
  PROVE  AskedInv'
<1> USE SourceAssumption DEF SourceInv, At, Quiet, Unseen, AskedInv
<1>1. CASE NewCall(c)
  BY <1>1 DEF NewCall, Started, Moved, MayAsk
<1>2. CASE Ends(c)
  BY <1>2 DEF Ends, Started, Moved
<1>3. CASE Fails(c)
  BY <1>3 DEF Fails, Started, Moved
<1>4. CASE SaysNothing(c)
  BY <1>4 DEF SaysNothing, Started, Moved
<1>5. CASE Opens(c)
  BY <1>5 DEF Opens, Started, Moved
<1>6. CASE Reads(c)
  BY <1>6 DEF Reads, Started, Moved, GoesOn
<1>7. CASE Creates(c)
  BY <1>7 DEF Creates, Started, Moved
<1>8. CASE Lists(c)
  BY <1>8 DEF Lists, Started, Moved
<1>9. CASE Begins(c)
  BY <1>9 DEF Begins, Started, Moved
<1>10. CASE Commits(c)
  BY <1>10 DEF Commits, Started, Moved
<1>11. CASE Unlists(c)
  BY <1>11 DEF Unlists, Started, Moved
<1>12. CASE Deletes(c)
  BY <1>12 DEF Deletes, Started, Moved
<1> QED
  BY <1>1, <1>2, <1>3, <1>4, <1>5, <1>6, <1>7, <1>8, <1>9, <1>10, <1>11, <1>12 DEF CallStep

\* No list gets a source twice.
LEMMA ListsStep ==
  ASSUME SourceInv, NEW c \in Callers, CallStep(c)
  PROVE  ListsInv'
<1> USE SourceAssumption DEF SourceInv, At, Quiet, Unseen, CallersTyped, AskedInv, ListsInv
<1>0. NoRepeat(<< >>) /\ \A s : NoRepeat(<< s >>)
  BY DEF NoRepeat
<1>1. CASE NewCall(c)
  <2>1. /\ key' = key /\ caller'[c].sources = << >> /\ caller'[c].step \in {"open", "return"}
        /\ \A d \in Callers : d # c => caller'[d] = caller[d]
    BY <1>1 DEF NewCall, Started
  <2> QED
    BY <1>0, <2>1
<1>2. CASE Ends(c)
  <2>1. /\ key' = key /\ caller'[c].sources = << >> /\ caller'[c].step \in {"idle", "dead"}
        /\ \A d \in Callers : d # c => caller'[d] = caller[d]
    BY <1>2 DEF Ends, Started
  <2> QED
    BY <1>0, <2>1
<1>3. CASE Fails(c)
  BY <1>3 DEF Fails, Started, Moved
<1>4. CASE SaysNothing(c)
  BY <1>4 DEF SaysNothing, Started, Moved
<1>5. CASE Opens(c)
  BY <1>5 DEF Opens, Started, Moved
<1>6. CASE Reads(c)
  <2>1. /\ key' = key /\ key # NONE /\ NoRepeat(key) /\ NoRepeat(caller[c].sources)
        /\ \A d \in Callers : d # c => caller'[d] = caller[d]
    BY <1>6 DEF Reads, Moved
  <2>2. CASE Moved(c, "reread", caller[c].sources, caller[c].result)
    BY <2>1, <2>2 DEF Moved
  <2>3. ASSUME NEW n \in {"begin", "list", "unlist", "delete"}, GoesOn(c, key, n), Moved(c, n, key, caller[c].result)
        PROVE  ListsInv'
    <3>1. /\ n = "list" => ~Has(key, caller[c].source)
          /\ n = "unlist" => Has(key, caller[c].source) /\ key # << caller[c].source >>
      BY <2>3 DEF GoesOn
    <3>2. caller'[c].sources = key /\ caller'[c].source = caller[c].source /\ caller'[c].step = n
      BY <2>3 DEF Moved
    <3> QED
      BY <2>1, <3>1, <3>2
  <2> QED
    BY <1>6, <2>2, <2>3 DEF Reads
<1>7. CASE Creates(c)
  BY <1>0, <1>7 DEF Creates, Moved
<1>8. CASE Lists(c)
  <2>1. caller[c].source \in Sources /\ caller[c].sources \in Seq(Sources)
    BY <1>8 DEF Lists, CallRecord
  <2>2. NoRepeat(key')
    BY <1>8, <2>1, InFront DEF Lists
  <2> QED
    BY <1>8, <2>2 DEF Lists, Moved
<1>9. CASE Begins(c)
  BY <1>9 DEF Begins, Started, Moved
<1>10. CASE Commits(c)
  BY <1>10 DEF Commits, Started, Moved
<1>11. CASE Unlists(c)
  <2>1. caller[c].source \in Sources /\ caller[c].sources \in Seq(Sources)
    BY <1>11 DEF Unlists, CallRecord
  <2>2. NoRepeat(key')
    BY <1>11, <2>1, LeftOut DEF Unlists
  <2> QED
    BY <1>11, <2>2 DEF Unlists, Moved
<1>12. CASE Deletes(c)
  BY <1>12 DEF Deletes, Started, Moved
<1> QED
  BY <1>1, <1>2, <1>3, <1>4, <1>5, <1>6, <1>7, <1>8, <1>9, <1>10, <1>11, <1>12 DEF CallStep

\* No source is registered without a key of the log.
LEMMA KeyStep ==
  ASSUME SourceInv, NEW c \in Callers, CallStep(c)
  PROVE  KeyInv'
<1> USE SourceAssumption DEF SourceInv, At, Quiet, Unseen, RegistryTyped, AskedInv, KeyInv
<1>1. CASE NewCall(c)
  BY <1>1 DEF NewCall, Started, Moved, MayAsk
<1>2. CASE Ends(c)
  BY <1>2 DEF Ends, Started, Moved
<1>3. CASE Fails(c)
  BY <1>3 DEF Fails, Started, Moved
<1>4. CASE SaysNothing(c)
  BY <1>4 DEF SaysNothing, Started, Moved
<1>5. CASE Opens(c)
  BY <1>5 DEF Opens, Started, Moved
<1>6. CASE Reads(c)
  BY <1>6 DEF Reads, Started, Moved, GoesOn
<1>7. CASE Creates(c)
  <2>1. NONE \notin Seq(Sources) /\ << caller[c].source >> \in Seq(Sources)
    BY <1>7 DEF Creates
  <2> QED
    BY <1>7, <2>1 DEF Creates
<1>8. CASE Lists(c)
  <2>1. caller[c].source \in Sources /\ caller[c].sources \in Seq(Sources)
    BY <1>8 DEF Lists, CallersTyped, CallRecord
  <2>2. key' \in Seq(Sources)
    BY <1>8, <2>1, InFront DEF Lists
  <2>3. NONE \notin Seq(Sources)
    OBVIOUS
  <2> QED
    BY <2>2, <2>3
<1>9. CASE Begins(c)
  BY <1>9 DEF Begins, Started, Moved
<1>10. CASE Commits(c)
  BY <1>10 DEF Commits, Started, Moved
<1>11. CASE Unlists(c)
  <2>1. /\ caller[c].source \in Sources /\ caller[c].sources \in Seq(Sources)
        /\ NoRepeat(caller[c].sources) /\ Has(caller[c].sources, caller[c].source)
    BY <1>11 DEF Unlists, CallersTyped, CallRecord, ListsInv
  <2>2. key' # NONE
    BY <1>11, <2>1, LeftOut DEF Unlists
  <2> QED
    BY <2>2
<1>12. CASE Deletes(c)
  BY <1>12 DEF Deletes, Started, Moved
<1> QED
  BY <1>1, <1>2, <1>3, <1>4, <1>5, <1>6, <1>7, <1>8, <1>9, <1>10, <1>11, <1>12 DEF CallStep

\* Unless calls overlap, only one of them works.
LEMMA AloneStep ==
  ASSUME SourceInv, NEW c \in Callers, CallStep(c)
  PROVE  AloneInv'
<1> USE SourceAssumption DEF SourceInv, At, Quiet, Unseen, CallersTyped, AloneInv, Working
<1>1. CASE NewCall(c)
  <2>1. \A d \in Callers : d # c => caller'[d] = caller[d]
    BY <1>1 DEF NewCall, Started
  <2>2. CASE seen' = seen /\ caller'[c].step = "return" /\ caller'[c].result = "failure"
    BY <2>1, <2>2
  <2>3. CASE seen' = [seen EXCEPT !.overlapped = @ \/ \E d \in Callers : ~At(d, {"idle", "dead"})]
    <3>1. ASSUME ~seen'.overlapped PROVE \A d \in Callers : caller[d].step \in {"idle", "dead"}
      BY <2>3, <3>1
    <3> QED
      BY <2>1, <3>1
  <2> QED
    BY <1>1, <2>2, <2>3 DEF NewCall, Started
<1>2. CASE Ends(c)
  BY <1>2 DEF Ends, Started, Moved
<1>3. CASE Fails(c)
  BY <1>3 DEF Fails, Started, Moved
<1>4. CASE SaysNothing(c)
  BY <1>4 DEF SaysNothing, Started, Moved
<1>5. CASE Opens(c)
  BY <1>5 DEF Opens, Started, Moved
<1>6. CASE Reads(c)
  BY <1>6 DEF Reads, Started, Moved, GoesOn
<1>7. CASE Creates(c)
  BY <1>7 DEF Creates, Started, Moved
<1>8. CASE Lists(c)
  BY <1>8 DEF Lists, Started, Moved
<1>9. CASE Begins(c)
  BY <1>9 DEF Begins, Started, Moved
<1>10. CASE Commits(c)
  BY <1>10 DEF Commits, Started, Moved
<1>11. CASE Unlists(c)
  BY <1>11 DEF Unlists, Started, Moved
<1>12. CASE Deletes(c)
  BY <1>12 DEF Deletes, Started, Moved
<1> QED
  BY <1>1, <1>2, <1>3, <1>4, <1>5, <1>6, <1>7, <1>8, <1>9, <1>10, <1>11, <1>12 DEF CallStep

\* Nothing is left open.
LEMMA HandlesStep ==
  ASSUME SourceInv, NEW c \in Callers, CallStep(c)
  PROVE  HandlesInv'
<1> USE SourceAssumption DEF SourceInv, At, Quiet, Unseen, CallersTyped, HandlesInv
<1>0. \A d \in Callers : d # c => held'[d] = held[d]
  BY DEF CallStep
<1>1. CASE NewCall(c)
  BY <1>0, <1>1 DEF NewCall, Started, Moved, MayAsk
<1>2. CASE Ends(c)
  BY <1>0, <1>2 DEF Ends, Started, Moved
<1>3. CASE Fails(c)
  BY <1>0, <1>3 DEF Fails, Started, Moved
<1>4. CASE SaysNothing(c)
  BY <1>0, <1>4 DEF SaysNothing, Started, Moved
<1>5. CASE Opens(c)
  BY <1>0, <1>5 DEF Opens, Started, Moved
<1>6. CASE Reads(c)
  BY <1>0, <1>6 DEF Reads, Started, Moved, GoesOn
<1>7. CASE Creates(c)
  BY <1>0, <1>7 DEF Creates, Started, Moved
<1>8. CASE Lists(c)
  BY <1>0, <1>8 DEF Lists, Started, Moved
<1>9. CASE Begins(c)
  BY <1>0, <1>9 DEF Begins, Started, Moved
<1>10. CASE Commits(c)
  BY <1>0, <1>10 DEF Commits, Started, Moved
<1>11. CASE Unlists(c)
  BY <1>0, <1>11 DEF Unlists, Started, Moved
<1>12. CASE Deletes(c)
  BY <1>0, <1>12 DEF Deletes, Started, Moved
<1> QED
  BY <1>1, <1>2, <1>3, <1>4, <1>5, <1>6, <1>7, <1>8, <1>9, <1>10, <1>11, <1>12 DEF CallStep

\* A call that no other interferes with knows what is registered.
LEMMA KnownStep ==
  ASSUME SourceInv, NEW c \in Callers, CallStep(c)
  PROVE  KnownInv'
<1> USE DEF SourceInv
<1> DEFINE f == caller[c]
<1>0. seen'.overlapped \in BOOLEAN /\ (~seen'.overlapped => ~seen.overlapped)
  BY DEF CallersTyped, CallStep, NewCall, Ends, Fails, SaysNothing, Opens, Reads, Creates, Lists, Begins, Commits,
         Unlists, Deletes, Unseen
<1> SUFFICES ASSUME ~seen'.overlapped PROVE \A d \in Callers : KnownOf(d)'
  BY DEF KnownInv
<1>a. /\ \A d \in Callers : KnownOf(d)
      /\ \A d, e \in Callers : Working(d) /\ Working(e) => d = e
  BY <1>0 DEF KnownInv, AloneInv
<1>s. seen.silent => seen'.silent
  BY DEF CallersTyped, CallStep, NewCall, Ends, Fails, SaysNothing, Opens, Reads, Creates, Lists, Begins, Commits,
         Unlists, Deletes, Unseen
<1>n. f \in CallRecord /\ NONE \notin Seq(Sources)
  BY SourceAssumption DEF CallersTyped
\* A call that is not working knows nothing.
<1>k. \A d \in Callers : ~Working(d) => KnownOf(d)
  BY DEF KnownOf, Working, At
\* The other calls.
<1>1. ASSUME NEW d \in Callers, d # c PROVE KnownOf(d)'
  <2>1. caller'[d] = caller[d]
    BY <1>1 DEF CallStep, NewCall, Ends, Fails, SaysNothing, Opens, Reads, Creates, Lists, Begins, Commits,
                Unlists, Deletes, Started, Moved
  <2>2. CASE Quiet
    BY <1>a, <1>1, <1>s, <2>1, <2>2 DEF KnownOf, IsListed, Quiet
  <2>3. CASE ~Quiet
    <3>1. Creates(c) \/ Lists(c) \/ Commits(c) \/ Unlists(c) \/ Deletes(c)
      BY <2>3 DEF CallStep, NewCall, Ends, Fails, SaysNothing, Opens, Reads, Begins
    <3>2. Working(c)
      BY <3>1 DEF Creates, Lists, Commits, Unlists, Deletes, Working, At
    <3>3. ~Working(d)
      BY <1>a, <1>1, <3>2
    <3> QED
      BY <2>1, <3>3 DEF KnownOf, Working, At
  <2> QED
    BY <2>2, <2>3
\* And this one.
<1>2. KnownOf(c)'
  <2>1. CASE NewCall(c)
    BY <2>1 DEF NewCall, Started, KnownOf
  <2>2. CASE Ends(c)
    BY <2>2 DEF Ends, Started, KnownOf
  <2>3. CASE Fails(c)
    BY <2>3 DEF Fails, Moved, KnownOf
  <2>4. CASE SaysNothing(c)
    <3>1. seen'.silent
      BY <2>4 DEF SaysNothing, CallersTyped
    <3> QED
      BY <2>4, <3>1 DEF SaysNothing, Moved, KnownOf
  <2>5. CASE Opens(c)
    BY <2>5 DEF Opens, Moved, KnownOf, Quiet
  <2>6. CASE Reads(c)
    BY <2>6 DEF Reads, Moved, KnownOf, GoesOn, Quiet, IsListed
  <2>7. CASE Creates(c)
    <3>1. f.source \in Sources /\ f.op = "add" /\ f.settings \in Settings
      BY <2>7 DEF Creates, AskedInv, At
    <3>2. << f.source >> \in Seq(Sources) /\ Has(<< f.source >>, f.source)
      BY <3>1, ShortLists
    <3>3. subkey'[f.source] = f.settings
      BY <2>7, <3>1 DEF Creates, RegistryTyped
    <3>4. key' # NONE /\ Has(key', f.source)
      BY <1>n, <2>7, <3>2 DEF Creates
    <3> QED
      BY <2>7, <3>1, <3>3, <3>4 DEF Creates, Moved, KnownOf, IsListed
  <2>8. CASE Lists(c)
    <3>1. f.source \in Sources /\ f.sources \in Seq(Sources)
      BY <1>n, <2>8 DEF Lists, AskedInv, At, CallRecord
    <3>2. key' \in Seq(Sources) /\ Has(key', f.source)
      BY <2>8, <3>1, InFront DEF Lists
    <3>3. key' # NONE
      BY <1>n, <3>2
    <3> QED
      BY <2>8, <3>2, <3>3 DEF Lists, Moved, KnownOf, IsListed
  <2>9. CASE Begins(c)
    BY <1>a, <2>9 DEF Begins, Moved, KnownOf, IsListed, Quiet, At
  <2>10. CASE Commits(c)
    <3>1. f.source \in Sources /\ f.op = "add" /\ f.settings \in Settings
      BY <2>10 DEF Commits, AskedInv, At
    <3>2. subkey'[f.source] = f.settings /\ IsListed(f.source)
      BY <1>a, <2>10, <3>1 DEF Commits, RegistryTyped, KnownOf, At
    <3> QED
      BY <2>10, <3>1, <3>2 DEF Commits, Moved, KnownOf, IsListed
  <2>11. CASE Unlists(c)
    <3>1. /\ f.source \in Sources /\ f.sources \in Seq(Sources) /\ NoRepeat(f.sources) /\ Has(f.sources, f.source)
          /\ f.sources # << f.source >>
      BY <1>n, <2>11 DEF Unlists, AskedInv, ListsInv, At, CallRecord
    <3>2. ~Has(key', f.source)
      BY <2>11, <3>1, LeftOut DEF Unlists
    <3>3. f.sources # << >>
      BY <3>1 DEF Has
    <3> QED
      BY <2>11, <3>1, <3>2, <3>3 DEF Unlists, Moved, KnownOf, IsListed
  <2>12. CASE Deletes(c)
    <3>1. f.source \in Sources /\ f.op = "remove"
      BY <2>12 DEF Deletes, AskedInv, At
    <3>2. subkey'[f.source] = NONE
      BY <2>12, <3>1 DEF Deletes, RegistryTyped
    <3>3. ~(key' # NONE /\ Has(key', f.source))
      BY <1>a, <2>12 DEF Deletes, KnownOf, IsListed, At
    <3> QED
      BY <2>12, <3>1, <3>2, <3>3 DEF Deletes, Moved, KnownOf, IsListed
  <2> QED
    BY <2>1, <2>2, <2>3, <2>4, <2>5, <2>6, <2>7, <2>8, <2>9, <2>10, <2>11, <2>12 DEF CallStep
<1> QED
  BY <1>1, <1>2

\* It holds before the first call.
LEMMA SourceInit == Source!Init => SourceInv
<1> SUFFICES ASSUME Source!Init PROVE SourceInv
  OBVIOUS
<1> USE SourceAssumption DEF Source!Init
<1>1. /\ Source!Idle \in CallRecord /\ Source!Idle.step = "idle" /\ Source!Idle.sources = << >>
  BY DEF CallRecord, Source!Idle, Source!Steps
<1>2. /\ caller \in [Callers -> CallRecord]
      /\ \A c \in Callers : caller[c].step = "idle" /\ caller[c].sources = << >>
  BY <1>1
<1>3. CallersTyped
  BY <1>2 DEF CallersTyped
<1>4. key = NONE \/ key = << >> \/ \E s \in Sources : key = << s >>
  <2>1. key \in {NONE, << >>} \/ key \in {<< s >> : s \in Sources}
    BY Zenon
  <2> QED
    BY <2>1, Zenon
<1>5. RegistryTyped /\ (key # NONE => NoRepeat(key))
  <2>1. subkey \in [Sources -> Settings \cup {NONE}]
    OBVIOUS
  <2>2. CASE key = NONE
    BY <2>1, <2>2 DEF RegistryTyped
  <2>3. CASE key = << >>
    BY <2>1, <2>3 DEF RegistryTyped, NoRepeat
  <2>4. ASSUME NEW s \in Sources, key = << s >> PROVE RegistryTyped /\ NoRepeat(key)
    BY <2>1, <2>4, ShortLists DEF RegistryTyped
  <2> QED
    BY <1>4, <2>2, <2>3, <2>4
<1>6. NoRepeat(<< >>)
  BY DEF NoRepeat
<1>7. KeyInv
  <2>1. \A s \in Sources : << s >> \in Seq(Sources)
    BY ShortLists
  <2>2. \A s \in Sources : << s >> # NONE
    BY <2>1, SourceAssumption
  <2> QED
    BY <2>2 DEF KeyInv
<1>8. ListsInv /\ AskedInv /\ AloneInv /\ KnownInv /\ HandlesInv
  BY <1>2, <1>5, <1>6 DEF ListsInv, AskedInv, AloneInv, Working, KnownInv, KnownOf, HandlesInv, At
<1> QED
  BY <1>3, <1>5, <1>7, <1>8 DEF SourceInv

\* Every step keeps it.
LEMMA SourceStep == SourceInv /\ [Source!Next]_(Source!sourceVars) => SourceInv'
<1> SUFFICES ASSUME SourceInv, [Source!Next]_(Source!sourceVars) PROVE SourceInv'
  OBVIOUS
<1>1. CASE UNCHANGED Source!sourceVars
  BY <1>1 DEF Source!sourceVars, SourceInv, CallersTyped, RegistryTyped, AskedInv, ListsInv, KeyInv, AloneInv, Working,
              KnownInv, KnownOf, IsListed, HandlesInv, At
<1>2. ASSUME NEW c \in Callers, CallStep(c) PROVE SourceInv'
  <2>1. CallersTyped'
    BY <1>2 DEF SourceInv, CallersTyped, CallStep, NewCall, Ends, Fails, SaysNothing, Opens, Reads, Creates, Lists,
                Begins, Commits, Unlists, Deletes, Unseen, Started, Moved
  <2> QED
    BY <1>2, <2>1, RegistryTypedStep, AskedStep, ListsStep, KeyStep, AloneStep, KnownStep, HandlesStep DEF SourceInv
<1>3. ASSUME Source!Next PROVE \E c \in Callers : CallStep(c)
  BY <1>3, CallsAsk, ActionIs DEF Source!Next, SourceInv, RegistryTyped
<1> QED
  BY <1>1, <1>2, <1>3

\* SourcesSound: however callers overlap, fail or die, no source is listed
\* twice; a call that reports success, and that no other overlapped, did what it
\* was asked for; and what it opened it has closed when it returns.
THEOREM RegistrationIsSound == Source!Spec => []SourcesSound
<1>1. SourceInv => SourcesSound
  <2> SUFFICES ASSUME SourceInv PROVE SourcesSound
    OBVIOUS
  <2>1. Source!TypeOK
    BY DEF SourceInv, CallersTyped, CallRecord, RegistryTyped, Source!TypeOK
  <2>2. Source!ListedOnce
    <3>1. key # NONE => Source!Cardinality(Source!Listed) = Len(key)
      BY CountOnce DEF SourceInv, RegistryTyped, ListsInv, Source!Listed
    <3> QED
      BY <3>1 DEF SourceInv, KeyInv, Source!ListedOnce
  <2>3. Source!SuccessMeansDone
    BY ListedIs DEF SourceInv, KnownInv, KnownOf, IsListed, Source!SuccessMeansDone
  <2>4. Source!HandlesClosed
    BY DEF SourceInv, HandlesInv, At, Source!HandlesClosed
  <2> QED
    BY <2>1, <2>2, <2>3, <2>4 DEF SourcesSound, Source!SourcesSound
<1> QED
  BY <1>1, SourceInit, SourceStep, PTL DEF Source!Spec

\* OthersKept: a call that no other overlaps leaves every other source that is
\* listed in the list, and its key as it was.
THEOREM OtherSourcesAreKept == Source!Spec => OthersKept
<1>1. ASSUME SourceInv, [Source!Next]_(Source!sourceVars) PROVE [Source!KeepsOthers]_registry
  <2>1. CASE UNCHANGED Source!sourceVars
    BY <2>1 DEF Source!sourceVars, registry
  <2>2. ASSUME NEW c \in Callers, CallStep(c) PROVE Source!KeepsOthers
    <3> SUFFICES ASSUME NEW d \in Callers, NEW s \in Sources, ~seen.overlapped, caller[d].source # s,
                        caller[d].step # "idle", caller'[d] # caller[d], s \in Source!Listed
                 PROVE  s \in Source!Listed' /\ subkey'[s] = subkey[s]
      BY DEF Source!KeepsOthers
    <3>1. d = c
      BY <2>2 DEF CallStep, NewCall, Ends, Fails, SaysNothing, Opens, Reads, Creates, Lists, Begins, Commits,
                  Unlists, Deletes, Started, Moved
    <3>2. KnownOf(c) /\ IsListed(s) /\ key # NONE
      BY <1>1, ListedIs DEF SourceInv, KnownInv, IsListed
    <3>3. s \in Source!Listed' <=> key' # NONE /\ Has(key', s)
      BY DEF Source!Listed, Source!ToSet, Has
    <3>4. CASE Quiet
      BY <3>2, <3>3, <3>4 DEF Quiet, IsListed
    <3>5. CASE Creates(c)
      BY <3>2, <3>5 DEF Creates, KnownOf, At
    <3>6. CASE Lists(c)
      <4>1. caller[c].source \in Sources /\ caller[c].sources \in Seq(Sources) /\ key = caller[c].sources
        BY <1>1, <3>2, <3>6 DEF Lists, SourceInv, CallersTyped, CallRecord, AskedInv, At, KnownOf
      <4>2. key' \in Seq(Sources) /\ Has(key', s) /\ subkey' = subkey
        BY <3>2, <3>6, <4>1, InFront DEF Lists, IsListed
      <4>3. key' # NONE
        BY <4>2, SourceAssumption
      <4> QED
        BY <3>3, <4>2, <4>3
    <3>7. CASE Commits(c)
      BY <1>1, <3>1, <3>2, <3>3, <3>7 DEF Commits, IsListed, SourceInv, RegistryTyped
    <3>8. CASE Unlists(c)
      <4>1. /\ caller[c].source \in Sources /\ caller[c].sources \in Seq(Sources) /\ key = caller[c].sources
            /\ NoRepeat(key) /\ Has(key, caller[c].source)
        BY <1>1, <3>2, <3>8 DEF Unlists, SourceInv, CallersTyped, CallRecord, AskedInv, ListsInv, At, KnownOf
      <4>2. key' # NONE /\ Has(key', s) /\ subkey' = subkey
        BY <3>1, <3>2, <3>8, <4>1, LeftOut, SourceAssumption DEF Unlists, IsListed
      <4> QED
        BY <3>3, <4>2
    <3>9. CASE Deletes(c)
      <4>1. caller[c].sources \notin {<< >>, << caller[c].source >>}
        <5> SUFFICES ASSUME caller[c].sources \in {<< >>, << caller[c].source >>} PROVE FALSE
          OBVIOUS
        <5>1. key \in {<< >>, << caller[c].source >>} /\ Has(key, s)
          BY <3>2, <3>9 DEF Deletes, KnownOf, At, IsListed
        <5> QED
          BY <3>1, <5>1 DEF Has
      <4> QED
        BY <1>1, <3>1, <3>2, <3>3, <3>9, <4>1 DEF Deletes, IsListed, SourceInv, RegistryTyped
    <3> QED
      BY <2>2, <3>4, <3>5, <3>6, <3>7, <3>8, <3>9
      DEF CallStep, NewCall, Ends, Fails, SaysNothing, Opens, Reads, Begins
  <2>3. ASSUME Source!Next PROVE \E c \in Callers : CallStep(c)
    BY <1>1, <2>3, CallsAsk, ActionIs DEF Source!Next, SourceInv, RegistryTyped
  <2> QED
    BY <1>1, <2>1, <2>2, <2>3
<1> QED
  BY <1>1, SourceInit, SourceStep, PTL DEF Source!Spec, OthersKept

-----------------------------------------------------------------------------
(***************************************************************************)
(* What an entry keeps for the event log, and how it is sent (WelData).    *)
(***************************************************************************)

WelStep(t) == frame[t].step

WelTyped ==
  /\ data \in Wel!wel_data
  /\ copy \in Wel!wel_data \cup {NULL}
  /\ live \subseteq Strings /\ lost \subseteq live
  /\ text \in [Strings -> Texts]
  /\ value \in [Params -> Texts]
  /\ prival \in Privals /\ message \in Texts
  /\ holder \in [{"entry", "data"} -> Threads \cup {NULL}]
  /\ last \in [Indexes -> Wel!setting \cup {NULL}]
  /\ calls \in 0..MaxCalls

\* A frame, whatever its event is.
FrameFields(f) ==
  /\ f = [step |-> f.step, text |-> f.text, event |-> f.event, disturbed |-> f.disturbed]
  /\ f.step \in Wel!Steps /\ f.disturbed \in BOOLEAN
  /\ f.step = "strings" => f.text \in Texts

FramesTyped ==
  /\ DOMAIN frame = Threads /\ frame = [t \in Threads |-> frame[t]]
  /\ \A t \in Threads : FrameFields(frame[t])

\* The steps at which a call has the mutex of the entry, and of its wel_data.
EntrySteps == {"field", "copy"}
DataSteps == {"strings", "prival", "message", "report", "spin"}
SendSteps == {"prival", "message", "report"}

MutexInv ==
  \A t \in Threads :
    /\ holder["entry"] = t <=> WelStep(t) \in EntrySteps
    /\ holder["data"] = t <=> WelStep(t) \in DataSteps

\* The two orders in which they are taken have not met unnoticed.
CrossInv == \A t, u \in Threads : WelStep(t) \in SendSteps /\ WelStep(u) \in EntrySteps => crossed

\* An entry is copied when there is no copy of it.
CopyInv == \A t \in Threads : WelStep(t) = "copy" => copy = NULL

\* Both arrays of d reach as far as its count, and no string is at two indexes.
Arrays(d) ==
  /\ d.count <= Len(d.params) /\ d.count <= Len(d.strings)
  /\ \A j, k \in Wel!Stored(d) : d.strings[j] = d.strings[k] => j = k

Holds(d) == {d.strings[j] : j \in Wel!Stored(d)}

\* Each string that is allocated and not lost is at one index.
OwnedInv ==
  /\ Arrays(data) /\ (copy # NULL => Arrays(copy) /\ Holds(data) \cap Holds(copy) = {})
  /\ live \ lost = Holds(data) \cup (IF copy = NULL THEN {} ELSE Holds(copy))

\* What was set last at an index is still there.
LastOf(i) ==
  last[i] # NULL =>
    /\ i < data.count
    /\ IF last[i].param # NULL THEN data.params[i + 1] = last[i].param
       ELSE data.params[i + 1] = NULL =>
              last[i].text = IF data.strings[i + 1] # NULL THEN text[data.strings[i + 1]] ELSE NULL

LastInv == \A i \in Indexes : LastOf(i)

\* The params were converted to the strings that are sent.
ConvertedOf(t) ==
  WelStep(t) = "prival" =>
    \A j \in 1..data.count : data.params[j] # NULL =>
      /\ data.strings[j] # NULL
      /\ ~frame[t].disturbed => text[data.strings[j]] = value[data.params[j]]

ConvertedInv == \A t \in Threads : ConvertedOf(t)

\* An event whose type, category and id are those of one prival, unless set.
OfOnePrival(e) ==
  /\ e = [type |-> e.type, category |-> e.category, event_id |-> e.event_id, strings |-> e.strings]
  /\ \E p \in Privals :
       /\ e.type \in Words \/ e.type = Wel!get_type(p)
       /\ e.category \in Words \/ e.category = Wel!get_category(p)
       /\ e.event_id \in Words \/ e.event_id = Wel!get_event_id(p)

\* The texts that the getters return for the insertion strings.
Shown == [j \in 1..data.count |-> Wel!TextAt(data, j - 1)]

\* What the getters return is in the event e, up to its strings.
SaysOf(e) ==
  /\ e.type = Wel!stumpless_get_wel_type
  /\ e.category = Wel!stumpless_get_wel_category
  /\ e.event_id = Wel!stumpless_get_wel_event_id

SentStrings == IF data.event_id = NULL THEN << message >> ELSE Shown

EventOf(t) ==
  WelStep(t) \in {"message", "report", "reported"} =>
    /\ OfOnePrival(frame[t].event)
    /\ WelStep(t) = "message" => data.event_id = NULL
    /\ ~frame[t].disturbed =>
         /\ SaysOf(frame[t].event)
         /\ WelStep(t) # "message" => frame[t].event.strings = SentStrings

EventInv == \A t \in Threads : EventOf(t)

WelInv ==
  /\ WelTyped /\ FramesTyped /\ MutexInv /\ CrossInv /\ CopyInv
  /\ OwnedInv /\ LastInv /\ ConvertedInv /\ EventInv

(***************************************************************************)
(* The arrays of insertion strings.                                        *)
(***************************************************************************)

ParamArrays == Seq(Params \cup {NULL})

StringArrays == Seq(Strings \cup {NULL})

\* What is known of the fields of a wel_data.
LEMMA WelDataIs ==
  ASSUME NEW d \in Wel!wel_data
  PROVE  /\ d # NULL /\ d.params \in ParamArrays /\ d.strings \in StringArrays
         /\ d.count \in 0..WordMax /\ d.count \in Nat
         /\ d.type \in Words \cup {NULL} /\ d.category \in Words \cup {NULL} /\ d.event_id \in Words \cup {NULL}
<1>1. d # NULL
  BY WelAssumption
<1> QED
  BY <1>1, WelAssumption DEF Wel!wel_data, ParamArrays, StringArrays

\* What is at an index of an array.
LEMMA ArrayIs ==
  ASSUME NEW S, NEW q \in Seq(S)
  PROVE  /\ Len(q) \in Nat /\ DOMAIN q = 1..Len(q) /\ \A j \in 1..Len(q) : q[j] \in S
         /\ \A j \in 1..Len(q), x \in S :
              /\ [q EXCEPT ![j] = x] \in Seq(S) /\ Len([q EXCEPT ![j] = x]) = Len(q)
              /\ [q EXCEPT ![j] = x][j] = x
              /\ \A k \in 1..Len(q) : k # j => [q EXCEPT ![j] = x][k] = q[k]
<1>1. Len(q) \in Nat /\ DOMAIN q = 1..Len(q) /\ \A j \in 1..Len(q) : q[j] \in S
  BY ElementOfSeq
<1>2. ASSUME NEW j \in 1..Len(q), NEW x \in S
      PROVE  /\ [q EXCEPT ![j] = x] \in Seq(S) /\ Len([q EXCEPT ![j] = x]) = Len(q)
             /\ [q EXCEPT ![j] = x][j] = x
             /\ \A k \in 1..Len(q) : k # j => [q EXCEPT ![j] = x][k] = q[k]
  BY <1>1, ExceptSeq
<1> QED
  BY <1>1, <1>2

\* An array that is made, index by index.
LEMMA ArrayMade ==
  ASSUME NEW S, NEW n \in Nat, NEW q, q = [j \in 1..n |-> q[j]], \A j \in 1..n : q[j] \in S
  PROVE  q \in Seq(S) /\ Len(q) = n
<1>1. q \in [1..n -> S]
  OBVIOUS
<1> QED
  BY <1>1

\* The first ones of an array.
LEMMA ArrayPart ==
  ASSUME NEW S, NEW q \in Seq(S), NEW n \in Nat, n <= Len(q)
  PROVE  /\ SubSeq(q, 1, n) \in Seq(S) /\ Len(SubSeq(q, 1, n)) = n
         /\ \A j \in 1..n : SubSeq(q, 1, n)[j] = q[j]
<1> DEFINE r == SubSeq(q, 1, n)
<1>1. Len(q) \in Nat /\ 1 \in Int /\ n \in Int /\ \A j \in 1..n : q[j] \in S
  BY ElementOfSeq
<1>2. /\ r \in Seq(S)
      /\ Len(r) = IF 1 <= n THEN n - 1 + 1 ELSE 0
      /\ \A j \in 1 .. n - 1 + 1 : r[j] = q[1 + j - 1]
  BY <1>1, SubSeqProperties
<1> HIDE DEF r
<1> QED
  BY <1>1, <1>2 DEF r

SettingsKept(d, e) == e.type = d.type /\ e.category = d.category /\ e.event_id = d.event_id

\* e is d but for its arrays.
Replaced(d, e, p, s, n) ==
  e \in Wel!wel_data /\ e.params = p /\ e.strings = s /\ e.count = n /\ SettingsKept(d, e)

LEMMA WithArrays ==
  ASSUME NEW d \in Wel!wel_data, NEW p \in ParamArrays, NEW s \in StringArrays
  PROVE  /\ \A n \in 0..WordMax : Replaced(d, [d EXCEPT !.params = p, !.strings = s, !.count = n], p, s, n)
         /\ Replaced(d, [d EXCEPT !.params = p, !.strings = s], p, s, d.count)
         /\ Replaced(d, [d EXCEPT !.params = p], p, d.strings, d.count)
         /\ Replaced(d, [d EXCEPT !.strings = s], d.params, s, d.count)
BY DEF Wel!wel_data, ParamArrays, StringArrays, Replaced, SettingsKept

\* e has what d has, and room for more strings or params.
Grown(d, e) ==
  /\ d.count <= e.count /\ e.count <= Len(e.params) /\ e.count <= Len(e.strings)
  /\ \A j \in 1..d.count : e.params[j] = d.params[j] /\ e.strings[j] = d.strings[j]
  /\ \A j \in 1..e.count : j > d.count => e.params[j] = NULL /\ e.strings[j] = NULL

\* An array of n with what is in q up to the count.
Widened(S, q, r, n) ==
  /\ r \in Seq(S \cup {NULL}) /\ Len(r) = n
  /\ \A j \in 1..data.count : r[j] = q[j]
  /\ \A j \in 1..n : j > data.count => r[j] = NULL

LEMMA ExtendedIs ==
  ASSUME data \in Wel!wel_data, NEW S, NEW q \in Seq(S \cup {NULL}), data.count <= Len(q),
         NEW n \in Nat, data.count <= n
  PROVE  Widened(S, q, Wel!Extended(q, n), n)
<1> DEFINE r == Wel!Extended(q, n)
<1>1. r = [j \in 1..n |-> IF j <= data.count THEN q[j] ELSE NULL]
  BY DEF Wel!Extended
<1>2. data.count \in Nat /\ Len(q) \in Nat /\ \A j \in 1..Len(q) : q[j] \in S \cup {NULL}
  BY WelDataIs, ArrayIs
<1>3. \A j \in 1..n : r[j] = IF j <= data.count THEN q[j] ELSE NULL
  BY <1>1
<1>4. \A j \in 1..n : r[j] \in S \cup {NULL}
  BY <1>2, <1>3
<1>5. r = [j \in 1..n |-> r[j]]
  BY <1>1
<1> HIDE DEF r
<1>6. r \in Seq(S \cup {NULL}) /\ Len(r) = n
  BY <1>4, <1>5, ArrayMade
<1> QED
  BY <1>2, <1>3, <1>6 DEF r, Widened

\* Whatever becomes of making room, nothing is lost by it.
LEMMA RoomIs ==
  ASSUME data \in Wel!wel_data, Arrays(data), NEW i \in Nat, i <= WordMax, ~Wel!Endless(i), NEW r \in Wel!Room(i)
  PROVE  /\ r.data \in Wel!wel_data /\ Grown(data, r.data) /\ SettingsKept(data, r.data)
         /\ r.ok => i + 1 \in 1..r.data.count
         /\ ~r.ok => r.data.count = data.count
<1> USE WelAssumption
<1>0. /\ data.params \in ParamArrays /\ data.strings \in StringArrays /\ data.count \in 0..WordMax /\ data.count \in Nat
      /\ Len(data.params) \in Nat /\ Len(data.strings) \in Nat
      /\ data.count <= Len(data.params) /\ data.count <= Len(data.strings)
  BY WelDataIs, ArrayIs DEF Arrays, ParamArrays, StringArrays
<1>1. CASE i < data.count
  <2>1. r = [ok |-> TRUE, data |-> data]
    BY <1>1 DEF Wel!Room
  <2>2. r.ok /\ r.data = data
    BY <2>1
  <2> QED
    BY <1>0, <1>1, <2>2 DEF Grown, SettingsKept
<1>2. CASE ~(i < data.count)
  <2>1. i + 1 \in 0..WordMax /\ data.count <= i + 1 /\ i + 1 \in Nat
    BY <1>0, <1>2 DEF Wel!Endless
  <2> DEFINE p == Wel!Extended(data.params, i + 1)
             s == Wel!Extended(data.strings, i + 1)
  <2>2. p \in ParamArrays /\ Widened(Params, data.params, p, i + 1)
    <3>1. Widened(Params, data.params, p, i + 1)
      BY <1>0, <2>1, ExtendedIs DEF ParamArrays
    <3> QED
      BY <3>1 DEF Widened, ParamArrays
  <2>3. s \in StringArrays /\ Widened(Strings, data.strings, s, i + 1)
    <3>1. Widened(Strings, data.strings, s, i + 1)
      BY <1>0, <2>1, ExtendedIs DEF StringArrays
    <3> QED
      BY <3>1 DEF Widened, StringArrays
  <2>4. \/ r = [ok |-> TRUE, data |-> [data EXCEPT !.params = p, !.strings = s, !.count = i + 1]]
        \/ r = [ok |-> FALSE, data |-> [data EXCEPT !.params = p]]
        \/ r = [ok |-> FALSE, data |-> data]
    BY <1>2 DEF Wel!Room, Wel!resize_insertion_params
  <2> HIDE DEF p, s
  <2>5. CASE r = [ok |-> TRUE, data |-> [data EXCEPT !.params = p, !.strings = s, !.count = i + 1]]
    <3>1. r.ok /\ Replaced(data, r.data, p, s, i + 1)
      BY <2>1, <2>2, <2>3, <2>5, WithArrays
    <3> QED
      BY <1>0, <2>1, <2>2, <2>3, <3>1 DEF Grown, Replaced, Widened
  <2>6. CASE r = [ok |-> FALSE, data |-> [data EXCEPT !.params = p]]
    <3>1. ~r.ok /\ Replaced(data, r.data, p, data.strings, data.count)
      BY <1>0, <2>2, <2>6, WithArrays
    <3> QED
      BY <1>0, <2>1, <2>2, <3>1 DEF Grown, Replaced, Widened
  <2>7. CASE r = [ok |-> FALSE, data |-> data]
    <3>1. ~r.ok /\ r.data = data
      BY <2>7
    <3> QED
      BY <1>0, <3>1 DEF Grown, SettingsKept
  <2> QED
    BY <2>4, <2>5, <2>6, <2>7
<1> QED
  BY <1>1, <1>2

(***************************************************************************)
(* What the arrays hold.                                                   *)
(***************************************************************************)

LEMMA HeldStrings ==
  ASSUME NEW d \in Wel!wel_data, Arrays(d)
  PROVE  /\ \A j \in 1..d.count : d.strings[j] \in Strings \cup {NULL} /\ d.params[j] \in Params \cup {NULL}
         /\ Holds(d) \subseteq Strings
         /\ \A s : s \in Holds(d) <=> s # NULL /\ \E j \in 1..d.count : d.strings[j] = s
<1>1. /\ d.params \in ParamArrays /\ d.strings \in StringArrays /\ d.count \in Nat
      /\ d.count <= Len(d.params) /\ d.count <= Len(d.strings)
  BY WelDataIs DEF Arrays
<1>2. /\ Len(d.params) \in Nat /\ \A j \in 1..Len(d.params) : d.params[j] \in Params \cup {NULL}
      /\ Len(d.strings) \in Nat /\ \A j \in 1..Len(d.strings) : d.strings[j] \in Strings \cup {NULL}
  BY <1>1, ArrayIs DEF ParamArrays, StringArrays
<1>3. \A j \in 1..d.count : d.strings[j] \in Strings \cup {NULL} /\ d.params[j] \in Params \cup {NULL}
  BY <1>1, <1>2
<1> QED
  BY <1>3 DEF Holds, Wel!Stored

\* Room holds nothing.
LEMMA GrownHolds ==
  ASSUME NEW d \in Wel!wel_data, Arrays(d), NEW e \in Wel!wel_data, Grown(d, e)
  PROVE  Arrays(e) /\ Holds(e) = Holds(d)
<1>1. d.count \in Nat /\ e.count \in Nat
  BY WelDataIs
<1>2. \A j \in 1..e.count : e.strings[j] # NULL => j \in 1..d.count /\ e.strings[j] = d.strings[j]
  BY <1>1 DEF Grown
<1>3. \A j \in 1..d.count : j \in 1..e.count /\ e.strings[j] = d.strings[j]
  BY <1>1 DEF Grown
<1>4. Arrays(e)
  BY <1>2, <1>3 DEF Arrays, Grown, Wel!Stored
<1>5. Wel!Stored(e) = Wel!Stored(d) /\ \A j \in Wel!Stored(d) : e.strings[j] = d.strings[j]
  BY <1>2, <1>3 DEF Wel!Stored
<1>6. Holds(e) = Holds(d)
  BY <1>5 DEF Holds
<1> QED
  BY <1>4, <1>6

\* One index is given another string, or none.
LEMMA PutHolds ==
  ASSUME NEW d \in Wel!wel_data, Arrays(d), NEW k \in 1..d.count, NEW s \in Strings \cup {NULL}, s \notin Holds(d),
         NEW e \in Wel!wel_data, e.count = d.count, Len(e.params) = Len(d.params), Len(e.strings) = Len(d.strings),
         e.strings[k] = s, \A j \in 1..d.count : j # k => e.strings[j] = d.strings[j]
  PROVE  Arrays(e) /\ Holds(e) = (Holds(d) \ {d.strings[k]}) \cup ({s} \ {NULL})
<1>1. \A j \in 1..d.count : d.strings[j] # NULL => d.strings[j] # s /\ d.strings[j] \in Holds(d)
  BY HeldStrings
<1>2. Arrays(e)
  BY <1>1 DEF Arrays, Wel!Stored
<1>3. \A x : x \in Holds(e) <=> x # NULL /\ \E j \in 1..d.count : e.strings[j] = x
  BY <1>2, HeldStrings
<1>4. \A x : x \in Holds(d) <=> x # NULL /\ \E j \in 1..d.count : d.strings[j] = x
  BY HeldStrings
<1>5. \A j \in 1..d.count : j # k /\ d.strings[j] # NULL => d.strings[j] # d.strings[k]
  BY DEF Arrays, Wel!Stored
<1>6. \A x : x \in Holds(e) <=> x \in (Holds(d) \ {d.strings[k]}) \cup ({s} \ {NULL})
  BY <1>1, <1>3, <1>4, <1>5
<1> QED
  BY <1>2, <1>6

(***************************************************************************)
(* What the steps do to the arrays and to the strings.                     *)
(***************************************************************************)

ArraysTyped ==
  /\ data \in Wel!wel_data /\ copy \in Wel!wel_data \cup {NULL}
  /\ live \subseteq Strings /\ lost \subseteq live /\ text \in [Strings -> Texts]
  /\ last \in [Indexes -> Wel!setting \cup {NULL}]

ArraysInv == ArraysTyped /\ OwnedInv /\ LastInv

\* No more than room is made.
Padded ==
  /\ data' \in Wel!wel_data /\ Grown(data, data') /\ data'.count = data.count
  /\ UNCHANGED << copy, live, text, lost, last >>

\* There is e with room for the index, which is given a param or a string.
Roomy(e, i) == e \in Wel!wel_data /\ Grown(data, e) /\ SettingsKept(data, e) /\ i \in Nat /\ i + 1 \in 1..e.count

ParamPut(e, i, p) ==
  /\ Roomy(e, i) /\ p \in Params \cup {NULL}
  /\ Replaced(e, data', [e.params EXCEPT ![i + 1] = p], [e.strings EXCEPT ![i + 1] = NULL], e.count)
  /\ live' = live \ {e.strings[i + 1]}
  /\ last' = [last EXCEPT ![i] = [param |-> p, text |-> NULL]]
  /\ UNCHANGED << copy, text, lost >>

StringPut(e, i, s, x) ==
  /\ Roomy(e, i) /\ s \in Strings \ live /\ x \in Texts
  /\ Replaced(e, data', e.params, [e.strings EXCEPT ![i + 1] = s], e.count)
  /\ live' = (live \ {e.strings[i + 1]}) \cup {s}
  /\ text' = [text EXCEPT ![s] = x]
  /\ last' = [last EXCEPT ![i] = [param |-> NULL, text |-> x]]
  /\ UNCHANGED << copy, lost >>

StringLost(s, x) ==
  /\ data' \in Wel!wel_data /\ Grown(data, data') /\ data'.count = data.count
  /\ s \in Strings \ live /\ x \in Texts
  /\ live' = live \cup {s} /\ lost' = lost \cup {s} /\ text' = [text EXCEPT ![s] = x]
  /\ UNCHANGED << copy, last >>

\* The strings of new are allocated for the copy, or for the params of the entry.
Allocated(new, J) ==
  /\ \A j \in J : new[j] \in Strings \ live
  /\ \A j, k \in J : new[j] = new[k] => j = k

Copied(new, J) ==
  /\ J = Wel!Stored(data) /\ Allocated(new, J)
  /\ copy = NULL /\ copy' \in Wel!wel_data /\ copy'.count = data.count
  /\ data.count <= Len(copy'.params) /\ data.count <= Len(copy'.strings)
  /\ \A j \in 1..data.count : copy'.strings[j] = IF j \in J THEN new[j] ELSE NULL
  /\ live' = live \cup {new[j] : j \in J}
  /\ text' \in [Strings -> Texts] /\ \A s \in live : text'[s] = text[s]
  /\ UNCHANGED << data, lost, last >>

Uncopied ==
  /\ copy # NULL /\ copy' = NULL /\ live' = live \ {copy.strings[j] : j \in 1..copy.count}
  /\ UNCHANGED << data, text, lost, last >>

Converted(new, J) ==
  /\ J \subseteq {j \in 1..data.count : data.params[j] # NULL} /\ Allocated(new, J)
  /\ data' \in Wel!wel_data /\ data'.count = data.count /\ data'.params = data.params
  /\ Len(data'.strings) = Len(data.strings) /\ SettingsKept(data, data')
  /\ \A j \in 1..data.count : data'.strings[j] = IF j \in J THEN new[j] ELSE data.strings[j]
  /\ live' = (live \ {data.strings[j] : j \in J}) \cup {new[j] : j \in J}
  /\ text' \in [Strings -> Texts]
  /\ \A s \in live : text'[s] = text[s]
  /\ \A j \in J : text'[new[j]] = value[data.params[j]]
  /\ UNCHANGED << copy, lost, last >>

\* The strings of the copy.
Copies == IF copy = NULL THEN {} ELSE Holds(copy)

\* What is known of the arrays of an entry.
ArrayFacts ==
  /\ data \in Wel!wel_data /\ Arrays(data) /\ data.count \in Nat /\ NULL \notin Strings
  /\ \A j \in 1..data.count : data.strings[j] \in Strings \cup {NULL} /\ data.params[j] \in Params \cup {NULL}
  /\ Holds(data) \subseteq live /\ live \subseteq Strings /\ lost \subseteq live
  /\ \A s : s \in Holds(data) <=> s # NULL /\ \E j \in 1..data.count : data.strings[j] = s
  /\ Holds(data) \cap Copies = {} /\ live \ lost = Holds(data) \cup Copies /\ Copies \subseteq Strings
  /\ \A i \in Indexes : i \in Nat /\ i <= WordMax

LEMMA ArraysFacts ==
  ASSUME ArraysInv
  PROVE  ArrayFacts
<1>1. data \in Wel!wel_data /\ Arrays(data) /\ live \subseteq Strings /\ lost \subseteq live
  BY DEF ArraysInv, ArraysTyped, OwnedInv
<1>2. data.count \in Nat
  BY <1>1, WelDataIs
<1>3. /\ \A j \in 1..data.count : data.strings[j] \in Strings \cup {NULL} /\ data.params[j] \in Params \cup {NULL}
      /\ \A s : s \in Holds(data) <=> s # NULL /\ \E j \in 1..data.count : data.strings[j] = s
  BY <1>1, HeldStrings
<1>4. Holds(data) \cap Copies = {} /\ live \ lost = Holds(data) \cup Copies
  BY DEF ArraysInv, OwnedInv, Copies
<1>5. NULL \notin Strings /\ \A i \in Indexes : i \in Nat /\ i <= WordMax
  BY WelAssumption
<1>6. Copies \subseteq Strings /\ Holds(data) \subseteq live
  BY <1>1, <1>4
<1> QED
  BY <1>1, <1>2, <1>3, <1>4, <1>5, <1>6 DEF ArrayFacts

\* What was set last is still there, when it is at its index and has its text.
LEMMA LastKept ==
  ASSUME ArraysInv, NEW S, S \subseteq Indexes,
         \A i \in S : last'[i] = last[i],
         data.count <= data'.count,
         \A i \in S : i < data.count =>
           /\ data'.params[i + 1] = data.params[i + 1]
           /\ data.params[i + 1] = NULL => data'.strings[i + 1] = data.strings[i + 1],
         \A s \in live : text'[s] = text[s],
         data'.count \in Nat
  PROVE  \A i \in S : LastOf(i)'
<1> SUFFICES ASSUME NEW i \in S, last'[i] # NULL
             PROVE  /\ i < data'.count
                    /\ IF last'[i].param # NULL THEN data'.params[i + 1] = last'[i].param
                       ELSE data'.params[i + 1] = NULL =>
                              last'[i].text = IF data'.strings[i + 1] # NULL THEN text'[data'.strings[i + 1]] ELSE NULL
  BY DEF LastOf
<1>1. ArrayFacts /\ LastInv
  BY ArraysFacts DEF ArraysInv
<1>2. /\ i \in Nat /\ i < data.count
      /\ IF last[i].param # NULL THEN data.params[i + 1] = last[i].param
         ELSE data.params[i + 1] = NULL =>
                last[i].text = IF data.strings[i + 1] # NULL THEN text[data.strings[i + 1]] ELSE NULL
  BY <1>1 DEF ArrayFacts, LastInv, LastOf
<1>3. i < data'.count
  BY <1>1, <1>2 DEF ArrayFacts
<1>4. i + 1 \in 1..data.count
  BY <1>1, <1>2 DEF ArrayFacts
<1>5. data.strings[i + 1] # NULL => data.strings[i + 1] \in live
  BY <1>1, <1>4 DEF ArrayFacts
<1> QED
  BY <1>2, <1>3, <1>5

LEMMA PaddedKeeps ==
  ASSUME ArraysInv, Padded
  PROVE  ArraysInv'
<1>1. ArrayFacts
  BY ArraysFacts
<1>2. ArraysTyped'
  BY DEF ArraysInv, ArraysTyped, Padded
<1>3. Arrays(data') /\ Holds(data') = Holds(data)
  BY <1>1, GrownHolds DEF Padded, ArrayFacts
<1>4. OwnedInv'
  BY <1>3 DEF OwnedInv, ArraysInv, Padded
<1>5. LastInv'
  <2>1. \A i \in Indexes : i < data.count => /\ data'.params[i + 1] = data.params[i + 1]
                                            /\ data'.strings[i + 1] = data.strings[i + 1]
    <3>1. \A i \in Indexes : i < data.count => i + 1 \in 1..data.count
      BY <1>1 DEF ArrayFacts
    <3>2. \A j \in 1..data.count : data'.params[j] = data.params[j] /\ data'.strings[j] = data.strings[j]
      BY DEF Padded, Grown
    <3> QED
      BY <3>1, <3>2, Zenon
  <2>2. /\ \A i \in Indexes : last'[i] = last[i]
        /\ data.count <= data'.count /\ data'.count \in Nat
        /\ \A s \in live : text'[s] = text[s]
    BY <1>1 DEF ArrayFacts, Padded
  <2>3. \A i \in Indexes : LastOf(i)'
    BY <2>1, <2>2, LastKept
  <2> QED
    BY <2>3, Zenon DEF LastInv
<1> QED
  BY <1>2, <1>4, <1>5 DEF ArraysInv

\* Index i of e, which is data with room for it, has p and s.
PutAt(e, i, p, s) ==
  /\ data' \in Wel!wel_data /\ data'.count = e.count
  /\ Len(data'.params) = Len(e.params) /\ Len(data'.strings) = Len(e.strings)
  /\ data'.params[i + 1] = p /\ data'.strings[i + 1] = s
  /\ \A j \in 1..e.count : j # i + 1 => data'.params[j] = e.params[j] /\ data'.strings[j] = e.strings[j]

LEMMA RoomyIs ==
  ASSUME ArraysInv, NEW e, NEW i, Roomy(e, i)
  PROVE  /\ e \in Wel!wel_data /\ e.params \in ParamArrays /\ e.strings \in StringArrays /\ e.count \in Nat
         /\ i + 1 \in 1..Len(e.params) /\ i + 1 \in 1..Len(e.strings) /\ i + 1 \in 1..e.count
         /\ e.count <= Len(e.params) /\ e.count <= Len(e.strings)
         /\ Len(e.params) \in Nat /\ Len(e.strings) \in Nat
         /\ Arrays(e) /\ Holds(e) = Holds(data)
<1>1. e \in Wel!wel_data /\ Grown(data, e) /\ i \in Nat /\ i + 1 \in 1..e.count
  BY DEF Roomy
<1>2. e.params \in ParamArrays /\ e.strings \in StringArrays /\ e.count \in Nat
  BY <1>1, WelDataIs
<1>3. Len(e.params) \in Nat /\ Len(e.strings) \in Nat
  BY <1>2, ArrayIs DEF ParamArrays, StringArrays
<1>4. data \in Wel!wel_data /\ Arrays(data)
  BY ArraysFacts DEF ArrayFacts
<1>5. Arrays(e) /\ Holds(e) = Holds(data)
  BY <1>1, <1>4, GrownHolds
<1>6. e.count <= Len(e.params) /\ e.count <= Len(e.strings)
  BY <1>1 DEF Grown
<1>7. i + 1 \in 1..Len(e.params) /\ i + 1 \in 1..Len(e.strings)
  BY <1>1, <1>2, <1>3, <1>6
<1> QED
  BY <1>1, <1>2, <1>3, <1>5, <1>6, <1>7, Zenon

LEMMA ParamPutIs ==
  ASSUME ArraysInv, NEW e, NEW i, NEW p, ParamPut(e, i, p)
  PROVE  PutAt(e, i, p, NULL)
<1> DEFINE ps == [e.params EXCEPT ![i + 1] = p]
           ss == [e.strings EXCEPT ![i + 1] = NULL]
<1>1. Roomy(e, i) /\ p \in Params \cup {NULL} /\ Replaced(e, data', ps, ss, e.count)
  BY DEF ParamPut
<1>2. /\ e.params \in Seq(Params \cup {NULL}) /\ e.strings \in Seq(Strings \cup {NULL}) /\ e.count \in Nat
      /\ i + 1 \in 1..Len(e.params) /\ i + 1 \in 1..Len(e.strings)
      /\ e.count <= Len(e.params) /\ e.count <= Len(e.strings)
      /\ Len(e.params) \in Nat /\ Len(e.strings) \in Nat
  BY <1>1, RoomyIs DEF ParamArrays, StringArrays
<1>3. Len(ps) = Len(e.params) /\ ps[i + 1] = p /\ \A k \in 1..Len(e.params) : k # i + 1 => ps[k] = e.params[k]
  BY <1>1, <1>2, ArrayIs
<1>4. Len(ss) = Len(e.strings) /\ ss[i + 1] = NULL /\ \A k \in 1..Len(e.strings) : k # i + 1 => ss[k] = e.strings[k]
  BY <1>2, ArrayIs
<1> HIDE DEF ps, ss
<1> QED
  BY <1>1, <1>2, <1>3, <1>4 DEF Replaced, PutAt

LEMMA StringPutIs ==
  ASSUME ArraysInv, NEW e, NEW i, NEW s, NEW x, StringPut(e, i, s, x)
  PROVE  PutAt(e, i, e.params[i + 1], s)
<1> DEFINE ss == [e.strings EXCEPT ![i + 1] = s]
<1>1. Roomy(e, i) /\ s \in Strings \cup {NULL} /\ Replaced(e, data', e.params, ss, e.count)
  BY DEF StringPut
<1>2. /\ e.params \in Seq(Params \cup {NULL}) /\ e.strings \in Seq(Strings \cup {NULL}) /\ e.count \in Nat
      /\ i + 1 \in 1..Len(e.params) /\ i + 1 \in 1..Len(e.strings)
      /\ e.count <= Len(e.params) /\ e.count <= Len(e.strings)
      /\ Len(e.params) \in Nat /\ Len(e.strings) \in Nat
  BY <1>1, RoomyIs DEF ParamArrays, StringArrays
<1>3. Len(ss) = Len(e.strings) /\ ss[i + 1] = s /\ \A k \in 1..Len(e.strings) : k # i + 1 => ss[k] = e.strings[k]
  BY <1>1, <1>2, ArrayIs
<1> HIDE DEF ss
<1> QED
  BY <1>1, <1>2, <1>3 DEF Replaced, PutAt

\* Whatever is put at an index, no string is lost, freed too early or doubled.
LEMMA PutOwns ==
  ASSUME ArraysInv, NEW e, NEW i, NEW p, NEW s \in Strings \cup {NULL}, Roomy(e, i), PutAt(e, i, p, s),
         s \notin live, live' = (live \ {e.strings[i + 1]}) \cup ({s} \ {NULL}), copy' = copy, lost' = lost
  PROVE  OwnedInv' /\ live' \subseteq Strings /\ lost' \subseteq live'
<1> DEFINE x == e.strings[i + 1]
<1>1. ArrayFacts /\ OwnedInv
  BY ArraysFacts DEF ArraysInv
<1>2. e \in Wel!wel_data /\ Arrays(e) /\ Holds(e) = Holds(data) /\ i + 1 \in 1..e.count /\ e.count \in Nat
  BY RoomyIs
<1>3. s \notin Holds(e)
  BY <1>1, <1>2 DEF ArrayFacts
<1>4. Arrays(data') /\ Holds(data') = (Holds(e) \ {x}) \cup ({s} \ {NULL})
  BY <1>2, <1>3, PutHolds DEF PutAt
<1>5. x \notin live \/ x \in Holds(e)
  BY <1>1, <1>2, HeldStrings DEF ArrayFacts
<1> HIDE DEF x
<1>6. live' = (live \ {x}) \cup ({s} \ {NULL})
  BY DEF x
<1>7. /\ live' \subseteq Strings /\ lost' \subseteq live'
      /\ Holds(data') \cap Copies = {} /\ live' \ lost' = Holds(data') \cup Copies
  BY <1>1, <1>2, <1>4, <1>5, <1>6 DEF ArrayFacts
<1>8. copy # NULL => Arrays(copy)
  BY <1>1 DEF OwnedInv
<1> QED
  BY <1>4, <1>7, <1>8 DEF OwnedInv, Copies

\* The other indexes keep what was set there.
LEMMA PutKeepsOthers ==
  ASSUME ArraysInv, NEW e, NEW i \in Indexes, NEW p, NEW s, Roomy(e, i), PutAt(e, i, p, s),
         NEW g, last' = [last EXCEPT ![i] = g], \A r \in live : text'[r] = text[r]
  PROVE  \A k \in Indexes \ {i} : LastOf(k)'
<1>1. ArrayFacts /\ last \in [Indexes -> Wel!setting \cup {NULL}]
  BY ArraysFacts DEF ArraysInv, ArraysTyped
<1>2. \A k \in Indexes \ {i} : last'[k] = last[k]
  BY <1>1
<1>3. /\ data.count <= data'.count /\ data'.count \in Nat
      /\ \A j \in 1..data.count : j # i + 1 => data'.params[j] = data.params[j] /\ data'.strings[j] = data.strings[j]
  <2>1. e.count \in Nat /\ Grown(data, e)
    BY RoomyIs DEF Roomy
  <2>2. data'.count = e.count /\ data.count <= e.count /\ data.count \in Nat
    BY <1>1, <2>1 DEF PutAt, Grown, ArrayFacts
  <2>3. ASSUME NEW j \in 1..data.count, j # i + 1
        PROVE  data'.params[j] = data.params[j] /\ data'.strings[j] = data.strings[j]
    <3>1. j \in 1..e.count
      BY <2>1, <2>2
    <3>2. data'.params[j] = e.params[j] /\ data'.strings[j] = e.strings[j]
      BY <2>3, <3>1 DEF PutAt
    <3>3. e.params[j] = data.params[j] /\ e.strings[j] = data.strings[j]
      BY <2>1 DEF Grown
    <3> QED
      BY <3>2, <3>3
  <2> QED
    BY <2>1, <2>2, <2>3
<1>4. \A k \in Indexes \ {i} : k < data.count => k + 1 \in 1..data.count /\ k + 1 # i + 1
  BY <1>1 DEF ArrayFacts
<1>5. \A k \in Indexes \ {i} : k < data.count =>
        /\ data'.params[k + 1] = data.params[k + 1]
        /\ data.params[k + 1] = NULL => data'.strings[k + 1] = data.strings[k + 1]
  BY <1>3, <1>4, Zenon
<1>6. Indexes \ {i} \subseteq Indexes
  OBVIOUS
<1> QED
  BY <1>2, <1>3, <1>5, <1>6, LastKept

LEMMA ParamPutKeeps ==
  ASSUME ArraysInv, NEW e, NEW i \in Indexes, NEW p, ParamPut(e, i, p)
  PROVE  ArraysInv'
<1>1. ArrayFacts /\ ArraysTyped
  BY ArraysFacts DEF ArraysInv
<1>2. Roomy(e, i) /\ PutAt(e, i, p, NULL) /\ p \in Params \cup {NULL}
  BY ParamPutIs DEF ParamPut
<1>3. OwnedInv' /\ live' \subseteq Strings /\ lost' \subseteq live'
  <2>1. NULL \notin live /\ live' = (live \ {e.strings[i + 1]}) \cup ({NULL} \ {NULL}) /\ copy' = copy /\ lost' = lost
    BY <1>1 DEF ParamPut, ArrayFacts
  <2> QED
    BY <1>2, <2>1, PutOwns
<1>4. ArraysTyped'
  <2>1. [param |-> p, text |-> NULL] \in Wel!setting
    BY <1>2 DEF Wel!setting
  <2>2. last' \in [Indexes -> Wel!setting \cup {NULL}]
    BY <1>1, <2>1 DEF ParamPut, ArraysTyped
  <2>3. data' \in Wel!wel_data
    BY <1>2 DEF PutAt
  <2> QED
    BY <1>1, <1>3, <2>2, <2>3 DEF ArraysTyped, ParamPut
<1>5. LastInv'
  <2>1. \A k \in Indexes \ {i} : LastOf(k)'
    <3>1. last' = [last EXCEPT ![i] = [param |-> p, text |-> NULL]] /\ \A r \in live : text'[r] = text[r]
      BY DEF ParamPut
    <3> QED
      BY <1>2, <3>1, PutKeepsOthers
  <2>2. LastOf(i)'
    <3>1. last'[i] = [param |-> p, text |-> NULL]
      BY <1>1 DEF ParamPut, ArraysTyped
    <3>2. last'[i].param = p /\ last'[i].text = NULL
      BY <3>1
    <3>3. i < data'.count /\ data'.params[i + 1] = p /\ data'.strings[i + 1] = NULL
      <4>1. i + 1 \in 1..e.count /\ e.count \in Nat /\ i \in Nat
        BY <1>2, RoomyIs DEF Roomy
      <4> QED
        BY <1>2, <4>1 DEF PutAt
    <3> QED
      BY <3>2, <3>3 DEF LastOf
  <2> QED
    BY <2>1, <2>2 DEF LastInv
<1> QED
  BY <1>3, <1>4, <1>5 DEF ArraysInv

LEMMA StringPutKeeps ==
  ASSUME ArraysInv, NEW e, NEW i \in Indexes, NEW s, NEW x, StringPut(e, i, s, x)
  PROVE  ArraysInv'
<1>1. ArrayFacts /\ ArraysTyped
  BY ArraysFacts DEF ArraysInv
<1>2. Roomy(e, i) /\ PutAt(e, i, e.params[i + 1], s) /\ s \in Strings \ live /\ s # NULL /\ x \in Texts
  BY <1>1, StringPutIs DEF StringPut, ArrayFacts
<1>3. OwnedInv' /\ live' \subseteq Strings /\ lost' \subseteq live'
  <2>1. live' = (live \ {e.strings[i + 1]}) \cup ({s} \ {NULL}) /\ copy' = copy /\ lost' = lost
    BY <1>2 DEF StringPut
  <2>2. s \in Strings \cup {NULL} /\ s \notin live
    BY <1>2
  <2> QED
    BY <1>2, <2>1, <2>2, PutOwns
<1>t. text' \in [Strings -> Texts] /\ text'[s] = x /\ \A r \in live : text'[r] = text[r]
  BY <1>1, <1>2 DEF StringPut, ArraysTyped
<1>4. ArraysTyped'
  <2>1. [param |-> NULL, text |-> x] \in Wel!setting
    BY <1>2 DEF Wel!setting
  <2>2. last' \in [Indexes -> Wel!setting \cup {NULL}]
    BY <1>1, <2>1 DEF StringPut, ArraysTyped
  <2>3. data' \in Wel!wel_data
    BY <1>2 DEF PutAt
  <2> QED
    BY <1>1, <1>3, <1>t, <2>2, <2>3 DEF ArraysTyped, StringPut
<1>5. LastInv'
  <2>1. \A k \in Indexes \ {i} : LastOf(k)'
    <3>1. last' = [last EXCEPT ![i] = [param |-> NULL, text |-> x]]
      BY DEF StringPut
    <3> QED
      BY <1>2, <1>t, <3>1, PutKeepsOthers
  <2>2. LastOf(i)'
    <3>1. last'[i] = [param |-> NULL, text |-> x]
      BY <1>1 DEF StringPut, ArraysTyped
    <3>2. last'[i].param = NULL /\ last'[i].text = x
      BY <3>1
    <3>3. i < data'.count /\ data'.strings[i + 1] = s
      <4>1. i + 1 \in 1..e.count /\ e.count \in Nat /\ i \in Nat
        BY <1>2, RoomyIs DEF Roomy
      <4> QED
        BY <1>2, <4>1 DEF PutAt
    <3> QED
      BY <1>2, <1>t, <3>2, <3>3 DEF LastOf
  <2> QED
    BY <2>1, <2>2 DEF LastInv
<1> QED
  BY <1>3, <1>4, <1>5 DEF ArraysInv

\* A string that is lost is allocated, but nowhere.
LEMMA StringLostKeeps ==
  ASSUME ArraysInv, NEW s, NEW x, StringLost(s, x)
  PROVE  ArraysInv'
<1>1. ArrayFacts /\ ArraysTyped /\ OwnedInv
  BY ArraysFacts DEF ArraysInv
<1>2. /\ data' \in Wel!wel_data /\ Grown(data, data') /\ data'.count = data.count /\ s \in Strings \ live /\ x \in Texts
      /\ text' \in [Strings -> Texts] /\ \A r \in live : text'[r] = text[r]
  BY <1>1 DEF StringLost, ArraysTyped
<1>3. ArraysTyped'
  BY <1>1, <1>2 DEF StringLost, ArraysTyped
<1>4. OwnedInv'
  <2>1. Arrays(data') /\ Holds(data') = Holds(data)
    BY <1>1, <1>2, GrownHolds DEF ArrayFacts
  <2>2. live' \ lost' = live \ lost
    BY <1>1, <1>2 DEF StringLost, ArrayFacts
  <2> QED
    BY <1>1, <2>1, <2>2 DEF OwnedInv, StringLost
<1>5. LastInv'
  <2>1. \A i \in Indexes : i < data.count => /\ data'.params[i + 1] = data.params[i + 1]
                                            /\ data'.strings[i + 1] = data.strings[i + 1]
    <3>1. \A i \in Indexes : i < data.count => i + 1 \in 1..data.count
      BY <1>1 DEF ArrayFacts
    <3>2. \A j \in 1..data.count : data'.params[j] = data.params[j] /\ data'.strings[j] = data.strings[j]
      BY <1>2 DEF Grown
    <3> QED
      BY <3>1, <3>2, Zenon
  <2>2. /\ \A i \in Indexes : last'[i] = last[i]
        /\ data.count <= data'.count /\ data'.count \in Nat
    BY <1>1, <1>2 DEF ArrayFacts, StringLost
  <2>3. \A i \in Indexes : LastOf(i)'
    BY <1>2, <2>1, <2>2, LastKept
  <2> QED
    BY <2>3, Zenon DEF LastInv
<1> QED
  BY <1>3, <1>4, <1>5 DEF ArraysInv

\* The copy has a string of its own for each string of the entry.
LEMMA CopiedKeeps ==
  ASSUME ArraysInv, NEW new, NEW J, Copied(new, J)
  PROVE  ArraysInv'
<1>1. ArrayFacts /\ ArraysTyped /\ OwnedInv
  BY ArraysFacts DEF ArraysInv
<1>2. /\ J = {j \in 1..data.count : data.strings[j] # NULL}
      /\ \A j \in J : new[j] \in Strings \ live
      /\ \A j, k \in J : new[j] = new[k] => j = k
      /\ copy = NULL /\ copy' \in Wel!wel_data /\ copy'.count = data.count
      /\ data.count <= Len(copy'.params) /\ data.count <= Len(copy'.strings)
      /\ \A j \in 1..data.count : copy'.strings[j] = IF j \in J THEN new[j] ELSE NULL
      /\ live' = live \cup {new[j] : j \in J}
      /\ text' \in [Strings -> Texts] /\ \A s \in live : text'[s] = text[s]
      /\ data' = data /\ lost' = lost /\ last' = last
  BY DEF Copied, Allocated, Wel!Stored
<1>3. Arrays(copy')
  BY <1>2 DEF Arrays, Wel!Stored
<1>4. Holds(copy') = {new[j] : j \in J}
  <2>1. \A s : s \in Holds(copy') <=> s # NULL /\ \E j \in 1..data.count : copy'.strings[j] = s
    BY <1>2, <1>3, HeldStrings
  <2>2. \A j \in J : new[j] # NULL /\ j \in 1..data.count
    BY <1>1, <1>2 DEF ArrayFacts
  <2>3. \A s : s \in Holds(copy') <=> \E j \in J : new[j] = s
    BY <1>2, <2>1, <2>2
  <2> QED
    BY <2>3
<1>5. live' \subseteq Strings /\ lost' \subseteq live' /\ Holds(copy') \cap live = {} /\ live' = live \cup Holds(copy')
  BY <1>1, <1>2, <1>4 DEF ArrayFacts
<1>6. ArraysTyped'
  BY <1>1, <1>2, <1>5 DEF ArraysTyped
<1>7. OwnedInv'
  <2>1. Holds(data) \cap Holds(copy') = {} /\ live' \ lost' = Holds(data) \cup Holds(copy')
    BY <1>1, <1>2, <1>5 DEF ArrayFacts, Copies
  <2>2. copy' # NULL
    BY <1>2, WelDataIs
  <2> QED
    BY <1>1, <1>2, <1>3, <2>1, <2>2 DEF OwnedInv
<1>8. LastInv'
  <2>1. /\ \A i \in Indexes : last'[i] = last[i]
        /\ data.count <= data'.count /\ data'.count \in Nat
        /\ \A i \in Indexes : i < data.count => /\ data'.params[i + 1] = data.params[i + 1]
                                                /\ data'.strings[i + 1] = data.strings[i + 1]
    BY <1>1, <1>2 DEF ArrayFacts
  <2>2. \A i \in Indexes : LastOf(i)'
    BY <1>2, <2>1, LastKept
  <2> QED
    BY <2>2, Zenon DEF LastInv
<1> QED
  BY <1>6, <1>7, <1>8 DEF ArraysInv

LEMMA UncopiedKeeps ==
  ASSUME ArraysInv, Uncopied
  PROVE  ArraysInv'
<1>1. ArrayFacts /\ ArraysTyped /\ OwnedInv
  BY ArraysFacts DEF ArraysInv
<1>2. copy # NULL /\ copy \in Wel!wel_data /\ Arrays(copy)
  BY <1>1 DEF Uncopied, ArraysTyped, OwnedInv
<1>3. \A s : s \in Holds(copy) <=> s # NULL /\ \E j \in 1..copy.count : copy.strings[j] = s
  BY <1>2, HeldStrings
<1>4. live' = live \ Holds(copy)
  BY <1>1, <1>3 DEF Uncopied, ArrayFacts
<1>5. ArraysTyped'
  BY <1>1, <1>2, <1>4 DEF ArraysTyped, Uncopied, ArrayFacts, Copies
<1>6. OwnedInv'
  <2>1. live' \ lost = Holds(data)
    BY <1>1, <1>2, <1>4 DEF ArrayFacts, Copies
  <2> QED
    BY <1>1, <2>1 DEF OwnedInv, Uncopied
<1>7. LastInv'
  <2>1. /\ \A i \in Indexes : last'[i] = last[i]
        /\ data.count <= data'.count /\ data'.count \in Nat
        /\ \A i \in Indexes : i < data.count => /\ data'.params[i + 1] = data.params[i + 1]
                                                /\ data'.strings[i + 1] = data.strings[i + 1]
        /\ \A s \in live : text'[s] = text[s]
    BY <1>1 DEF ArrayFacts, Uncopied
  <2>2. \A i \in Indexes : LastOf(i)'
    BY <2>1, LastKept
  <2> QED
    BY <2>2, Zenon DEF LastInv
<1> QED
  BY <1>5, <1>6, <1>7 DEF ArraysInv

\* The strings that the params had are freed when they get others.
LEMMA ConvertedKeeps ==
  ASSUME ArraysInv, NEW new, NEW J, Converted(new, J)
  PROVE  ArraysInv'
<1>1. ArrayFacts /\ ArraysTyped /\ OwnedInv
  BY ArraysFacts DEF ArraysInv
<1>2. /\ J \subseteq 1..data.count /\ \A j \in J : data.params[j] # NULL
      /\ \A j \in J : new[j] \in Strings \ live
      /\ \A j, k \in J : new[j] = new[k] => j = k
      /\ data' \in Wel!wel_data /\ data'.count = data.count /\ data'.params = data.params
      /\ Len(data'.strings) = Len(data.strings)
      /\ \A j \in 1..data.count : data'.strings[j] = IF j \in J THEN new[j] ELSE data.strings[j]
      /\ live' = (live \ {data.strings[j] : j \in J}) \cup {new[j] : j \in J}
      /\ text' \in [Strings -> Texts] /\ \A s \in live : text'[s] = text[s]
      /\ copy' = copy /\ lost' = lost /\ last' = last
  BY DEF Converted, Allocated
<1>3. /\ \A j, k \in 1..data.count : data.strings[j] # NULL /\ data.strings[j] = data.strings[k] => j = k
      /\ \A j \in 1..data.count : data.strings[j] # NULL => data.strings[j] \in live
      /\ data.count <= Len(data.params) /\ data.count <= Len(data.strings)
  BY <1>1 DEF Arrays, Wel!Stored, ArrayFacts
<1>4. Arrays(data')
  BY <1>2, <1>3 DEF Arrays, Wel!Stored
<1> DEFINE Old == {data.strings[j] : j \in J}
           New == {new[j] : j \in J}
<1>5. Holds(data') = (Holds(data) \ Old) \cup New
  <2>1. \A s : s \in Holds(data') <=> s # NULL /\ \E j \in 1..data.count : data'.strings[j] = s
    BY <1>2, <1>4, HeldStrings
  <2>2. \A s : s \in Holds(data) <=> s # NULL /\ \E j \in 1..data.count : data.strings[j] = s
    BY <1>1 DEF ArrayFacts
  <2>3. \A j \in J : new[j] # NULL
    BY <1>1, <1>2 DEF ArrayFacts
  <2>4. ASSUME NEW s, s \in Holds(data') PROVE s \in (Holds(data) \ Old) \cup New
    <3>1. PICK j \in 1..data.count : data'.strings[j] = s
      BY <2>1, <2>4
    <3>2. CASE j \in J
      BY <1>2, <3>1, <3>2
    <3>3. CASE j \notin J
      <4>1. data.strings[j] = s /\ s \in Holds(data)
        BY <1>2, <2>2, <2>1, <2>4, <3>1, <3>3
      <4>2. s \notin Old
        BY <1>2, <1>3, <2>1, <2>4, <3>3, <4>1
      <4> QED
        BY <4>1, <4>2
    <3> QED
      BY <3>2, <3>3
  <2>5. ASSUME NEW s, s \in (Holds(data) \ Old) \cup New PROVE s \in Holds(data')
    <3>1. CASE s \in New
      BY <1>2, <2>1, <2>3, <3>1
    <3>2. CASE s \in Holds(data) \ Old
      BY <1>2, <2>1, <2>2, <3>2
    <3> QED
      BY <2>5, <3>1, <3>2
  <2> QED
    BY <2>4, <2>5
<1>6. New \cap live = {} /\ New \subseteq Strings /\ live' = (live \ Old) \cup New /\ Old \cap live \subseteq Holds(data)
  <2>1. \A j \in J : data.strings[j] \in live => data.strings[j] \in Holds(data)
    BY <1>1, <1>2 DEF ArrayFacts
  <2> QED
    BY <1>2, <2>1
<1> HIDE DEF Old, New
<1>7. ArraysTyped' /\ lost' \subseteq live'
  BY <1>1, <1>2, <1>6 DEF ArraysTyped, ArrayFacts
<1>8. OwnedInv'
  <2>1. Holds(data') \cap Copies = {} /\ live' \ lost' = Holds(data') \cup Copies
    BY <1>1, <1>2, <1>5, <1>6 DEF ArrayFacts
  <2> QED
    BY <1>1, <1>2, <1>4, <2>1 DEF OwnedInv, Copies
<1>9. LastInv'
  <2>1. \A i \in Indexes : i < data.count => i + 1 \in 1..data.count
    BY <1>1 DEF ArrayFacts
  <2>2. /\ \A i \in Indexes : last'[i] = last[i]
        /\ data.count <= data'.count /\ data'.count \in Nat
        /\ \A i \in Indexes : i < data.count =>
              /\ data'.params[i + 1] = data.params[i + 1]
              /\ data.params[i + 1] = NULL => data'.strings[i + 1] = data.strings[i + 1]
    BY <1>1, <1>2, <2>1 DEF ArrayFacts
  <2>3. \A i \in Indexes : LastOf(i)'
    BY <1>2, <2>2, LastKept
  <2> QED
    BY <2>3, Zenon DEF LastInv
<1> QED
  BY <1>7, <1>8, <1>9 DEF ArraysInv

(***************************************************************************)
(* What a step of one thread does to the calls of the others.              *)
(***************************************************************************)

\* The call of t goes on with f; the others may be told of a change.
FrameMoved(t, f) ==
  /\ DOMAIN frame' = Threads /\ frame' = [u \in Threads |-> frame'[u]]
  /\ frame'[t] = f /\ FrameFields(f)
  /\ \A u \in Threads \ {t} :
       /\ FrameFields(frame'[u])
       /\ frame'[u].step = frame[u].step /\ frame'[u].event = frame[u].event
       /\ frame[u].disturbed /\ frame[u].step # "idle" => frame'[u].disturbed

LEMMA StepMoves ==
  ASSUME FramesTyped, NEW t \in Threads, NEW f, FrameFields(f), Wel!Step(t, f)
  PROVE  FrameMoved(t, f)
<1>1. /\ DOMAIN frame' = Threads /\ frame' = [u \in Threads |-> frame'[u]]
      /\ frame'[t] = f /\ \A u \in Threads \ {t} : frame'[u] = frame[u]
  BY DEF FramesTyped, Wel!Step
<1> QED
  BY <1>1 DEF FramesTyped, FrameMoved

\* Every call that is under way is disturbed.
Disturbs(t) == \A u \in Threads \ {t} : frame[u].step # "idle" => frame'[u].disturbed

LEMMA ChangeMoves ==
  ASSUME FramesTyped, NEW t \in Threads, NEW f, FrameFields(f), Wel!Change(t, f)
  PROVE  FrameMoved(t, f) /\ Disturbs(t)
<1>1. /\ DOMAIN frame' = Threads /\ frame' = [u \in Threads |-> frame'[u]]
      /\ frame'[t] = f
      /\ \A u \in Threads \ {t} : frame'[u] = [frame[u] EXCEPT !.disturbed = frame[u].step # "idle"]
  BY DEF Wel!Change
<1>2. ASSUME NEW u \in Threads \ {t}
      PROVE  /\ FrameFields(frame'[u])
             /\ frame'[u].step = frame[u].step /\ frame'[u].event = frame[u].event
             /\ frame[u].step # "idle" => frame'[u].disturbed
  <2>1. frame'[u] = [frame[u] EXCEPT !.disturbed = frame[u].step # "idle"] /\ FrameFields(frame[u])
    BY <1>1 DEF FramesTyped
  <2>2. frame'[u] = [step |-> frame[u].step, text |-> frame[u].text, event |-> frame[u].event,
                     disturbed |-> frame[u].step # "idle"]
    <3>1. frame[u] = [step |-> frame[u].step, text |-> frame[u].text, event |-> frame[u].event,
                      disturbed |-> frame[u].disturbed]
      BY <2>1 DEF FrameFields
    <3> QED
      BY <2>1, <3>1
  <2>3. /\ frame'[u].step = frame[u].step /\ frame'[u].text = frame[u].text
        /\ frame'[u].event = frame[u].event /\ frame'[u].disturbed = (frame[u].step # "idle")
    BY <2>2
  <2> QED
    BY <2>1, <2>2, <2>3 DEF FrameFields
<1>3. /\ \A u \in Threads \ {t} :
           /\ FrameFields(frame'[u])
           /\ frame'[u].step = frame[u].step /\ frame'[u].event = frame[u].event
           /\ frame[u].step # "idle" => frame'[u].disturbed
  BY <1>2, Zenon
<1> QED
  BY <1>1, <1>3 DEF FrameMoved, Disturbs

\* t takes the mutex m, gives it back, or leaves it alone; it has it afterwards or not.
HolderMoved(m, t, has) ==
  \/ holder'[m] = holder[m] /\ (has <=> holder[m] = t)
  \/ holder[m] = NULL /\ holder'[m] = t /\ has
  \/ holder[m] = t /\ holder'[m] = NULL /\ ~has

MutexesMoved(t, f) ==
  /\ holder' \in [{"entry", "data"} -> Threads \cup {NULL}]
  /\ HolderMoved("entry", t, f.step \in EntrySteps)
  /\ HolderMoved("data", t, f.step \in DataSteps)

\* A call that comes to have the one mutex, and wait for the other, looks for others.
Crossing(t, f) ==
  /\ crossed => crossed'
  /\ f.step \in SendSteps /\ frame[t].step \notin SendSteps =>
       \A u \in Threads : frame[u].step \in EntrySteps => crossed'
  /\ f.step \in EntrySteps /\ frame[t].step \notin EntrySteps =>
       \A u \in Threads : frame[u].step \in SendSteps => crossed'

\* Nothing that is read for an event changes.
Silent ==
  /\ value' = value /\ prival' = prival /\ message' = message
  /\ data'.count = data.count /\ SettingsKept(data, data')
  /\ \A j \in 1..data.count :
       /\ data'.params[j] = data.params[j]
       /\ data.params[j] = NULL => data'.strings[j] = data.strings[j]
  /\ \A s \in live : text'[s] = text[s]

\* What a mutex protects is not changed while another thread has it.
Safe(t) ==
  \A u \in Threads \ {t} : holder["data"] = u => data' = data /\ \A s \in live : text'[s] = text[s]

CopySafe(t, f) ==
  /\ f.step = "copy" => copy' = NULL
  /\ copy' = copy \/ copy' = NULL \/ holder["entry"] = t

StepMoved(t, f) ==
  /\ FrameMoved(t, f) /\ MutexesMoved(t, f) /\ Crossing(t, f) /\ CopySafe(t, f)
  /\ Silent \/ Disturbs(t)
  /\ Safe(t)

LEMMA MutexKept ==
  ASSUME WelInv, NEW t \in Threads, NEW f, StepMoved(t, f)
  PROVE  FramesTyped' /\ MutexInv' /\ CrossInv' /\ CopyInv'
<1>1. /\ DOMAIN frame' = Threads /\ frame' = [u \in Threads |-> frame'[u]]
      /\ frame'[t] = f /\ FrameFields(f)
      /\ \A u \in Threads \ {t} : FrameFields(frame'[u]) /\ frame'[u].step = frame[u].step
  BY DEF StepMoved, FrameMoved
<1>2. FramesTyped'
  BY <1>1 DEF FramesTyped
<1>3. MutexInv'
  <2>1. ASSUME NEW u \in Threads
        PROVE  /\ holder'["entry"] = u <=> frame'[u].step \in EntrySteps
               /\ holder'["data"] = u <=> frame'[u].step \in DataSteps
    <3>1. /\ holder["entry"] = u <=> frame[u].step \in EntrySteps
          /\ holder["data"] = u <=> frame[u].step \in DataSteps
          /\ u # NULL /\ t # NULL
      BY WelAssumption DEF WelInv, MutexInv, WelStep
    <3>2. HolderMoved("entry", t, f.step \in EntrySteps) /\ HolderMoved("data", t, f.step \in DataSteps)
      BY DEF StepMoved, MutexesMoved
    <3>3. CASE u = t
      BY <1>1, <3>1, <3>2, <3>3 DEF HolderMoved
    <3>4. CASE u # t
      BY <1>1, <3>1, <3>2, <3>4 DEF HolderMoved
    <3> QED
      BY <3>3, <3>4
  <2> QED
    BY <2>1, Zenon DEF MutexInv, WelStep
<1>4. CrossInv'
  <2>1. ASSUME NEW u \in Threads, NEW v \in Threads, frame'[u].step \in SendSteps, frame'[v].step \in EntrySteps
        PROVE  crossed'
    <3>1. u # v
      BY <2>1 DEF SendSteps, EntrySteps
    <3>2. frame[u].step \in SendSteps /\ frame[v].step \in EntrySteps => crossed
      BY DEF WelInv, CrossInv, WelStep
    <3>3. Crossing(t, f)
      BY DEF StepMoved
    <3>4. CASE u = t
      BY <1>1, <2>1, <3>1, <3>2, <3>3, <3>4 DEF Crossing
    <3>5. CASE v = t
      BY <1>1, <2>1, <3>1, <3>2, <3>3, <3>5 DEF Crossing
    <3>6. CASE u # t /\ v # t
      BY <1>1, <2>1, <3>2, <3>3, <3>6 DEF Crossing
    <3> QED
      BY <3>4, <3>5, <3>6
  <2> QED
    BY <2>1, Zenon DEF CrossInv, WelStep
<1>5. CopyInv'
  <2>1. ASSUME NEW u \in Threads, frame'[u].step = "copy"
        PROVE  copy' = NULL
    <3>1. CASE u = t
      BY <1>1, <2>1, <3>1 DEF StepMoved, CopySafe
    <3>2. CASE u # t
      <4>1. frame[u].step = "copy"
        BY <1>1, <2>1, <3>2
      <4>2. copy = NULL /\ holder["entry"] = u
        BY <4>1 DEF WelInv, CopyInv, MutexInv, WelStep, EntrySteps
      <4> QED
        BY <3>2, <4>2 DEF StepMoved, CopySafe
    <3> QED
      BY <3>1, <3>2
  <2> QED
    BY <2>1, Zenon DEF CopyInv, WelStep
<1> QED
  BY <1>2, <1>3, <1>4, <1>5

\* What is shown stays the same, as long as nothing it is made of changes.
LEMMA QuietShows ==
  ASSUME ArraysInv, Silent
  PROVE  Shown' = Shown /\ SentStrings' = SentStrings
<1>1. ArrayFacts
  BY ArraysFacts
<1>2. /\ value' = value /\ message' = message /\ data'.count = data.count /\ data'.event_id = data.event_id
      /\ \A j \in 1..data.count :
           /\ data'.params[j] = data.params[j]
           /\ data.params[j] = NULL => data'.strings[j] = data.strings[j]
      /\ \A s \in live : text'[s] = text[s]
  BY DEF Silent, SettingsKept
<1>3. ASSUME NEW j \in 1..data.count
      PROVE  Wel!TextAt(data, j - 1)' = Wel!TextAt(data, j - 1)
  <2>1. j - 1 + 1 = j
    BY <1>1 DEF ArrayFacts
  <2>2. data.params[j] = NULL /\ data.strings[j] # NULL => data.strings[j] \in live
    BY <1>1 DEF ArrayFacts
  <2>3. Wel!TextAt(data, j - 1) =
          IF data.params[j] # NULL THEN value[data.params[j]]
          ELSE IF data.strings[j] # NULL THEN text[data.strings[j]] ELSE NULL
    BY <2>1 DEF Wel!TextAt
  <2>4. Wel!TextAt(data, j - 1)' =
          IF data'.params[j] # NULL THEN value'[data'.params[j]]
          ELSE IF data'.strings[j] # NULL THEN text'[data'.strings[j]] ELSE NULL
    BY <2>1 DEF Wel!TextAt
  <2> QED
    BY <1>2, <2>2, <2>3, <2>4
<1>4. Shown' = Shown
  BY <1>2, <1>3 DEF Shown
<1> QED
  BY <1>2, <1>4 DEF SentStrings

LEMMA QuietSays ==
  ASSUME Silent, NEW e, SaysOf(e)
  PROVE  SaysOf(e)'
BY DEF Silent, SettingsKept, SaysOf, Wel!stumpless_get_wel_type, Wel!stumpless_get_wel_category,
       Wel!stumpless_get_wel_event_id

\* Other calls that are sending go on to do so as they should.
LEMMA OthersSend ==
  ASSUME WelInv, ArraysInv, NEW t \in Threads, NEW f, StepMoved(t, f), NEW u \in Threads, u # t
  PROVE  ConvertedOf(u)' /\ EventOf(u)'
<1>1. /\ frame'[u].step = frame[u].step /\ frame'[u].event = frame[u].event
      /\ frame[u].disturbed /\ frame[u].step # "idle" => frame'[u].disturbed
  BY DEF StepMoved, FrameMoved
<1>2. frame[u].step # "idle" => Silent \/ frame'[u].disturbed
  BY DEF StepMoved, Disturbs
<1>3. frame[u].step \in DataSteps => data' = data /\ \A s \in live : text'[s] = text[s]
  BY DEF StepMoved, Safe, WelInv, MutexInv, WelStep
<1>4. ConvertedOf(u) /\ EventOf(u)
  BY DEF WelInv, ConvertedInv, EventInv
<1>5. ArrayFacts
  BY ArraysFacts
<1>6. ConvertedOf(u)'
  <2> SUFFICES ASSUME frame[u].step = "prival", NEW j \in 1..data'.count, data'.params[j] # NULL
               PROVE  /\ data'.strings[j] # NULL
                      /\ ~frame'[u].disturbed => text'[data'.strings[j]] = value'[data'.params[j]]
    BY <1>1 DEF ConvertedOf, WelStep
  <2>1. data' = data /\ \A s \in live : text'[s] = text[s]
    BY <1>3 DEF DataSteps
  <2>2. data.strings[j] # NULL /\ (~frame[u].disturbed => text[data.strings[j]] = value[data.params[j]])
    BY <1>4, <2>1 DEF ConvertedOf, WelStep
  <2>3. data.strings[j] \in live
    BY <1>5, <2>1, <2>2 DEF ArrayFacts
  <2>4. ~frame'[u].disturbed => ~frame[u].disturbed /\ value' = value
    BY <1>1, <1>2 DEF Silent
  <2> QED
    BY <2>1, <2>2, <2>3, <2>4
<1>7. EventOf(u)'
  <2> SUFFICES ASSUME NEW e, e = frame'[u].event, frame'[u].step \in {"message", "report", "reported"}
               PROVE  /\ OfOnePrival(e)
                      /\ frame'[u].step = "message" => data'.event_id = NULL
                      /\ ~frame'[u].disturbed =>
                           /\ SaysOf(e)'
                           /\ frame'[u].step # "message" => e.strings = SentStrings'
    BY DEF EventOf, WelStep, OfOnePrival, SaysOf
  <2>1. frame[u].event = e /\ frame[u].step \in {"message", "report", "reported"}
    BY <1>1
  <2>2. /\ OfOnePrival(e)
        /\ frame[u].step = "message" => data.event_id = NULL
        /\ ~frame[u].disturbed => SaysOf(e) /\ (frame[u].step # "message" => e.strings = SentStrings)
    BY <1>4, <2>1 DEF EventOf, WelStep
  <2>3. frame'[u].step = "message" => data'.event_id = NULL
    BY <1>1, <1>3, <2>2 DEF DataSteps
  <2>4. ASSUME ~frame'[u].disturbed
        PROVE  SaysOf(e)' /\ (frame'[u].step # "message" => e.strings = SentStrings')
    <3>1. Silent /\ ~frame[u].disturbed
      BY <1>1, <1>2, <2>1, <2>4
    <3>2. SentStrings' = SentStrings /\ SaysOf(e)'
      BY <2>2, <3>1, QuietShows, QuietSays
    <3> QED
      BY <1>1, <2>2, <3>1, <3>2
  <2> QED
    BY <2>2, <2>3, <2>4, Zenon
<1> QED
  BY <1>6, <1>7

(***************************************************************************)
(* The steps, one by one.                                                  *)
(***************************************************************************)

RestTyped ==
  /\ value \in [Params -> Texts]
  /\ prival \in Privals /\ message \in Texts
  /\ holder \in [{"entry", "data"} -> Threads \cup {NULL}]
  /\ calls \in 0..MaxCalls

LEMMA WelParts ==
  ASSUME WelInv
  PROVE  ArraysInv /\ RestTyped /\ FramesTyped /\ ArrayFacts
<1>1. ArraysInv
  BY DEF WelInv, WelTyped, ArraysInv, ArraysTyped
<1> QED
  BY <1>1, ArraysFacts DEF WelInv, WelTyped, RestTyped

LEMMA StepKeeps ==
  ASSUME WelInv, NEW t \in Threads, NEW f, StepMoved(t, f), ArraysInv', RestTyped', ConvertedOf(t)', EventOf(t)'
  PROVE  WelInv'
<1>1. FramesTyped' /\ MutexInv' /\ CrossInv' /\ CopyInv'
  BY MutexKept
<1>2. \A u \in Threads : ConvertedOf(u)' /\ EventOf(u)'
  <2>1. ASSUME NEW u \in Threads
        PROVE  ConvertedOf(u)' /\ EventOf(u)'
    <3>1. CASE u = t
      BY <3>1
    <3>2. CASE u # t
      BY <3>2, WelParts, OthersSend
    <3> QED
      BY <3>1, <3>2
  <2> QED
    BY <2>1
<1>3. ConvertedInv' /\ EventInv'
  BY <1>2, Zenon DEF ConvertedInv, EventInv
<1>4. WelTyped' /\ OwnedInv' /\ LastInv'
  BY DEF WelTyped, ArraysInv, ArraysTyped, RestTyped
<1> QED
  BY <1>1, <1>3, <1>4 DEF WelInv

\* A call that does not send has nothing to send.
LEMMA NotSending ==
  ASSUME NEW t \in Threads, NEW f, FrameMoved(t, f), f.step \notin SendSteps \cup {"reported"}
  PROVE  ConvertedOf(t)' /\ EventOf(t)'
BY DEF FrameMoved, SendSteps, ConvertedOf, EventOf, WelStep

LEMMA CallKeeps ==
  ASSUME WelInv, NEW t \in Threads, NEW f, StepMoved(t, f), ArraysInv', RestTyped',
         f.step \notin SendSteps \cup {"reported"}
  PROVE  WelInv'
BY StepKeeps, NotSending DEF StepMoved

\* The frames that calls start with.
StartOf(s) == [step |-> s, text |-> NULL, event |-> NULL, disturbed |-> FALSE]

LEMMA RecordIs ==
  ASSUME NEW s \in Wel!Steps, NEW x, s = "strings" => x \in Texts, NEW f,
         f = [step |-> s, text |-> x, event |-> NULL, disturbed |-> FALSE]
  PROVE  FrameFields(f) /\ f.step = s
<1>1. f.step = s /\ f.text = x /\ f.event = NULL
  OBVIOUS
<1>2. f.disturbed = FALSE
  OBVIOUS
<1>3. f.disturbed \in BOOLEAN
  BY <1>2
<1>4. f = [step |-> f.step, text |-> f.text, event |-> f.event, disturbed |-> f.disturbed]
  BY <1>1, <1>2, Zenon
<1> QED
  BY <1>1, <1>3, <1>4 DEF FrameFields

LEMMA AtIs ==
  ASSUME NEW s \in Wel!Steps, s # "strings"
  PROVE  FrameFields(StartOf(s)) /\ StartOf(s).step = s
<1>1. StartOf(s) = [step |-> s, text |-> NULL, event |-> NULL, disturbed |-> FALSE]
  BY DEF StartOf
<1>2. s = "strings" => NULL \in Texts
  OBVIOUS
<1> QED
  BY <1>1, <1>2, RecordIs, Zenon

LEMMA IdleIs == FrameFields(Wel!Idle) /\ Wel!Idle.step = "idle"
<1>1. "idle" \in Wel!Steps /\ ("idle" = "strings" => NULL \in Texts)
  BY DEF Wel!Steps
<1>2. Wel!Idle = [step |-> "idle", text |-> NULL, event |-> NULL, disturbed |-> FALSE]
  BY DEF Wel!Idle
<1> QED
  BY <1>1, <1>2, RecordIs

LEMMA StartIs ==
  ASSUME NEW s, NEW f, f = [Wel!Idle EXCEPT !.step = s]
  PROVE  f = StartOf(s)
<1>1. f = [step |-> s, text |-> NULL, event |-> NULL, disturbed |-> FALSE]
  BY DEF Wel!Idle
<1> QED
  BY <1>1 DEF StartOf

LEMMA StringsIs ==
  ASSUME NEW x \in Texts, NEW f, f = [Wel!Idle EXCEPT !.step = "strings", !.text = x]
  PROVE  FrameFields(f) /\ f.step = "strings" /\ f # Wel!Idle
<1>1. f = [step |-> "strings", text |-> x, event |-> NULL, disturbed |-> FALSE]
  BY DEF Wel!Idle
<1>2. "strings" \in Wel!Steps
  BY DEF Wel!Steps
<1>3. FrameFields(f) /\ f.step = "strings"
  BY <1>1, <1>2, RecordIs
<1> QED
  BY <1>3, IdleIs

SameArrays == UNCHANGED << data, copy, live, text, lost, last >>

LEMMA SameKeeps ==
  ASSUME WelInv, SameArrays
  PROVE  ArraysInv' /\ \A t \in Threads : Safe(t)
<1>1. ArraysInv
  BY WelParts
<1>2. ArraysInv'
  BY <1>1 DEF ArraysInv, ArraysTyped, OwnedInv, LastInv, LastOf, SameArrays
<1> QED
  BY <1>2 DEF SameArrays, Safe

LEMMA SameQuiet ==
  ASSUME SameArrays, UNCHANGED << value, prival, message >>
  PROVE  Silent
BY DEF SameArrays, Silent, SettingsKept

\* No other thread has the mutex of the wel_data when this one can take it.
LEMMA FreeSafe ==
  ASSUME WelInv, NEW t \in Threads, Wel!Free("data") \/ holder["data"] = t
  PROVE  Safe(t)
BY WelAssumption DEF Wel!Free, Safe

CallsUp == calls < MaxCalls /\ calls' = calls + 1

LEMMA CallingIs ==
  ASSUME WelInv, NEW t \in Threads, Wel!Calling(t)
  PROVE  /\ CallsUp /\ calls' \in 0..MaxCalls /\ frame[t].step = "idle"
         /\ holder["entry"] # t /\ holder["data"] # t
<1>1. calls \in 0..MaxCalls /\ MaxCalls \in Nat
  BY WelAssumption, WelParts DEF RestTyped
<1> QED
  BY <1>1 DEF Wel!Calling, CallsUp, WelInv, MutexInv, WelStep, EntrySteps, DataSteps
LEMMA StartAt ==
  ASSUME NEW s \in Wel!Steps, s # "strings", NEW f, f = [Wel!Idle EXCEPT !.step = s]
  PROVE  FrameFields(f) /\ f.step = s
<1>1. f = StartOf(s)
  BY StartIs
<1> QED
  BY <1>1, AtIs, Zenon

\* A step that changes no more than frames and mutexes.
LEMMA LockingKeeps ==
  ASSUME WelInv, NEW t \in Threads, NEW f, FrameFields(f), Wel!Step(t, f),
         SameArrays, UNCHANGED << value, prival, message >>, calls' \in 0..MaxCalls,
         MutexesMoved(t, f), Crossing(t, f), f.step = "copy" => copy = NULL
  PROVE  StepMoved(t, f) /\ ArraysInv' /\ RestTyped' /\ Silent
<1>1. FrameMoved(t, f)
  BY StepMoves, WelParts
<1>2. ArraysInv' /\ Safe(t)
  BY SameKeeps
<1>3. Silent
  BY SameQuiet
<1>4. CopySafe(t, f)
  BY DEF SameArrays, CopySafe
<1>5. RestTyped'
  BY WelParts DEF RestTyped, MutexesMoved
<1> QED
  BY <1>1, <1>2, <1>3, <1>4, <1>5 DEF StepMoved

LEMMA GetFieldKeeps ==
  ASSUME WelInv, NEW t \in Threads, Wel!GetField(t)
  PROVE  WelInv'
<1> DEFINE f == [Wel!Idle EXCEPT !.step = "field"]
<1>1. FrameFields(f) /\ f.step = "field"
  <2>1. "field" \in Wel!Steps /\ "field" # "strings"
    BY DEF Wel!Steps
  <2> QED
    BY <2>1, StartAt
<1>2. /\ Wel!Calling(t) /\ holder["entry"] = NULL /\ holder' = [holder EXCEPT !["entry"] = t]
      /\ crossed' = (crossed \/ \E u \in Threads : Wel!Sending(u))
      /\ Wel!Step(t, f) /\ SameArrays /\ UNCHANGED << value, prival, message >>
  BY DEF Wel!GetField, Wel!Free, SameArrays
<1> HIDE DEF f
<1>3. calls' \in 0..MaxCalls /\ holder["data"] # t
  BY <1>2, CallingIs
<1>4. MutexesMoved(t, f)
  <2>1. holder \in [{"entry", "data"} -> Threads \cup {NULL}]
    BY WelParts DEF RestTyped
  <2> QED
    BY <1>1, <1>2, <1>3, <2>1 DEF MutexesMoved, HolderMoved, EntrySteps, DataSteps
<1>5. Crossing(t, f)
  BY <1>1, <1>2 DEF Crossing, Wel!Sending, SendSteps, EntrySteps
<1>6. StepMoved(t, f) /\ ArraysInv' /\ RestTyped'
  BY <1>1, <1>2, <1>3, <1>4, <1>5, LockingKeeps
<1>7. f.step \notin SendSteps \cup {"reported"}
  BY <1>1 DEF SendSteps
<1> QED
  BY <1>6, <1>7, CallKeeps

LEMMA ReadFieldKeeps ==
  ASSUME WelInv, NEW t \in Threads, Wel!ReadField(t)
  PROVE  WelInv'
<1> DEFINE f == Wel!Idle
<1>1. FrameFields(f) /\ f.step = "idle"
  BY IdleIs
<1>2. /\ frame[t].step = "field" /\ holder' = [holder EXCEPT !["entry"] = NULL]
      /\ Wel!Step(t, f) /\ SameArrays /\ UNCHANGED << value, prival, message, crossed, calls >>
  BY DEF Wel!ReadField, SameArrays
<1> HIDE DEF f
<1>3. calls' \in 0..MaxCalls /\ holder["data"] # t /\ holder["entry"] = t
  BY <1>2, WelParts DEF RestTyped, WelInv, MutexInv, WelStep, EntrySteps, DataSteps
<1>4. MutexesMoved(t, f)
  <2>1. holder \in [{"entry", "data"} -> Threads \cup {NULL}]
    BY WelParts DEF RestTyped
  <2> QED
    BY <1>1, <1>2, <1>3, <2>1 DEF MutexesMoved, HolderMoved, EntrySteps, DataSteps
<1>5. Crossing(t, f)
  BY <1>1, <1>2 DEF Crossing, SendSteps, EntrySteps
<1>6. StepMoved(t, f) /\ ArraysInv' /\ RestTyped'
  BY <1>1, <1>2, <1>3, <1>4, <1>5, LockingKeeps
<1>7. f.step \notin SendSteps \cup {"reported"}
  BY <1>1 DEF SendSteps
<1> QED
  BY <1>6, <1>7, CallKeeps

LEMMA CopyStarts ==
  ASSUME WelInv, NEW t \in Threads, Wel!stumpless_copy_entry(t)
  PROVE  WelInv'
<1> DEFINE f == [Wel!Idle EXCEPT !.step = "copy"]
<1>1. FrameFields(f) /\ f.step = "copy"
  <2>1. "copy" \in Wel!Steps /\ "copy" # "strings"
    BY DEF Wel!Steps
  <2> QED
    BY <2>1, StartAt
<1>2. /\ Wel!Calling(t) /\ holder["entry"] = NULL /\ holder' = [holder EXCEPT !["entry"] = t] /\ copy = NULL
      /\ crossed' = (crossed \/ \E u \in Threads : Wel!Sending(u))
      /\ Wel!Step(t, f) /\ SameArrays /\ UNCHANGED << value, prival, message >>
  BY DEF Wel!stumpless_copy_entry, Wel!Free, SameArrays
<1> HIDE DEF f
<1>3. calls' \in 0..MaxCalls /\ holder["data"] # t
  BY <1>2, CallingIs
<1>4. MutexesMoved(t, f)
  <2>1. holder \in [{"entry", "data"} -> Threads \cup {NULL}]
    BY WelParts DEF RestTyped
  <2> QED
    BY <1>1, <1>2, <1>3, <2>1 DEF MutexesMoved, HolderMoved, EntrySteps, DataSteps
<1>5. Crossing(t, f)
  BY <1>1, <1>2 DEF Crossing, Wel!Sending, SendSteps, EntrySteps
<1>6. StepMoved(t, f) /\ ArraysInv' /\ RestTyped'
  BY <1>1, <1>2, <1>3, <1>4, <1>5, LockingKeeps
<1>7. f.step \notin SendSteps \cup {"reported"}
  BY <1>1 DEF SendSteps
<1> QED
  BY <1>6, <1>7, CallKeeps

LEMMA SendEnds ==
  ASSUME WelInv, NEW t \in Threads, Wel!EndSend(t)
  PROVE  WelInv'
<1> DEFINE f == Wel!Idle
<1>1. FrameFields(f) /\ f.step = "idle"
  BY IdleIs
<1>2. /\ frame[t].step = "reported" /\ holder' = holder
      /\ Wel!Step(t, f) /\ SameArrays /\ UNCHANGED << value, prival, message, crossed, calls >>
  BY DEF Wel!EndSend, SameArrays
<1> HIDE DEF f
<1>3. calls' \in 0..MaxCalls /\ holder["data"] # t /\ holder["entry"] # t
  BY <1>2, WelParts DEF RestTyped, WelInv, MutexInv, WelStep, EntrySteps, DataSteps
<1>4. MutexesMoved(t, f)
  <2>1. holder \in [{"entry", "data"} -> Threads \cup {NULL}]
    BY WelParts DEF RestTyped
  <2> QED
    BY <1>1, <1>2, <1>3, <2>1 DEF MutexesMoved, HolderMoved, EntrySteps, DataSteps
<1>5. Crossing(t, f)
  BY <1>1, <1>2 DEF Crossing, SendSteps, EntrySteps
<1>6. StepMoved(t, f) /\ ArraysInv' /\ RestTyped'
  BY <1>1, <1>2, <1>3, <1>4, <1>5, LockingKeeps
<1>7. f.step \notin SendSteps \cup {"reported"}
  BY <1>1 DEF SendSteps
<1> QED
  BY <1>6, <1>7, CallKeeps

\* A call that changes something at once, with its mutex free, and returns.
LEMMA ChangeKeeps ==
  ASSUME WelInv, NEW t \in Threads, Wel!Calling(t), Wel!Change(t, Wel!Idle),
         ArraysInv', Safe(t), copy' = copy, holder' = holder, crossed' = crossed,
         value' \in [Params -> Texts], prival' \in Privals, message' \in Texts
  PROVE  WelInv'
<1> DEFINE f == Wel!Idle
<1>1. FrameFields(f) /\ f.step = "idle" /\ Wel!Change(t, f)
  BY IdleIs
<1> HIDE DEF f
<1>2. calls' \in 0..MaxCalls /\ holder["data"] # t /\ holder["entry"] # t
  BY CallingIs
<1>3. FrameMoved(t, f) /\ Disturbs(t)
  BY <1>1, WelParts, ChangeMoves
<1>4. MutexesMoved(t, f) /\ RestTyped'
  <2>1. holder \in [{"entry", "data"} -> Threads \cup {NULL}]
    BY WelParts DEF RestTyped
  <2> QED
    BY <1>1, <1>2, <2>1 DEF MutexesMoved, HolderMoved, EntrySteps, DataSteps, RestTyped
<1>5. Crossing(t, f) /\ CopySafe(t, f) /\ f.step \notin SendSteps \cup {"reported"}
  BY <1>1 DEF Crossing, SendSteps, EntrySteps, CopySafe
<1>6. StepMoved(t, f)
  BY <1>3, <1>4, <1>5 DEF StepMoved
<1> QED
  BY <1>4, <1>5, <1>6, CallKeeps

LEMMA SetFieldKeeps ==
  ASSUME WelInv, NEW t \in Threads, NEW w \in Words,
         NEW d, \/ d = [data EXCEPT !.category = w]
                \/ d = [data EXCEPT !.event_id = w]
                \/ d = [data EXCEPT !.type = w],
         Wel!SetField(t, d)
  PROVE  WelInv'
<1>1. /\ Wel!Calling(t) /\ Wel!Free("data") /\ data' = d /\ Wel!Change(t, Wel!Idle)
      /\ UNCHANGED << copy, live, text, value, prival, message, holder, last, lost, crossed >>
  BY DEF Wel!SetField
<1>2. data \in Wel!wel_data
  BY WelParts DEF ArrayFacts
<1>3. d \in Wel!wel_data /\ d.params = data.params /\ d.strings = data.strings /\ d.count = data.count
  <2>1. CASE d = [data EXCEPT !.category = w]
    BY <1>2, <2>1 DEF Wel!wel_data
  <2>2. CASE d = [data EXCEPT !.event_id = w]
    BY <1>2, <2>2 DEF Wel!wel_data
  <2>3. CASE d = [data EXCEPT !.type = w]
    BY <1>2, <2>3 DEF Wel!wel_data
  <2> QED
    BY <2>1, <2>2, <2>3
<1>4. Padded
  <2>1. data.count \in Nat /\ data.count <= Len(data.params) /\ data.count <= Len(data.strings)
    BY WelParts DEF ArrayFacts, Arrays
  <2> QED
    BY <1>1, <1>3, <2>1 DEF Padded, Grown
<1>5. ArraysInv'
  BY <1>4, WelParts, PaddedKeeps
<1>6. Safe(t)
  BY <1>1, FreeSafe
<1>7. value' \in [Params -> Texts] /\ prival' \in Privals /\ message' \in Texts
  BY <1>1, WelParts DEF RestTyped
<1> QED
  BY <1>1, <1>5, <1>6, <1>7, ChangeKeeps

LEMMA SetEntryKeeps ==
  ASSUME WelInv, NEW t \in Threads,
         \/ \E p \in Privals : Wel!stumpless_set_entry_prival(t, p)
         \/ \E x \in Texts : Wel!stumpless_set_entry_message(t, x)
         \/ \E p \in Params, x \in Texts : Wel!stumpless_set_param_value(t, p, x)
  PROVE  WelInv'
<1>1. value \in [Params -> Texts] /\ prival \in Privals /\ message \in Texts
  BY WelParts DEF RestTyped
<1>2. /\ Wel!Calling(t) /\ Wel!Change(t, Wel!Idle) /\ SameArrays
      /\ copy' = copy /\ holder' = holder /\ crossed' = crossed
      /\ value' \in [Params -> Texts] /\ prival' \in Privals /\ message' \in Texts
  <2>1. CASE \E p \in Privals : Wel!stumpless_set_entry_prival(t, p)
    BY <1>1, <2>1 DEF Wel!stumpless_set_entry_prival, SameArrays
  <2>2. CASE \E x \in Texts : Wel!stumpless_set_entry_message(t, x)
    BY <1>1, <2>2 DEF Wel!stumpless_set_entry_message, SameArrays
  <2>3. CASE \E p \in Params, x \in Texts : Wel!stumpless_set_param_value(t, p, x)
    BY <1>1, <2>3 DEF Wel!stumpless_set_param_value, SameArrays
  <2> QED
    BY <2>1, <2>2, <2>3
<1>3. ArraysInv' /\ Safe(t)
  BY <1>2, SameKeeps
<1> QED
  BY <1>2, <1>3, ChangeKeeps

\* The call that never ends has the mutex of the wel_data.
LEMMA SpinKeeps ==
  ASSUME WelInv, NEW t \in Threads, Wel!Free("data") \/ holder["data"] = t, holder["entry"] # t, Wel!Spin(t),
         calls' \in 0..MaxCalls, UNCHANGED << copy, value, prival, message, crossed >>
  PROVE  WelInv'
<1> DEFINE f == [Wel!Idle EXCEPT !.step = "spin"]
<1>1. FrameFields(f) /\ f.step = "spin"
  <2>1. "spin" \in Wel!Steps /\ "spin" # "strings"
    BY DEF Wel!Steps
  <2> QED
    BY <2>1, StartAt
<1>2. /\ holder["data"] = NULL \/ holder["data"] = t
      /\ holder' = [holder EXCEPT !["data"] = t]
      /\ Wel!Step(t, f) /\ SameArrays /\ UNCHANGED << value, prival, message >>
  BY DEF Wel!Spin, Wel!Free, SameArrays
<1> HIDE DEF f
<1>3. MutexesMoved(t, f)
  <2>1. holder \in [{"entry", "data"} -> Threads \cup {NULL}]
    BY WelParts DEF RestTyped
  <2> QED
    BY <1>1, <1>2, <2>1 DEF MutexesMoved, HolderMoved, EntrySteps, DataSteps
<1>4. Crossing(t, f)
  BY <1>1 DEF Crossing, SendSteps, EntrySteps
<1>5. StepMoved(t, f) /\ ArraysInv' /\ RestTyped'
  BY <1>1, <1>2, <1>3, <1>4, LockingKeeps
<1>6. f.step \notin SendSteps \cup {"reported"}
  BY <1>1 DEF SendSteps
<1> QED
  BY <1>5, <1>6, CallKeeps

\* What room is made in, for an index of the entry.
LEMMA RoomFor ==
  ASSUME WelInv, NEW i \in Indexes, ~Wel!Endless(i), NEW r \in Wel!Room(i)
  PROVE  /\ r.ok => Roomy(r.data, i)
         /\ r.data \in Wel!wel_data /\ Grown(data, r.data)
         /\ ~r.ok => r.data.count = data.count
<1>1. data \in Wel!wel_data /\ Arrays(data) /\ i \in Nat /\ i <= WordMax
  BY WelParts DEF ArrayFacts
<1>2. /\ r.data \in Wel!wel_data /\ Grown(data, r.data) /\ SettingsKept(data, r.data)
      /\ r.ok => i + 1 \in 1..r.data.count
      /\ ~r.ok => r.data.count = data.count
  BY <1>1, RoomIs
<1> QED
  BY <1>1, <1>2 DEF Roomy

LEMMA SetInsertionParamKeeps ==
  ASSUME WelInv, NEW t \in Threads, NEW i \in Indexes, NEW p \in Params \cup {NULL},
         Wel!stumpless_set_wel_insertion_param(t, i, p)
  PROVE  WelInv'
<1>1. /\ Wel!Calling(t) /\ Wel!Free("data") /\ UNCHANGED << copy, value, prival, message, crossed >>
  BY DEF Wel!stumpless_set_wel_insertion_param
<1>2. calls' \in 0..MaxCalls /\ holder["entry"] # t
  BY <1>1, CallingIs
<1>3. \/ Wel!Spin(t)
      \/ /\ ~Wel!Endless(i)
         /\ \E r \in Wel!Room(i) :
              /\ data' = IF r.ok THEN [r.data EXCEPT !.params[i + 1] = p, !.strings[i + 1] = NULL] ELSE r.data
              /\ last' = IF r.ok THEN [last EXCEPT ![i] = [param |-> p, text |-> NULL]] ELSE last
              /\ live' = IF r.ok THEN live \ {r.data.strings[i + 1]} ELSE live
         /\ Wel!Change(t, Wel!Idle)
         /\ UNCHANGED << text, holder, lost >>
  BY DEF Wel!stumpless_set_wel_insertion_param
<1>4. CASE Wel!Spin(t)
  BY <1>1, <1>2, <1>4, SpinKeeps
<1>5. CASE /\ ~Wel!Endless(i)
           /\ \E r \in Wel!Room(i) :
                /\ data' = IF r.ok THEN [r.data EXCEPT !.params[i + 1] = p, !.strings[i + 1] = NULL] ELSE r.data
                /\ last' = IF r.ok THEN [last EXCEPT ![i] = [param |-> p, text |-> NULL]] ELSE last
                /\ live' = IF r.ok THEN live \ {r.data.strings[i + 1]} ELSE live
           /\ Wel!Change(t, Wel!Idle)
           /\ UNCHANGED << text, holder, lost >>
  <2>1. PICK r \in Wel!Room(i) :
          /\ data' = IF r.ok THEN [r.data EXCEPT !.params[i + 1] = p, !.strings[i + 1] = NULL] ELSE r.data
          /\ last' = IF r.ok THEN [last EXCEPT ![i] = [param |-> p, text |-> NULL]] ELSE last
          /\ live' = IF r.ok THEN live \ {r.data.strings[i + 1]} ELSE live
    BY <1>5
  <2>2. /\ r.ok => Roomy(r.data, i)
        /\ r.data \in Wel!wel_data /\ Grown(data, r.data)
        /\ ~r.ok => r.data.count = data.count
    BY <1>5, RoomFor
  <2>3. ASSUME r.ok PROVE ArraysInv'
    <3> DEFINE e == r.data
    <3>1. Roomy(e, i) /\ e \in Wel!wel_data
      BY <2>2, <2>3
    <3>2. data' = [e EXCEPT !.params[i + 1] = p, !.strings[i + 1] = NULL]
      BY <2>1, <2>3
    <3>3. live' = live \ {e.strings[i + 1]} /\ last' = [last EXCEPT ![i] = [param |-> p, text |-> NULL]]
      BY <2>1, <2>3
    <3> HIDE DEF e
    <3>4. Replaced(e, data', [e.params EXCEPT ![i + 1] = p], [e.strings EXCEPT ![i + 1] = NULL], e.count)
      <4>1. /\ e.params \in Seq(Params \cup {NULL}) /\ e.strings \in Seq(Strings \cup {NULL})
            /\ i + 1 \in 1..Len(e.params) /\ i + 1 \in 1..Len(e.strings)
        BY <3>1, WelParts, RoomyIs DEF ParamArrays, StringArrays
      <4>2. [e.params EXCEPT ![i + 1] = p] \in ParamArrays
        BY <4>1, ArrayIs DEF ParamArrays
      <4>3. [e.strings EXCEPT ![i + 1] = NULL] \in StringArrays
        BY <4>1, ArrayIs DEF StringArrays
      <4>4. data' = [e EXCEPT !.params = [e.params EXCEPT ![i + 1] = p],
                              !.strings = [e.strings EXCEPT ![i + 1] = NULL]]
        BY <3>1, <3>2 DEF Wel!wel_data
      <4> QED
        BY <3>1, <4>2, <4>3, <4>4, WithArrays
    <3>5. ParamPut(e, i, p)
      BY <1>1, <1>5, <3>1, <3>3, <3>4 DEF ParamPut
    <3> QED
      BY <3>5, WelParts, ParamPutKeeps
  <2>4. ASSUME ~r.ok PROVE ArraysInv'
    <3>1. data' = r.data /\ last' = last /\ live' = live
      BY <2>1, <2>4
    <3>2. Padded
      BY <1>1, <1>5, <2>2, <2>4, <3>1 DEF Padded
    <3> QED
      BY <3>2, WelParts, PaddedKeeps
  <2>5. ArraysInv'
    BY <2>3, <2>4
  <2>6. Safe(t) /\ value' \in [Params -> Texts] /\ prival' \in Privals /\ message' \in Texts
    BY <1>1, FreeSafe, WelParts DEF RestTyped
  <2> QED
    BY <1>1, <1>5, <2>5, <2>6, ChangeKeeps
<1> QED
  BY <1>3, <1>4, <1>5

LEMMA SetStringKeeps ==
  ASSUME WelInv, NEW t \in Threads, NEW i \in Indexes, NEW x \in Texts,
         NEW f, FrameFields(f), f = Wel!Idle \/ (f.step = "strings" /\ f # Wel!Idle),
         Wel!SetString(t, i, x, f), Wel!Free("data") \/ holder["data"] = t, holder["entry"] # t,
         calls' \in 0..MaxCalls, UNCHANGED << copy, value, prival, message, crossed >>
  PROVE  WelInv'
<1>1. \/ Wel!Spin(t)
      \/ /\ ~Wel!Endless(i)
         /\ \E s \in Strings \ live, r \in Wel!Room(i) :
              /\ data' = Wel!locked_swap_wel_insertion_string(i, s, r)
              /\ text' = [text EXCEPT ![s] = x]
              /\ live' = (IF r.ok THEN live \ {r.data.strings[i + 1]} ELSE live) \cup {s}
              /\ lost' = IF r.ok THEN lost ELSE lost \cup {s}
              /\ last' = IF r.ok THEN [last EXCEPT ![i] = [param |-> NULL, text |-> x]] ELSE last
              /\ Wel!Change(t, IF r.ok THEN f ELSE Wel!Idle)
              /\ holder' = [holder EXCEPT !["data"] = IF r.ok /\ f # Wel!Idle THEN t ELSE NULL]
  BY DEF Wel!SetString
<1>2. CASE Wel!Spin(t)
  BY <1>2, SpinKeeps
<1>3. ASSUME ~Wel!Endless(i), NEW s \in Strings \ live, NEW r \in Wel!Room(i),
             data' = Wel!locked_swap_wel_insertion_string(i, s, r),
             text' = [text EXCEPT ![s] = x],
             live' = (IF r.ok THEN live \ {r.data.strings[i + 1]} ELSE live) \cup {s},
             lost' = IF r.ok THEN lost ELSE lost \cup {s},
             last' = IF r.ok THEN [last EXCEPT ![i] = [param |-> NULL, text |-> x]] ELSE last,
             Wel!Change(t, IF r.ok THEN f ELSE Wel!Idle),
             holder' = [holder EXCEPT !["data"] = IF r.ok /\ f # Wel!Idle THEN t ELSE NULL]
      PROVE  WelInv'
  <2>1. /\ r.ok => Roomy(r.data, i)
        /\ r.data \in Wel!wel_data /\ Grown(data, r.data)
        /\ ~r.ok => r.data.count = data.count
    BY <1>3, RoomFor
  <2>2. ASSUME r.ok PROVE ArraysInv'
    <3> DEFINE e == r.data
    <3>1. Roomy(e, i) /\ e \in Wel!wel_data
      BY <2>1, <2>2
    <3>2. data' = [e EXCEPT !.strings[i + 1] = s]
      BY <1>3, <2>2 DEF Wel!locked_swap_wel_insertion_string
    <3>3. /\ live' = (live \ {e.strings[i + 1]}) \cup {s} /\ lost' = lost
          /\ last' = [last EXCEPT ![i] = [param |-> NULL, text |-> x]]
      BY <1>3, <2>2
    <3> HIDE DEF e
    <3>4. Replaced(e, data', e.params, [e.strings EXCEPT ![i + 1] = s], e.count)
      <4>1. /\ e.params \in ParamArrays /\ e.strings \in Seq(Strings \cup {NULL})
            /\ i + 1 \in 1..Len(e.strings)
        BY <3>1, WelParts, RoomyIs DEF StringArrays
      <4>2. s \in Strings \cup {NULL}
        OBVIOUS
      <4>3. [e.strings EXCEPT ![i + 1] = s] \in StringArrays
        BY <4>1, <4>2, ArrayIs DEF StringArrays
      <4>4. data' = [e EXCEPT !.strings = [e.strings EXCEPT ![i + 1] = s]]
        BY <3>1, <3>2 DEF Wel!wel_data
      <4>5. Replaced(e, data', e.params, [e.strings EXCEPT ![i + 1] = s], e.count)
        BY <3>1, <4>1, <4>3, <4>4, WithArrays
      <4> QED
        BY <4>5
    <3>5. StringPut(e, i, s, x)
      BY <1>3, <3>1, <3>3, <3>4 DEF StringPut
    <3> QED
      BY <3>5, WelParts, StringPutKeeps
  <2>3. ASSUME ~r.ok PROVE ArraysInv'
    <3>1. data' = r.data /\ last' = last /\ live' = live \cup {s} /\ lost' = lost \cup {s}
      BY <1>3, <2>3 DEF Wel!locked_swap_wel_insertion_string
    <3>2. StringLost(s, x)
      BY <1>3, <2>1, <2>3, <3>1 DEF StringLost
    <3> QED
      BY <3>2, WelParts, StringLostKeeps
  <2> DEFINE g == IF r.ok THEN f ELSE Wel!Idle
  <2>4. /\ FrameFields(g) /\ Wel!Change(t, g)
        /\ \/ g.step = "idle" /\ holder' = [holder EXCEPT !["data"] = NULL]
           \/ g.step = "strings" /\ holder' = [holder EXCEPT !["data"] = t]
    <3>1. CASE r.ok /\ f # Wel!Idle
      BY <1>3, <3>1
    <3>2. CASE ~(r.ok /\ f # Wel!Idle)
      <4>1. g = Wel!Idle
        BY <3>2
      <4> QED
        BY <1>3, <3>2, <4>1, IdleIs
    <3> QED
      BY <3>1, <3>2
  <2> HIDE DEF g
  <2>5. FrameMoved(t, g) /\ Disturbs(t)
    BY <2>4, WelParts, ChangeMoves
  <2>6. MutexesMoved(t, g) /\ RestTyped'
    <3>1. /\ holder \in [{"entry", "data"} -> Threads \cup {NULL}]
          /\ value \in [Params -> Texts] /\ prival \in Privals /\ message \in Texts
      BY WelParts DEF RestTyped
    <3>2. holder["data"] = NULL \/ holder["data"] = t
      BY DEF Wel!Free
    <3>3. CASE g.step = "idle" /\ holder' = [holder EXCEPT !["data"] = NULL]
      BY <3>1, <3>2, <3>3, WelAssumption DEF MutexesMoved, HolderMoved, EntrySteps, DataSteps, RestTyped
    <3>4. CASE g.step = "strings" /\ holder' = [holder EXCEPT !["data"] = t]
      BY <3>1, <3>2, <3>4 DEF MutexesMoved, HolderMoved, EntrySteps, DataSteps, RestTyped
    <3> QED
      BY <2>4, <3>3, <3>4
  <2>7. Crossing(t, g) /\ CopySafe(t, g) /\ g.step \notin SendSteps \cup {"reported"}
    BY <2>4 DEF Crossing, SendSteps, EntrySteps, CopySafe
  <2>8. StepMoved(t, g)
    BY <2>5, <2>6, <2>7, FreeSafe DEF StepMoved
  <2>9. ArraysInv'
    BY <2>2, <2>3
  <2> QED
    BY <2>6, <2>7, <2>8, <2>9, CallKeeps
<1> QED
  BY <1>1, <1>2, <1>3

LEMMA SetInsertionStringKeeps ==
  ASSUME WelInv, NEW t \in Threads, NEW i \in Indexes, NEW x \in Texts,
         Wel!stumpless_set_wel_insertion_string(t, i, x)
  PROVE  WelInv'
<1>1. /\ Wel!Calling(t) /\ Wel!Free("data") /\ Wel!SetString(t, i, x, Wel!Idle)
      /\ UNCHANGED << copy, value, prival, message, crossed >>
  BY DEF Wel!stumpless_set_wel_insertion_string
<1>2. calls' \in 0..MaxCalls /\ holder["entry"] # t
  BY <1>1, CallingIs
<1> QED
  BY <1>1, <1>2, IdleIs, SetStringKeeps

LEMMA SetInsertionStringsKeeps ==
  ASSUME WelInv, NEW t \in Threads, NEW x \in Texts, NEW y \in Texts,
         Wel!vstumpless_set_wel_insertion_strings(t, << x, y >>)
  PROVE  WelInv'
<1> DEFINE f == [Wel!Idle EXCEPT !.step = "strings", !.text = y]
<1>1. /\ Wel!Calling(t) /\ Wel!Free("data") /\ Wel!SetString(t, 0, x, f)
      /\ UNCHANGED << copy, value, prival, message, crossed >>
  BY DEF Wel!vstumpless_set_wel_insertion_strings
<1>2. FrameFields(f) /\ f.step = "strings" /\ f # Wel!Idle
  BY StringsIs
<1> HIDE DEF f
<1>3. calls' \in 0..MaxCalls /\ holder["entry"] # t
  BY <1>1, CallingIs
<1>4. 0 \in Indexes
  BY WelAssumption
<1> QED
  BY <1>1, <1>2, <1>3, <1>4, SetStringKeeps

LEMMA SetNextStringKeeps ==
  ASSUME WelInv, NEW t \in Threads, Wel!SetNextString(t)
  PROVE  WelInv'
<1>1. /\ frame[t].step = "strings" /\ UNCHANGED << copy, value, prival, message, crossed, calls >>
      /\ \/ Wel!SetString(t, 1, frame[t].text, Wel!Idle)
         \/ /\ Wel!Step(t, Wel!Idle)
            /\ holder' = [holder EXCEPT !["data"] = NULL]
            /\ UNCHANGED << data, live, text, last, lost >>
  BY DEF Wel!SetNextString
<1>2. holder["data"] = t /\ holder["entry"] # t /\ frame[t].text \in Texts /\ calls' \in 0..MaxCalls
  BY <1>1, WelParts DEF RestTyped, FramesTyped, FrameFields, WelInv, MutexInv, WelStep, EntrySteps, DataSteps
<1>3. CASE Wel!SetString(t, 1, frame[t].text, Wel!Idle)
  <2>1. 1 \in Indexes
    BY WelAssumption
  <2> QED
    BY <1>1, <1>2, <1>3, <2>1, IdleIs, SetStringKeeps
<1>4. CASE /\ Wel!Step(t, Wel!Idle)
           /\ holder' = [holder EXCEPT !["data"] = NULL]
           /\ UNCHANGED << data, live, text, last, lost >>
  <2> DEFINE f == Wel!Idle
  <2>1. FrameFields(f) /\ f.step = "idle"
    BY IdleIs
  <2>2. Wel!Step(t, f) /\ SameArrays
    BY <1>1, <1>4 DEF SameArrays
  <2> HIDE DEF f
  <2>3. MutexesMoved(t, f)
    <3>1. holder \in [{"entry", "data"} -> Threads \cup {NULL}]
      BY WelParts DEF RestTyped
    <3> QED
      BY <1>2, <1>4, <2>1, <3>1 DEF MutexesMoved, HolderMoved, EntrySteps, DataSteps
  <2>4. Crossing(t, f)
    BY <1>1, <2>1 DEF Crossing, SendSteps, EntrySteps
  <2>5. StepMoved(t, f) /\ ArraysInv' /\ RestTyped'
    BY <1>1, <1>2, <2>1, <2>2, <2>3, <2>4, LockingKeeps
  <2>6. f.step \notin SendSteps \cup {"reported"}
    BY <2>1 DEF SendSteps
  <2> QED
    BY <2>5, <2>6, CallKeeps
<1> QED
  BY <1>1, <1>3, <1>4

InjectsTo(new, J, S) ==
  /\ DOMAIN new = J /\ \A j \in J : new[j] \in S
  /\ \A j, k \in J : new[j] = new[k] => j = k
  /\ Wel!Range(new) = {new[j] : j \in J}

LEMMA InjectionIs ==
  ASSUME NEW J, NEW S, NEW new \in Wel!Injection(J, S)
  PROVE  InjectsTo(new, J, S)
BY DEF Wel!Injection, Wel!IsInjective, Wel!Range, InjectsTo

Given(new, J, g) ==
  /\ Allocated(new, J) /\ text' \in [Strings -> Texts]
  /\ \A s \in live : text'[s] = text[s]
  /\ \A j \in J : text'[new[j]] = g[j]

\* The texts of the strings of new; the others keep theirs.
LEMMA AllocatedTexts ==
  ASSUME ArraysInv, NEW J, NEW new \in Wel!Injection(J, Strings \ live), NEW g, \A j \in J : g[j] \in Texts,
         text' = [s \in Strings |-> IF s \in Wel!Range(new) THEN g[CHOOSE j \in DOMAIN new : new[j] = s] ELSE text[s]]
  PROVE  Given(new, J, g)
<1>1. /\ DOMAIN new = J /\ \A j \in J : new[j] \in Strings \ live
      /\ \A j, k \in J : new[j] = new[k] => j = k
      /\ Wel!Range(new) = {new[j] : j \in J}
  <2>1. InjectsTo(new, J, Strings \ live)
    BY InjectionIs, Zenon
  <2> QED
    BY <2>1 DEF InjectsTo
<1>2. text \in [Strings -> Texts] /\ live \subseteq Strings
  BY DEF ArraysInv, ArraysTyped
<1>3. ASSUME NEW j \in J
      PROVE  (CHOOSE k \in DOMAIN new : new[k] = new[j]) = j
  BY <1>1
<1>4. \A j \in J : text'[new[j]] = g[j]
  BY <1>1, <1>3
<1>5. \A s \in Strings : s \notin Wel!Range(new) => text'[s] = text[s]
  OBVIOUS
<1>6. \A s \in Strings : text'[s] \in Texts
  BY <1>1, <1>2, <1>4, <1>5
<1>7. text' \in [Strings -> Texts]
  <2>1. text' = [s \in Strings |-> text'[s]]
    OBVIOUS
  <2> QED
    BY <1>6, <2>1
<1>8. \A s \in live : text'[s] = text[s]
  BY <1>1, <1>2, <1>5
<1>9. Allocated(new, J)
  BY <1>1 DEF Allocated
<1> QED
  BY <1>4, <1>7, <1>8, <1>9 DEF Given

\* The strings of new become those of the copy.
CopyMade(new) ==
  /\ copy = NULL
  /\ copy' = [data EXCEPT !.params = SubSeq(@, 1, data.count),
                          !.strings = [j \in 1..data.count |-> IF j \in DOMAIN new THEN new[j] ELSE NULL]]
  /\ live' = live \cup Wel!Range(new)
  /\ text' = [s \in Strings |->
                IF s \in Wel!Range(new) THEN text[data.strings[CHOOSE j \in DOMAIN new : new[j] = s]] ELSE text[s]]
  /\ UNCHANGED << data, lost, last >>

LEMMA CopyMadeIs ==
  ASSUME ArraysInv, NEW J, J = Wel!Stored(data),
         NEW new \in Wel!Injection(J, Strings \ live), CopyMade(new)
  PROVE  Copied(new, J)
<1>1. /\ DOMAIN new = J /\ \A j \in J : new[j] \in Strings \ live
      /\ Wel!Range(new) = {new[j] : j \in J}
  <2>1. InjectsTo(new, J, Strings \ live)
    BY InjectionIs, Zenon
  <2> QED
    BY <2>1 DEF InjectsTo
<1>2. /\ data \in Wel!wel_data /\ data.count \in Nat
      /\ data.params \in ParamArrays /\ data.count <= Len(data.params) /\ data.count <= Len(data.strings)
      /\ \A j \in 1..data.count : data.strings[j] \in Strings \cup {NULL}
      /\ text \in [Strings -> Texts]
  BY ArraysFacts, WelDataIs DEF ArrayFacts, Arrays, ArraysInv, ArraysTyped
<1> DEFINE ps == SubSeq(data.params, 1, data.count)
           ss == [j \in 1..data.count |-> IF j \in DOMAIN new THEN new[j] ELSE NULL]
           g == [j \in J |-> text[data.strings[j]]]
<1>3. ps \in ParamArrays /\ Len(ps) = data.count
  BY <1>2, ArrayPart DEF ParamArrays
<1>4. ss \in StringArrays /\ Len(ss) = data.count
  <2>1. \A j \in 1..data.count : ss[j] \in Strings \cup {NULL}
    BY <1>1
  <2>2. ss = [j \in 1..data.count |-> ss[j]]
    OBVIOUS
  <2>3. data.count \in Nat
    BY <1>2
  <2> HIDE DEF ss
  <2> QED
    BY <2>1, <2>2, <2>3, ArrayMade, Zenon DEF StringArrays
<1>5. \A j \in 1..data.count : ss[j] = IF j \in J THEN new[j] ELSE NULL
  BY <1>1
<1>6. copy' = [data EXCEPT !.params = ps, !.strings = ss]
  BY DEF CopyMade
<1>7. /\ Allocated(new, J) /\ text' \in [Strings -> Texts]
      /\ \A s \in live : text'[s] = text[s]
  <2>1. \A j \in J : g[j] \in Texts
    BY <1>2 DEF Wel!Stored
  <2>2. text' = [s \in Strings |->
                   IF s \in Wel!Range(new) THEN g[CHOOSE j \in DOMAIN new : new[j] = s] ELSE text[s]]
    <3>1. \A s \in Wel!Range(new) : (CHOOSE j \in DOMAIN new : new[j] = s) \in J
      BY <1>1
    <3>2. \A j \in J : g[j] = text[data.strings[j]]
      OBVIOUS
    <3>3. text' = [s \in Strings |->
                     IF s \in Wel!Range(new) THEN text[data.strings[CHOOSE j \in DOMAIN new : new[j] = s]]
                     ELSE text[s]]
      BY DEF CopyMade
    <3> HIDE DEF g
    <3> QED
      BY <3>1, <3>2, <3>3
  <2> HIDE DEF g
  <2>3. Given(new, J, g)
    BY <2>1, <2>2, AllocatedTexts, Zenon
  <2> QED
    BY <2>3 DEF Given
<1> HIDE DEF ps, ss
<1>8. Replaced(data, copy', ps, ss, data.count)
  BY <1>2, <1>3, <1>4, <1>6, WithArrays
<1> QED
  BY <1>1, <1>2, <1>3, <1>4, <1>5, <1>7, <1>8 DEF Copied, Replaced, CopyMade

\* The strings of new become those of the params.
ConvertMade(new) ==
  /\ data' = [data EXCEPT !.strings = [j \in DOMAIN @ |-> IF j \in DOMAIN new THEN new[j] ELSE @[j]]]
  /\ live' = (live \ {data.strings[j] : j \in DOMAIN new}) \cup Wel!Range(new)
  /\ text' = [s \in Strings |->
                IF s \in Wel!Range(new) THEN value[data.params[CHOOSE j \in DOMAIN new : new[j] = s]] ELSE text[s]]
  /\ UNCHANGED << copy, lost, last >>

LEMMA ConvertMadeIs ==
  ASSUME ArraysInv, value \in [Params -> Texts], NEW J, J \subseteq {j \in 1..data.count : data.params[j] # NULL},
         NEW new \in Wel!Injection(J, Strings \ live), ConvertMade(new)
  PROVE  Converted(new, J)
<1>1. /\ DOMAIN new = J /\ \A j \in J : new[j] \in Strings \ live
      /\ Wel!Range(new) = {new[j] : j \in J}
  <2>1. InjectsTo(new, J, Strings \ live)
    BY InjectionIs, Zenon
  <2> QED
    BY <2>1 DEF InjectsTo
<1>2. /\ data \in Wel!wel_data /\ data.count \in Nat
      /\ data.strings \in StringArrays /\ data.count <= Len(data.strings)
      /\ \A j \in 1..data.count : data.params[j] \in Params \cup {NULL}
      /\ data.params \in ParamArrays
  BY ArraysFacts, WelDataIs DEF ArrayFacts, Arrays
<1>3. /\ Len(data.strings) \in Nat /\ DOMAIN data.strings = 1..Len(data.strings)
      /\ \A j \in 1..Len(data.strings) : data.strings[j] \in Strings \cup {NULL}
  BY <1>2, ArrayIs DEF StringArrays
<1> DEFINE n == Len(data.strings)
           ss == [j \in 1..n |-> IF j \in DOMAIN new THEN new[j] ELSE data.strings[j]]
           g == [j \in J |-> value[data.params[j]]]
<1>4. \A j \in 1..n : ss[j] = IF j \in J THEN new[j] ELSE data.strings[j]
  BY <1>1
<1>5. ss \in StringArrays /\ Len(ss) = n
  <2>1. \A j \in 1..n : ss[j] \in Strings \cup {NULL}
    BY <1>1, <1>3, <1>4
  <2>2. ss = [j \in 1..n |-> ss[j]]
    OBVIOUS
  <2>3. n \in Nat
    BY <1>3
  <2> HIDE DEF ss, n
  <2> QED
    BY <2>1, <2>2, <2>3, ArrayMade, Zenon DEF StringArrays
<1>6. data' = [data EXCEPT !.strings = ss]
  <2>1. data' = [data EXCEPT !.strings = [j \in DOMAIN data.strings |-> IF j \in DOMAIN new THEN new[j] ELSE data.strings[j]]]
    BY DEF ConvertMade
  <2> QED
    BY <1>3, <2>1
<1>7. /\ Allocated(new, J) /\ text' \in [Strings -> Texts]
      /\ \A s \in live : text'[s] = text[s]
      /\ \A j \in J : text'[new[j]] = value[data.params[j]]
  <2>1. \A j \in J : g[j] \in Texts
    BY <1>2
  <2>2. \A j \in J : g[j] = value[data.params[j]]
    OBVIOUS
  <2>3. text' = [s \in Strings |->
                   IF s \in Wel!Range(new) THEN g[CHOOSE j \in DOMAIN new : new[j] = s] ELSE text[s]]
    <3>1. \A s \in Wel!Range(new) : (CHOOSE j \in DOMAIN new : new[j] = s) \in J
      BY <1>1
    <3>2. text' = [s \in Strings |->
                     IF s \in Wel!Range(new) THEN value[data.params[CHOOSE j \in DOMAIN new : new[j] = s]]
                     ELSE text[s]]
      BY DEF ConvertMade
    <3> HIDE DEF g
    <3> QED
      BY <2>2, <3>1, <3>2
  <2> HIDE DEF g
  <2>4. Given(new, J, g)
    BY <2>1, <2>3, AllocatedTexts, Zenon
  <2> QED
    BY <2>2, <2>4 DEF Given
<1>8. Replaced(data, data', data.params, ss, data.count)
  <2> HIDE DEF ss, n
  <2> QED
    BY <1>2, <1>5, <1>6, WithArrays
<1>9. \A j \in 1..data.count : ss[j] = IF j \in J THEN new[j] ELSE data.strings[j]
  <2>1. \A j \in 1..data.count : j \in 1..n
    BY <1>2, <1>3
  <2> HIDE DEF ss, n
  <2> QED
    BY <1>4, <2>1, Zenon
<1>10. live' = (live \ {data.strings[j] : j \in J}) \cup {new[j] : j \in J}
  BY <1>1 DEF ConvertMade
<1> HIDE DEF ss
<1> QED
  BY <1>5, <1>7, <1>8, <1>9, <1>10 DEF Converted, Replaced, ConvertMade

LEMMA CopyWelDataKeeps ==
  ASSUME WelInv, NEW t \in Threads, Wel!copy_wel_data(t)
  PROVE  WelInv'
<1>1. /\ frame[t].step = "copy" /\ Wel!Free("data") /\ holder' = [holder EXCEPT !["entry"] = NULL]
      /\ UNCHANGED << data, value, prival, message, last, lost, crossed, calls >>
      /\ \/ \E new \in Wel!Injection({j \in 1..data.count : data.strings[j] # NULL}, Strings \ live) :
              /\ copy' = [data EXCEPT !.params = SubSeq(@, 1, data.count),
                                      !.strings = [j \in 1..data.count |-> IF j \in DOMAIN new THEN new[j] ELSE NULL]]
              /\ live' = live \cup Wel!Range(new)
              /\ text' = [s \in Strings |->
                            IF s \in Wel!Range(new) THEN text[data.strings[CHOOSE j \in DOMAIN new : new[j] = s]]
                            ELSE text[s]]
              /\ Wel!Step(t, Wel!Idle)
         \/ \E f \in {"idle"} \cup {"crashed" : x \in 1..data.count} :
              /\ Wel!Step(t, [Wel!Idle EXCEPT !.step = f])
              /\ UNCHANGED << copy, live, text >>
  BY DEF Wel!copy_wel_data
<1>2. /\ copy = NULL /\ holder["entry"] = t /\ holder["data"] # t /\ calls' \in 0..MaxCalls
      /\ holder \in [{"entry", "data"} -> Threads \cup {NULL}]
  BY <1>1, WelParts DEF RestTyped, WelInv, MutexInv, CopyInv, WelStep, EntrySteps, DataSteps
<1>3. ASSUME NEW f, FrameFields(f), f.step \in {"idle", "crashed"}
      PROVE  MutexesMoved(t, f) /\ Crossing(t, f) /\ f.step \notin SendSteps \cup {"reported"} /\ f.step # "copy"
  <2>1. f.step \notin EntrySteps /\ f.step \notin DataSteps /\ f.step \notin SendSteps \cup {"reported"} /\ f.step # "copy"
    BY <1>3 DEF EntrySteps, DataSteps, SendSteps
  <2>2. MutexesMoved(t, f)
    BY <1>1, <1>2, <2>1 DEF MutexesMoved, HolderMoved
  <2>3. Crossing(t, f)
    BY <1>1, <2>1 DEF Crossing
  <2> QED
    BY <2>1, <2>2, <2>3
<1>4. ASSUME NEW new \in Wel!Injection({j \in 1..data.count : data.strings[j] # NULL}, Strings \ live),
             /\ copy' = [data EXCEPT !.params = SubSeq(@, 1, data.count),
                                     !.strings = [j \in 1..data.count |-> IF j \in DOMAIN new THEN new[j] ELSE NULL]]
             /\ live' = live \cup Wel!Range(new)
             /\ text' = [s \in Strings |->
                           IF s \in Wel!Range(new) THEN text[data.strings[CHOOSE j \in DOMAIN new : new[j] = s]]
                           ELSE text[s]]
             /\ Wel!Step(t, Wel!Idle)
      PROVE  WelInv'
  <2> DEFINE f == Wel!Idle
             J == Wel!Stored(data)
  <2>1. CopyMade(new) /\ new \in Wel!Injection(J, Strings \ live)
    BY <1>1, <1>2, <1>4 DEF CopyMade, Wel!Stored
  <2>2. Copied(new, J)
    BY <2>1, WelParts, CopyMadeIs
  <2>3. FrameFields(f) /\ f.step = "idle" /\ Wel!Step(t, f)
    BY <1>4, IdleIs
  <2> HIDE DEF f, J
  <2>4. ArraysInv'
    BY <2>2, WelParts, CopiedKeeps
  <2>5. Silent /\ Safe(t)
    BY <1>1, <2>2 DEF Copied, Silent, SettingsKept, Safe
  <2>6. FrameMoved(t, f) /\ MutexesMoved(t, f) /\ Crossing(t, f) /\ f.step \notin SendSteps \cup {"reported"}
    BY <1>3, <2>3, WelParts, StepMoves
  <2>7. CopySafe(t, f)
    BY <1>2, <2>3 DEF CopySafe
  <2>8. RestTyped'
    BY <1>1, <1>2, <2>6, WelParts DEF RestTyped, MutexesMoved
  <2>9. StepMoved(t, f)
    BY <2>5, <2>6, <2>7 DEF StepMoved
  <2> QED
    BY <2>4, <2>6, <2>8, <2>9, CallKeeps
<1>5. ASSUME NEW g \in {"idle"} \cup {"crashed" : x \in 1..data.count},
             Wel!Step(t, [Wel!Idle EXCEPT !.step = g]), UNCHANGED << copy, live, text >>
      PROVE  WelInv'
  <2> DEFINE f == [Wel!Idle EXCEPT !.step = g]
  <2>1. g \in {"idle", "crashed"} /\ g \in Wel!Steps /\ g # "strings"
    BY DEF Wel!Steps
  <2>2. FrameFields(f) /\ f.step = g
    BY <2>1, StartAt
  <2>3. Wel!Step(t, f) /\ SameArrays
    BY <1>1, <1>5 DEF SameArrays
  <2> HIDE DEF f
  <2>4. MutexesMoved(t, f) /\ Crossing(t, f) /\ f.step \notin SendSteps \cup {"reported"} /\ f.step # "copy"
    BY <1>3, <2>1, <2>2
  <2>5. StepMoved(t, f) /\ ArraysInv' /\ RestTyped'
    BY <1>1, <1>2, <2>2, <2>3, <2>4, LockingKeeps
  <2> QED
    BY <2>4, <2>5, CallKeeps
<1> QED
  BY <1>1, <1>4, <1>5

LEMMA DestroyKeeps ==
  ASSUME WelInv, NEW t \in Threads, Wel!destroy_wel_data(t)
  PROVE  WelInv'
<1>1. /\ Wel!Calling(t) /\ Uncopied
      /\ UNCHANGED << data, text, value, prival, message, holder, frame, last, lost, crossed >>
  BY DEF Wel!destroy_wel_data, Uncopied
<1>2. /\ frame[t].step = "idle" /\ holder["entry"] # t /\ holder["data"] # t /\ calls' \in 0..MaxCalls
      /\ holder \in [{"entry", "data"} -> Threads \cup {NULL}]
  BY <1>1, CallingIs, WelParts DEF RestTyped
<1> DEFINE f == frame[t]
<1>3. FrameMoved(t, f)
  BY <1>1, WelParts DEF FramesTyped, FrameMoved
<1>4. f.step = "idle"
  BY <1>2
<1> HIDE DEF f
<1>5. ArraysInv' /\ Silent /\ Safe(t)
  <2>1. ArraysInv'
    BY <1>1, WelParts, UncopiedKeeps
  <2> QED
    BY <1>1, <2>1 DEF Silent, SettingsKept, Safe
<1>6. MutexesMoved(t, f) /\ Crossing(t, f) /\ CopySafe(t, f) /\ f.step \notin SendSteps \cup {"reported"}
  BY <1>1, <1>2, <1>4 DEF MutexesMoved, HolderMoved, Crossing, EntrySteps, DataSteps, SendSteps, CopySafe, Uncopied
<1>7. RestTyped'
  BY <1>1, <1>2, WelParts DEF RestTyped
<1>8. StepMoved(t, f)
  BY <1>3, <1>5, <1>6 DEF StepMoved
<1> QED
  BY <1>5, <1>6, <1>7, <1>8, CallKeeps

\* The conversion is done for the params that were converted.
LEMMA ConvertedSent ==
  ASSUME ArraysInv, NEW t \in Threads, NEW new, NEW J, J = Wel!WithParam(data.count), Converted(new, J),
         value' = value
  PROVE  ConvertedOf(t)'
<1>1. /\ ArrayFacts /\ data'.count = data.count /\ data'.params = data.params
      /\ \A j \in J : new[j] \in Strings
      /\ \A j \in 1..data.count : data'.strings[j] = IF j \in J THEN new[j] ELSE data.strings[j]
      /\ \A j \in J : text'[new[j]] = value[data.params[j]]
  BY ArraysFacts DEF Converted, Allocated
<1>2. \A j \in 1..data.count : data.params[j] # NULL => j \in J
  BY DEF Wel!WithParam
<1>3. ASSUME NEW j \in 1..data.count, data.params[j] # NULL
      PROVE  data'.strings[j] # NULL /\ text'[data'.strings[j]] = value[data.params[j]]
  BY <1>1, <1>2, <1>3 DEF ArrayFacts
<1> QED
  BY <1>1, <1>3 DEF ConvertedOf

LEMMA SendKeeps ==
  ASSUME WelInv, NEW t \in Threads, Wel!sendto_wel_target(t)
  PROVE  WelInv'
<1>1. /\ Wel!Calling(t) /\ Wel!Free("data")
      /\ crossed' = (crossed \/ \E u \in Threads : Wel!LockedEntry(u))
      /\ UNCHANGED << copy, value, prival, message, last, lost >>
  BY DEF Wel!sendto_wel_target
<1>2. /\ frame[t].step = "idle" /\ holder["entry"] # t /\ holder["data"] = NULL /\ calls' \in 0..MaxCalls
      /\ holder \in [{"entry", "data"} -> Threads \cup {NULL}]
  BY <1>1, CallingIs, WelParts DEF RestTyped, Wel!Free
<1>0. PICK n \in 0..data.count : \E new \in Wel!Injection(Wel!WithParam(n), Strings \ live) :
        /\ ConvertMade(new)
        /\ IF n = data.count
           THEN /\ Wel!Step(t, [Wel!Idle EXCEPT !.step = "prival"])
                /\ holder' = [holder EXCEPT !["data"] = t]
           ELSE /\ \E g \in {"idle", "crashed"} : Wel!Step(t, [Wel!Idle EXCEPT !.step = g])
                /\ UNCHANGED holder
  BY DEF Wel!sendto_wel_target, ConvertMade
<1>3. PICK new \in Wel!Injection(Wel!WithParam(n), Strings \ live) :
        /\ ConvertMade(new)
        /\ IF n = data.count
           THEN /\ Wel!Step(t, [Wel!Idle EXCEPT !.step = "prival"])
                /\ holder' = [holder EXCEPT !["data"] = t]
           ELSE /\ \E g \in {"idle", "crashed"} : Wel!Step(t, [Wel!Idle EXCEPT !.step = g])
                /\ UNCHANGED holder
  BY <1>0
<1> DEFINE J == Wel!WithParam(n)
<1>4. J \subseteq {j \in 1..data.count : data.params[j] # NULL} /\ value \in [Params -> Texts]
  BY WelParts DEF Wel!WithParam, ArrayFacts, RestTyped
<1>5. Converted(new, J)
  BY <1>3, <1>4, WelParts, ConvertMadeIs
<1> HIDE DEF J
<1>6. ArraysInv'
  BY <1>5, WelParts, ConvertedKeeps
<1>7. Safe(t)
  BY <1>1, FreeSafe
<1>8. Silent
  BY <1>1, <1>5 DEF Converted, Silent
<1>9. PICK f : /\ FrameFields(f) /\ Wel!Step(t, f)
               /\ \/ /\ f.step = "prival" /\ n = data.count /\ holder' = [holder EXCEPT !["data"] = t]
                  \/ /\ f.step \in {"idle", "crashed"} /\ holder' = holder
  <2>1. CASE n = data.count
    <3> DEFINE f == [Wel!Idle EXCEPT !.step = "prival"]
    <3>1. Wel!Step(t, f) /\ holder' = [holder EXCEPT !["data"] = t]
      BY <1>3, <2>1
    <3>2. "prival" \in Wel!Steps /\ "prival" # "strings"
      BY DEF Wel!Steps
    <3>3. FrameFields(f) /\ f.step = "prival"
      BY <3>2, StartAt
    <3> HIDE DEF f
    <3> QED
      BY <2>1, <3>1, <3>3
  <2>2. CASE n # data.count
    <3>1. PICK g \in {"idle", "crashed"} : Wel!Step(t, [Wel!Idle EXCEPT !.step = g])
      BY <1>3, <2>2
    <3> DEFINE f == [Wel!Idle EXCEPT !.step = g]
    <3>2. g \in Wel!Steps /\ g # "strings"
      BY DEF Wel!Steps
    <3>3. FrameFields(f) /\ f.step = g /\ Wel!Step(t, f)
      BY <3>1, <3>2, StartAt
    <3>4. holder' = holder
      BY <1>3, <2>2
    <3> HIDE DEF f
    <3> QED
      BY <3>3, <3>4
  <2> QED
    BY <2>1, <2>2
<1>10. FrameMoved(t, f)
  BY <1>9, WelParts, StepMoves
<1>11. MutexesMoved(t, f) /\ CopySafe(t, f) /\ RestTyped'
  <2>1. t # NULL
    BY WelAssumption
  <2>2. MutexesMoved(t, f)
    BY <1>2, <1>9, <2>1 DEF MutexesMoved, HolderMoved, EntrySteps, DataSteps
  <2> QED
    BY <1>1, <1>2, <1>9, <2>2, WelParts DEF CopySafe, MutexesMoved, RestTyped
<1>12. Crossing(t, f)
  BY <1>1, <1>9 DEF Crossing, Wel!LockedEntry, SendSteps, EntrySteps
<1>13. StepMoved(t, f)
  BY <1>7, <1>8, <1>10, <1>11, <1>12 DEF StepMoved
<1>14. ConvertedOf(t)' /\ EventOf(t)'
  <2>1. frame'[t].step = f.step
    BY <1>10 DEF FrameMoved
  <2>2. EventOf(t)'
    BY <1>9, <2>1 DEF EventOf, WelStep
  <2>3. CASE n = data.count
    BY <1>1, <1>5, <2>2, <2>3, WelParts, ConvertedSent DEF J
  <2>4. CASE n # data.count
    BY <1>9, <2>1, <2>2, <2>4 DEF ConvertedOf, WelStep
  <2> QED
    BY <2>3, <2>4
<1> QED
  BY <1>6, <1>11, <1>13, <1>14, StepKeeps

\* A frame whose step goes on, with another event.
GoesOnAs(f, g, s, e) == FrameFields(g) /\ g.step = s /\ g.event = e /\ g.disturbed = f.disturbed

LEMMA GoesOnIs ==
  ASSUME NEW f, FrameFields(f), NEW s, s \in Wel!Steps \ {"strings"}, NEW e
  PROVE  GoesOnAs(f, [f EXCEPT !.step = s, !.event = e], s, e)
<1> SUFFICES ASSUME NEW g, g = [f EXCEPT !.step = s, !.event = e]
             PROVE  GoesOnAs(f, g, s, e)
  OBVIOUS
<1>1. f = [step |-> f.step, text |-> f.text, event |-> f.event, disturbed |-> f.disturbed] /\ f.disturbed \in BOOLEAN
  BY DEF FrameFields
<1>2. g = [step |-> s, text |-> f.text, event |-> e, disturbed |-> f.disturbed]
  BY <1>1
<1>3. g.step = s /\ g.text = f.text /\ g.event = e
  BY <1>2
<1>4. g.disturbed = f.disturbed
  BY <1>2
<1> QED
  BY <1>1, <1>2, <1>3, <1>4 DEF FrameFields, GoesOnAs

\* The steps of a call that is sending.
LEMMA SendingKeeps ==
  ASSUME WelInv, NEW t \in Threads, frame[t].step \in {"prival", "message", "report"},
         NEW f, FrameFields(f), Wel!Step(t, f), f.step \in {"message", "report", "reported"},
         f.disturbed = frame[t].disturbed,
         SameArrays, UNCHANGED << value, prival, message, crossed, calls >>,
         \/ f.step # "reported" /\ holder' = holder
         \/ f.step = "reported" /\ holder' = [holder EXCEPT !["data"] = NULL],
         OfOnePrival(f.event), f.step = "message" => data.event_id = NULL,
         ~frame[t].disturbed => SaysOf(f.event) /\ (f.step # "message" => f.event.strings = SentStrings)
  PROVE  WelInv'
<1>1. /\ holder["entry"] # t /\ holder["data"] = t /\ calls' \in 0..MaxCalls
      /\ holder \in [{"entry", "data"} -> Threads \cup {NULL}]
  BY WelParts DEF RestTyped, WelInv, MutexInv, WelStep, EntrySteps, DataSteps
<1>2. MutexesMoved(t, f)
  <2>1. CASE f.step # "reported" /\ holder' = holder
    BY <1>1, <2>1 DEF MutexesMoved, HolderMoved, EntrySteps, DataSteps
  <2>2. CASE f.step = "reported" /\ holder' = [holder EXCEPT !["data"] = NULL]
    BY <1>1, <2>2 DEF MutexesMoved, HolderMoved, EntrySteps, DataSteps
  <2> QED
    BY <2>1, <2>2
<1>3. Crossing(t, f)
  BY DEF Crossing, SendSteps, EntrySteps
<1>4. StepMoved(t, f) /\ ArraysInv' /\ RestTyped' /\ Silent
  BY <1>1, <1>2, <1>3, LockingKeeps
<1>5. SentStrings' = SentStrings /\ frame'[t] = f /\ data' = data
  BY <1>4, WelParts, QuietShows DEF StepMoved, FrameMoved, SameArrays
<1>6. ConvertedOf(t)'
  BY <1>5 DEF ConvertedOf, WelStep
<1>7. EventOf(t)'
  <2> SUFFICES ASSUME NEW e, e = frame'[t].event
               PROVE  /\ OfOnePrival(e)
                      /\ frame'[t].step = "message" => data'.event_id = NULL
                      /\ ~frame'[t].disturbed =>
                           /\ SaysOf(e)'
                           /\ frame'[t].step # "message" => e.strings = SentStrings'
    BY DEF EventOf, WelStep, OfOnePrival, SaysOf
  <2>1. f.event = e
    BY <1>5
  <2>2. SaysOf(e) => SaysOf(e)'
    BY <1>4, QuietSays
  <2> QED
    BY <1>5, <2>1, <2>2
<1> QED
  BY <1>4, <1>6, <1>7, StepKeeps

\* What is sent is what is shown, when the params were converted and nothing was disturbed.
LEMMA SentAreShown ==
  ASSUME WelInv, NEW t \in Threads, frame[t].step = "prival", ~frame[t].disturbed
  PROVE  Wel!InsertionTexts = Shown
<1>1. ArrayFacts /\ ConvertedOf(t)
  BY WelParts DEF WelInv, ConvertedInv
<1>2. ASSUME NEW j \in 1..data.count
      PROVE  (IF data.strings[j] = NULL THEN NULL ELSE text[data.strings[j]]) = Wel!TextAt(data, j - 1)
  <2>1. j - 1 + 1 = j
    BY <1>1 DEF ArrayFacts
  <2>2. Wel!TextAt(data, j - 1) =
          IF data.params[j] # NULL THEN value[data.params[j]]
          ELSE IF data.strings[j] # NULL THEN text[data.strings[j]] ELSE NULL
    BY <2>1 DEF Wel!TextAt
  <2>3. data.params[j] # NULL => data.strings[j] # NULL /\ text[data.strings[j]] = value[data.params[j]]
    BY <1>1 DEF ConvertedOf, WelStep
  <2> QED
    BY <2>2, <2>3
<1> QED
  BY <1>2 DEF Wel!InsertionTexts, Shown

LEMMA SendPrivalKeeps ==
  ASSUME WelInv, NEW t \in Threads, Wel!SendPrival(t)
  PROVE  WelInv'
<1> DEFINE e == [type |-> Wel!stumpless_get_wel_type, category |-> Wel!stumpless_get_wel_category,
                 event_id |-> Wel!stumpless_get_wel_event_id, strings |-> Wel!InsertionTexts]
           s == IF data.event_id # NULL THEN "report" ELSE "message"
           f == [frame[t] EXCEPT !.step = s, !.event = e]
<1>1. /\ frame[t].step = "prival" /\ Wel!Step(t, f) /\ SameArrays
      /\ UNCHANGED << value, prival, message, holder, crossed, calls >>
  BY DEF Wel!SendPrival, SameArrays
<1>2. OfOnePrival(e) /\ SaysOf(e) /\ e.strings = Wel!InsertionTexts
  <2>1. /\ e.type = Wel!stumpless_get_wel_type /\ e.category = Wel!stumpless_get_wel_category
        /\ e.event_id = Wel!stumpless_get_wel_event_id /\ e.strings = Wel!InsertionTexts
        /\ e = [type |-> e.type, category |-> e.category, event_id |-> e.event_id, strings |-> e.strings]
    OBVIOUS
  <2>2. /\ data.type \in Words \cup {NULL} /\ data.category \in Words \cup {NULL} /\ data.event_id \in Words \cup {NULL}
        /\ prival \in Privals
    BY WelParts, WelDataIs DEF ArrayFacts, RestTyped
  <2> HIDE DEF e
  <2>3. OfOnePrival(e)
    BY <2>1, <2>2 DEF OfOnePrival, Wel!stumpless_get_wel_type, Wel!stumpless_get_wel_category,
                      Wel!stumpless_get_wel_event_id
  <2> QED
    BY <2>1, <2>3 DEF SaysOf
<1>3. s \in Wel!Steps /\ s # "strings" /\ s \in {"message", "report"}
  BY DEF Wel!Steps
<1>4. (s = "message" => data.event_id = NULL) /\ (s # "message" => data.event_id # NULL)
  OBVIOUS
<1> HIDE DEF e, s
<1>5. FrameFields(f) /\ f.step = s /\ f.event = e /\ f.disturbed = frame[t].disturbed
  <2>1. FrameFields(frame[t]) /\ s \in Wel!Steps \ {"strings"}
    BY <1>3, WelParts DEF FramesTyped
  <2>2. GoesOnAs(frame[t], f, s, e)
    BY <2>1, GoesOnIs, Zenon
  <2> HIDE DEF f
  <2> QED
    BY <2>2 DEF GoesOnAs
<1> HIDE DEF f
<1>6. ~frame[t].disturbed => SaysOf(f.event) /\ (f.step # "message" => f.event.strings = SentStrings)
  BY <1>1, <1>2, <1>4, <1>5, SentAreShown DEF SentStrings
<1>7. OfOnePrival(f.event)
  BY <1>2, <1>5
<1>8. /\ f.step \in {"message", "report", "reported"} /\ f.step # "reported"
      /\ f.step = "message" => data.event_id = NULL
      /\ frame[t].step \in {"prival", "message", "report"}
  BY <1>1, <1>3, <1>4, <1>5
<1> QED
  BY <1>1, <1>5, <1>6, <1>7, <1>8, SendingKeeps

LEMMA SendMessageKeeps ==
  ASSUME WelInv, NEW t \in Threads, Wel!SendMessage(t)
  PROVE  WelInv'
<1> DEFINE old == frame[t].event
           e == [old EXCEPT !.strings = << message >>]
           f == [frame[t] EXCEPT !.step = "report", !.event = e]
<1>0. FrameFields(frame[t])
  BY WelParts DEF FramesTyped
<1>1. /\ frame[t].step = "message" /\ SameArrays
      /\ UNCHANGED << value, prival, message, holder, crossed, calls >>
      /\ Wel!Step(t, [frame[t] EXCEPT !.step = "report", !.event.strings = << message >>])
  BY DEF Wel!SendMessage, SameArrays
<1>2. Wel!Step(t, f)
  BY <1>0, <1>1 DEF FrameFields, Wel!Step
<1>3. OfOnePrival(old) /\ data.event_id = NULL /\ (~frame[t].disturbed => SaysOf(old))
  BY <1>1 DEF WelInv, EventInv, EventOf, WelStep
<1> HIDE DEF old
<1>4. /\ e = [type |-> e.type, category |-> e.category, event_id |-> e.event_id, strings |-> e.strings]
      /\ e.type = old.type /\ e.category = old.category /\ e.event_id = old.event_id /\ e.strings = << message >>
  BY <1>3 DEF OfOnePrival
<1> HIDE DEF e
<1>5. OfOnePrival(e) /\ (SaysOf(old) => SaysOf(e)) /\ e.strings = SentStrings
  BY <1>3, <1>4 DEF OfOnePrival, SaysOf, SentStrings
<1>6. FrameFields(f) /\ f.step = "report" /\ f.event = e /\ f.disturbed = frame[t].disturbed
  <2>1. "report" \in Wel!Steps \ {"strings"}
    BY DEF Wel!Steps
  <2>2. GoesOnAs(frame[t], f, "report", e)
    BY <1>0, <2>1, GoesOnIs, Zenon
  <2> HIDE DEF f
  <2> QED
    BY <2>2 DEF GoesOnAs
<1> HIDE DEF f
<1>7. OfOnePrival(f.event) /\ (~frame[t].disturbed => SaysOf(f.event) /\ f.event.strings = SentStrings)
  BY <1>3, <1>5, <1>6
<1>8. f.step # "message" /\ f.step # "reported" /\ f.step \in {"message", "report", "reported"}
  BY <1>6
<1>9. frame[t].step \in {"prival", "message", "report"}
  BY <1>1
<1> QED
  BY <1>1, <1>2, <1>6, <1>7, <1>8, <1>9, SendingKeeps

LEMMA ReportKeeps ==
  ASSUME WelInv, NEW t \in Threads, Wel!ReportEvent(t)
  PROVE  WelInv'
<1> DEFINE f == [frame[t] EXCEPT !.step = "reported", !.event = frame[t].event]
<1>0. FrameFields(frame[t])
  BY WelParts DEF FramesTyped
<1>1. /\ frame[t].step = "report" /\ SameArrays
      /\ UNCHANGED << value, prival, message, crossed, calls >>
      /\ holder' = [holder EXCEPT !["data"] = NULL]
      /\ Wel!Step(t, [frame[t] EXCEPT !.step = "reported"])
  BY DEF Wel!ReportEvent, SameArrays
<1>2. Wel!Step(t, f)
  BY <1>0, <1>1 DEF FrameFields, Wel!Step
<1>3. /\ OfOnePrival(frame[t].event)
      /\ ~frame[t].disturbed => SaysOf(frame[t].event) /\ frame[t].event.strings = SentStrings
  BY <1>1 DEF WelInv, EventInv, EventOf, WelStep
<1>4. FrameFields(f) /\ f.step = "reported" /\ f.event = frame[t].event /\ f.disturbed = frame[t].disturbed
  <2>1. "reported" \in Wel!Steps \ {"strings"}
    BY DEF Wel!Steps
  <2>2. GoesOnAs(frame[t], f, "reported", frame[t].event)
    BY <1>0, <2>1, GoesOnIs, Zenon
  <2> HIDE DEF f
  <2> QED
    BY <2>2 DEF GoesOnAs
<1> HIDE DEF f
<1>5. OfOnePrival(f.event) /\ (~frame[t].disturbed => SaysOf(f.event) /\ f.event.strings = SentStrings)
  BY <1>3, <1>4
<1>6. f.step # "message" /\ f.step \in {"message", "report", "reported"}
  BY <1>4
<1>7. frame[t].step \in {"prival", "message", "report"}
  BY <1>1
<1> QED
  BY <1>1, <1>2, <1>4, <1>5, <1>6, <1>7, SendingKeeps

(***************************************************************************)
(* The invariant, and what it says.                                        *)
(***************************************************************************)

LEMMA WelInit == Wel!Init => WelInv
<1> SUFFICES ASSUME Wel!Init PROVE WelInv
  OBVIOUS
<1>1. /\ data = Wel!initialize_wel_data /\ copy = NULL /\ live = {} /\ lost = {}
      /\ prival \in Privals /\ message \in Texts /\ calls = 0
      /\ text = [s \in Strings |-> message] /\ value = [p \in Params |-> message]
      /\ holder = [m \in {"entry", "data"} |-> NULL]
      /\ frame = [t \in Threads |-> Wel!Idle]
      /\ last = [i \in Indexes |-> NULL]
  BY DEF Wel!Init
<1>2. /\ data.params = << >> /\ data.strings = << >> /\ data.count = 0
      /\ data.type = NULL /\ data.category = NULL /\ data.event_id = NULL
  BY <1>1 DEF Wel!initialize_wel_data
<1>3. data \in Wel!wel_data
  <2>1. << >> \in Seq(Params \cup {NULL}) /\ << >> \in Seq(Strings \cup {NULL}) /\ 0 \in 0..WordMax
    BY WelAssumption
  <2> QED
    BY <1>1, <2>1 DEF Wel!initialize_wel_data, Wel!wel_data
<1>4. WelTyped
  BY <1>1, <1>3, WelAssumption DEF WelTyped
<1>5. \A t \in Threads : frame[t] = Wel!Idle /\ WelStep(t) = "idle" /\ FrameFields(frame[t])
  BY <1>1, IdleIs DEF WelStep
<1>6. FramesTyped
  BY <1>1, <1>5 DEF FramesTyped
<1>7. MutexInv
  BY <1>1, <1>5, WelAssumption DEF MutexInv, EntrySteps, DataSteps
<1>8. CrossInv /\ CopyInv
  BY <1>1, <1>5 DEF CrossInv, CopyInv, SendSteps
<1>9. Arrays(data) /\ Holds(data) = {}
  BY <1>2 DEF Arrays, Holds, Wel!Stored
<1>10. OwnedInv
  BY <1>1, <1>9 DEF OwnedInv
<1>11. LastInv
  BY <1>1 DEF LastInv, LastOf
<1>12. ConvertedInv /\ EventInv
  BY <1>5 DEF ConvertedInv, ConvertedOf, EventInv, EventOf
<1> QED
  BY <1>4, <1>6, <1>7, <1>8, <1>10, <1>11, <1>12 DEF WelInv

LEMMA WelNext ==
  ASSUME WelInv, NEW t \in Threads, Wel!Call(t) \/ Wel!Progress(t)
  PROVE  WelInv'
<1>1. CASE Wel!Call(t)
  <2>1. CASE Wel!GetField(t)
    BY <2>1, GetFieldKeeps
  <2>2. CASE \E w \in Words :
               \/ Wel!stumpless_set_wel_category(t, w)
               \/ Wel!stumpless_set_wel_event_id(t, w)
               \/ Wel!stumpless_set_wel_type(t, w)
    <3>1. PICK w \in Words : \E d :
            /\ \/ d = [data EXCEPT !.category = w]
               \/ d = [data EXCEPT !.event_id = w]
               \/ d = [data EXCEPT !.type = w]
            /\ Wel!SetField(t, d)
      BY <2>2 DEF Wel!stumpless_set_wel_category, Wel!stumpless_set_wel_event_id, Wel!stumpless_set_wel_type
    <3> QED
      BY <3>1, SetFieldKeeps
  <2>3. CASE \/ \E p \in Privals : Wel!stumpless_set_entry_prival(t, p)
             \/ \E x \in Texts : Wel!stumpless_set_entry_message(t, x)
             \/ \E p \in Params, x \in Texts : Wel!stumpless_set_param_value(t, p, x)
    BY <2>3, SetEntryKeeps
  <2>4. CASE \E i \in Indexes, p \in Params \cup {NULL} : Wel!stumpless_set_wel_insertion_param(t, i, p)
    BY <2>4, SetInsertionParamKeeps
  <2>5. CASE \E i \in Indexes, x \in Texts : Wel!stumpless_set_wel_insertion_string(t, i, x)
    BY <2>5, SetInsertionStringKeeps
  <2>6. CASE \E x, y \in Texts : Wel!vstumpless_set_wel_insertion_strings(t, << x, y >>)
    BY <2>6, SetInsertionStringsKeeps
  <2>7. CASE Wel!stumpless_copy_entry(t)
    BY <2>7, CopyStarts
  <2>8. CASE Wel!destroy_wel_data(t)
    BY <2>8, DestroyKeeps
  <2>9. CASE Wel!sendto_wel_target(t)
    BY <2>9, SendKeeps
  <2> QED
    BY <1>1, <2>1, <2>2, <2>3, <2>4, <2>5, <2>6, <2>7, <2>8, <2>9, Zenon DEF Wel!Call
<1>2. CASE Wel!Progress(t)
  BY <1>2, ReadFieldKeeps, SetNextStringKeeps, CopyWelDataKeeps, SendPrivalKeeps, SendMessageKeeps, ReportKeeps,
     SendEnds, Zenon DEF Wel!Progress
<1> QED
  BY <1>1, <1>2

LEMMA WelInvStep == WelInv /\ [Wel!Next]_(Wel!vars) => WelInv'
<1>1. ASSUME WelInv, Wel!Next PROVE WelInv'
  BY <1>1, WelNext DEF Wel!Next
<1>2. ASSUME WelInv, UNCHANGED Wel!vars PROVE WelInv'
  BY <1>2 DEF Wel!vars, WelInv, WelTyped, FramesTyped, MutexInv, CrossInv, CopyInv, OwnedInv, LastInv, LastOf,
              ConvertedInv, ConvertedOf, EventInv, EventOf, WelStep, SaysOf, SentStrings, Shown, Wel!TextAt,
              Wel!stumpless_get_wel_type, Wel!stumpless_get_wel_category, Wel!stumpless_get_wel_event_id
<1> QED
  BY <1>1, <1>2

LEMMA WelAlways == Wel!Spec => []WelInv
BY WelInit, WelInvStep, PTL DEF Wel!Spec

\* The strings of the entry and of its copy, as StringsOwned counts them.
LEMMA OwnedOnce ==
  ASSUME WelInv
  PROVE  Wel!StringsOwned
<1> DEFINE D == IF copy = NULL THEN {data} ELSE {data, copy}
           places == {x \in D \X (1..WordMax) : x[2] \in Wel!Stored(x[1])}
<1>1. /\ data \in Wel!wel_data /\ Arrays(data)
      /\ copy # NULL => copy \in Wel!wel_data /\ Arrays(copy) /\ Holds(data) \cap Holds(copy) = {}
      /\ live \ lost = Holds(data) \cup (IF copy = NULL THEN {} ELSE Holds(copy))
  BY DEF WelInv, WelTyped, OwnedInv
<1>2. \A d \in D : d \in Wel!wel_data /\ Arrays(d)
  BY <1>1
<1>3. \A d, e \in D : d # e => Holds(d) \cap Holds(e) = {}
  BY <1>1
<1>4. live \ lost = UNION {Holds(d) : d \in D}
  BY <1>1
<1> HIDE DEF D
<1>5. \A d \in D : d.count <= Len(d.params) /\ d.count <= Len(d.strings)
  BY <1>2 DEF Arrays
<1>6. \A x \in places : x[1] \in D /\ x[2] \in Wel!Stored(x[1]) /\ x = << x[1], x[2] >>
  OBVIOUS
<1>7. \A d \in D : \A j \in Wel!Stored(d) : << d, j >> \in places
  <2>1. \A d \in D : d.count \in 0..WordMax
    BY <1>2, WelDataIs
  <2>2. \A d \in D : Wel!Stored(d) \subseteq 1..WordMax
    BY <2>1, WelAssumption DEF Wel!Stored
  <2> QED
    BY <2>2
<1> HIDE DEF places
<1>8. \A x, y \in places : x[1].strings[x[2]] = y[1].strings[y[2]] => x = y
  <2> SUFFICES ASSUME NEW x \in places, NEW y \in places, x[1].strings[x[2]] = y[1].strings[y[2]]
               PROVE  x = y
    OBVIOUS
  <2>1. x[1].strings[x[2]] \in Holds(x[1]) /\ y[1].strings[y[2]] \in Holds(y[1])
    BY <1>6 DEF Holds
  <2>2. x[1] = y[1]
    BY <1>3, <1>6, <2>1
  <2>3. x[2] = y[2]
    BY <1>2, <1>6, <2>2 DEF Arrays
  <2> QED
    BY <1>6, <2>2, <2>3
<1>9. {x[1].strings[x[2]] : x \in places} = live \ lost
  <2>1. ASSUME NEW x \in places PROVE x[1].strings[x[2]] \in live \ lost
    BY <1>4, <1>6 DEF Holds
  <2>2. ASSUME NEW s \in live \ lost PROVE \E x \in places : x[1].strings[x[2]] = s
    <3>1. PICK d \in D : s \in Holds(d)
      BY <1>4
    <3>2. PICK j \in Wel!Stored(d) : d.strings[j] = s
      BY <3>1 DEF Holds
    <3>3. << d, j >> \in places /\ << d, j >>[1] = d /\ << d, j >>[2] = j
      BY <1>7
    <3> QED
      BY <3>2, <3>3
  <2> QED
    BY <2>1, <2>2
<1> QED
  BY <1>5, <1>8, <1>9 DEF Wel!StringsOwned, D, places

LEMMA NobodyStalls ==
  ASSUME WelInv
  PROVE  Wel!NoStall
<1> SUFFICES ASSUME ~crossed, \A t \in Threads : frame[t].step \notin {"spin", "crashed"},
                    NEW t \in Threads, frame[t].step # "idle"
             PROVE  \E u \in Threads : Wel!CanGoOn(u)
  BY DEF Wel!NoStall
<1>1. /\ \A u \in Threads : /\ holder["entry"] = u <=> frame[u].step \in EntrySteps
                            /\ holder["data"] = u <=> frame[u].step \in DataSteps
                            /\ frame[u].step \in Wel!Steps
      /\ holder["entry"] \in Threads \cup {NULL} /\ holder["data"] \in Threads \cup {NULL}
      /\ \A u, v \in Threads : ~(frame[u].step \in SendSteps /\ frame[v].step \in EntrySteps)
  BY DEF WelInv, MutexInv, WelStep, CrossInv, WelTyped, FramesTyped, FrameFields
<1>2. CASE frame[t].step \in EntrySteps
  <2>1. CASE holder["data"] = NULL
    BY <1>2, <2>1 DEF Wel!CanGoOn, Wel!Free, EntrySteps
  <2>2. CASE holder["data"] # NULL
    <3>1. PICK u \in Threads : holder["data"] = u
      BY <1>1, <2>2
    <3>2. frame[u].step \in DataSteps /\ frame[u].step \notin SendSteps /\ frame[u].step # "spin"
      BY <1>1, <1>2, <3>1
    <3>3. frame[u].step = "strings"
      BY <3>2 DEF DataSteps, SendSteps
    <3> QED
      BY <3>3 DEF Wel!CanGoOn
  <2> QED
    BY <2>1, <2>2
<1>3. CASE frame[t].step \in {"prival", "message"}
  <2>1. holder["entry"] = NULL
    BY <1>1, <1>3 DEF SendSteps
  <2> QED
    BY <1>3, <2>1 DEF Wel!CanGoOn, Wel!Free
<1>4. CASE frame[t].step \notin EntrySteps \cup {"prival", "message"}
  BY <1>4 DEF Wel!CanGoOn, EntrySteps
<1> QED
  BY <1>2, <1>3, <1>4

LEMMA MutexesReturned ==
  ASSUME WelInv
  PROVE  Wel!LocksReturned
BY DEF WelInv, MutexInv, WelStep, EntrySteps, DataSteps, Wel!LocksReturned

\* However threads set, copy, destroy and send an entry: the two arrays of its
\* wel_data agree and every wide string is at one index of the entry or of its
\* copy (resize_insertion_params, locked_swap_wel_insertion_string, copy_wel_data,
\* sendto_wel_target), a call that returns has given back its mutexes, and some
\* call can go on unless the two orders of locking have met.
THEOREM WelDataIsSound == Wel!Spec => []WelDataSound
<1>1. WelInv => WelDataSound
  <2> SUFFICES ASSUME WelInv PROVE WelDataSound
    OBVIOUS
  <2>1. Wel!TypeOK
    BY DEF WelInv, WelTyped, FramesTyped, FrameFields, Wel!TypeOK
  <2> QED
    BY <2>1, OwnedOnce, NobodyStalls, MutexesReturned DEF WelDataSound, Wel!WelDataSound
<1> QED
  BY <1>1, WelAlways, PTL

\* What was set last is what the getters return.
LEMMA LastIsShown ==
  ASSUME WelInv
  PROVE  Wel!LastSetWins
<1> SUFFICES ASSUME NEW i \in Indexes, last[i] # NULL
             PROVE  IF last[i].param # NULL
                    THEN /\ Wel!stumpless_get_wel_insertion_param(i) = last[i].param
                         /\ Wel!stumpless_get_wel_insertion_string(i) = value[last[i].param]
                         /\ Wel!stumpless_get_wel_insertion_string_w(i) = value[last[i].param]
                    ELSE Wel!stumpless_get_wel_insertion_param(i) = NULL =>
                           Wel!stumpless_get_wel_insertion_string(i) = last[i].text
  BY DEF Wel!LastSetWins
<1>1. ArrayFacts /\ i \in Nat
  BY WelParts DEF ArrayFacts
<1>2. /\ i < data.count
      /\ IF last[i].param # NULL THEN data.params[i + 1] = last[i].param
         ELSE data.params[i + 1] = NULL =>
                last[i].text = IF data.strings[i + 1] # NULL THEN text[data.strings[i + 1]] ELSE NULL
  BY DEF WelInv, LastInv, LastOf
<1>3. ~(i >= data.count)
  BY <1>1, <1>2 DEF ArrayFacts
<1> QED
  BY <1>2, <1>3 DEF Wel!stumpless_get_wel_insertion_param, Wel!stumpless_get_wel_insertion_string,
                    Wel!stumpless_get_wel_insertion_string_w, Wel!TextAt

LEMMA ReportedIsShown ==
  ASSUME WelInv
  PROVE  Wel!EventMatchesEntry
<1> SUFFICES ASSUME NEW t \in Threads, frame[t].step = "reported", NEW e, e = frame[t].event
             PROVE  /\ ~frame[t].disturbed =>
                         /\ e.type = Wel!stumpless_get_wel_type
                         /\ e.category = Wel!stumpless_get_wel_category
                         /\ e.event_id = Wel!stumpless_get_wel_event_id
                         /\ e.strings = IF data.event_id = NULL THEN << message >>
                                        ELSE [j \in 1..data.count |-> Wel!stumpless_get_wel_insertion_string(j - 1)]
                    /\ e.type \notin Words /\ e.category \notin Words /\ e.event_id \notin Words =>
                         \E p \in Privals :
                           e.type = Wel!get_type(p) /\ e.category = Wel!get_category(p) /\ e.event_id = Wel!get_event_id(p)
  BY DEF Wel!EventMatchesEntry
<1>1. OfOnePrival(e) /\ (~frame[t].disturbed => SaysOf(e) /\ e.strings = SentStrings)
  BY DEF WelInv, EventInv, EventOf, WelStep
<1>2. [j \in 1..data.count |-> Wel!stumpless_get_wel_insertion_string(j - 1)] = Shown
  <2>1. data.count \in Nat
    BY WelParts DEF ArrayFacts
  <2>2. ASSUME NEW j \in 1..data.count
        PROVE  Wel!stumpless_get_wel_insertion_string(j - 1) = Wel!TextAt(data, j - 1)
    <3>1. ~(j - 1 >= data.count)
      BY <2>1
    <3> QED
      BY <3>1 DEF Wel!stumpless_get_wel_insertion_string
  <2> QED
    BY <2>2 DEF Shown
<1>3. ~frame[t].disturbed => e.strings = IF data.event_id = NULL THEN << message >>
                                         ELSE [j \in 1..data.count |-> Wel!stumpless_get_wel_insertion_string(j - 1)]
  BY <1>1, <1>2 DEF SentStrings
<1> QED
  BY <1>1, <1>3 DEF OfOnePrival, SaysOf

\* A prival is a facility and a severity.
LEMMA PrivalIs ==
  ASSUME NEW p \in 0..191
  PROVE  /\ p % 8 \in 0..7 /\ p \div 8 \in 0..23
         /\ Wel!get_severity(p) \in 0..7 /\ Wel!get_facility(p) \in 0..23
         /\ Wel!get_type_index(p) \in 0..3
<1>1. p % 8 \in 0..7
  OBVIOUS
<1>2. p \div 8 \in 0..23
  OBVIOUS
<1> QED
  BY <1>1, <1>2 DEF Wel!get_severity, Wel!get_facility, Wel!get_type_index

\* The fields of an event id.
IdParts(p) ==
  /\ Wel!get_event_id(p).facility = 256 + Wel!get_facility(p)
  /\ Wel!get_event_id(p).code = Wel!get_facility(p) + Wel!get_type_index(p) * 24 + 17

LEMMA EventIdIs ==
  ASSUME NEW p \in 0..191
  PROVE  IdParts(p)
BY DEF Wel!get_event_id, IdParts

\* Ids are the same for the same facility and type only.
LEMMA IdsDiffer ==
  ASSUME NEW p \in 0..191, NEW q \in 0..191, Wel!get_event_id(p) = Wel!get_event_id(q)
  PROVE  Wel!get_type(p) = Wel!get_type(q) /\ Wel!get_facility(p) = Wel!get_facility(q)
<1>1. /\ Wel!get_facility(p) \in 0..23 /\ Wel!get_facility(q) \in 0..23
      /\ Wel!get_type_index(p) \in 0..3 /\ Wel!get_type_index(q) \in 0..3
  BY PrivalIs
<1>2. /\ 256 + Wel!get_facility(p) = 256 + Wel!get_facility(q)
      /\ Wel!get_facility(p) + Wel!get_type_index(p) * 24 + 17 = Wel!get_facility(q) + Wel!get_type_index(q) * 24 + 17
  <2>1. IdParts(p) /\ IdParts(q)
    BY EventIdIs, Zenon
  <2> QED
    BY <2>1 DEF IdParts
<1>3. Wel!get_facility(p) = Wel!get_facility(q) /\ Wel!get_type_index(p) = Wel!get_type_index(q)
  BY <1>1, <1>2
<1> QED
  BY <1>3 DEF Wel!get_type

\* Whatever is not a warning has an id that the library knows.
LEMMA IdDefined ==
  ASSUME NEW p \in 0..191, Wel!get_severity(p) # 4
  PROVE  Wel!get_event_id(p) \in Wel!default_events
<1>1. Wel!get_severity(p) \in 0..7 /\ Wel!get_facility(p) \in 0..23
  BY PrivalIs
<1> DEFINE f == Wel!get_facility(p)
           Block(b) == [severity |-> CASE b = 0 -> 0 [] b = 1 -> 3 [] b = 2 -> 2 [] b = 3 -> 1,
                        facility |-> 256 + f, code |-> 17 + 24 * b + f]
<1>2. \A b \in 0..3 : Block(b) \in Wel!default_events
  BY <1>1 DEF Wel!default_events
<1>3. Block(0) = [severity |-> 0, facility |-> 256 + f, code |-> 17 + f]
  BY <1>1
<1>4. Block(1) = [severity |-> 3, facility |-> 256 + f, code |-> 41 + f]
  BY <1>1
<1>5. Block(3) = [severity |-> 1, facility |-> 256 + f, code |-> 89 + f]
  BY <1>1
<1>6. /\ [severity |-> 0, facility |-> 256 + f, code |-> 17 + f] \in Wel!default_events
      /\ [severity |-> 3, facility |-> 256 + f, code |-> 41 + f] \in Wel!default_events
      /\ [severity |-> 1, facility |-> 256 + f, code |-> 89 + f] \in Wel!default_events
  <2> HIDE DEF Block
  <2> QED
    BY <1>2, <1>3, <1>4, <1>5
<1> HIDE DEF Block
<1>7. CASE Wel!get_severity(p) = 7
  <2>1. Wel!get_type_index(p) = 0
    BY <1>7 DEF Wel!get_type_index
  <2>2. Wel!get_event_id(p) = [severity |-> 0, facility |-> 256 + f, code |-> 17 + f]
    BY <1>1, <2>1 DEF Wel!get_event_id
  <2> QED
    BY <1>6, <2>2
<1>8. CASE Wel!get_severity(p) \in {5, 6}
  <2>1. Wel!get_type_index(p) = 3
    BY <1>8 DEF Wel!get_type_index
  <2>2. Wel!get_event_id(p) = [severity |-> 1, facility |-> 256 + f, code |-> 89 + f]
    BY <1>1, <2>1 DEF Wel!get_event_id
  <2> QED
    BY <1>6, <2>2
<1>9. CASE Wel!get_severity(p) \in 0..3
  <2>1. Wel!get_type_index(p) = 1
    BY <1>9 DEF Wel!get_type_index
  <2>2. Wel!get_event_id(p) = [severity |-> 3, facility |-> 256 + f, code |-> 41 + f]
    BY <1>1, <2>1 DEF Wel!get_event_id
  <2> QED
    BY <1>6, <2>2
<1> QED
  BY <1>1, <1>7, <1>8, <1>9

LEMMA IdsDefined ==
  ASSUME WelInv
  PROVE  Wel!EventIdsDefined
<1>1. Wel!WithoutMessage \subseteq {p \in 0..191 : Wel!get_severity(p) = 4}
  BY IdDefined DEF Wel!WithoutMessage
<1>2. \A p \in {prival} \cup Privals : p \in 0..191
  BY WelAssumption DEF WelInv, WelTyped
<1>3. \A p, q \in {prival} \cup Privals :
        Wel!get_event_id(p) = Wel!get_event_id(q) =>
          Wel!get_type(p) = Wel!get_type(q) /\ Wel!get_facility(p) = Wel!get_facility(q)
  BY <1>2, IdsDiffer
<1> QED
  BY <1>1, <1>3 DEF Wel!EventIdsDefined

\* What was set last as an insertion string is what the getters return, and an
\* event that was reported is what they say of the entry unless another thread
\* changed it meanwhile; category, type and id follow from one prival, and the id
\* is one of the library's messages (sendto_wel_target, get_event_id).
THEOREM EventsAreFaithful == Wel!Spec => []EventsFaithful
<1>1. WelInv => EventsFaithful
  BY LastIsShown, ReportedIsShown, IdsDefined DEF EventsFaithful, Wel!EventsFaithful
<1> QED
  BY <1>1, WelAlways, PTL
=============================================================================
