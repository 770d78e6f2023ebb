------------------------- MODULE ChainTargetProofs -------------------------
(***************************************************************************)
(* Proofs about the targets of EntryTargets: ChainTarget, for any number   *)
(* of threads, of chains nested in each other, of targets and of entries;  *)
(* Sqlite3Target, for any number of threads, statements and tries; and     *)
(* JournaldTarget, for any number of threads and any entries, that may     *)
(* share elements and params.                                              *)
(***************************************************************************)
EXTENDS EntryTargets, SequenceTheorems, FiniteSetTheorems, TLAPS

(***************************************************************************)
(* What the operators on stacks return, frame by frame.                    *)
(***************************************************************************)

\* The first call of a chain.
LEMMA FrameType ==
  ASSUME NEW c \in Chains
  PROVE  Frame(c) \in Frames /\ Frame(c).chain = c /\ Frame(c).i = 0 /\ Frame(c).failed = FALSE
BY DEF Frame, Frames

\* The stack of the callers is the stack without its last frame.
LEMMA OuterFrames ==
  ASSUME NEW s \in Seq(Frames), s # << >>
  PROVE  /\ Len(s) \in Nat \ {0}
         /\ s[Len(s)] \in Frames
         /\ Outer(s) \in Seq(Frames)
         /\ Len(Outer(s)) = Len(s) - 1
         /\ \A k \in 1 .. Len(s) - 1 : Outer(s)[k] = s[k]
<1>1. Len(s) \in Nat \ {0} /\ \A k \in 1 .. Len(s) : s[k] \in Frames
  BY EmptySeq, ElementOfSeq
<1> DEFINE n == Len(s) - 1
<1>2. n \in Nat /\ n \in Int /\ 1 \in Int /\ \A k \in 1 .. n : s[k] \in Frames
  BY <1>1
<1>3. Outer(s) = SubSeq(s, 1, n)
  BY DEF Outer
<1> HIDE DEF n
<1> DEFINE o == SubSeq(s, 1, n)
<1>4. /\ o \in Seq(Frames)
      /\ Len(o) = IF 1 <= n THEN n - 1 + 1 ELSE 0
      /\ \A k \in 1 .. n - 1 + 1 : o[k] = s[1 + k - 1]
  BY <1>2, SubSeqProperties
<1> HIDE DEF o
<1>5. Len(o) = n
  BY <1>2, <1>4
<1>6. \A k \in 1 .. n : o[k] = s[k]
  <2> SUFFICES ASSUME NEW k \in 1 .. n PROVE o[k] = s[k]
    OBVIOUS
  <2>1. k \in 1 .. n - 1 + 1 /\ 1 + k - 1 = k
    BY <1>2
  <2> QED
    BY <1>4, <2>1
<1>7. Outer(s) = o
  BY <1>3 DEF o
<1> QED
  BY <1>1, <1>4, <1>5, <1>6, <1>7 DEF n

\* Replacing the last frame leaves the others alone.
LEMMA ReplaceTop ==
  ASSUME NEW s \in Seq(Frames), s # << >>, NEW f \in Frames
  PROVE  /\ Append(Outer(s), f) \in Seq(Frames)
         /\ Len(Append(Outer(s), f)) = Len(s)
         /\ Append(Outer(s), f) # << >>
         /\ \A k \in 1 .. Len(s) : Append(Outer(s), f)[k] = IF k = Len(s) THEN f ELSE s[k]
<1>1. /\ Len(s) \in Nat \ {0}
      /\ Outer(s) \in Seq(Frames)
      /\ Len(Outer(s)) = Len(s) - 1
      /\ \A k \in 1 .. Len(s) - 1 : Outer(s)[k] = s[k]
  BY OuterFrames
<1>2. /\ Append(Outer(s), f) \in Seq(Frames)
      /\ Len(Append(Outer(s), f)) = Len(s)
      /\ \A k \in 1 .. Len(s) - 1 : Append(Outer(s), f)[k] = Outer(s)[k]
      /\ Append(Outer(s), f)[Len(s)] = f
  BY <1>1, AppendProperties
<1> QED
  BY <1>1, <1>2

\* The loop over a chain goes on: only the last frame's counter and what it
\* knows of failures change.
LEMMA GoOnFrames ==
  ASSUME NEW s \in Seq(Frames), s # << >>, NEW failed \in BOOLEAN
  PROVE  /\ GoOn(s, failed) \in Seq(Frames)
         /\ Len(GoOn(s, failed)) = Len(s)
         /\ GoOn(s, failed) # << >>
         /\ \A k \in 1 .. Len(s) - 1 : GoOn(s, failed)[k] = s[k]
         /\ GoOn(s, failed)[Len(s)].chain = s[Len(s)].chain
         /\ GoOn(s, failed)[Len(s)].all = s[Len(s)].all
         /\ GoOn(s, failed)[Len(s)].i = s[Len(s)].i + 1
         /\ GoOn(s, failed)[Len(s)].failed = (s[Len(s)].failed \/ failed)
<1> DEFINE f == [s[Len(s)] EXCEPT !.i = @ + 1, !.failed = @ \/ failed]
<1>1. Len(s) \in Nat \ {0} /\ s[Len(s)] \in Frames
  BY OuterFrames
<1>2. /\ f \in Frames
      /\ f.chain = s[Len(s)].chain
      /\ f.all = s[Len(s)].all
      /\ f.i = s[Len(s)].i + 1
      /\ f.failed = (s[Len(s)].failed \/ failed)
  <2>1. s[Len(s)].i + 1 \in Nat /\ (s[Len(s)].failed \/ failed) \in BOOLEAN
    BY <1>1 DEF Frames
  <2> QED
    BY <1>1, <2>1 DEF Frames
<1>3. GoOn(s, failed) = Append(Outer(s), f)
  BY DEF GoOn
<1> HIDE DEF f
<1>4. /\ Append(Outer(s), f) \in Seq(Frames)
      /\ Len(Append(Outer(s), f)) = Len(s)
      /\ Append(Outer(s), f) # << >>
      /\ \A k \in 1 .. Len(s) : Append(Outer(s), f)[k] = IF k = Len(s) THEN f ELSE s[k]
  BY <1>2, ReplaceTop
<1> QED
  BY <1>1, <1>2, <1>3, <1>4

\* A nested call: one more frame.
LEMMA PushFrames ==
  ASSUME NEW s \in Seq(Frames), NEW f \in Frames
  PROVE  /\ Append(s, f) \in Seq(Frames)
         /\ Len(Append(s, f)) = Len(s) + 1
         /\ Append(s, f) # << >>
         /\ \A k \in 1 .. Len(s) + 1 : Append(s, f)[k] = IF k = Len(s) + 1 THEN f ELSE s[k]
BY AppendProperties, LenProperties

-----------------------------------------------------------------------------
(***************************************************************************)
(* What a chain contains.                                                  *)
(***************************************************************************)

\* A chain contains leaves and lesser chains only, also one that is being
\* added.
TargetsBelow ==
  \A c \in Chains : \A i \in 1 .. target_count[c] : TargetAt(c, i) \in Below(c)

AddingBelow ==
  \A t \in Threads : adding[t] # NULL =>
    /\ adding[t][2] \in Below(adding[t][1])
    /\ target_count[adding[t][1]] < MaxTargets[adding[t][1]]

\* A thread that sends to a chain within another is in the loop of the other,
\* at the position of the chain.
Nested ==
  \A t \in Threads : \A j, k \in DOMAIN stack[t] :
    j < k => stack[t][j].i > 0 /\ stack[t][k].chain < stack[t][j].chain

Calls ==
  \A t \in Threads : \A j, k \in DOMAIN stack[t] :
    j + 1 = k => stack[t][j].all[stack[t][j].i] = stack[t][k].chain

\* ChainStable for a chain that does not depend on the state.
Stable ==
  \A t \in Threads, c \in Chains : \A k \in DOMAIN stack[t] :
    stack[t][k].chain = c /\ stack[t][k].i > 0 => stack[t][k].all = Contents(c)

\* What a thread sends is an entry.
Entered ==
  \A t \in Threads : stack[t] # << >> => entry[t] \in DOMAIN entries

(***************************************************************************)
(* The inductive invariant behind ChainsLocked: the unlocking of a chain   *)
(* clears the only frame of that chain because the chains on a stack       *)
(* decrease, and they decrease because a chain contains lesser ones.       *)
(***************************************************************************)
LockInv ==
  /\ TypeOK
  /\ TargetsBelow
  /\ AddingBelow
  /\ LocksMatch
  /\ Stable
  /\ Nested
  /\ Calls
  /\ Entered

LEMMA BelowTargets ==
  ASSUME NEW c \in Chains
  PROVE  /\ Below(c) \subseteq Targets
         /\ \A d \in Chains : d \in Below(c) => d < c
BY ChainAssumption DEF Below, Targets

\* The array that a loop takes as what a chain contains.
LEMMA ContentsType ==
  ASSUME TypeOK, TargetsBelow, NEW c \in Chains
  PROVE  /\ Contents(c) \in Seq(Targets)
         /\ Len(Contents(c)) = target_count[c]
         /\ \A i \in 1 .. target_count[c] : Contents(c)[i] = TargetAt(c, i)
<1>1. \A i \in 1 .. target_count[c] : TargetAt(c, i) \in Targets
  BY BelowTargets DEF TargetsBelow
<1>2. target_count[c] \in Nat
  BY DEF TypeOK
<1>3. Contents(c) \in [1 .. target_count[c] -> Targets]
  BY <1>1 DEF Contents
<1>4. Contents(c) \in Seq(Targets)
  BY <1>2, <1>3
<1> QED
  BY <1>2, <1>4, LenProperties DEF Contents

LEMMA ContentsKept ==
  ASSUME UNCHANGED chains
  PROVE  \A c : /\ Contents(c)' = Contents(c)
                /\ \A i : TargetAt(c, i)' = TargetAt(c, i)
BY DEF chains, Contents, TargetAt

\* The target x is the last one of c; what the chain had before stays where it
\* was, and no other chain changes.
Appended(c, x) ==
  /\ c \in Chains /\ x \in Below(c)
  /\ target_count' = [target_count EXCEPT ![c] = @ + 1]
  /\ \A i \in 1 .. target_count[c] : TargetAt(c, i)' = TargetAt(c, i)
  /\ \A i : i = target_count[c] + 1 => TargetAt(c, i)' = x
  /\ \A d \in Chains \ {c} : /\ Contents(d)' = Contents(d)
                             /\ target_count'[d] = target_count[d]
                             /\ \A i : TargetAt(d, i)' = TargetAt(d, i)

\* So it is for a target that is added, in whichever of the two arrays.
LEMMA AppendTargetContents ==
  ASSUME LockInv, NEW t \in Threads, AppendTarget(t),
         NEW c, c = adding[t][1], NEW x, x = adding[t][2]
  PROVE  Appended(c, x)
<1> DEFINE n == target_count[c]
<1>1. adding[t] # NULL /\ adding[t] \in Chains \X Targets
  BY DEF LockInv, TypeOK, AppendTarget
<1>2. /\ c \in Chains /\ x \in Below(c) /\ x \in Targets
      /\ n \in Nat /\ ArrayLength \in Nat
      /\ overflow_targets[c] \in Seq(Targets)
      /\ targets[c] \in [1 .. ArrayLength -> Targets \cup {NULL}]
      /\ Len(overflow_targets[c]) = IF n > ArrayLength THEN n - ArrayLength ELSE 0
  BY <1>1, ChainAssumption DEF LockInv, TypeOK, AddingBelow
<1>3. target_count' = [target_count EXCEPT ![c] = @ + 1]
  BY DEF AppendTarget
<1>4. \/ /\ n >= ArrayLength
         /\ overflow_targets' = [overflow_targets EXCEPT ![c] = Append(@, x)]
         /\ UNCHANGED targets
      \/ /\ n < ArrayLength
         /\ targets' = [targets EXCEPT ![c][n + 1] = x]
         /\ UNCHANGED overflow_targets
  BY DEF AppendTarget
<1>5. /\ targets \in [Chains -> [1 .. ArrayLength -> Targets \cup {NULL}]]
      /\ overflow_targets \in [Chains -> Seq(Targets)]
      /\ target_count \in [Chains -> Nat]
  BY DEF LockInv, TypeOK
<1> HIDE DEF n
<1>6. /\ \A i \in 1 .. n : TargetAt(c, i)' = TargetAt(c, i)
      /\ \A i : i = n + 1 => TargetAt(c, i)' = x
  <2>1. CASE n >= ArrayLength
    <3>1. /\ overflow_targets'[c] = Append(overflow_targets[c], x)
          /\ targets'[c] = targets[c]
          /\ Len(overflow_targets[c]) = n - ArrayLength
      BY <1>2, <1>4, <1>5, <2>1
    <3>2. /\ \A i \in 1 .. n - ArrayLength : overflow_targets'[c][i] = overflow_targets[c][i]
          /\ overflow_targets'[c][n - ArrayLength + 1] = x
      <4> DEFINE q == overflow_targets[c]
      <4>1. q \in Seq(Targets) /\ x \in Targets /\ Len(q) = n - ArrayLength
        BY <1>2, <3>1
      <4> HIDE DEF q
      <4>2. /\ \A i \in 1 .. Len(q) : Append(q, x)[i] = q[i]
            /\ Append(q, x)[Len(q) + 1] = x
        BY <4>1, AppendProperties
      <4>3. overflow_targets'[c] = Append(q, x) /\ overflow_targets[c] = q
        BY <3>1 DEF q
      <4> QED
        BY <4>1, <4>2, <4>3
    <3>3. ASSUME NEW i \in 1 .. n PROVE TargetAt(c, i)' = TargetAt(c, i)
      <4>1. CASE i <= ArrayLength
        BY <3>1, <4>1 DEF TargetAt
      <4>2. CASE i > ArrayLength
        <5>1. i - ArrayLength \in 1 .. n - ArrayLength
          BY <1>2, <4>2
        <5> QED
          BY <1>2, <3>2, <4>2, <5>1 DEF TargetAt
      <4> QED
        BY <1>2, <4>1, <4>2
    <3>4. ASSUME NEW i, i = n + 1 PROVE TargetAt(c, i)' = x
      <4>1. ~(i <= ArrayLength) /\ i - ArrayLength = n - ArrayLength + 1
        BY <1>2, <2>1, <3>4
      <4> QED
        BY <3>2, <4>1 DEF TargetAt
    <3> QED
      BY <3>3, <3>4
  <2>2. CASE n < ArrayLength
    <3>1. /\ targets'[c] = [targets[c] EXCEPT ![n + 1] = x]
          /\ n + 1 \in 1 .. ArrayLength
      BY <1>2, <1>4, <1>5, <2>2
    <3>2. targets'[c][n + 1] = x /\ \A i \in 1 .. n : targets'[c][i] = targets[c][i]
      BY <1>2, <2>2, <3>1
    <3> QED
      BY <1>2, <2>2, <3>2 DEF TargetAt
  <2> QED
    BY <1>2, <2>1, <2>2
<1>7. ASSUME NEW d \in Chains \ {c}
      PROVE  /\ Contents(d)' = Contents(d)
             /\ target_count'[d] = target_count[d]
             /\ \A i : TargetAt(d, i)' = TargetAt(d, i)
  <2>1. targets'[d] = targets[d] /\ overflow_targets'[d] = overflow_targets[d]
    BY <1>4, <1>5
  <2>2. target_count'[d] = target_count[d]
    BY <1>3, <1>5
  <2>3. \A i : TargetAt(d, i)' = TargetAt(d, i)
    BY <2>1 DEF TargetAt
  <2> QED
    BY <2>2, <2>3 DEF Contents
<1> QED
  BY <1>2, <1>3, <1>6, <1>7 DEF n, Appended

-----------------------------------------------------------------------------
(***************************************************************************)
(* What the steps of a thread that sends do to its stack.                  *)
(***************************************************************************)

\* The stack of t changes to s and no other one does.
OnlyStack(t, s) ==
  /\ stack' \in [Threads -> Seq(Frames)]
  /\ stack'[t] = s
  /\ \A u \in Threads \ {t} : stack'[u] = stack[u]

LEMMA StackChanged ==
  ASSUME TypeOK, NEW t \in Threads, NEW s \in Seq(Frames), stack' = [stack EXCEPT ![t] = s]
  PROVE  OnlyStack(t, s)
BY DEF TypeOK, OnlyStack

\* The domain of a stack is that of its frames.
LEMMA StackDomain ==
  ASSUME NEW s \in Seq(Frames)
  PROVE  DOMAIN s = 1 .. Len(s) /\ Len(s) \in Nat /\ \A k \in 1 .. Len(s) : s[k] \in Frames
BY LenProperties, ElementOfSeq

LEMMA SendingStack ==
  ASSUME TypeOK, NEW t \in Threads, Sending(t)
  PROVE  /\ stack[t] \in Seq(Frames) /\ stack[t] # << >>
         /\ Len(stack[t]) \in Nat \ {0}
         /\ Top(t) = stack[t][Len(stack[t])]
         /\ Top(t) \in Frames
<1>1. stack[t] \in Seq(Frames) /\ stack[t] # << >>
  BY DEF TypeOK, Sending
<1> QED
  BY <1>1, OuterFrames DEF Top

\* LockChain changes the last frame.
LEMMA LockChainStack ==
  ASSUME TypeOK, TargetsBelow, NEW t \in Threads, LockChain(t)
  PROVE  LET n == Len(stack[t])
         IN  /\ stack[t] \in Seq(Frames) /\ n \in Nat \ {0}
             /\ \E s \in Seq(Frames) :
                  /\ OnlyStack(t, s)
                  /\ Len(s) = n
                  /\ \A k \in 1 .. n - 1 : s[k] = stack[t][k]
                  /\ s[n].chain = stack[t][n].chain
                  /\ s[n].i = 1
                  /\ s[n].failed = stack[t][n].failed
                  /\ s[n].all = Contents(stack[t][n].chain)
<1> DEFINE f == Top(t)
           g == [f EXCEPT !.i = 1, !.all = Contents(f.chain)]
           s == Append(Outer(stack[t]), g)
<1>1. /\ stack[t] \in Seq(Frames) /\ stack[t] # << >>
      /\ Len(stack[t]) \in Nat \ {0}
      /\ f = stack[t][Len(stack[t])] /\ f \in Frames
  BY SendingStack DEF LockChain
<1>2. Contents(f.chain) \in Seq(Targets) /\ 1 \in Nat
  <2>1. f.chain \in Chains
    BY <1>1 DEF Frames
  <2> QED
    BY <2>1, ContentsType
<1>3. /\ g \in Frames
      /\ g.chain = f.chain /\ g.i = 1 /\ g.failed = f.failed /\ g.all = Contents(f.chain)
  <2> DEFINE d == Contents(f.chain)
  <2>1. d \in Seq(Targets)
    BY <1>2
  <2>2. g = [f EXCEPT !.i = 1, !.all = d]
    OBVIOUS
  <2> HIDE DEF d, f
  <2>3. /\ [f EXCEPT !.i = 1, !.all = d] \in Frames
        /\ [f EXCEPT !.i = 1, !.all = d].chain = f.chain
        /\ [f EXCEPT !.i = 1, !.all = d].i = 1
        /\ [f EXCEPT !.i = 1, !.all = d].failed = f.failed
        /\ [f EXCEPT !.i = 1, !.all = d].all = d
    BY <1>1, <1>2, <2>1 DEF Frames
  <2> QED
    BY <2>2, <2>3 DEF d
<1>4. stack' = [stack EXCEPT ![t] = s]
  BY DEF LockChain
<1> HIDE DEF g
<1>5. /\ s \in Seq(Frames) /\ Len(s) = Len(stack[t])
      /\ \A k \in 1 .. Len(stack[t]) : s[k] = IF k = Len(stack[t]) THEN g ELSE stack[t][k]
  BY <1>1, <1>3, ReplaceTop
<1> HIDE DEF s
<1>6. OnlyStack(t, s)
  BY <1>4, <1>5, StackChanged
<1>7. /\ s[Len(stack[t])] = g
      /\ \A k \in 1 .. Len(stack[t]) - 1 : s[k] = stack[t][k]
  BY <1>1, <1>5
<1> HIDE DEF f
<1> QED
  BY <1>1, <1>3, <1>5, <1>6, <1>7

\* A frame goes on: what GoOn does, as what the invariants speak of.
WentOn(s, t, m, failed) ==
  /\ Len(s) = m
  /\ \A k \in 1 .. m - 1 : s[k] = stack[t][k]
  /\ s[m].chain = stack[t][m].chain
  /\ s[m].all = stack[t][m].all
  /\ s[m].i = stack[t][m].i + 1
  /\ s[m].failed = (stack[t][m].failed \/ failed)

LEMMA GoOnStack ==
  ASSUME TypeOK, NEW t \in Threads, Sending(t), NEW failed \in BOOLEAN,
         stack' = [stack EXCEPT ![t] = GoOn(@, failed)]
  PROVE  \E s \in Seq(Frames) : OnlyStack(t, s) /\ WentOn(s, t, Len(stack[t]), failed)
<1>1. stack[t] \in Seq(Frames) /\ stack[t] # << >>
  BY SendingStack
<1> DEFINE s == GoOn(stack[t], failed)
<1>2. stack' = [stack EXCEPT ![t] = s]
  OBVIOUS
<1>3. s \in Seq(Frames) /\ WentOn(s, t, Len(stack[t]), failed)
  BY <1>1, GoOnFrames DEF WentOn
<1> HIDE DEF s
<1>4. OnlyStack(t, s)
  BY <1>2, <1>3, StackChanged
<1> QED
  BY <1>3, <1>4

\* A nested call pushes a frame.
LEMMA SendToChainStack ==
  ASSUME TypeOK, NEW t \in Threads, NEW d \in Chains, SendToChain(t, d)
  PROVE  \E s \in Seq(Frames) :
           /\ OnlyStack(t, s)
           /\ Len(s) = Len(stack[t]) + 1
           /\ \A k \in 1 .. Len(stack[t]) : s[k] = stack[t][k]
           /\ s[Len(s)] = Frame(d)
<1>1. stack[t] \in Seq(Frames) /\ Len(stack[t]) \in Nat
  BY SendingStack DEF SendToChain, At
<1> DEFINE s == Append(stack[t], Frame(d))
<1>2. stack' = [stack EXCEPT ![t] = s]
  BY DEF SendToChain
<1>3. /\ s \in Seq(Frames) /\ Len(s) = Len(stack[t]) + 1
      /\ \A k \in 1 .. Len(stack[t]) + 1 : s[k] = IF k = Len(stack[t]) + 1 THEN Frame(d) ELSE stack[t][k]
  BY <1>1, FrameType, PushFrames
<1> HIDE DEF s
<1>4. OnlyStack(t, s)
  BY <1>2, <1>3, StackChanged
<1> QED
  BY <1>1, <1>3, <1>4

\* The end of a call: the frame is gone, and the one below it goes on.
LEMMA UnlockChainStack ==
  ASSUME TypeOK, NEW t \in Threads, UnlockChain(t)
  PROVE  \E s \in Seq(Frames) :
           /\ OnlyStack(t, s)
           /\ Len(stack[t]) = 1 => s = << >>
           /\ Len(stack[t]) > 1 => WentOn(s, t, Len(stack[t]) - 1, stack[t][Len(stack[t])].failed)
<1> DEFINE n == Len(stack[t])
           o == Outer(stack[t])
           b == Top(t).failed
           s == IF o = << >> THEN o ELSE GoOn(o, b)
<1>1. /\ stack[t] \in Seq(Frames) /\ stack[t] # << >>
      /\ n \in Nat \ {0} /\ Top(t) = stack[t][n] /\ Top(t) \in Frames
  BY SendingStack DEF UnlockChain
<1>2. /\ o \in Seq(Frames) /\ Len(o) = n - 1
      /\ \A k \in 1 .. n - 1 : o[k] = stack[t][k]
  BY <1>1, OuterFrames
<1>3. b \in BOOLEAN
  BY <1>1 DEF Frames
<1>4. stack' = [stack EXCEPT ![t] = s]
  BY DEF UnlockChain
<1>b. b = stack[t][n].failed
  BY <1>1
<1> HIDE DEF o, b
<1>5. CASE n = 1
  <2>1. o = << >>
    BY <1>2, <1>5, EmptySeq
  <2>2. s = << >> /\ s \in Seq(Frames)
    BY <1>2, <2>1
  <2> HIDE DEF s
  <2>3. OnlyStack(t, s)
    BY <1>4, <2>2, StackChanged
  <2>4. n = 1 => s = << >>
    BY <2>2
  <2>5. n > 1 => WentOn(s, t, n - 1, stack[t][n].failed)
    BY <1>5
  <2> QED
    BY <2>2, <2>3, <2>4, <2>5
<1>6. CASE n > 1
  <2>1. o # << >>
    BY <1>1, <1>2, <1>6, EmptySeq
  <2>2. s = GoOn(o, b)
    BY <2>1
  <2>3. /\ s \in Seq(Frames)
        /\ Len(s) = Len(o)
        /\ \A k \in 1 .. Len(o) - 1 : s[k] = o[k]
        /\ s[Len(o)].chain = o[Len(o)].chain
        /\ s[Len(o)].all = o[Len(o)].all
        /\ s[Len(o)].i = o[Len(o)].i + 1
        /\ s[Len(o)].failed = (o[Len(o)].failed \/ b)
    BY <1>2, <1>3, <2>1, <2>2, GoOnFrames
  <2> HIDE DEF s
  <2>4. OnlyStack(t, s)
    BY <1>4, <2>3, StackChanged
  <2>5. o[n - 1] = stack[t][n - 1] /\ \A k \in 1 .. n - 2 : o[k] = stack[t][k]
    BY <1>1, <1>2, <1>6
  <2>6. WentOn(s, t, n - 1, b)
    BY <1>1, <1>2, <2>3, <2>5 DEF WentOn
  <2>7. n = 1 => s = << >>
    BY <1>6
  <2>8. WentOn(s, t, n - 1, stack[t][n].failed)
    BY <1>b, <2>6
  <2> QED
    BY <2>3, <2>4, <2>7, <2>8
<1>7. n \in Nat \ {0}
  BY <1>1
<1> HIDE DEF n
<1>8. n = 1 \/ n > 1
  BY <1>7
<1> QED
  BY <1>5, <1>6, <1>8, Zenon

-----------------------------------------------------------------------------
(***************************************************************************)
(* LockInv is inductive, action by action.                                 *)
(***************************************************************************)

\* A step that leaves the chains alone, and adds nothing.
LEMMA ChainsKept ==
  ASSUME LockInv, UNCHANGED << chains, adding >>
  PROVE  TargetsBelow' /\ AddingBelow'
<1>1. target_count' = target_count /\ adding' = adding
  BY DEF chains
<1>2. TargetsBelow'
  BY <1>1, ContentsKept DEF LockInv, TargetsBelow
<1>3. AddingBelow'
  BY <1>1 DEF LockInv, AddingBelow, Below
<1> QED
  BY <1>2, <1>3

\* A step that leaves the stacks and the chains alone.
LEMMA StacksKept ==
  ASSUME LockInv, UNCHANGED << chains, stack, entries >>,
         \A t \in Threads : stack[t] # << >> => entry'[t] = entry[t]
  PROVE  Stable' /\ Nested' /\ Calls' /\ Entered'
<1>1. stack' = stack
  OBVIOUS
<1>2. Stable'
  BY <1>1, ContentsKept DEF LockInv, Stable
<1>3. Nested' /\ Calls' /\ Entered'
  BY <1>1 DEF LockInv, Nested, Calls, Entered
<1> QED
  BY <1>2, <1>3

LEMMA AddTargetLockInv ==
  ASSUME LockInv, NEW t \in Threads, NEW c \in Chains, AddTarget(t, c)
  PROVE  LockInv'
<1>1. PICK x \in Below(c) : adding' = [adding EXCEPT ![t] = << c, x >>]
  BY DEF AddTarget
<1>2. x \in Targets
  BY BelowTargets
<1>3. TypeOK'
  BY <1>1, <1>2 DEF LockInv, TypeOK, AddTarget, chains
<1>4. TargetsBelow'
  BY ContentsKept DEF LockInv, TargetsBelow, AddTarget, chains
<1>5. AddingBelow'
  BY <1>1 DEF LockInv, TypeOK, AddingBelow, AddTarget, Below, chains
<1>6. LocksMatch'
  <2> SUFFICES ASSUME NEW u \in Threads, NEW d \in Chains
               PROVE  target_lock'[d] = u <=> adding'[u] # NULL /\ adding'[u][1] = d
    BY DEF LockInv, LocksMatch, AddTarget
  <2>1. /\ adding'[t] = << c, x >> /\ adding'[t] # NULL /\ adding[t] = NULL
        /\ target_lock'[c] = t /\ target_lock[c] = NULL
        /\ NULL \notin Threads
    <3>1. adding[t] = NULL /\ target_lock[c] = NULL /\ NULL \notin Threads
      BY ChainAssumption DEF AddTarget, Idle
    <3>2. adding'[t] = << c, x >> /\ target_lock'[c] = t
      BY <1>1 DEF LockInv, TypeOK, AddTarget
    <3>3. << c, x >> # NULL
      BY <1>2, ChainAssumption DEF Targets
    <3> QED
      BY <3>1, <3>2, <3>3
  <2>2. /\ u # t => adding'[u] = adding[u]
        /\ d # c => target_lock'[d] = target_lock[d]
    BY <1>1 DEF LockInv, TypeOK, AddTarget
  <2>3. target_lock[d] = u <=> adding[u] # NULL /\ adding[u][1] = d
    BY DEF LockInv, LocksMatch
  <2> QED
    BY <2>1, <2>2, <2>3
<1> QED
  BY <1>3, <1>4, <1>5, <1>6, StacksKept DEF AddTarget, LockInv

\* The end of an addition gives back the mutex of the target.
LEMMA AddedLocks ==
  ASSUME LockInv, NEW t \in Threads, NEW c \in Chains, adding[t] # NULL, c = adding[t][1],
         target_lock' = [target_lock EXCEPT ![c] = NULL],
         adding' = [adding EXCEPT ![t] = NULL],
         UNCHANGED << chain_mutex, stack >>
  PROVE  LocksMatch'
<1> SUFFICES ASSUME NEW u \in Threads, NEW d \in Chains
             PROVE  target_lock'[d] = u <=> adding'[u] # NULL /\ adding'[u][1] = d
  BY DEF LockInv, LocksMatch
<1>1. adding'[t] = NULL /\ target_lock'[c] = NULL /\ target_lock[c] = t /\ NULL \notin Threads
  BY ChainAssumption DEF LockInv, TypeOK, LocksMatch
<1>2. /\ u # t => adding'[u] = adding[u]
      /\ d # c => target_lock'[d] = target_lock[d]
  BY DEF LockInv, TypeOK
<1>3. /\ target_lock[d] = u <=> adding[u] # NULL /\ adding[u][1] = d
      /\ target_lock[c] = u <=> adding[u] # NULL /\ adding[u][1] = c
  BY DEF LockInv, LocksMatch
<1> QED
  BY <1>1, <1>2, <1>3

LEMMA AppendFailsLockInv ==
  ASSUME LockInv, NEW t \in Threads, AppendFails(t)
  PROVE  LockInv'
<1>1. PICK c : c = adding[t][1]
  OBVIOUS
<1>2. c \in Chains /\ adding[t] # NULL
  BY <1>1 DEF LockInv, TypeOK, AppendFails
<1>3. /\ target_lock' = [target_lock EXCEPT ![c] = NULL]
      /\ adding' = [adding EXCEPT ![t] = NULL]
      /\ UNCHANGED << chains, chain_mutex, log, entries, stack, entry, last >>
  BY <1>1 DEF AppendFails, Added
<1>4. TypeOK'
  BY <1>2, <1>3 DEF LockInv, TypeOK, chains
<1>5. TargetsBelow'
  BY <1>3, ContentsKept DEF LockInv, TargetsBelow, chains
<1>6. AddingBelow'
  BY <1>3 DEF LockInv, TypeOK, AddingBelow, Below, chains
<1>7. LocksMatch'
  BY <1>1, <1>2, <1>3, AddedLocks
<1> QED
  BY <1>3, <1>4, <1>5, <1>6, <1>7, StacksKept DEF LockInv

LEMMA DoneLockInv ==
  ASSUME LockInv, NEW t \in Threads, Done(t)
  PROVE  LockInv'
<1>1. TypeOK'
  BY DEF LockInv, TypeOK, Done, chains, locks
<1>2. LocksMatch'
  BY DEF LockInv, LocksMatch, Done, locks
<1>3. \A u \in Threads : stack[u] # << >> => entry'[u] = entry[u]
  BY DEF LockInv, TypeOK, Done
<1> QED
  BY <1>1, <1>2, <1>3, StacksKept, ChainsKept DEF LockInv, Done

LEMMA AppendTargetLockInv ==
  ASSUME LockInv, NEW t \in Threads, AppendTarget(t)
  PROVE  LockInv'
<1>1. PICK c, x : c = adding[t][1] /\ x = adding[t][2]
  OBVIOUS
<1>a. Appended(c, x)
  BY <1>1, AppendTargetContents, Zenon
<1>2. /\ c \in Chains /\ x \in Below(c)
      /\ target_count' = [target_count EXCEPT ![c] = @ + 1]
      /\ \A i \in 1 .. target_count[c] : TargetAt(c, i)' = TargetAt(c, i)
      /\ \A i : i = target_count[c] + 1 => TargetAt(c, i)' = x
      /\ \A d \in Chains \ {c} : /\ Contents(d)' = Contents(d)
                                 /\ target_count'[d] = target_count[d]
                                 /\ \A i : TargetAt(d, i)' = TargetAt(d, i)
  BY <1>a DEF Appended
<1>3. /\ adding[t] # NULL
      /\ chain_mutex[c] = NULL
      /\ target_lock' = [target_lock EXCEPT ![c] = NULL]
      /\ adding' = [adding EXCEPT ![t] = NULL]
      /\ UNCHANGED << chain_mutex, log, entries, stack, entry, last >>
  BY <1>1 DEF AppendTarget, Added
<1>4. x \in Targets
  BY <1>2, BelowTargets
<1>n. target_count[c] \in Nat /\ target_count[c] < MaxTargets[c] /\ MaxTargets[c] \in Nat
  BY <1>1, <1>2, <1>3, ChainAssumption DEF LockInv, TypeOK, AddingBelow
<1>5. TypeOK'
  <2>1. /\ targets' \in [Chains -> [1 .. ArrayLength -> Targets \cup {NULL}]]
        /\ overflow_targets' \in [Chains -> Seq(Targets)]
        /\ \A d \in Chains :
             Len(overflow_targets'[d]) =
               IF target_count'[d] > ArrayLength THEN target_count'[d] - ArrayLength ELSE 0
    <3>1. CASE /\ target_count[c] >= ArrayLength
               /\ overflow_targets' = [overflow_targets EXCEPT ![c] = Append(@, x)]
               /\ UNCHANGED targets
      <4>1. Append(overflow_targets[c], x) \in Seq(Targets)
        BY <1>2, <1>4, AppendProperties DEF LockInv, TypeOK
      <4>2. Len(Append(overflow_targets[c], x)) = target_count[c] + 1 - ArrayLength
        <5>1. Len(overflow_targets[c]) = target_count[c] - ArrayLength
          BY <1>2, <3>1, <1>n, ChainAssumption DEF LockInv, TypeOK
        <5>2. Len(Append(overflow_targets[c], x)) = Len(overflow_targets[c]) + 1
          BY <1>2, <1>4, AppendProperties DEF LockInv, TypeOK
        <5> QED
          BY <1>n, <5>1, <5>2, ChainAssumption
      <4> DEFINE q == Append(overflow_targets[c], x)
      <4>3. overflow_targets' = [overflow_targets EXCEPT ![c] = q]
        BY <3>1
      <4> HIDE DEF q
      <4>4. overflow_targets' \in [Chains -> Seq(Targets)]
        BY <1>2, <4>1, <4>3 DEF LockInv, TypeOK, q
      <4>5. ASSUME NEW d \in Chains
            PROVE  Len(overflow_targets'[d]) =
                     IF target_count'[d] > ArrayLength THEN target_count'[d] - ArrayLength ELSE 0
        <5>1. CASE d = c
          <6>1. Len(overflow_targets'[d]) = target_count[c] + 1 - ArrayLength
            BY <1>2, <4>2, <4>3, <5>1 DEF LockInv, TypeOK, q
          <6>2. target_count'[d] = target_count[c] + 1
            BY <1>2, <5>1 DEF LockInv, TypeOK
          <6> QED
            BY <3>1, <6>1, <6>2, <1>n, ChainAssumption
        <5>2. CASE d # c
          BY <1>2, <4>3, <5>2 DEF LockInv, TypeOK
        <5> QED
          BY <5>1, <5>2
      <4> QED
        BY <3>1, <4>4, <4>5 DEF LockInv, TypeOK
    <3>2. CASE /\ target_count[c] < ArrayLength
               /\ targets' = [targets EXCEPT ![c][target_count[c] + 1] = x]
               /\ UNCHANGED overflow_targets
      <4>1. targets' \in [Chains -> [1 .. ArrayLength -> Targets \cup {NULL}]]
        BY <1>2, <1>4, <1>n, <3>2, ChainAssumption DEF LockInv, TypeOK
      <4>2. ASSUME NEW d \in Chains
            PROVE  Len(overflow_targets'[d]) =
                     IF target_count'[d] > ArrayLength THEN target_count'[d] - ArrayLength ELSE 0
        <5>1. /\ overflow_targets'[d] = overflow_targets[d]
              /\ Len(overflow_targets[d]) =
                   IF target_count[d] > ArrayLength THEN target_count[d] - ArrayLength ELSE 0
          BY <3>2 DEF LockInv, TypeOK
        <5>2. CASE d = c
          <6>1. target_count'[d] = target_count[c] + 1
            BY <1>2, <5>2 DEF LockInv, TypeOK
          <6> QED
            BY <1>n, <3>2, <5>1, <5>2, <6>1, ChainAssumption
        <5>3. CASE d # c
          BY <1>2, <5>1, <5>3
        <5> QED
          BY <5>2, <5>3
      <4> QED
        BY <3>2, <4>1, <4>2 DEF LockInv, TypeOK
    <3> QED
      BY <1>1, <3>1, <3>2 DEF AppendTarget
  <2>2. target_count' \in [Chains -> Nat] /\ \A d \in Chains : target_count'[d] <= MaxTargets[d]
    BY <1>2, <1>n, ChainAssumption DEF LockInv, TypeOK
  <2>3. target_lock' \in [Chains -> Threads \cup {NULL}]
    BY <1>2, <1>3 DEF LockInv, TypeOK
  <2>4. adding' \in [Threads -> (Chains \X Targets) \cup {NULL}]
    BY <1>3 DEF LockInv, TypeOK
  <2> QED
    BY <1>3, <2>1, <2>2, <2>3, <2>4 DEF LockInv, TypeOK
<1>6. TargetsBelow'
  <2> SUFFICES ASSUME NEW d \in Chains, NEW i \in 1 .. target_count'[d]
               PROVE  TargetAt(d, i)' \in Below(d)
    BY DEF TargetsBelow
  <2>1. CASE d = c
    <3>1. target_count'[d] = target_count[c] + 1
      BY <1>2, <2>1 DEF LockInv, TypeOK
    <3>2. i \in 1 .. target_count[c] \/ i = target_count[c] + 1
      BY <3>1, <1>n
    <3> QED
      BY <1>2, <2>1, <3>2 DEF LockInv, TargetsBelow
  <2>2. CASE d # c
    BY <1>2, <2>2 DEF LockInv, TargetsBelow
  <2> QED
    BY <2>1, <2>2
<1>7. AddingBelow'
  \* No other thread adds to c, because its mutex is held.
  <2> SUFFICES ASSUME NEW u \in Threads, adding'[u] # NULL
               PROVE  /\ adding'[u][2] \in Below(adding'[u][1])
                      /\ target_count'[adding'[u][1]] < MaxTargets[adding'[u][1]]
    BY DEF AddingBelow, Below
  <2>1. u # t /\ adding'[u] = adding[u] /\ adding[u] # NULL /\ adding[u] \in Chains \X Targets
    BY <1>3 DEF LockInv, TypeOK
  <2>2. adding[u][1] # c
    BY <1>1, <1>2, <1>3, <2>1 DEF LockInv, LocksMatch
  <2> QED
    BY <1>2, <2>1, <2>2 DEF LockInv, AddingBelow
<1>8. LocksMatch'
  BY <1>1, <1>2, <1>3, AddedLocks
<1>9. Stable'
  \* No loop is in c, because its mutex is free.
  <2> SUFFICES ASSUME NEW u \in Threads, NEW d \in Chains, NEW k \in DOMAIN stack[u],
                      stack[u][k].chain = d, stack[u][k].i > 0
               PROVE  stack[u][k].all = Contents(d)'
    BY <1>3 DEF Stable
  <2>1. d # c
    BY <1>2, <1>3, ChainAssumption DEF LockInv, LocksMatch
  <2> QED
    BY <1>2, <2>1 DEF LockInv, Stable
<1>10. Nested' /\ Calls' /\ Entered'
  BY <1>3 DEF LockInv, Nested, Calls, Entered
<1> QED
  BY <1>5, <1>6, <1>7, <1>8, <1>9, <1>10 DEF LockInv

\* What is left to show of a step that changes one stack: the frames of that
\* stack, and the mutexes of its thread.
LEMMA StackSuffices ==
  ASSUME LockInv, NEW t \in Threads, NEW s \in Seq(Frames), OnlyStack(t, s),
         UNCHANGED << chains, target_lock, adding >>,
         DOMAIN entries \subseteq DOMAIN entries',
         \A u \in Threads \ {t} : entry'[u] = entry[u],
         entry'[t] \in DOMAIN entries',
         \A c \in Chains, k \in 1 .. Len(s) :
           s[k].chain = c /\ s[k].i > 0 => s[k].all = Contents(c),
         \A j, k \in 1 .. Len(s) : j < k => s[j].i > 0 /\ s[k].chain < s[j].chain,
         \A j, k \in 1 .. Len(s) : j + 1 = k => s[j].all[s[j].i] = s[k].chain,
         \A c \in Chains : /\ \A u \in Threads \ {t} : chain_mutex'[c] = u <=> chain_mutex[c] = u
                           /\ chain_mutex'[c] = t <=>
                                \E k \in 1 .. Len(s) : s[k].chain = c /\ s[k].i > 0
  PROVE  TargetsBelow' /\ AddingBelow' /\ LocksMatch' /\ Stable' /\ Nested' /\ Calls' /\ Entered'
<1>1. DOMAIN s = 1 .. Len(s)
  BY StackDomain
<1>2. stack'[t] = s /\ \A u \in Threads \ {t} : stack'[u] = stack[u]
  BY DEF OnlyStack
<1>3. Stable'
  <2> SUFFICES ASSUME NEW u \in Threads, NEW c \in Chains, NEW k \in DOMAIN stack'[u],
                      stack'[u][k].chain = c, stack'[u][k].i > 0
               PROVE  stack'[u][k].all = Contents(c)'
    BY DEF Stable
  <2>1. Contents(c)' = Contents(c)
    BY ContentsKept
  <2>2. CASE u = t
    BY <1>1, <1>2, <2>1, <2>2
  <2>3. CASE u # t
    BY <1>2, <2>1, <2>3 DEF LockInv, Stable
  <2> QED
    BY <2>2, <2>3
<1>4. Nested'
  <2> SUFFICES ASSUME NEW u \in Threads, NEW j \in DOMAIN stack'[u], NEW k \in DOMAIN stack'[u], j < k
               PROVE  stack'[u][j].i > 0 /\ stack'[u][k].chain < stack'[u][j].chain
    BY DEF Nested
  <2>1. CASE u = t
    BY <1>1, <1>2, <2>1
  <2>2. CASE u # t
    BY <1>2, <2>2 DEF LockInv, Nested
  <2> QED
    BY <2>1, <2>2
<1>5. Calls'
  <2> SUFFICES ASSUME NEW u \in Threads, NEW j \in DOMAIN stack'[u], NEW k \in DOMAIN stack'[u],
                      j + 1 = k
               PROVE  stack'[u][j].all[stack'[u][j].i] = stack'[u][k].chain
    BY DEF Calls
  <2>1. CASE u = t
    BY <1>1, <1>2, <2>1
  <2>2. CASE u # t
    BY <1>2, <2>2 DEF LockInv, Calls
  <2> QED
    BY <2>1, <2>2
<1>6. LocksMatch'
  <2> SUFFICES ASSUME NEW u \in Threads, NEW c \in Chains
               PROVE  chain_mutex'[c] = u <=>
                        \E k \in DOMAIN stack'[u] : stack'[u][k].chain = c /\ stack'[u][k].i > 0
    BY DEF LockInv, LocksMatch
  <2>1. CASE u = t
    BY <1>1, <1>2, <2>1
  <2>2. CASE u # t
    BY <1>2, <2>2 DEF LockInv, LocksMatch
  <2> QED
    BY <2>1, <2>2
<1>7. Entered'
  BY <1>2 DEF LockInv, Entered
<1> QED
  BY <1>3, <1>4, <1>5, <1>6, <1>7, ChainsKept

\* What LockInv says of the frames of one thread.
LEMMA FramesOf ==
  ASSUME LockInv, NEW t \in Threads
  PROVE  /\ stack[t] \in Seq(Frames)
         /\ Len(stack[t]) \in Nat
         /\ \A k \in 1 .. Len(stack[t]) : stack[t][k] \in Frames
         /\ \A c \in Chains, k \in 1 .. Len(stack[t]) :
              stack[t][k].chain = c /\ stack[t][k].i > 0 => stack[t][k].all = Contents(c)
         /\ \A j, k \in 1 .. Len(stack[t]) :
              j < k => stack[t][j].i > 0 /\ stack[t][k].chain < stack[t][j].chain
         /\ \A j, k \in 1 .. Len(stack[t]) :
              j + 1 = k => stack[t][j].all[stack[t][j].i] = stack[t][k].chain
         /\ \A c \in Chains :
              chain_mutex[c] = t <=> \E k \in 1 .. Len(stack[t]) : stack[t][k].chain = c /\ stack[t][k].i > 0
<1>1. stack[t] \in Seq(Frames)
  BY DEF LockInv, TypeOK
<1>2. /\ DOMAIN stack[t] = 1 .. Len(stack[t]) /\ Len(stack[t]) \in Nat
      /\ \A k \in 1 .. Len(stack[t]) : stack[t][k] \in Frames
  BY <1>1, StackDomain
<1> QED
  BY <1>1, <1>2 DEF LockInv, Stable, Nested, Calls, LocksMatch

LEMMA AddEntryLockInv ==
  ASSUME LockInv, NEW t \in Threads, NEW c \in Chains, AddEntry(t, c)
  PROVE  LockInv'
<1> DEFINE s == << Frame(c) >>
<1>1. s \in Seq(Frames) /\ Len(s) = 1 /\ s[1].i = 0
  <2> DEFINE f == Frame(c)
  <2>1. f \in Frames /\ f.i = 0
    BY FrameType
  <2> HIDE DEF f
  <2>2. << f >> \in Seq(Frames) /\ Len(<< f >>) = 1 /\ << f >>[1] = f
    BY <2>1
  <2> QED
    BY <2>1, <2>2 DEF f
<1>2. stack' = [stack EXCEPT ![t] = s]
  BY DEF AddEntry
<1>3. stack[t] = << >> /\ Len(stack[t]) = 0
  BY DEF AddEntry, Idle
<1> HIDE DEF s
<1>4. OnlyStack(t, s)
  BY <1>1, <1>2, StackChanged DEF LockInv
<1>5. \A d \in Chains : chain_mutex[d] # t
  BY <1>3, FramesOf
<1>6. /\ entries' \in Seq(Chains) /\ Len(entries') = Len(entries) + 1 /\ Len(entries) \in Nat
      /\ DOMAIN entries = 1 .. Len(entries) /\ DOMAIN entries' = 1 .. Len(entries) + 1
  BY AppendProperties, LenProperties DEF LockInv, TypeOK, AddEntry
<1>7. TargetsBelow' /\ AddingBelow' /\ LocksMatch' /\ Stable' /\ Nested' /\ Calls' /\ Entered'
  <2>1. UNCHANGED << chains, target_lock, adding, chain_mutex >>
    BY DEF AddEntry, locks
  <2>2. /\ DOMAIN entries \subseteq DOMAIN entries'
        /\ \A u \in Threads \ {t} : entry'[u] = entry[u]
        /\ entry'[t] \in DOMAIN entries'
    BY <1>6 DEF LockInv, TypeOK, AddEntry
  <2>3. /\ \A d \in Chains, k \in 1 .. Len(s) :
             s[k].chain = d /\ s[k].i > 0 => s[k].all = Contents(d)
        /\ \A j, k \in 1 .. Len(s) : j < k => s[j].i > 0 /\ s[k].chain < s[j].chain
        /\ \A j, k \in 1 .. Len(s) : j + 1 = k => s[j].all[s[j].i] = s[k].chain
    BY <1>1
  <2>4. \A d \in Chains : /\ \A u \in Threads \ {t} : chain_mutex'[d] = u <=> chain_mutex[d] = u
                          /\ chain_mutex'[d] = t <=>
                               \E k \in 1 .. Len(s) : s[k].chain = d /\ s[k].i > 0
    BY <1>1, <1>5, <2>1
  <2> QED
    BY <1>1, <1>4, <2>1, <2>2, <2>3, <2>4, StackSuffices
<1>8. TypeOK'
  <2>1. stack' \in [Threads -> Seq(Frames)]
    BY <1>4 DEF OnlyStack
  <2>2. DOMAIN entries \subseteq DOMAIN entries'
    BY <1>6
  <2>3. log' \in [Leaves -> Seq(DOMAIN entries')]
    <3>1. \A q \in Seq(DOMAIN entries) : q \in Seq(DOMAIN entries')
      <4> SUFFICES ASSUME NEW q \in Seq(DOMAIN entries) PROVE q \in Seq(DOMAIN entries')
        OBVIOUS
      <4>1. /\ Len(q) \in Nat /\ q \in [1 .. Len(q) -> DOMAIN entries]
        BY LenProperties
      <4>2. q \in [1 .. Len(q) -> DOMAIN entries']
        BY <2>2, <4>1
      <4> QED
        BY <4>1, <4>2, IsASeq
    <3> QED
      BY <3>1 DEF LockInv, TypeOK, AddEntry
  <2>4. entry' \in [Threads -> {0} \cup DOMAIN entries']
    BY <1>6, <2>2 DEF LockInv, TypeOK, AddEntry
  <2> QED
    BY <1>6, <2>1, <2>3, <2>4 DEF LockInv, TypeOK, AddEntry, chains, locks
<1> QED
  BY <1>7, <1>8 DEF LockInv

LEMMA LockChainLockInv ==
  ASSUME LockInv, NEW t \in Threads, LockChain(t)
  PROVE  LockInv'
<1> DEFINE n == Len(stack[t])
           c == stack[t][n].chain
<1>1. stack[t] \in Seq(Frames) /\ n \in Nat \ {0}
  BY LockChainStack DEF LockInv
<1>2. PICK s \in Seq(Frames) :
        /\ OnlyStack(t, s)
        /\ Len(s) = n
        /\ \A k \in 1 .. n - 1 : s[k] = stack[t][k]
        /\ s[n].chain = c
        /\ s[n].i = 1
        /\ s[n].failed = stack[t][n].failed
        /\ s[n].all = Contents(c)
  BY LockChainStack DEF LockInv
<1>3. /\ \A k \in 1 .. n : stack[t][k] \in Frames
      /\ \A d \in Chains, k \in 1 .. n :
           stack[t][k].chain = d /\ stack[t][k].i > 0 => stack[t][k].all = Contents(d)
      /\ \A j, k \in 1 .. n :
           j < k => stack[t][j].i > 0 /\ stack[t][k].chain < stack[t][j].chain
      /\ \A j, k \in 1 .. n :
           j + 1 = k => stack[t][j].all[stack[t][j].i] = stack[t][k].chain
      /\ \A d \in Chains :
           chain_mutex[d] = t <=> \E k \in 1 .. n : stack[t][k].chain = d /\ stack[t][k].i > 0
  BY FramesOf
<1>4. c \in Chains /\ n \in 1 .. n
  <2>1. n \in Nat \ {0}
    BY <1>1
  <2> HIDE DEF n
  <2>2. n \in 1 .. n
    BY <2>1
  <2> QED
    BY <1>3, <2>2 DEF Frames
<1>5. /\ stack[t][n].i = 0 /\ chain_mutex[c] = NULL
      /\ chain_mutex' = [chain_mutex EXCEPT ![c] = t]
      /\ UNCHANGED << chains, target_lock, log, entries, entry, adding, last >>
  BY SendingStack DEF LockChain, LockInv, Top
<1>6. TypeOK'
  BY <1>2, <1>4, <1>5 DEF LockInv, TypeOK, OnlyStack, chains
<1> HIDE DEF n, c
<1>7. \A k \in 1 .. n : /\ s[k].chain = stack[t][k].chain
                        /\ k < n => s[k] = stack[t][k]
                        /\ k = n => s[k].i = 1 /\ s[k].all = Contents(c) /\ s[k].chain = c
  BY <1>1, <1>2, <1>4 DEF c
<1>8. \A d \in Chains, k \in 1 .. n : s[k].chain = d /\ s[k].i > 0 => s[k].all = Contents(d)
  BY <1>1, <1>3, <1>7
<1>9. \A j, k \in 1 .. n : j < k => s[j].i > 0 /\ s[k].chain < s[j].chain
  BY <1>1, <1>3, <1>7
<1>10. ASSUME NEW j \in 1 .. n, NEW k \in 1 .. n, j + 1 = k
       PROVE  s[j].all[s[j].i] = s[k].chain
  <2>1. j < n
    BY <1>1, <1>10
  <2> QED
    BY <1>3, <1>7, <1>10, <2>1
<1>11. ASSUME NEW d \in Chains
       PROVE  /\ \A u \in Threads \ {t} : chain_mutex'[d] = u <=> chain_mutex[d] = u
              /\ chain_mutex'[d] = t <=> \E k \in 1 .. n : s[k].chain = d /\ s[k].i > 0
  <2>1. CASE d = c
    <3>1. chain_mutex'[d] = t /\ chain_mutex[d] = NULL /\ NULL \notin Threads
      BY <1>4, <1>5, <2>1, ChainAssumption DEF LockInv, TypeOK
    <3> QED
      BY <1>4, <1>7, <2>1, <3>1
  <2>2. CASE d # c
    <3>1. chain_mutex'[d] = chain_mutex[d]
      BY <1>4, <1>5, <2>2 DEF LockInv, TypeOK
    <3>2. ASSUME NEW k \in 1 .. n
          PROVE  (s[k].chain = d /\ s[k].i > 0) <=> (stack[t][k].chain = d /\ stack[t][k].i > 0)
      <4>1. CASE k = n
        BY <1>7, <2>2, <4>1 DEF c
      <4>2. CASE k < n
        BY <1>7, <4>2
      <4> QED
        BY <1>1, <4>1, <4>2
    <3> QED
      BY <1>3, <3>1, <3>2
  <2> QED
    BY <2>1, <2>2
<1>12. entry'[t] \in DOMAIN entries' /\ UNCHANGED << entries, entry >>
  BY <1>5 DEF LockInv, Entered, LockChain, Sending
<1> QED
  BY <1>2, <1>5, <1>6, <1>8, <1>9, <1>10, <1>11, <1>12, StackSuffices, SMTT(30) DEF LockInv

\* The loop of a frame goes on, from a position in it.
LEMMA GoOnLockInv ==
  ASSUME LockInv, NEW t \in Threads, Sending(t), Top(t).i > 0, NEW failed \in BOOLEAN,
         stack' = [stack EXCEPT ![t] = GoOn(@, failed)],
         UNCHANGED << chains, locks, entries, entry, adding, last >>
  PROVE  /\ TargetsBelow' /\ AddingBelow' /\ LocksMatch' /\ Stable' /\ Nested' /\ Calls' /\ Entered'
         /\ stack' \in [Threads -> Seq(Frames)]
<1> DEFINE n == Len(stack[t])
<1>1. PICK s \in Seq(Frames) : OnlyStack(t, s) /\ WentOn(s, t, n, failed)
  BY GoOnStack DEF LockInv
<1>2. n \in Nat \ {0} /\ stack[t][n].i > 0 /\ stack[t] # << >>
  BY SendingStack DEF LockInv
<1>3. /\ \A k \in 1 .. n : stack[t][k] \in Frames
      /\ \A d \in Chains, k \in 1 .. n :
           stack[t][k].chain = d /\ stack[t][k].i > 0 => stack[t][k].all = Contents(d)
      /\ \A j, k \in 1 .. n :
           j < k => stack[t][j].i > 0 /\ stack[t][k].chain < stack[t][j].chain
      /\ \A j, k \in 1 .. n :
           j + 1 = k => stack[t][j].all[stack[t][j].i] = stack[t][k].chain
      /\ \A d \in Chains :
           chain_mutex[d] = t <=> \E k \in 1 .. n : stack[t][k].chain = d /\ stack[t][k].i > 0
  BY FramesOf
<1>4. UNCHANGED << chains, target_lock, chain_mutex, adding, entries, entry >>
  BY DEF locks
<1>5. entry'[t] \in DOMAIN entries'
  BY <1>2, <1>4 DEF LockInv, Entered
<1> HIDE DEF n
<1>6. Len(s) = n /\ n \in 1 .. n /\ stack[t][n].i \in Nat
  BY <1>1, <1>2, <1>3 DEF WentOn, Frames
<1>7. ASSUME NEW k \in 1 .. n
      PROVE  /\ s[k].chain = stack[t][k].chain
             /\ s[k].all = stack[t][k].all
             /\ s[k].i > 0 <=> stack[t][k].i > 0
             /\ k < n => s[k] = stack[t][k]
  <2>1. CASE k = n
    BY <1>1, <1>2, <1>6, <2>1 DEF WentOn
  <2>2. CASE k < n
    BY <1>1, <1>2, <2>2 DEF WentOn
  <2> QED
    BY <1>2, <2>1, <2>2
<1>8. \A d \in Chains, k \in 1 .. n : s[k].chain = d /\ s[k].i > 0 => s[k].all = Contents(d)
  BY <1>3, <1>7
<1>9. \A j, k \in 1 .. n : j < k => s[j].i > 0 /\ s[k].chain < s[j].chain
  BY <1>3, <1>7
<1>10. ASSUME NEW j \in 1 .. n, NEW k \in 1 .. n, j + 1 = k
       PROVE  s[j].all[s[j].i] = s[k].chain
  <2>1. j < n
    BY <1>2, <1>10
  <2> QED
    BY <1>3, <1>7, <1>10, <2>1
<1>11. \A d \in Chains : chain_mutex'[d] = t <=> \E k \in 1 .. n : s[k].chain = d /\ s[k].i > 0
  BY <1>3, <1>4, <1>7
<1>12. TargetsBelow' /\ AddingBelow' /\ LocksMatch' /\ Stable' /\ Nested' /\ Calls' /\ Entered'
  <2>1. /\ UNCHANGED << chains, target_lock, adding >>
        /\ DOMAIN entries \subseteq DOMAIN entries'
        /\ \A u \in Threads \ {t} : entry'[u] = entry[u]
    BY <1>4
  <2>2. /\ \A c \in Chains, k \in 1 .. Len(s) :
             s[k].chain = c /\ s[k].i > 0 => s[k].all = Contents(c)
        /\ \A j, k \in 1 .. Len(s) : j < k => s[j].i > 0 /\ s[k].chain < s[j].chain
        /\ \A j, k \in 1 .. Len(s) : j + 1 = k => s[j].all[s[j].i] = s[k].chain
    BY <1>6, <1>8, <1>9, <1>10
  <2>3. \A c \in Chains : /\ \A u \in Threads \ {t} : chain_mutex'[c] = u <=> chain_mutex[c] = u
                          /\ chain_mutex'[c] = t <=>
                               \E k \in 1 .. Len(s) : s[k].chain = c /\ s[k].i > 0
    BY <1>4, <1>6, <1>11
  <2> QED
    BY <1>1, <1>5, <2>1, <2>2, <2>3, StackSuffices
<1> QED
  BY <1>1, <1>12 DEF OnlyStack

LEMMA AtPosition ==
  ASSUME LockInv, NEW t \in Threads, NEW x, At(t, x)
  PROVE  /\ Sending(t) /\ Top(t).i > 0 /\ Top(t).chain \in Chains
         /\ entry[t] \in DOMAIN entries
         /\ x \in Below(Top(t).chain)
         /\ Top(t).all[Top(t).i] = x
<1> DEFINE n == Len(stack[t])
           c == Top(t).chain
           i == Top(t).i
<1>1. Sending(t) /\ i \in 1 .. target_count[c] /\ x = TargetAt(c, i)
  BY DEF At
<1>2. n \in Nat \ {0} /\ Top(t) = stack[t][n] /\ Top(t) \in Frames /\ stack[t] # << >>
  BY <1>1, SendingStack DEF LockInv
<1>3. c \in Chains /\ i > 0
  BY <1>1, <1>2 DEF Frames
<1>4. entry[t] \in DOMAIN entries
  BY <1>2 DEF LockInv, Entered
<1>5. x \in Below(c)
  BY <1>1, <1>3 DEF LockInv, TargetsBelow
<1>6. Top(t).all = Contents(c)
  <2>1. n \in 1 .. n
    <3>1. n \in Nat \ {0}
      BY <1>2
    <3> HIDE DEF n
    <3> QED
      BY <3>1
  <2>2. \A d \in Chains, k \in 1 .. n :
          stack[t][k].chain = d /\ stack[t][k].i > 0 => stack[t][k].all = Contents(d)
    BY FramesOf
  <2> HIDE DEF n
  <2> QED
    BY <1>2, <1>3, <2>1, <2>2
<1>7. Contents(c)[i] = x
  BY <1>1, <1>3, ContentsType DEF LockInv
<1> QED
  BY <1>1, <1>3, <1>4, <1>5, <1>6, <1>7

LEMMA SendToLeafLockInv ==
  ASSUME LockInv, NEW t \in Threads, NEW l \in Leaves, SendToLeaf(t, l)
  PROVE  LockInv'
<1>1. Sending(t) /\ Top(t).i > 0 /\ entry[t] \in DOMAIN entries
  BY AtPosition DEF SendToLeaf
<1>2. /\ TargetsBelow' /\ AddingBelow' /\ LocksMatch' /\ Stable' /\ Nested' /\ Calls' /\ Entered'
      /\ stack' \in [Threads -> Seq(Frames)]
  BY <1>1, GoOnLockInv DEF SendToLeaf
<1>3. log' \in [Leaves -> Seq(DOMAIN entries)]
  <2> DEFINE q == Append(log[l], entry[t])
  <2>1. q \in Seq(DOMAIN entries)
    BY <1>1, AppendProperties DEF LockInv, TypeOK
  <2>2. log' = [log EXCEPT ![l] = q]
    BY DEF SendToLeaf
  <2> HIDE DEF q
  <2> QED
    BY <2>1, <2>2 DEF LockInv, TypeOK
<1>4. TypeOK'
  BY <1>2, <1>3 DEF LockInv, TypeOK, SendToLeaf, chains, locks
<1> QED
  BY <1>2, <1>4 DEF LockInv

LEMMA LeafFailsLockInv ==
  ASSUME LockInv, NEW t \in Threads, NEW l \in Leaves, LeafFails(t, l)
  PROVE  LockInv'
<1>1. Sending(t) /\ Top(t).i > 0
  BY AtPosition DEF LeafFails
<1>2. /\ TargetsBelow' /\ AddingBelow' /\ LocksMatch' /\ Stable' /\ Nested' /\ Calls' /\ Entered'
      /\ stack' \in [Threads -> Seq(Frames)]
  BY <1>1, GoOnLockInv DEF LeafFails
<1>3. TypeOK'
  BY <1>2 DEF LockInv, TypeOK, LeafFails, chains, locks
<1> QED
  BY <1>2, <1>3 DEF LockInv

LEMMA SendToChainLockInv ==
  ASSUME LockInv, NEW t \in Threads, NEW d \in Chains, SendToChain(t, d)
  PROVE  LockInv'
<1> DEFINE n == Len(stack[t])
           f == Frame(d)
<1>1. PICK s \in Seq(Frames) :
        OnlyStack(t, s) /\ Len(s) = n + 1 /\ (\A k \in 1 .. n : s[k] = stack[t][k]) /\ s[Len(s)] = f
  BY SendToChainStack DEF LockInv
<1>2. /\ Sending(t) /\ Top(t).i > 0 /\ entry[t] \in DOMAIN entries
      /\ d \in Below(Top(t).chain) /\ Top(t).chain \in Chains
      /\ Top(t).all[Top(t).i] = d
  BY AtPosition DEF SendToChain
<1>3. n \in Nat \ {0} /\ Top(t) = stack[t][n]
  BY <1>2, SendingStack DEF LockInv
<1>4. f.chain = d /\ f.i = 0
  BY FrameType
<1>5. /\ \A k \in 1 .. n : stack[t][k] \in Frames
      /\ \A e \in Chains, k \in 1 .. n :
           stack[t][k].chain = e /\ stack[t][k].i > 0 => stack[t][k].all = Contents(e)
      /\ \A j, k \in 1 .. n :
           j < k => stack[t][j].i > 0 /\ stack[t][k].chain < stack[t][j].chain
      /\ \A j, k \in 1 .. n :
           j + 1 = k => stack[t][j].all[stack[t][j].i] = stack[t][k].chain
      /\ \A e \in Chains :
           chain_mutex[e] = t <=> \E k \in 1 .. n : stack[t][k].chain = e /\ stack[t][k].i > 0
  BY FramesOf
<1>6. UNCHANGED << chains, target_lock, chain_mutex, adding, log, entries, entry, last >>
  BY DEF SendToChain, locks
<1>7. entry'[t] \in DOMAIN entries'
  BY <1>2, <1>6
<1>8. /\ stack[t][n].i > 0 /\ stack[t][n].all[stack[t][n].i] = d
      /\ d < stack[t][n].chain /\ stack[t][n].chain \in Chains
  BY <1>2, <1>3, BelowTargets
<1> HIDE DEF n, f
<1>9. n \in 1 .. n /\ Len(s) = n + 1 /\ s[n + 1] = f
  BY <1>1, <1>3
<1>10. ASSUME NEW k \in 1 .. n + 1, k # n + 1 PROVE k \in 1 .. n /\ s[k] = stack[t][k]
  BY <1>1, <1>3, <1>10
<1>11. ASSUME NEW e \in Chains, NEW k \in 1 .. n + 1, s[k].chain = e, s[k].i > 0
       PROVE  s[k].all = Contents(e)
  BY <1>4, <1>5, <1>9, <1>10, <1>11
<1>12. ASSUME NEW j \in 1 .. n + 1, NEW k \in 1 .. n + 1, j < k
       PROVE  s[j].i > 0 /\ s[k].chain < s[j].chain
  <2>1. j \in 1 .. n /\ s[j] = stack[t][j]
    BY <1>3, <1>10, <1>12
  <2>2. CASE k = n + 1
    <3>1. s[k].chain = d
      BY <1>4, <1>9, <2>2
    <3>2. CASE j = n
      BY <1>8, <2>1, <3>1, <3>2
    <3>3. CASE j < n
      <4>1. stack[t][j].i > 0 /\ stack[t][n].chain < stack[t][j].chain
        BY <1>5, <1>9, <2>1, <3>3
      <4>2. stack[t][j].chain \in Nat /\ stack[t][n].chain \in Nat /\ d \in Nat
        BY <1>5, <1>8, <2>1, ChainAssumption DEF Frames
      <4> QED
        BY <1>8, <2>1, <3>1, <4>1, <4>2
    <3> QED
      BY <1>3, <2>1, <3>2, <3>3
  <2>3. CASE k # n + 1
    BY <1>5, <1>10, <1>12, <2>1, <2>3
  <2> QED
    BY <2>2, <2>3
<1>13. ASSUME NEW j \in 1 .. n + 1, NEW k \in 1 .. n + 1, j + 1 = k
       PROVE  s[j].all[s[j].i] = s[k].chain
  <2>1. j \in 1 .. n /\ s[j] = stack[t][j]
    BY <1>3, <1>10, <1>13
  <2>2. CASE k = n + 1
    <3>1. j = n
      BY <1>3, <1>13, <2>1, <2>2
    <3> QED
      BY <1>4, <1>8, <1>9, <2>1, <2>2, <3>1
  <2>3. CASE k # n + 1
    BY <1>5, <1>10, <1>13, <2>1, <2>3
  <2> QED
    BY <2>2, <2>3
<1>14. ASSUME NEW e \in Chains
       PROVE  chain_mutex'[e] = t <=> \E k \in 1 .. n + 1 : s[k].chain = e /\ s[k].i > 0
  <2>1. ASSUME NEW k \in 1 .. n + 1, s[k].i > 0 PROVE k \in 1 .. n /\ s[k] = stack[t][k]
    BY <1>4, <1>9, <1>10, <2>1
  <2>2. \A k \in 1 .. n : k \in 1 .. n + 1 /\ s[k] = stack[t][k]
    BY <1>1, <1>3
  <2> QED
    BY <1>5, <1>6, <2>1, <2>2
<1>15. TargetsBelow' /\ AddingBelow' /\ LocksMatch' /\ Stable' /\ Nested' /\ Calls' /\ Entered'
  BY <1>1, <1>6, <1>7, <1>9, <1>11, <1>12, <1>13, <1>14, StackSuffices
<1>16. TypeOK'
  BY <1>1, <1>6 DEF LockInv, TypeOK, OnlyStack, chains
<1> QED
  BY <1>15, <1>16 DEF LockInv

LEMMA UnlockChainLockInv ==
  ASSUME LockInv, NEW t \in Threads, UnlockChain(t)
  PROVE  LockInv'
<1> DEFINE n == Len(stack[t])
           f == stack[t][n]
<1>1. PICK s \in Seq(Frames) :
        OnlyStack(t, s) /\ (n = 1 => s = << >>) /\ (n > 1 => WentOn(s, t, n - 1, f.failed))
  BY UnlockChainStack DEF LockInv
<1>2. n \in Nat \ {0} /\ Top(t) = f /\ stack[t] # << >>
  BY SendingStack DEF LockInv, UnlockChain
<1>3. /\ \A k \in 1 .. n : stack[t][k] \in Frames
      /\ \A c \in Chains, k \in 1 .. n :
           stack[t][k].chain = c /\ stack[t][k].i > 0 => stack[t][k].all = Contents(c)
      /\ \A j, k \in 1 .. n :
           j < k => stack[t][j].i > 0 /\ stack[t][k].chain < stack[t][j].chain
      /\ \A j, k \in 1 .. n :
           j + 1 = k => stack[t][j].all[stack[t][j].i] = stack[t][k].chain
      /\ \A c \in Chains :
           chain_mutex[c] = t <=> \E k \in 1 .. n : stack[t][k].chain = c /\ stack[t][k].i > 0
  BY FramesOf
<1>4. /\ f.i > target_count[f.chain]
      /\ chain_mutex' = [chain_mutex EXCEPT ![f.chain] = NULL]
      /\ last' = [last EXCEPT ![t] = f]
      /\ UNCHANGED << chains, target_lock, log, entries, entry, adding >>
  BY <1>2 DEF UnlockChain
<1>5. entry'[t] \in DOMAIN entries'
  BY <1>2, <1>4 DEF LockInv, Entered
<1>6. n \in 1 .. n
  <2>1. n \in Nat \ {0}
    BY <1>2
  <2> HIDE DEF n
  <2> QED
    BY <2>1
<1> HIDE DEF n
<1>7. f \in Frames /\ f.chain \in Chains /\ f.i > 0
  <2>1. f \in Frames /\ f.chain \in Chains /\ f.i \in Nat
    BY <1>3, <1>6 DEF Frames
  <2>2. target_count[f.chain] \in Nat
    BY <2>1 DEF LockInv, TypeOK
  <2> QED
    BY <1>4, <2>1, <2>2
<1>8. TypeOK'
  <2>1. chain_mutex' \in [Chains -> Threads \cup {NULL}] /\ last' \in [Threads -> Frames \cup {NULL}]
    BY <1>4, <1>7 DEF LockInv, TypeOK
  <2> QED
    BY <1>1, <1>4, <2>1 DEF LockInv, TypeOK, OnlyStack, chains
<1>9. Len(s) = n - 1
  <2>1. CASE n = 1
    BY <1>1, <2>1
  <2>2. CASE n > 1
    BY <1>1, <2>2 DEF WentOn
  <2> QED
    BY <1>2, <2>1, <2>2
<1>10. ASSUME NEW k \in 1 .. n - 1
       PROVE  /\ k \in 1 .. n /\ k < n
              /\ stack[t][k].i > 0
              /\ s[k].chain = stack[t][k].chain
              /\ s[k].all = stack[t][k].all
              /\ s[k].i > 0
              /\ k < n - 1 => s[k] = stack[t][k]
  <2>1. n > 1 /\ k \in 1 .. n /\ k < n
    BY <1>2
  <2>2. stack[t][k].i > 0 /\ stack[t][k].i \in Nat
    BY <1>3, <1>6, <2>1 DEF Frames
  <2>3. CASE k = n - 1
    BY <1>1, <2>1, <2>2, <2>3 DEF WentOn
  <2>4. CASE k < n - 1
    <3>1. k \in 1 .. n - 1 - 1
      BY <1>2, <2>4
    <3> QED
      BY <1>1, <2>1, <2>2, <3>1 DEF WentOn
  <2> QED
    BY <1>2, <2>1, <2>3, <2>4
<1>11. /\ \A c \in Chains, k \in 1 .. Len(s) :
            s[k].chain = c /\ s[k].i > 0 => s[k].all = Contents(c)
       /\ \A j, k \in 1 .. Len(s) : j < k => s[j].i > 0 /\ s[k].chain < s[j].chain
  BY <1>3, <1>9, <1>10
<1>12. ASSUME NEW j \in 1 .. Len(s), NEW k \in 1 .. Len(s), j + 1 = k
       PROVE  s[j].all[s[j].i] = s[k].chain
  <2>1. j < n - 1
    BY <1>2, <1>9, <1>12
  <2> QED
    BY <1>3, <1>9, <1>10, <1>12, <2>1
<1>13. ASSUME NEW c \in Chains
       PROVE  /\ \A u \in Threads \ {t} : chain_mutex'[c] = u <=> chain_mutex[c] = u
              /\ chain_mutex'[c] = t <=> \E k \in 1 .. Len(s) : s[k].chain = c /\ s[k].i > 0
  <2>1. CASE c = f.chain
    <3>1. chain_mutex'[c] = NULL /\ NULL \notin Threads
      BY <1>4, <1>7, <2>1, ChainAssumption DEF LockInv, TypeOK
    <3>2. chain_mutex[c] = t
      BY <1>3, <1>6, <1>7, <2>1
    <3>3. ASSUME NEW k \in 1 .. n - 1 PROVE s[k].chain # c
      <4>1. f.chain < stack[t][k].chain /\ s[k].chain = stack[t][k].chain
        BY <1>3, <1>6, <1>10
      <4>2. f.chain \in Nat
        BY <1>7, ChainAssumption
      <4> HIDE DEF f
      <4> QED
        BY <2>1, <4>1, <4>2
    <3> QED
      BY <1>9, <3>1, <3>2, <3>3
  <2>2. CASE c # f.chain
    <3>1. chain_mutex'[c] = chain_mutex[c]
      BY <1>4, <1>7, <2>2 DEF LockInv, TypeOK
    <3>2. ASSUME NEW k \in 1 .. n, stack[t][k].chain = c PROVE k \in 1 .. n - 1
      BY <1>2, <2>2, <3>2
    <3> QED
      BY <1>3, <1>9, <1>10, <3>1, <3>2
  <2> QED
    BY <2>1, <2>2
<1>14. TargetsBelow' /\ AddingBelow' /\ LocksMatch' /\ Stable' /\ Nested' /\ Calls' /\ Entered'
  <2>1. /\ UNCHANGED << chains, target_lock, adding >>
        /\ DOMAIN entries \subseteq DOMAIN entries'
        /\ \A u \in Threads \ {t} : entry'[u] = entry[u]
    BY <1>4
  <2>2. \A j, k \in 1 .. Len(s) : j + 1 = k => s[j].all[s[j].i] = s[k].chain
    BY <1>12
  <2>3. \A c \in Chains : /\ \A u \in Threads \ {t} : chain_mutex'[c] = u <=> chain_mutex[c] = u
                          /\ chain_mutex'[c] = t <=>
                               \E k \in 1 .. Len(s) : s[k].chain = c /\ s[k].i > 0
    BY <1>13
  <2> QED
    BY <1>1, <1>5, <1>11, <2>1, <2>2, <2>3, StackSuffices
<1> QED
  BY <1>8, <1>14 DEF LockInv

\* Closing chains: no thread is in a call.
LEMMA RenewLockInv ==
  ASSUME LockInv, Quiet, NEW cs, Renew(cs), NEW q \in [Leaves -> Seq(DOMAIN entries)], log' = q,
         UNCHANGED << locks, entries, stack, entry, adding, last >>
  PROVE  LockInv'
<1>1. \A t \in Threads : stack'[t] = << >> /\ adding'[t] = NULL
  BY DEF Quiet, Idle
<1>2. ASSUME NEW c \in Chains
      PROVE  \/ c \in cs /\ target_count'[c] = 0 /\ overflow_targets'[c] = << >>
             \/ /\ c \notin cs
                /\ target_count'[c] = target_count[c]
                /\ overflow_targets'[c] = overflow_targets[c]
                /\ targets'[c] = targets[c]
  BY DEF Renew
<1>3. TypeOK'
  <2>1. targets' \in [Chains -> [1 .. ArrayLength -> Targets \cup {NULL}]]
    BY DEF Renew, Empty, LockInv, TypeOK
  <2>2. overflow_targets' \in [Chains -> Seq(Targets)]
    BY DEF Renew, LockInv, TypeOK
  <2>3. target_count' \in [Chains -> Nat]
    BY DEF Renew, LockInv, TypeOK
  <2>4. ASSUME NEW c \in Chains
        PROVE  /\ target_count'[c] <= MaxTargets[c]
               /\ Len(overflow_targets'[c]) =
                    IF target_count'[c] > ArrayLength THEN target_count'[c] - ArrayLength ELSE 0
    <3>1. MaxTargets[c] \in Nat /\ ArrayLength \in Nat
      BY ChainAssumption
    <3>2. CASE target_count'[c] = 0 /\ overflow_targets'[c] = << >>
      BY <3>1, <3>2
    <3>3. CASE target_count'[c] = target_count[c] /\ overflow_targets'[c] = overflow_targets[c]
      BY <3>3 DEF LockInv, TypeOK
    <3> QED
      BY <1>2, <3>2, <3>3
  <2> QED
    BY <2>1, <2>2, <2>3, <2>4 DEF LockInv, TypeOK, locks
<1>4. TargetsBelow'
  <2> SUFFICES ASSUME NEW c \in Chains, NEW i \in 1 .. target_count'[c]
               PROVE  TargetAt(c, i)' \in Below(c)
    BY DEF TargetsBelow
  <2>1. /\ c \notin cs /\ i \in 1 .. target_count[c]
        /\ overflow_targets'[c] = overflow_targets[c]
        /\ targets'[c] = targets[c]
    BY <1>2
  <2>2. TargetAt(c, i)' = TargetAt(c, i)
    BY <2>1 DEF TargetAt
  <2> QED
    BY <2>1, <2>2 DEF LockInv, TargetsBelow
<1>5. AddingBelow' /\ Stable' /\ Nested' /\ Calls' /\ Entered'
  BY <1>1 DEF AddingBelow, Stable, Nested, Calls, Entered
<1>6. LocksMatch'
  BY DEF LockInv, LocksMatch, locks
<1> QED
  BY <1>3, <1>4, <1>5, <1>6 DEF LockInv

LEMMA CloseLockInv ==
  ASSUME LockInv, NEW c \in Chains, CloseOnly(c) \/ CloseContents(c)
  PROVE  LockInv'
<1>1. CASE CloseOnly(c)
  <2>1. log \in [Leaves -> Seq(DOMAIN entries)]
    BY DEF LockInv, TypeOK
  <2> QED
    BY <1>1, <2>1, RenewLockInv DEF CloseOnly
<1>2. CASE CloseContents(c)
  <2> DEFINE q == [l \in Leaves |-> IF l \in Closed[c] THEN << >> ELSE log[l]]
  <2>1. q \in [Leaves -> Seq(DOMAIN entries)]
    <3> DEFINE S == Seq(DOMAIN entries)
               e == << >>
    <3>1. log \in [Leaves -> S] /\ e \in S
      BY DEF LockInv, TypeOK
    <3> HIDE DEF S, e
    <3>2. [l \in Leaves |-> IF l \in Closed[c] THEN e ELSE log[l]] \in [Leaves -> S]
      BY <3>1
    <3> QED
      BY <3>2 DEF S, e
  <2>2. log' = q /\ Quiet /\ Renew(Closed[c] \cap Chains)
        /\ UNCHANGED << locks, entries, stack, entry, adding, last >>
    BY <1>2 DEF CloseContents
  <2> HIDE DEF q
  <2> QED
    BY <2>1, <2>2, RenewLockInv
<1> QED
  BY <1>1, <1>2

LEMMA StutterLockInv ==
  ASSUME LockInv, UNCHANGED vars
  PROVE  LockInv'
<1>1. UNCHANGED << chains, locks, log, entries, stack, entry, adding, last >>
  BY DEF vars
<1>2. TypeOK'
  BY <1>1 DEF LockInv, TypeOK, chains, locks
<1>3. LocksMatch'
  BY <1>1 DEF LockInv, LocksMatch, locks
<1> QED
  BY <1>1, <1>2, <1>3, StacksKept, ChainsKept DEF LockInv

LEMMA InitLockInv ==
  Init => LockInv
<1> SUFFICES ASSUME Init PROVE LockInv
  OBVIOUS
<1>1. TypeOK
  <2>1. targets \in [Chains -> [1 .. ArrayLength -> Targets \cup {NULL}]]
    BY DEF Init, Empty
  <2>2. \A c \in Chains : target_count[c] = 0 /\ overflow_targets[c] = << >> /\ MaxTargets[c] \in Nat
    BY ChainAssumption DEF Init
  <2>3. entries \in Seq(Chains) /\ log \in [Leaves -> Seq(DOMAIN entries)]
    BY DEF Init
  <2>4. \A c \in Chains :
          /\ target_count[c] <= MaxTargets[c]
          /\ Len(overflow_targets[c]) =
               IF target_count[c] > ArrayLength THEN target_count[c] - ArrayLength ELSE 0
    BY <2>2, ChainAssumption
  <2> QED
    BY <2>1, <2>3, <2>4 DEF Init, TypeOK
<1>2. TargetsBelow /\ AddingBelow
  BY DEF Init, TargetsBelow, AddingBelow
<1>3. LocksMatch
  BY ChainAssumption DEF Init, LocksMatch
<1>4. Stable /\ Nested /\ Calls /\ Entered
  BY DEF Init, Stable, Nested, Calls, Entered
<1> QED
  BY <1>1, <1>2, <1>3, <1>4 DEF LockInv

LEMMA NextLockInv ==
  LockInv /\ [Next]_vars => LockInv'
<1> SUFFICES ASSUME LockInv, [Next]_vars PROVE LockInv'
  OBVIOUS
<1>1. ASSUME NEW c \in Chains, CloseOnly(c) \/ CloseContents(c) PROVE LockInv'
  BY <1>1, CloseLockInv
<1>2. ASSUME NEW t \in Threads, NEW c \in Chains,
             AddTarget(t, c) \/ AddEntry(t, c) \/ SendToChain(t, c)
      PROVE  LockInv'
  BY <1>2, AddTargetLockInv, AddEntryLockInv, SendToChainLockInv
<1>3. ASSUME NEW t \in Threads,
             AppendTarget(t) \/ AppendFails(t) \/ LockChain(t) \/ UnlockChain(t) \/ Done(t)
      PROVE  LockInv'
  BY <1>3, AppendTargetLockInv, AppendFailsLockInv, LockChainLockInv, UnlockChainLockInv, DoneLockInv
<1>4. ASSUME NEW t \in Threads, NEW l \in Leaves, SendToLeaf(t, l) \/ LeafFails(t, l)
      PROVE  LockInv'
  BY <1>4, SendToLeafLockInv, LeafFailsLockInv
<1>5. CASE UNCHANGED vars
  BY <1>5, StutterLockInv
<1> QED
  BY <1>1, <1>2, <1>3, <1>4, <1>5 DEF Next

(***************************************************************************)
(* The mutexes of a chain are held by the threads whose calls took them,   *)
(* nested calls included, and no chain changes under the loop of           *)
(* send_entry_to_chain_target: however many threads add targets, send and  *)
(* close, and however deep the chains are nested.                          *)
(***************************************************************************)
THEOREM ChainsAreLocked == Spec => []ChainsLocked
<1>1. LockInv => ChainsLocked
  <2> SUFFICES ASSUME LockInv PROVE ChainStable
    BY DEF LockInv, ChainsLocked
  <2> SUFFICES ASSUME NEW t \in Threads, NEW k \in DOMAIN stack[t], stack[t][k].i > 0
               PROVE  stack[t][k].all = Contents(stack[t][k].chain)
    BY DEF ChainStable
  <2>1. stack[t] \in Seq(Frames)
    BY DEF LockInv, TypeOK
  <2>2. stack[t][k].chain \in Chains
    BY <2>1, StackDomain DEF Frames
  <2> QED
    BY <2>2 DEF LockInv, Stable
<1> QED
  BY <1>1, InitLockInv, NextLockInv, PTL DEF Spec

(***************************************************************************)
(* stumpless_add_target_to_chain puts a target after all others, in the    *)
(* array or in the overflow, and no other call changes what a chain        *)
(* contains, short of closing it.                                          *)
(***************************************************************************)
THEOREM TargetsAddedAtEnd == Spec => AddsAtEnd
<1> DEFINE A == \A c \in Chains :
                  \/ Contents(c)' = Contents(c)
                  \/ Contents(c)' = << >>
                  \/ \E x \in Targets : Contents(c)' = Append(Contents(c), x)
<1>1. LockInv /\ [Next]_vars => [A]_vars
  <2> SUFFICES ASSUME LockInv, Next PROVE A
    OBVIOUS
  <2>1. CASE UNCHANGED chains
    BY <2>1, ContentsKept
  <2>2. ASSUME NEW t \in Threads, AppendTarget(t) PROVE A
    <3>1. PICK c, x : c = adding[t][1] /\ x = adding[t][2]
      OBVIOUS
    <3>2. /\ c \in Chains /\ x \in Below(c)
          /\ target_count' = [target_count EXCEPT ![c] = @ + 1]
          /\ \A i \in 1 .. target_count[c] : TargetAt(c, i)' = TargetAt(c, i)
          /\ \A i : i = target_count[c] + 1 => TargetAt(c, i)' = x
          /\ \A d \in Chains \ {c} : Contents(d)' = Contents(d)
      <4>1. Appended(c, x)
        BY <2>2, <3>1, AppendTargetContents, Zenon
      <4> QED
        BY <4>1 DEF Appended
    <3> DEFINE n == target_count[c]
               q == Contents(c)
               r == Append(q, x)
    <3>3. x \in Targets /\ n \in Nat /\ target_count'[c] = n + 1
      BY <3>2, BelowTargets DEF LockInv, TypeOK
    <3>4. q \in Seq(Targets) /\ Len(q) = n /\ \A i \in 1 .. n : q[i] = TargetAt(c, i)
      BY <3>2, ContentsType DEF LockInv
    <3>5. Contents(c)' = [i \in 1 .. n + 1 |-> TargetAt(c, i)']
      BY <3>3 DEF Contents
    <3> HIDE DEF n, q
    <3>6. /\ r \in Seq(Targets) /\ Len(r) = n + 1
          /\ \A i \in 1 .. n : r[i] = q[i]
          /\ r[n + 1] = x
      BY <3>3, <3>4, AppendProperties
    <3> HIDE DEF r
    <3>7. r = [i \in 1 .. n + 1 |-> r[i]]
      BY <3>6, LenProperties
    <3>8. ASSUME NEW i \in 1 .. n + 1 PROVE r[i] = TargetAt(c, i)'
      <4>1. CASE i = n + 1
        BY <3>2, <3>6, <4>1 DEF n
      <4>2. CASE i # n + 1
        <5>1. i \in 1 .. n
          BY <3>3, <4>2
        <5> QED
          BY <3>2, <3>4, <3>6, <5>1 DEF n
      <4> QED
        BY <4>1, <4>2
    <3>9. Contents(c)' = r
      BY <3>5, <3>7, <3>8
    <3> QED
      BY <3>2, <3>3, <3>9 DEF q, r
  <2>3. ASSUME NEW cs, Renew(cs) PROVE A
    <3> SUFFICES ASSUME NEW c \in Chains
                 PROVE  Contents(c)' = Contents(c) \/ Contents(c)' = << >>
      OBVIOUS
    <3>1. CASE c \in cs
      <4>1. target_count'[c] = 0
        BY <2>3, <3>1 DEF Renew
      <4> QED
        BY <4>1 DEF Contents
    <3>2. CASE c \notin cs
      BY <2>3, <3>2 DEF Renew, Contents, TargetAt
    <3> QED
      BY <3>1, <3>2
  <2> QED
    BY <2>1, <2>2, <2>3
    DEF Next, CloseOnly, CloseContents, AddTarget, AddEntry, SendToChain, AppendFails, LockChain,
        SendToLeaf, LeafFails, UnlockChain, Done
<1> QED
  BY <1>1, InitLockInv, NextLockInv, PTL DEF Spec, AddsAtEnd

-----------------------------------------------------------------------------
(***************************************************************************)
(* Every target of a chain gets the entry.                                 *)
(***************************************************************************)

\* The positions of leaf l among the targets that the loop of frame f is past.
Passed(f, l) == {j \in DOMAIN f.all : j < f.i /\ f.all[j] = l}

Places(f, l) == {j \in DOMAIN f.all : f.all[j] = l}

(***************************************************************************)
(* As long as nothing failed, what a loop is past was sent the entry; and  *)
(* so was what the last chain contains that a thread was done with.        *)
(***************************************************************************)
Served ==
  \A t \in Threads, l \in Leaves, e \in Nat, f \in Frames : \A k \in DOMAIN stack[t] :
    e = entry[t] /\ f = stack[t][k] /\ f.i > 0 /\ ~f.failed =>
      Times(e, l) >= Cardinality(Passed(f, l))

ServedLast ==
  \A t \in Threads, l \in Leaves, e \in Nat, f \in Frames :
    e = entry[t] /\ last[t] # NULL /\ f = last[t] /\ ~f.failed =>
      Times(e, l) >= Cardinality(Places(f, l))

\* The log of a leaf as a sequence of numbers.
LEMMA LogType ==
  ASSUME TypeOK, NEW l \in Leaves
  PROVE  /\ log[l] \in Seq(DOMAIN entries) /\ Len(log[l]) \in Nat
         /\ DOMAIN log[l] = 1 .. Len(log[l])
         /\ \A i \in 1 .. Len(log[l]) : log[l][i] \in DOMAIN entries
         /\ DOMAIN entries = 1 .. Len(entries) /\ Len(entries) \in Nat
         /\ \A e : Times(e, l) \in Nat
<1>1. log[l] \in Seq(DOMAIN entries) /\ entries \in Seq(Chains)
  BY DEF TypeOK
<1>2. /\ Len(log[l]) \in Nat /\ DOMAIN log[l] = 1 .. Len(log[l])
      /\ \A i \in 1 .. Len(log[l]) : log[l][i] \in DOMAIN entries
      /\ DOMAIN entries = 1 .. Len(entries) /\ Len(entries) \in Nat
  BY <1>1, LenProperties, ElementOfSeq
<1>3. ASSUME NEW e PROVE Times(e, l) \in Nat
  <2> DEFINE S == {i \in DOMAIN log[l] : log[l][i] = e}
  <2>1. IsFiniteSet(1 .. Len(log[l])) /\ S \subseteq 1 .. Len(log[l])
    BY <1>2, FS_Interval
  <2> HIDE DEF S
  <2>2. Cardinality(S) \in Nat
    BY <2>1, FS_Subset, FS_CardinalityType
  <2> QED
    BY <2>2 DEF S, Times
<1> QED
  BY <1>1, <1>2, <1>3

\* Sending an entry to a leaf counts for that entry.
LEMMA TimesAppend ==
  ASSUME TypeOK, NEW l \in Leaves, NEW g \in DOMAIN entries, log'[l] = Append(log[l], g), NEW e
  PROVE  /\ Times(e, l)' \in Nat
         /\ Times(e, l)' >= Times(e, l)
         /\ e = g => Times(e, l)' = Times(e, l) + 1
<1> DEFINE q == log[l]
           r == log'[l]
           n == Len(q)
           S == {i \in 1 .. n : q[i] = e}
           T == {i \in 1 .. n + 1 : r[i] = e}
<1>1. q \in Seq(DOMAIN entries) /\ n \in Nat /\ DOMAIN q = 1 .. n
  BY LogType
<1>2. /\ r \in Seq(DOMAIN entries) /\ Len(r) = n + 1
      /\ \A i \in 1 .. n : r[i] = q[i]
      /\ r[n + 1] = g
  BY <1>1, AppendProperties
<1>3. DOMAIN r = 1 .. n + 1
  BY <1>2, LenProperties
<1>4. Times(e, l) = Cardinality(S) /\ Times(e, l)' = Cardinality(T)
  BY <1>1, <1>3 DEF Times
<1> HIDE DEF q, r, n
<1>5. IsFiniteSet(1 .. n) /\ IsFiniteSet(1 .. n + 1)
  BY <1>1, FS_Interval
<1>6. S \subseteq 1 .. n /\ T \subseteq 1 .. n + 1 /\ S \subseteq T /\ n + 1 \notin S
  BY <1>1, <1>2
<1>7. e = g => T = S \cup {n + 1}
  BY <1>1, <1>2
<1> HIDE DEF S, T
<1>8. IsFiniteSet(S) /\ IsFiniteSet(T)
  BY <1>5, <1>6, FS_Subset
<1>9. /\ Cardinality(S) \in Nat /\ Cardinality(T) \in Nat
      /\ Cardinality(S) <= Cardinality(T)
  BY <1>6, <1>8, FS_Subset, FS_CardinalityType
<1>10. Cardinality(S \cup {n + 1}) = Cardinality(S) + 1
  BY <1>6, <1>8, FS_AddElement
<1> QED
  BY <1>4, <1>7, <1>9, <1>10

LEMMA PassedType ==
  ASSUME NEW f \in Frames, NEW l
  PROVE  /\ DOMAIN f.all = 1 .. Len(f.all) /\ Len(f.all) \in Nat /\ f.i \in Nat
         /\ IsFiniteSet(Passed(f, l)) /\ Cardinality(Passed(f, l)) \in Nat
         /\ Cardinality(Places(f, l)) \in Nat
<1>1. f.all \in Seq(Targets) /\ f.i \in Nat
  BY DEF Frames
<1>2. DOMAIN f.all = 1 .. Len(f.all) /\ Len(f.all) \in Nat
  BY <1>1, LenProperties
<1>3. /\ IsFiniteSet(1 .. Len(f.all))
      /\ Passed(f, l) \subseteq 1 .. Len(f.all) /\ Places(f, l) \subseteq 1 .. Len(f.all)
  BY <1>2, FS_Interval DEF Passed, Places
<1> QED
  BY <1>1, <1>2, <1>3, FS_Subset, FS_CardinalityType

\* One more step of the loop: the target it was at.
LEMMA PassedNext ==
  ASSUME NEW f \in Frames, NEW g \in Frames, g.all = f.all, g.i = f.i + 1, NEW l
  PROVE  /\ Cardinality(Passed(g, l)) <= Cardinality(Passed(f, l)) + 1
         /\ f.all[f.i] # l => Passed(g, l) = Passed(f, l)
<1>1. /\ DOMAIN f.all = 1 .. Len(f.all) /\ Len(f.all) \in Nat /\ f.i \in Nat
      /\ IsFiniteSet(Passed(f, l)) /\ Cardinality(Passed(f, l)) \in Nat
      /\ Cardinality(Passed(g, l)) \in Nat
  BY PassedType
<1>2. f.all[f.i] # l => Passed(g, l) = Passed(f, l)
  BY <1>1 DEF Passed
<1>3. f.i \notin Passed(f, l)
  BY <1>1 DEF Passed
<1>4. Passed(g, l) \subseteq Passed(f, l) \cup {f.i}
  BY <1>1 DEF Passed
<1>5. /\ IsFiniteSet(Passed(f, l) \cup {f.i})
      /\ Cardinality(Passed(f, l) \cup {f.i}) = Cardinality(Passed(f, l)) + 1
  BY <1>1, <1>3, FS_AddElement
<1>6. Cardinality(Passed(g, l)) <= Cardinality(Passed(f, l) \cup {f.i})
  BY <1>4, <1>5, FS_Subset
<1> QED
  BY <1>2, <1>5, <1>6

\* A loop that starts is past nothing, one that ends is past everything.
LEMMA PassedEnds ==
  ASSUME NEW f \in Frames, NEW l
  PROVE  /\ f.i = 1 => Cardinality(Passed(f, l)) = 0
         /\ f.i > Len(f.all) => Passed(f, l) = Places(f, l)
<1>1. DOMAIN f.all = 1 .. Len(f.all) /\ Len(f.all) \in Nat /\ f.i \in Nat
  BY PassedType
<1>2. f.i = 1 => Passed(f, l) = {}
  BY <1>1 DEF Passed
<1>3. f.i > Len(f.all) => Passed(f, l) = Places(f, l)
  BY <1>1 DEF Passed, Places
<1> QED
  BY <1>2, <1>3, FS_EmptySet

\* A step that changes no log: only a frame that is new has to be looked at.
LEMMA TimesKept ==
  ASSUME UNCHANGED log
  PROVE  \A e, l : Times(e, l)' = Times(e, l)
BY DEF Times

LEMMA ServedKept ==
  ASSUME Served, ServedLast, UNCHANGED << log, stack >>,
         \A t \in Threads : stack[t] # << >> => entry'[t] = entry[t],
         \A t \in Threads : last'[t] # NULL => entry'[t] = entry[t] /\ last'[t] = last[t]
  PROVE  Served' /\ ServedLast'
<1>1. Served'
  <2> SUFFICES ASSUME NEW t \in Threads, NEW l \in Leaves, NEW e \in Nat, NEW f \in Frames,
                      NEW k \in DOMAIN stack[t], e = entry'[t], f = stack[t][k], f.i > 0, ~f.failed
               PROVE  Times(e, l)' >= Cardinality(Passed(f, l))
    BY DEF Served
  <2>1. stack[t] # << >>
    BY EmptySeq
  <2> QED
    BY <2>1, TimesKept DEF Served
<1>2. ServedLast'
  BY TimesKept DEF ServedLast
<1> QED
  BY <1>1, <1>2

\* What is left to show of a step that changes one stack.
LEMMA ServedSuffices ==
  ASSUME LockInv, Served, NEW t \in Threads, NEW s \in Seq(Frames), OnlyStack(t, s),
         \A u \in Threads \ {t} : entry'[u] = entry[u],
         \A l \in Leaves, e \in Nat : Times(e, l)' \in Nat /\ Times(e, l)' >= Times(e, l),
         \A l \in Leaves, e \in Nat, k \in 1 .. Len(s) :
           e = entry'[t] /\ s[k].i > 0 /\ ~s[k].failed => Times(e, l)' >= Cardinality(Passed(s[k], l))
  PROVE  Served'
<1> SUFFICES ASSUME NEW u \in Threads, NEW l \in Leaves, NEW e \in Nat, NEW f \in Frames,
                    NEW k \in DOMAIN stack'[u], e = entry'[u], f = stack'[u][k], f.i > 0, ~f.failed
             PROVE  Times(e, l)' >= Cardinality(Passed(f, l))
  BY DEF Served
<1>1. DOMAIN s = 1 .. Len(s)
  BY StackDomain
<1>2. CASE u = t
  BY <1>1, <1>2 DEF OnlyStack
<1>3. CASE u # t
  <2>1. Times(e, l) >= Cardinality(Passed(f, l))
    BY <1>3 DEF Served, OnlyStack
  <2>2. Cardinality(Passed(f, l)) \in Nat /\ Times(e, l) \in Nat
    BY PassedType, LogType DEF LockInv
  <2>3. Times(e, l)' \in Nat /\ Times(e, l)' >= Times(e, l)
    OBVIOUS
  <2> QED
    BY <2>1, <2>2, <2>3
<1> QED
  BY <1>2, <1>3

\* What Served says of the frames of one thread.
LEMMA ServedFrames ==
  ASSUME LockInv, Served, NEW t \in Threads, NEW k \in 1 .. Len(stack[t]),
         stack[t][k].i > 0, ~stack[t][k].failed, NEW l \in Leaves, NEW e \in Nat, e = entry[t]
  PROVE  Times(e, l) >= Cardinality(Passed(stack[t][k], l))
<1>1. stack[t] \in Seq(Frames)
  BY FramesOf
<1>2. stack[t][k] \in Frames /\ k \in DOMAIN stack[t]
  BY <1>1, StackDomain
<1> QED
  BY <1>2 DEF Served

LEMMA TimesSame ==
  ASSUME LockInv, UNCHANGED log
  PROVE  \A l \in Leaves, e \in Nat :
           Times(e, l)' \in Nat /\ Times(e, l)' >= Times(e, l) /\ Times(e, l)' = Times(e, l)
<1> SUFFICES ASSUME NEW l \in Leaves, NEW e \in Nat
             PROVE  Times(e, l)' \in Nat /\ Times(e, l)' >= Times(e, l) /\ Times(e, l)' = Times(e, l)
  OBVIOUS
<1>1. Times(e, l)' = Times(e, l) /\ Times(e, l) \in Nat
  BY TimesKept, LogType DEF LockInv
<1> QED
  BY <1>1

\* A leaf is sent the entry.
LEMMA SendToLeafTimes ==
  ASSUME LockInv, NEW t \in Threads, NEW m \in Leaves, SendToLeaf(t, m)
  PROVE  \A l \in Leaves, e \in Nat :
           /\ Times(e, l)' \in Nat
           /\ Times(e, l)' >= Times(e, l)
           /\ l = m /\ e = entry[t] => Times(e, l)' = Times(e, l) + 1
<1> SUFFICES ASSUME NEW l \in Leaves, NEW e \in Nat
             PROVE  /\ Times(e, l)' \in Nat
                    /\ Times(e, l)' >= Times(e, l)
                    /\ l = m /\ e = entry[t] => Times(e, l)' = Times(e, l) + 1
  OBVIOUS
<1>1. PICK g : g = entry[t]
  OBVIOUS
<1>2. g \in DOMAIN entries
  BY <1>1, AtPosition DEF SendToLeaf
<1>3. CASE l = m
  <2>1. log'[l] = Append(log[l], g)
    BY <1>1, <1>3 DEF SendToLeaf, LockInv, TypeOK
  <2> QED
    BY <1>1, <1>2, <2>1, TimesAppend DEF LockInv
<1>4. CASE l # m
  <2>1. log'[l] = log[l]
    BY <1>4 DEF SendToLeaf, LockInv, TypeOK
  <2>2. Times(e, l)' = Times(e, l)
    BY <2>1 DEF Times
  <2>3. Times(e, l) \in Nat
    BY LogType DEF LockInv
  <2> QED
    BY <1>4, <2>2, <2>3
<1> QED
  BY <1>3, <1>4

\* A step that only makes Times greater keeps ServedLast.
LEMMA ServedLastKept ==
  ASSUME LockInv, ServedLast,
         \A u \in Threads : last'[u] # NULL => entry'[u] = entry[u] /\ last'[u] = last[u],
         \A l \in Leaves, e \in Nat : Times(e, l)' \in Nat /\ Times(e, l)' >= Times(e, l)
  PROVE  ServedLast'
<1> SUFFICES ASSUME NEW u \in Threads, NEW l \in Leaves, NEW e \in Nat, NEW f \in Frames,
                    e = entry'[u], last'[u] # NULL, f = last'[u], ~f.failed
             PROVE  Times(e, l)' >= Cardinality(Places(f, l))
  BY DEF ServedLast
<1>1. Times(e, l) >= Cardinality(Places(f, l))
  BY DEF ServedLast
<1>2. Cardinality(Places(f, l)) \in Nat
  BY PassedType
<1>3. Times(e, l) \in Nat /\ Times(e, l)' \in Nat /\ Times(e, l)' >= Times(e, l)
  BY LogType DEF LockInv
<1> QED
  BY <1>1, <1>2, <1>3

LEMMA SendToLeafServed ==
  ASSUME LockInv, Served, ServedLast, NEW t \in Threads, NEW m \in Leaves, SendToLeaf(t, m)
  PROVE  Served' /\ ServedLast'
<1> DEFINE n == Len(stack[t])
           g == stack[t][n]
<1>1. Sending(t) /\ Top(t).i > 0 /\ entry[t] \in DOMAIN entries /\ Top(t).all[Top(t).i] = m
  BY AtPosition DEF SendToLeaf
<1>2. n \in Nat \ {0} /\ Top(t) = g /\ g \in Frames
  BY <1>1, SendingStack DEF LockInv
<1>3. PICK s \in Seq(Frames) : OnlyStack(t, s) /\ WentOn(s, t, n, FALSE)
  BY <1>1, GoOnStack DEF LockInv, SendToLeaf
<1>4. \A l \in Leaves, e \in Nat :
        /\ Times(e, l)' \in Nat
        /\ Times(e, l)' >= Times(e, l)
        /\ l = m /\ e = entry[t] => Times(e, l)' = Times(e, l) + 1
  BY SendToLeafTimes
<1>5. g.i > 0 /\ g.all[g.i] = m
  BY <1>1, <1>2
<1>6. UNCHANGED << entry, last >>
  BY DEF SendToLeaf
<1>7. \A k \in 1 .. n : stack[t][k] \in Frames
  BY FramesOf
<1>8. \A k \in 1 .. n, l \in Leaves, e \in Nat :
        stack[t][k].i > 0 /\ ~stack[t][k].failed /\ e = entry[t] =>
          Times(e, l) >= Cardinality(Passed(stack[t][k], l))
  BY ServedFrames
<1>n. n \in Nat \ {0}
  BY <1>2
<1> HIDE DEF n
<1>9. /\ Len(s) = n /\ n \in 1 .. n
      /\ \A k \in 1 .. n : k # n => s[k] = stack[t][k]
      /\ s[n] \in Frames
      /\ s[n].all = g.all /\ s[n].i = g.i + 1 /\ s[n].failed = g.failed
  <2>1. Len(s) = n /\ n \in 1 .. n
    BY <1>n, <1>3 DEF WentOn
  <2>2. \A k \in 1 .. n : k # n => s[k] = stack[t][k]
    BY <1>n, <1>3 DEF WentOn
  <2>3. s[n] \in Frames
    BY <2>1, StackDomain
  <2>4. s[n].all = g.all /\ s[n].i = g.i + 1 /\ s[n].failed = (g.failed \/ FALSE)
    BY <1>3 DEF WentOn
  <2>5. g.failed \in BOOLEAN
    BY <1>2 DEF Frames
  <2> QED
    BY <2>1, <2>2, <2>3, <2>4, <2>5
<1>10. ASSUME NEW l \in Leaves, NEW e \in Nat, NEW k \in 1 .. Len(s),
              e = entry'[t], s[k].i > 0, ~s[k].failed
       PROVE  Times(e, l)' >= Cardinality(Passed(s[k], l))
  <2>1. e = entry[t] /\ k \in 1 .. n
    BY <1>6, <1>9, <1>10
  <2>2. Times(e, l)' \in Nat /\ Times(e, l) \in Nat /\ Times(e, l)' >= Times(e, l)
    BY <1>4, LogType DEF LockInv
  <2>3. CASE k # n
    <3>1. s[k] = stack[t][k] /\ s[k] \in Frames
      BY <1>7, <1>9, <2>1, <2>3
    <3>2. Times(e, l) >= Cardinality(Passed(s[k], l))
      BY <1>8, <1>10, <2>1, <3>1
    <3>3. Cardinality(Passed(s[k], l)) \in Nat
      BY <3>1, PassedType
    <3> QED
      BY <2>2, <3>2, <3>3
  <2>4. CASE k = n
    <3>1. /\ Cardinality(Passed(s[k], l)) <= Cardinality(Passed(g, l)) + 1
          /\ g.all[g.i] # l => Passed(s[k], l) = Passed(g, l)
      BY <1>2, <1>9, <2>4, PassedNext
    <3>2. Times(e, l) >= Cardinality(Passed(g, l))
      BY <1>5, <1>8, <1>9, <1>10, <2>1, <2>4
    <3>3. Cardinality(Passed(g, l)) \in Nat /\ Cardinality(Passed(s[k], l)) \in Nat
      BY <1>2, <1>9, <2>4, PassedType
    <3>4. CASE l = m
      <4>1. Times(e, l)' = Times(e, l) + 1
        BY <1>4, <2>1, <3>4
      <4> QED
        BY <2>2, <3>1, <3>2, <3>3, <4>1
    <3>5. CASE l # m
      <4>1. Passed(s[k], l) = Passed(g, l)
        BY <1>5, <3>1, <3>5
      <4> QED
        BY <2>2, <3>2, <3>3, <4>1
    <3> QED
      BY <3>4, <3>5
  <2> QED
    BY <2>3, <2>4
<1>11. Served'
  BY <1>3, <1>4, <1>6, <1>10, ServedSuffices
<1>12. ServedLast'
  BY <1>4, <1>6, ServedLastKept
<1> QED
  BY <1>11, <1>12

LEMMA LeafFailsServed ==
  ASSUME LockInv, Served, ServedLast, NEW t \in Threads, NEW m \in Leaves, LeafFails(t, m)
  PROVE  Served' /\ ServedLast'
<1> DEFINE n == Len(stack[t])
<1>1. Sending(t)
  BY AtPosition DEF LeafFails
<1>2. PICK s \in Seq(Frames) : OnlyStack(t, s) /\ WentOn(s, t, n, TRUE)
  BY <1>1, GoOnStack DEF LockInv, LeafFails
<1>3. \A l \in Leaves, e \in Nat :
        Times(e, l)' \in Nat /\ Times(e, l)' >= Times(e, l) /\ Times(e, l)' = Times(e, l)
  BY TimesSame DEF LeafFails
<1>4. UNCHANGED << entry, last >>
  BY DEF LeafFails
<1>5. n \in Nat \ {0}
  BY <1>1, SendingStack DEF LockInv
<1>6. \A k \in 1 .. n, l \in Leaves, e \in Nat :
        stack[t][k].i > 0 /\ ~stack[t][k].failed /\ e = entry[t] =>
          Times(e, l) >= Cardinality(Passed(stack[t][k], l))
  BY ServedFrames
<1> HIDE DEF n
<1>7. Len(s) = n /\ s[n].failed /\ \A k \in 1 .. n - 1 : s[k] = stack[t][k]
  BY <1>2 DEF WentOn
<1>8. ASSUME NEW l \in Leaves, NEW e \in Nat, NEW k \in 1 .. Len(s),
             e = entry'[t], s[k].i > 0, ~s[k].failed
      PROVE  Times(e, l)' >= Cardinality(Passed(s[k], l))
  <2>1. k # n
    BY <1>7, <1>8
  <2>2. k \in 1 .. n - 1 /\ k \in 1 .. n
    BY <1>5, <1>7, <2>1
  <2>3. s[k] = stack[t][k]
    BY <1>7, <2>2
  <2> QED
    BY <1>3, <1>4, <1>6, <1>8, <2>2, <2>3
<1>9. Served'
  BY <1>2, <1>3, <1>4, <1>8, ServedSuffices
<1>10. ServedLast'
  BY <1>3, <1>4, ServedLastKept
<1> QED
  BY <1>9, <1>10

LEMMA SendToChainServed ==
  ASSUME LockInv, Served, ServedLast, NEW t \in Threads, NEW d \in Chains, SendToChain(t, d)
  PROVE  Served' /\ ServedLast'
<1> DEFINE n == Len(stack[t])
           f == Frame(d)
<1>1. PICK s \in Seq(Frames) :
        OnlyStack(t, s) /\ Len(s) = n + 1 /\ (\A k \in 1 .. n : s[k] = stack[t][k]) /\ s[Len(s)] = f
  BY SendToChainStack DEF LockInv
<1>2. f.i = 0
  BY FrameType
<1>3. \A l \in Leaves, e \in Nat :
        Times(e, l)' \in Nat /\ Times(e, l)' >= Times(e, l) /\ Times(e, l)' = Times(e, l)
  BY TimesSame DEF SendToChain
<1>4. UNCHANGED << entry, last >>
  BY DEF SendToChain
<1>5. n \in Nat
  BY FramesOf
<1>6. \A k \in 1 .. n, l \in Leaves, e \in Nat :
        stack[t][k].i > 0 /\ ~stack[t][k].failed /\ e = entry[t] =>
          Times(e, l) >= Cardinality(Passed(stack[t][k], l))
  BY ServedFrames
<1> HIDE DEF n, f
<1>7. ASSUME NEW l \in Leaves, NEW e \in Nat, NEW k \in 1 .. Len(s),
             e = entry'[t], s[k].i > 0, ~s[k].failed
      PROVE  Times(e, l)' >= Cardinality(Passed(s[k], l))
  <2>1. k # n + 1
    BY <1>1, <1>2, <1>7
  <2>2. k \in 1 .. n
    BY <1>1, <1>5, <2>1
  <2>3. s[k] = stack[t][k]
    BY <1>1, <2>2
  <2> QED
    BY <1>3, <1>4, <1>6, <1>7, <2>2, <2>3
<1>8. Served'
  BY <1>1, <1>3, <1>4, <1>7, ServedSuffices
<1>9. ServedLast'
  BY <1>3, <1>4, ServedLastKept
<1> QED
  BY <1>8, <1>9

LEMMA LockChainServed ==
  ASSUME LockInv, Served, ServedLast, NEW t \in Threads, LockChain(t)
  PROVE  Served' /\ ServedLast'
<1> DEFINE n == Len(stack[t])
<1>1. PICK s \in Seq(Frames) :
        OnlyStack(t, s) /\ Len(s) = n /\ (\A k \in 1 .. n - 1 : s[k] = stack[t][k]) /\ s[n].i = 1
  BY LockChainStack DEF LockInv
<1>2. \A l \in Leaves, e \in Nat :
        Times(e, l)' \in Nat /\ Times(e, l)' >= Times(e, l) /\ Times(e, l)' = Times(e, l)
  BY TimesSame DEF LockChain
<1>3. UNCHANGED << entry, last >>
  BY DEF LockChain
<1>4. n \in Nat
  BY FramesOf
<1>5. \A k \in 1 .. n, l \in Leaves, e \in Nat :
        stack[t][k].i > 0 /\ ~stack[t][k].failed /\ e = entry[t] =>
          Times(e, l) >= Cardinality(Passed(stack[t][k], l))
  BY ServedFrames
<1> HIDE DEF n
<1>6. ASSUME NEW l \in Leaves, NEW e \in Nat, NEW k \in 1 .. Len(s),
             e = entry'[t], s[k].i > 0, ~s[k].failed
      PROVE  Times(e, l)' >= Cardinality(Passed(s[k], l))
  <2>1. CASE k = n
    <3>1. s[k] \in Frames
      BY StackDomain
    <3>2. Cardinality(Passed(s[k], l)) = 0
      BY <1>1, <2>1, <3>1, PassedEnds
    <3> QED
      BY <1>2, <3>2
  <2>2. CASE k # n
    <3>1. k \in 1 .. n - 1 /\ k \in 1 .. n
      BY <1>1, <1>4, <2>2
    <3>2. s[k] = stack[t][k]
      BY <1>1, <3>1
    <3> QED
      BY <1>2, <1>3, <1>5, <1>6, <3>1, <3>2
  <2> QED
    BY <2>1, <2>2
<1>7. Served'
  BY <1>1, <1>2, <1>3, <1>6, ServedSuffices
<1>8. ServedLast'
  BY <1>2, <1>3, ServedLastKept
<1> QED
  BY <1>7, <1>8

LEMMA UnlockChainServed ==
  ASSUME LockInv, Served, ServedLast, NEW t \in Threads, UnlockChain(t)
  PROVE  Served' /\ ServedLast'
<1> DEFINE n == Len(stack[t])
           f == stack[t][n]
           g == stack[t][n - 1]
<1>1. PICK s \in Seq(Frames) :
        OnlyStack(t, s) /\ (n = 1 => s = << >>) /\ (n > 1 => WentOn(s, t, n - 1, f.failed))
  BY UnlockChainStack DEF LockInv
<1>2. n \in Nat \ {0} /\ Top(t) = f /\ f \in Frames
  BY SendingStack DEF LockInv, UnlockChain
<1>3. \A l \in Leaves, e \in Nat :
        Times(e, l)' \in Nat /\ Times(e, l)' >= Times(e, l) /\ Times(e, l)' = Times(e, l)
  BY TimesSame DEF UnlockChain
<1>4. /\ f.i > target_count[f.chain]
      /\ last' = [last EXCEPT ![t] = f]
      /\ UNCHANGED entry
  BY <1>2 DEF UnlockChain
<1>5. \A k \in 1 .. n, l \in Leaves, e \in Nat :
        stack[t][k].i > 0 /\ ~stack[t][k].failed /\ e = entry[t] =>
          Times(e, l) >= Cardinality(Passed(stack[t][k], l))
  BY ServedFrames
<1>6. /\ \A k \in 1 .. n : stack[t][k] \in Frames
      /\ \A c \in Chains, k \in 1 .. n :
           stack[t][k].chain = c /\ stack[t][k].i > 0 => stack[t][k].all = Contents(c)
      /\ \A j, k \in 1 .. n :
           j < k => stack[t][j].i > 0 /\ stack[t][k].chain < stack[t][j].chain
      /\ \A j, k \in 1 .. n :
           j + 1 = k => stack[t][j].all[stack[t][j].i] = stack[t][k].chain
  BY FramesOf
<1>n. n \in Nat \ {0}
  BY <1>2
<1> HIDE DEF n
<1>7. n \in 1 .. n
  BY <1>n
<1>8. /\ f.chain \in Chains /\ f.i \in Nat
      /\ target_count[f.chain] \in Nat /\ f.i > 0 /\ f.chain \notin Leaves
  <2>1. f.chain \in Chains /\ f.i \in Nat
    BY <1>2 DEF Frames
  <2>2. target_count[f.chain] \in Nat
    BY <2>1 DEF LockInv, TypeOK
  <2>3. f.chain \notin Leaves
    BY <2>1, ChainAssumption
  <2>4. f.i > 0
    BY <1>4, <2>1, <2>2
  <2> QED
    BY <2>1, <2>2, <2>3, <2>4
<1>9. Served'
  <2>1. ASSUME NEW l \in Leaves, NEW e \in Nat, NEW k \in 1 .. Len(s),
               e = entry'[t], s[k].i > 0, ~s[k].failed
        PROVE  Times(e, l)' >= Cardinality(Passed(s[k], l))
    <3>1. n > 1 /\ Len(s) = n - 1
      <4>1. CASE n = 1
        <5>1. Len(s) = 0
          BY <1>1, <4>1
        <5> QED
          BY <5>1
      <4>2. CASE n > 1
        BY <1>1, <4>2 DEF WentOn
      <4> QED
        BY <1>n, <4>1, <4>2
    <3>2. k \in 1 .. n /\ n - 1 \in 1 .. n /\ n - 1 < n /\ n - 1 + 1 = n
      BY <1>n, <3>1
    <3>3. CASE k # n - 1
      <4>1. k \in 1 .. n - 1 - 1
        BY <1>n, <3>1, <3>3
      <4>2. s[k] = stack[t][k]
        BY <1>1, <3>1, <4>1 DEF WentOn
      <4> QED
        BY <1>3, <1>4, <1>5, <2>1, <3>2, <4>2
    <3>4. CASE k = n - 1
      <4>1. /\ s[k].all = g.all /\ s[k].i = g.i + 1
            /\ s[k].failed = (g.failed \/ f.failed)
        BY <1>1, <3>1, <3>4 DEF WentOn
      <4>2. g \in Frames /\ g.i > 0 /\ g.all[g.i] = f.chain
        BY <1>6, <1>7, <3>2
      <4>3. s[k] \in Frames
        BY StackDomain
      <4>4. ~g.failed
        BY <2>1, <4>1
      <4>5. Passed(s[k], l) = Passed(g, l)
        BY <1>8, <4>1, <4>2, <4>3, PassedNext
      <4>6. Times(e, l) >= Cardinality(Passed(g, l))
        BY <1>4, <1>5, <2>1, <3>2, <4>2, <4>4
      <4> QED
        BY <1>3, <4>5, <4>6
    <3> QED
      BY <3>3, <3>4
  <2> QED
    BY <1>1, <1>3, <1>4, <2>1, ServedSuffices
<1>10. ServedLast'
  <2> SUFFICES ASSUME NEW u \in Threads, NEW l \in Leaves, NEW e \in Nat, NEW h \in Frames,
                      e = entry[u], last'[u] # NULL, h = last'[u], ~h.failed
               PROVE  Times(e, l) >= Cardinality(Places(h, l))
    BY <1>3, <1>4 DEF ServedLast
  <2>1. CASE u = t
    <3>1. h = f
      BY <1>4, <2>1 DEF LockInv, TypeOK
    <3>2. f.all = Contents(f.chain)
      BY <1>6, <1>7, <1>8
    <3>3. Len(f.all) = target_count[f.chain]
      BY <1>8, <3>2, ContentsType DEF LockInv
    <3>4. Passed(f, l) = Places(f, l)
      BY <1>2, <1>4, <3>3, PassedEnds
    <3>5. ~f.failed
      BY <3>1
    <3>6. Times(e, l) >= Cardinality(Passed(f, l))
      BY <1>5, <1>7, <1>8, <2>1, <3>5
    <3> QED
      BY <3>1, <3>4, <3>6
  <2>2. CASE u # t
    BY <1>4, <2>2 DEF LockInv, TypeOK, ServedLast
  <2> QED
    BY <2>1, <2>2
<1> QED
  BY <1>9, <1>10

LEMMA AddEntryServed ==
  ASSUME LockInv, Served, ServedLast, NEW t \in Threads, NEW c \in Chains, AddEntry(t, c)
  PROVE  Served' /\ ServedLast'
<1> DEFINE f == Frame(c)
           s == << f >>
<1>1. f \in Frames /\ f.i = 0
  BY FrameType
<1>2. stack' = [stack EXCEPT ![t] = s] /\ last[t] = NULL /\ UNCHANGED << log, last >>
  BY DEF AddEntry, Idle
<1> HIDE DEF f
<1>3. s \in Seq(Frames) /\ Len(s) = 1 /\ s[1] = f
  BY <1>1
<1> HIDE DEF s
<1>4. OnlyStack(t, s)
  BY <1>2, <1>3, StackChanged DEF LockInv
<1>5. \A u \in Threads \ {t} : entry'[u] = entry[u]
  BY DEF AddEntry, LockInv, TypeOK
<1>6. \A l \in Leaves, e \in Nat :
        Times(e, l)' \in Nat /\ Times(e, l)' >= Times(e, l) /\ Times(e, l)' = Times(e, l)
  BY <1>2, TimesSame
<1>7. \A k \in 1 .. Len(s) : ~(s[k].i > 0)
  BY <1>1, <1>3
<1>8. Served'
  BY <1>3, <1>4, <1>5, <1>6, <1>7, ServedSuffices
<1>9. ServedLast'
  BY <1>2, <1>5, <1>6, ServedLastKept
<1> QED
  BY <1>8, <1>9

LEMMA DoneServed ==
  ASSUME LockInv, Served, ServedLast, NEW t \in Threads, Done(t)
  PROVE  Served' /\ ServedLast'
<1>1. /\ \A u \in Threads : stack[u] # << >> => entry'[u] = entry[u]
      /\ \A u \in Threads : last'[u] # NULL => entry'[u] = entry[u] /\ last'[u] = last[u]
      /\ UNCHANGED << log, stack >>
  BY DEF Done, LockInv, TypeOK
<1> QED
  BY <1>1, ServedKept

LEMMA CloseServed ==
  ASSUME LockInv, Quiet, UNCHANGED << stack, last >>
  PROVE  Served' /\ ServedLast'
BY DEF Quiet, Idle, Served, ServedLast

LEMMA NextServed ==
  LockInv /\ Served /\ ServedLast /\ [Next]_vars => Served' /\ ServedLast'
<1> SUFFICES ASSUME LockInv, Served, ServedLast, [Next]_vars PROVE Served' /\ ServedLast'
  OBVIOUS
<1>1. CASE UNCHANGED << log, stack, entry, last >>
  BY <1>1, ServedKept
<1>2. ASSUME NEW c \in Chains, CloseOnly(c) \/ CloseContents(c) PROVE Served' /\ ServedLast'
  BY <1>2, CloseServed DEF CloseOnly, CloseContents
<1>3. ASSUME NEW t \in Threads, NEW c \in Chains, AddEntry(t, c) \/ SendToChain(t, c)
      PROVE  Served' /\ ServedLast'
  BY <1>3, AddEntryServed, SendToChainServed
<1>4. ASSUME NEW t \in Threads, LockChain(t) \/ UnlockChain(t) \/ Done(t)
      PROVE  Served' /\ ServedLast'
  BY <1>4, LockChainServed, UnlockChainServed, DoneServed
<1>5. ASSUME NEW t \in Threads, NEW l \in Leaves, SendToLeaf(t, l) \/ LeafFails(t, l)
      PROVE  Served' /\ ServedLast'
  BY <1>5, SendToLeafServed, LeafFailsServed
<1>6. ASSUME NEW t \in Threads, NEW c \in Chains, AddTarget(t, c)
      PROVE  UNCHANGED << log, stack, entry, last >>
  BY <1>6 DEF AddTarget
<1>7. ASSUME NEW t \in Threads, AppendTarget(t) \/ AppendFails(t)
      PROVE  UNCHANGED << log, stack, entry, last >>
  BY <1>7 DEF AppendTarget, AppendFails, Added
<1>8. CASE UNCHANGED vars
  BY <1>1, <1>8 DEF vars
<1> QED
  BY <1>1, <1>2, <1>3, <1>4, <1>5, <1>6, <1>7, <1>8 DEF Next

-----------------------------------------------------------------------------
(***************************************************************************)
(* One order for all targets of a chain.                                   *)
(***************************************************************************)

\* The first frame of a thread is of the chain its entry was added to.
Rooted ==
  \A t \in Threads : stack[t] # << >> => entries[entry[t]] = stack[t][1].chain

OneSender ==
  \A t, u \in Threads :
    t # u /\ stack[t] # << >> /\ stack[u] # << >> => entry[t] # entry[u]

\* Nothing is sent before the mutex of that chain is taken.
NotYet ==
  \A t \in Threads : stack[t] # << >> /\ stack[t][1].i = 0 =>
    \A l \in Leaves : \A i \in DOMAIN log[l] : log[l][i] # entry[t]

(***************************************************************************)
(* An entry that another one of the same chain has followed at some target *)
(* is complete: no thread sends it any more, and so it follows the other   *)
(* one nowhere.                                                            *)
(***************************************************************************)
Ordered ==
  \A e, f \in DOMAIN entries : e # f /\ entries[e] = entries[f] =>
    \A l \in Leaves : Precedes(l, e, f) =>
      /\ \A t \in Threads : stack[t] # << >> => entry[t] # e
      /\ \A m \in Leaves : ~Precedes(m, f, e)

OrderInv == Rooted /\ OneSender /\ NotYet /\ Ordered

\* A step that leaves the logs alone, and the first frame of every stack but
\* for its counter.
LEMMA OrderKept ==
  ASSUME LockInv, OrderInv, UNCHANGED << log, entries >>,
         \A u \in Threads : stack'[u] # << >> =>
           /\ stack[u] # << >>
           /\ entry'[u] = entry[u]
           /\ stack'[u][1].chain = stack[u][1].chain
           /\ stack'[u][1].i = 0 => stack[u][1].i = 0
  PROVE  OrderInv'
<1>1. Rooted' /\ OneSender'
  BY DEF OrderInv, Rooted, OneSender
<1>2. NotYet'
  BY DEF OrderInv, NotYet
<1>3. Ordered'
  <2>1. \A l, e, f : Precedes(l, e, f)' <=> Precedes(l, e, f)
    BY DEF Precedes
  <2> QED
    BY <2>1 DEF OrderInv, Ordered
<1> QED
  BY <1>1, <1>2, <1>3 DEF OrderInv

\* The steps of a thread that sends are of that kind, as far as stacks go.
LEMMA RootKept ==
  ASSUME LockInv, NEW t \in Threads,
         \/ LockChain(t) \/ UnlockChain(t)
         \/ \E l \in Leaves : SendToLeaf(t, l) \/ LeafFails(t, l)
         \/ \E d \in Chains : SendToChain(t, d)
  PROVE  \A u \in Threads : stack'[u] # << >> =>
           /\ stack[u] # << >>
           /\ entry'[u] = entry[u]
           /\ stack'[u][1].chain = stack[u][1].chain
           /\ stack'[u][1].i = 0 => stack[u][1].i = 0
<1>1. Sending(t) /\ UNCHANGED << entry, entries >>
  BY DEF LockChain, UnlockChain, SendToLeaf, LeafFails, SendToChain, At
<1> DEFINE n == Len(stack[t])
<1>2. n \in Nat \ {0} /\ stack[t] # << >>
  BY <1>1, SendingStack DEF LockInv
<1>3. \A k \in 1 .. n : stack[t][k] \in Frames
  BY FramesOf
<1>4. PICK s \in Seq(Frames) :
        /\ OnlyStack(t, s)
        /\ s # << >> => /\ s[1].chain = stack[t][1].chain
                        /\ s[1].i = 0 => stack[t][1].i = 0
  <2>n. n \in Nat \ {0} /\ 1 \in 1 .. n
    <3>1. n \in Nat \ {0}
      BY <1>2
    <3> HIDE DEF n
    <3> QED
      BY <3>1
  <2>1. CASE LockChain(t)
    <3>1. PICK s \in Seq(Frames) :
            /\ OnlyStack(t, s)
            /\ \A k \in 1 .. n - 1 : s[k] = stack[t][k]
            /\ s[n].chain = stack[t][n].chain
            /\ s[n].i = 1
      BY <2>1, LockChainStack DEF LockInv
    <3> HIDE DEF n
    <3>2. s[1].chain = stack[t][1].chain /\ (s[1].i = 0 => stack[t][1].i = 0)
      <4>1. CASE n = 1
        BY <3>1, <4>1
      <4>2. CASE n > 1
        <5>1. 1 \in 1 .. n - 1
          BY <2>n, <4>2
        <5> QED
          BY <3>1, <5>1
      <4> QED
        BY <2>n, <4>1, <4>2
    <3> QED
      BY <3>1, <3>2
  <2>2. ASSUME NEW s \in Seq(Frames), NEW m \in 1 .. n, NEW b, WentOn(s, t, m, b)
        PROVE  s[1].chain = stack[t][1].chain /\ (s[1].i = 0 => stack[t][1].i = 0)
    <3>0. stack[t][m].i \in Nat
      BY <1>3 DEF Frames
    <3> HIDE DEF n
    <3>1. CASE m = 1
      BY <2>2, <3>0, <3>1 DEF WentOn
    <3>2. CASE m > 1
      <4>1. 1 \in 1 .. m - 1
        BY <2>n, <3>2
      <4> QED
        BY <2>2, <4>1 DEF WentOn
    <3> QED
      BY <2>n, <3>1, <3>2
  <2>3. ASSUME NEW l \in Leaves, SendToLeaf(t, l) \/ LeafFails(t, l)
        PROVE  \E s \in Seq(Frames) : \E b : OnlyStack(t, s) /\ WentOn(s, t, n, b)
    BY <1>1, <2>3, GoOnStack DEF LockInv, SendToLeaf, LeafFails
  <2>4. CASE \E l \in Leaves : SendToLeaf(t, l) \/ LeafFails(t, l)
    <3>1. PICK s \in Seq(Frames) : \E b : OnlyStack(t, s) /\ WentOn(s, t, n, b)
      BY <2>3, <2>4
    <3>2. n \in 1 .. n
      <4>1. n \in Nat \ {0}
        BY <2>n
      <4> HIDE DEF n
      <4> QED
        BY <4>1
    <3> QED
      BY <2>2, <3>1, <3>2
  <2>5. ASSUME NEW d \in Chains, SendToChain(t, d)
        PROVE  \E s \in Seq(Frames) : OnlyStack(t, s) /\ \A k \in 1 .. n : s[k] = stack[t][k]
    BY <2>5, SendToChainStack DEF LockInv
  <2>6. CASE UnlockChain(t)
    <3>1. PICK s \in Seq(Frames) :
            /\ OnlyStack(t, s)
            /\ n = 1 => s = << >>
            /\ n > 1 => WentOn(s, t, n - 1, stack[t][n].failed)
      BY <2>6, UnlockChainStack DEF LockInv
    <3>2. n = 1 \/ (n > 1 /\ n - 1 \in 1 .. n)
      <4>1. n \in Nat \ {0}
        BY <2>n
      <4> HIDE DEF n
      <4> QED
        BY <4>1
    <3> QED
      BY <2>2, <3>1, <3>2
  <2> QED
    BY <2>n, <2>1, <2>4, <2>5, <2>6
<1> QED
  BY <1>1, <1>2, <1>4 DEF OnlyStack

\* What a leaf has after it was sent one entry more.
LEMMA PrecedesAppend ==
  ASSUME TypeOK, NEW m \in Leaves, NEW g \in DOMAIN entries,
         log' = [log EXCEPT ![m] = Append(@, g)]
  PROVE  /\ \A l \in Leaves : \A e, f \in DOMAIN entries :
              Precedes(l, e, f)' =>
                \/ Precedes(l, e, f)
                \/ l = m /\ f = g /\ \E i \in DOMAIN log[m] : log[m][i] = e
         /\ \A l \in Leaves : \A i \in DOMAIN log'[l] :
              log'[l][i] = g \/ \E j \in DOMAIN log[l] : log[l][j] = log'[l][i]
<1> DEFINE q == log[m]
           r == Append(q, g)
<1>1. q \in Seq(DOMAIN entries) /\ Len(q) \in Nat /\ DOMAIN q = 1 .. Len(q)
  BY LogType
<1>2. log' = [log EXCEPT ![m] = r] /\ log \in [Leaves -> Seq(DOMAIN entries)]
  BY DEF TypeOK
<1> HIDE DEF q
<1>3. /\ r \in Seq(DOMAIN entries) /\ Len(r) = Len(q) + 1
      /\ \A i \in 1 .. Len(q) : r[i] = q[i]
      /\ r[Len(q) + 1] = g
  BY <1>1, AppendProperties
<1> HIDE DEF r
<1>4. DOMAIN r = 1 .. Len(q) + 1
  BY <1>3, LenProperties
<1>5. log'[m] = r /\ log[m] = q /\ \A l \in Leaves \ {m} : log'[l] = log[l]
  BY <1>2 DEF q
<1>6. ASSUME NEW l \in Leaves, NEW e, NEW f, Precedes(l, e, f)'
      PROVE  Precedes(l, e, f) \/ (l = m /\ f = g /\ \E i \in DOMAIN log[m] : log[m][i] = e)
  <2>1. CASE l = m
    <3>1. PICK i \in 1 .. Len(q) + 1, j \in 1 .. Len(q) + 1 : i < j /\ r[i] = e /\ r[j] = f
      BY <1>4, <1>5, <1>6, <2>1 DEF Precedes
    <3>2. i \in 1 .. Len(q) /\ r[i] = q[i]
      BY <1>1, <1>3, <3>1
    <3>3. CASE j = Len(q) + 1
      BY <1>1, <1>3, <1>5, <2>1, <3>1, <3>2, <3>3
    <3>4. CASE j # Len(q) + 1
      <4>1. j \in 1 .. Len(q) /\ r[j] = q[j]
        BY <1>1, <1>3, <3>4
      <4> QED
        BY <1>1, <1>5, <2>1, <3>1, <3>2, <4>1 DEF Precedes
    <3> QED
      BY <3>3, <3>4
  <2>2. CASE l # m
    BY <1>5, <1>6, <2>2 DEF Precedes
  <2> QED
    BY <2>1, <2>2
<1>7. ASSUME NEW l \in Leaves, NEW i \in DOMAIN log'[l]
      PROVE  log'[l][i] = g \/ \E j \in DOMAIN log[l] : log[l][j] = log'[l][i]
  <2>1. CASE l = m
    <3>1. i \in 1 .. Len(q) \/ i = Len(q) + 1
      BY <1>1, <1>4, <1>5, <2>1
    <3> QED
      BY <1>1, <1>3, <1>5, <2>1, <3>1
  <2>2. CASE l # m
    BY <1>5, <2>2
  <2> QED
    BY <2>1, <2>2
<1> QED
  BY <1>6, <1>7

\* Two threads cannot be sending entries of the same chain at once, once both
\* hold its mutex.
LEMMA OneAtATime ==
  ASSUME LockInv, NEW t \in Threads, NEW u \in Threads,
         stack[t] # << >>, stack[u] # << >>, stack[t][1].i > 0, stack[u][1].i > 0,
         stack[t][1].chain = stack[u][1].chain
  PROVE  t = u
<1>1. \A v \in Threads : stack[v] # << >> => 1 \in DOMAIN stack[v] /\ stack[v][1].chain \in Chains
  <2> SUFFICES ASSUME NEW v \in Threads, stack[v] # << >>
               PROVE  1 \in DOMAIN stack[v] /\ stack[v][1].chain \in Chains
    OBVIOUS
  <2>1. stack[v] \in Seq(Frames)
    BY FramesOf
  <2>2. Len(stack[v]) \in Nat \ {0}
    BY <2>1, EmptySeq, LenProperties
  <2>3. 1 \in 1 .. Len(stack[v])
    BY <2>2
  <2> QED
    BY <2>1, <2>3, StackDomain DEF Frames
<1>2. chain_mutex[stack[t][1].chain] = t /\ chain_mutex[stack[u][1].chain] = u
  BY <1>1 DEF LockInv, LocksMatch
<1> QED
  BY <1>2

LEMMA SendToLeafOrder ==
  ASSUME LockInv, OrderInv, NEW t \in Threads, NEW m \in Leaves, SendToLeaf(t, m)
  PROVE  OrderInv'
<1>1. PICK g : g = entry[t]
  OBVIOUS
<1>2. /\ Sending(t) /\ Top(t).i > 0 /\ g \in DOMAIN entries
      /\ UNCHANGED << entry, entries >>
      /\ log' = [log EXCEPT ![m] = Append(@, g)]
  BY <1>1, AtPosition DEF SendToLeaf
<1>3. stack[t] # << >> /\ stack[t][1].i > 0
  <2> DEFINE n == Len(stack[t])
  <2>1. n \in Nat \ {0} /\ Top(t) = stack[t][n] /\ stack[t] # << >>
    BY <1>2, SendingStack DEF LockInv
  <2>2. \A j, k \in 1 .. n :
          j < k => stack[t][j].i > 0 /\ stack[t][k].chain < stack[t][j].chain
    BY FramesOf
  <2>3. n \in Nat \ {0}
    BY <2>1
  <2> HIDE DEF n
  <2>4. CASE n = 1
    BY <1>2, <2>1, <2>4
  <2>5. CASE n > 1
    <3>1. 1 \in 1 .. n /\ n \in 1 .. n /\ 1 < n
      BY <2>3, <2>5
    <3> QED
      BY <2>1, <2>2, <3>1
  <2> QED
    BY <2>3, <2>4, <2>5
<1>4. \A u \in Threads : stack'[u] # << >> =>
        /\ stack[u] # << >>
        /\ entry'[u] = entry[u]
        /\ stack'[u][1].chain = stack[u][1].chain
        /\ stack'[u][1].i = 0 => stack[u][1].i = 0
  BY RootKept
<1>5. /\ \A l \in Leaves : \A e, f \in DOMAIN entries :
           Precedes(l, e, f)' =>
             \/ Precedes(l, e, f)
             \/ l = m /\ f = g /\ \E i \in DOMAIN log[m] : log[m][i] = e
      /\ \A l \in Leaves : \A i \in DOMAIN log'[l] :
           log'[l][i] = g \/ \E j \in DOMAIN log[l] : log[l][j] = log'[l][i]
  BY <1>2, PrecedesAppend DEF LockInv
<1>6. Rooted' /\ OneSender'
  BY <1>2, <1>4 DEF OrderInv, Rooted, OneSender
<1>7. NotYet'
  <2> SUFFICES ASSUME NEW u \in Threads, stack'[u] # << >>, stack'[u][1].i = 0,
                      NEW l \in Leaves, NEW i \in DOMAIN log'[l]
               PROVE  log'[l][i] # entry'[u]
    BY DEF NotYet
  <2>1. stack[u] # << >> /\ entry'[u] = entry[u] /\ stack[u][1].i = 0
    BY <1>4
  <2>2. u # t
    BY <1>3, <2>1
  <2>3. entry[u] # g
    BY <1>1, <1>3, <2>1, <2>2 DEF OrderInv, OneSender
  <2>4. \A j \in DOMAIN log[l] : log[l][j] # entry[u]
    BY <2>1 DEF OrderInv, NotYet
  <2> QED
    BY <1>5, <2>1, <2>3, <2>4
<1>8. Ordered'
  <2> SUFFICES ASSUME NEW e \in DOMAIN entries, NEW f \in DOMAIN entries, e # f,
                      entries[e] = entries[f], NEW l \in Leaves, Precedes(l, e, f)'
               PROVE  /\ \A u \in Threads : stack'[u] # << >> => entry'[u] # e
                      /\ \A k \in Leaves : ~Precedes(k, f, e)'
    BY <1>2 DEF Ordered
  \* In the logs as they were, or with the entry that is sent as the later one.
  <2>1. CASE Precedes(l, e, f)
    <3>1. /\ \A u \in Threads : stack[u] # << >> => entry[u] # e
          /\ \A k \in Leaves : ~Precedes(k, f, e)
      BY <2>1 DEF OrderInv, Ordered
    <3>2. e # g
      BY <1>1, <1>3, <3>1
    <3> QED
      BY <1>4, <1>5, <3>1, <3>2
  <2>2. CASE f = g /\ \E i \in DOMAIN log[m] : log[m][i] = e
    <3>1. ASSUME NEW u \in Threads, stack[u] # << >>, entry[u] = e PROVE FALSE
      <4>1. u # t
        BY <1>1, <2>2, <3>1
      <4>2. stack[u][1].i # 0
        BY <2>2, <3>1 DEF OrderInv, NotYet
      <4>3. stack[u][1].i \in Nat
        <5>1. stack[u] \in Seq(Frames)
          BY FramesOf
        <5>2. Len(stack[u]) \in Nat \ {0}
          BY <3>1, <5>1, EmptySeq, LenProperties
        <5>3. 1 \in 1 .. Len(stack[u])
          BY <5>2
        <5> QED
          BY <5>1, <5>3, StackDomain DEF Frames
      <4>4. stack[u][1].i > 0
        BY <4>2, <4>3
      <4>5. stack[u][1].chain = stack[t][1].chain
        BY <1>1, <1>3, <2>2, <3>1 DEF OrderInv, Rooted
      <4> QED
        BY <1>3, <3>1, <4>1, <4>4, <4>5, OneAtATime
    <3>2. \A k \in Leaves : ~Precedes(k, f, e)
      BY <1>1, <1>3, <2>2 DEF OrderInv, Ordered
    <3> QED
      BY <1>4, <1>5, <2>2, <3>1, <3>2
  <2> QED
    BY <1>5, <2>1, <2>2
<1> QED
  BY <1>6, <1>7, <1>8 DEF OrderInv

LEMMA AddEntryOrder ==
  ASSUME LockInv, OrderInv, NEW t \in Threads, NEW c \in Chains, AddEntry(t, c)
  PROVE  OrderInv'
<1> DEFINE f == Frame(c)
           n == Len(entries)
<1>1. f \in Frames /\ f.chain = c /\ f.i = 0
  BY FrameType
<1>2. stack' = [stack EXCEPT ![t] = << f >>] /\ UNCHANGED log
  BY DEF AddEntry
<1>3. n \in Nat /\ DOMAIN entries = 1 .. n /\ entries \in Seq(Chains)
  BY LenProperties DEF LockInv, TypeOK
<1>4. /\ entries' \in Seq(Chains) /\ DOMAIN entries' = 1 .. n + 1
      /\ entries'[n + 1] = c /\ \A e \in 1 .. n : entries'[e] = entries[e]
  BY <1>3, AppendProperties, LenProperties DEF AddEntry
<1>5. entry'[t] = n + 1 /\ \A u \in Threads \ {t} : entry'[u] = entry[u]
  BY DEF AddEntry, LockInv, TypeOK
<1>6. \A l \in Leaves : \A i \in DOMAIN log[l] : log[l][i] \in 1 .. n
  BY <1>3, LogType DEF LockInv
<1>7. \A u \in Threads : stack[u] # << >> => entry[u] \in 1 .. n
  BY <1>3 DEF LockInv, Entered
<1> HIDE DEF f, n
<1>8. stack'[t] = << f >> /\ stack'[t][1] = f /\ \A u \in Threads \ {t} : stack'[u] = stack[u]
  <2>1. stack'[t] = << f >> /\ \A u \in Threads \ {t} : stack'[u] = stack[u]
    BY <1>2 DEF LockInv, TypeOK
  <2> QED
    BY <2>1
<1>9. n + 1 \notin 1 .. n
  BY <1>3
<1>10. Rooted'
  BY <1>1, <1>4, <1>5, <1>7, <1>8 DEF OrderInv, Rooted
<1>11. OneSender'
  <2> SUFFICES ASSUME NEW u \in Threads, NEW v \in Threads, u # v,
                      stack'[u] # << >>, stack'[v] # << >>
               PROVE  entry'[u] # entry'[v]
    BY DEF OneSender
  <2> QED
    BY <1>5, <1>7, <1>8, <1>9 DEF OrderInv, OneSender
<1>12. NotYet'
  <2> SUFFICES ASSUME NEW u \in Threads, stack'[u] # << >>, stack'[u][1].i = 0,
                      NEW l \in Leaves, NEW i \in DOMAIN log[l]
               PROVE  log[l][i] # entry'[u]
    BY <1>2 DEF NotYet
  <2>1. CASE u = t
    BY <1>5, <1>6, <1>9, <2>1
  <2>2. CASE u # t
    BY <1>5, <1>8, <2>2 DEF OrderInv, NotYet
  <2> QED
    BY <2>1, <2>2
<1>13. Ordered'
  <2> SUFFICES ASSUME NEW e \in 1 .. n + 1, NEW g \in 1 .. n + 1, e # g,
                      entries'[e] = entries'[g], NEW l \in Leaves, Precedes(l, e, g)'
               PROVE  /\ \A u \in Threads : stack'[u] # << >> => entry'[u] # e
                      /\ \A k \in Leaves : ~Precedes(k, g, e)'
    BY <1>4 DEF Ordered
  <2>1. \A k, a, b : Precedes(k, a, b)' <=> Precedes(k, a, b)
    BY <1>2 DEF Precedes
  <2>2. e \in 1 .. n /\ g \in 1 .. n
    <3>1. Precedes(l, e, g)
      BY <2>1
    <3>2. PICK i, j \in DOMAIN log[l] : log[l][i] = e /\ log[l][j] = g
      BY <3>1 DEF Precedes
    <3> QED
      BY <1>6, <3>2
  <2>3. entries[e] = entries[g]
    BY <1>4, <2>2
  <2>4. /\ \A u \in Threads : stack[u] # << >> => entry[u] # e
        /\ \A k \in Leaves : ~Precedes(k, g, e)
    BY <1>3, <2>1, <2>2, <2>3 DEF OrderInv, Ordered
  <2> QED
    BY <1>5, <1>8, <1>9, <2>1, <2>2, <2>4
<1> QED
  BY <1>10, <1>11, <1>12, <1>13 DEF OrderInv

LEMMA CloseOrder ==
  ASSUME LockInv, OrderInv, NEW c \in Chains, CloseOnly(c) \/ CloseContents(c)
  PROVE  OrderInv'
<1>1. \A t \in Threads : stack'[t] = << >>
  BY DEF CloseOnly, CloseContents, Quiet, Idle
<1>2. UNCHANGED entries /\ \A l \in Leaves : log'[l] = log[l] \/ log'[l] = << >>
  BY DEF CloseOnly, CloseContents
<1>3. \A l \in Leaves : \A e, f : Precedes(l, e, f)' => Precedes(l, e, f)
  BY <1>2 DEF Precedes
<1>4. Rooted' /\ OneSender' /\ NotYet'
  BY <1>1 DEF Rooted, OneSender, NotYet
<1>5. Ordered'
  BY <1>1, <1>2, <1>3 DEF OrderInv, Ordered
<1> QED
  BY <1>4, <1>5 DEF OrderInv

LEMMA NextOrder ==
  LockInv /\ OrderInv /\ [Next]_vars => OrderInv'
<1> SUFFICES ASSUME LockInv, OrderInv, [Next]_vars PROVE OrderInv'
  OBVIOUS
<1>1. ASSUME NEW t \in Threads,
             \/ LockChain(t) \/ UnlockChain(t)
             \/ \E l \in Leaves : LeafFails(t, l)
             \/ \E d \in Chains : SendToChain(t, d)
      PROVE  OrderInv'
  <2>1. UNCHANGED << log, entries >>
    BY <1>1 DEF LockChain, UnlockChain, LeafFails, SendToChain
  <2>2. \A u \in Threads : stack'[u] # << >> =>
          /\ stack[u] # << >>
          /\ entry'[u] = entry[u]
          /\ stack'[u][1].chain = stack[u][1].chain
          /\ stack'[u][1].i = 0 => stack[u][1].i = 0
    BY <1>1, RootKept
  <2> QED
    BY <2>1, <2>2, OrderKept
<1>2. CASE /\ UNCHANGED << log, entries, stack >>
           /\ \A u \in Threads : stack[u] # << >> => entry'[u] = entry[u]
  BY <1>2, OrderKept
<1>3. ASSUME NEW t \in Threads,
             AppendTarget(t) \/ AppendFails(t) \/ Done(t) \/ \E c \in Chains : AddTarget(t, c)
      PROVE  /\ UNCHANGED << log, entries, stack >>
             /\ \A u \in Threads : stack[u] # << >> => entry'[u] = entry[u]
  BY <1>3 DEF AppendTarget, AppendFails, Added, Done, AddTarget, LockInv, TypeOK
<1>4. CASE UNCHANGED vars
  BY <1>2, <1>4 DEF vars
<1>5. ASSUME NEW c \in Chains, CloseOnly(c) \/ CloseContents(c) PROVE OrderInv'
  BY <1>5, CloseOrder
<1>6. ASSUME NEW t \in Threads, NEW c \in Chains, AddEntry(t, c) PROVE OrderInv'
  BY <1>6, AddEntryOrder
<1>7. ASSUME NEW t \in Threads, NEW l \in Leaves, SendToLeaf(t, l) PROVE OrderInv'
  BY <1>7, SendToLeafOrder
<1> QED
  BY <1>1, <1>2, <1>3, <1>4, <1>5, <1>6, <1>7 DEF Next

(***************************************************************************)
(* A chain that reports no failure has sent the entry to every target in   *)
(* it, as often as it contains it, whatever other threads add to it or     *)
(* send through it meanwhile; and the entries that several threads add to  *)
(* the same chain reach all targets in one order, those of nested chains   *)
(* and those that overflow the array included.                             *)
(***************************************************************************)
THEOREM EntriesBroadcast == Spec => []Broadcast
<1> DEFINE Inv == LockInv /\ Served /\ ServedLast /\ OrderInv
<1>1. Init => Inv
  <2> SUFFICES ASSUME Init PROVE Served /\ ServedLast /\ OrderInv
    BY InitLockInv
  <2>1. (\A t \in Threads : stack[t] = << >> /\ last[t] = NULL) /\ entries = << >>
    BY DEF Init
  <2> QED
    BY <2>1 DEF Served, ServedLast, OrderInv, Rooted, OneSender, NotYet, Ordered
<1>2. Inv /\ [Next]_vars => Inv'
  BY NextLockInv, NextServed, NextOrder
<1>3. Inv => Broadcast
  <2> SUFFICES ASSUME Inv PROVE Broadcast
    OBVIOUS
  <2>1. EveryTargetServed
    <3> SUFFICES ASSUME NEW t \in Threads, last[t] # NULL, ~last[t].failed, NEW l \in Leaves
                 PROVE  Times(entry[t], l) >= Cardinality(Places(last[t], l))
      BY DEF EveryTargetServed, Places
    <3>1. last[t] \in Frames
      BY DEF LockInv, TypeOK
    <3>2. entry[t] \in Nat
      <4>1. entry[t] \in {0} \cup DOMAIN entries
        BY DEF LockInv, TypeOK
      <4>2. DOMAIN entries = 1 .. Len(entries)
        BY LogType DEF LockInv
      <4> QED
        BY <4>1, <4>2
    <3> QED
      BY <3>1, <3>2 DEF ServedLast
  <2>2. BroadcastsOrdered
    BY DEF OrderInv, Ordered, BroadcastsOrdered
  <2> QED
    BY <2>1, <2>2 DEF Broadcast
<1> QED
  BY <1>1, <1>2, <1>3, PTL DEF Spec

-----------------------------------------------------------------------------
(***************************************************************************)
(* Targets that insert entries into a database (Sqlite3Target).            *)
(***************************************************************************)

SqliteSteps == {"idle", "get", "got", "create", "lock", "bind", "step", "done"}

Preparers == {"default", "custom", NULL}

SqliteFrame ==
  [step : SqliteSteps, call : Nat, i : Nat, count : Nat, try : Nat, result : {-1, 0, 1}, own : BOOLEAN,
   func : Preparers, data : Preparers, message : Nat, busy : BOOLEAN, raced : BOOLEAN]

SqliteTyped ==
  /\ target \in Sqlite3!sqlite3_target \cup {NULL}
  /\ db \in [open : BOOLEAN, table : BOOLEAN, stmts : {0, 1}]
  /\ rows \in Seq([call : Nat, live : BOOLEAN, new : BOOLEAN, raced : BOOLEAN])
  /\ mutex \in Threads \cup {NULL}
  /\ loaded \in [message : Nat, freed : SUBSET Nat]
  /\ frame \in [Threads -> SqliteFrame]
  /\ calls \in Nat

On(t, S) == frame[t].step \in S

\* The mutex of the database is held by the thread that uses the database.
HoldsInv == \A t \in Threads : mutex = t <=> On(t, {"create", "bind", "step"})

\* A thread outside of the library has no call, and the target is not closed
\* under one that has.
CallInv ==
  \A t \in Threads :
    /\ On(t, {"idle"}) => frame[t] = Sqlite3!Idle
    /\ ~On(t, {"idle", "done"}) => target # NULL

\* The statements of the application are run, and not bound.
OwnInv == \A t \in Threads : On(t, {"create", "lock", "bind"}) => ~frame[t].own

\* Tries and statements are counted within their bounds.
LoopInv ==
  \A t \in Threads :
    /\ frame[t].i < Statements /\ frame[t].try < Retries + frame[t].i
    /\ On(t, {"create", "lock", "bind"}) => frame[t].i = 0 /\ frame[t].count = 0
    /\ On(t, {"step"}) => frame[t].i < frame[t].count /\ frame[t].count <= Statements

\* The statement of the target, and what it is bound to.
StatementInv ==
  /\ target # NULL => target.stmt = NULL \/ target.stmt.sql = target.sql
  /\ Sqlite3!StatementsOwned
  /\ \A t \in Threads :
       /\ On(t, {"bind"}) => target.stmt # NULL /\ ~target.stmt.ran /\ ~frame[t].own
       /\ On(t, {"step"}) /\ ~frame[t].own => target.stmt # NULL /\ target.stmt.message \in Nat

\* The function and its data.
PairInv ==
  /\ target # NULL => target.func = target.data
  /\ \A t \in Threads : On(t, {"get"}) /\ ~frame[t].raced => frame[t].data = target.data
  /\ \A t \in Threads : On(t, {"got"}) /\ ~frame[t].raced => frame[t].func = frame[t].data

\* Each call has a number of its own, by which its rows are known.
NumberInv ==
  /\ \A t \in Threads : frame[t].call <= calls
  /\ \A t \in Threads : On(t, {"create", "lock", "bind", "step"}) => frame[t].call > 0
  /\ \A t, u \in Threads : frame[t].call = frame[u].call /\ frame[t].call > 0 => t = u
  /\ \A k \in DOMAIN rows : rows[k].call > 0 /\ rows[k].call <= calls

\* The number of rows that a call has stored.
Stored(r, n) == Cardinality({k \in DOMAIN r : r[k].call = n})

StoredInv ==
  \A t \in Threads :
    /\ On(t, {"create", "lock", "bind"}) => Stored(rows, frame[t].call) = 0 /\ ~frame[t].busy
    /\ On(t, {"step"}) => Stored(rows, frame[t].call) = frame[t].i /\ ~frame[t].busy
    /\ On(t, {"done"}) =>
         /\ frame[t].result = 1 /\ ~frame[t].busy => Stored(rows, frame[t].call) = frame[t].count
         /\ frame[t].result = -1 \/ frame[t].busy =>
              Stored(rows, frame[t].call) = 0 \/ Stored(rows, frame[t].call) < frame[t].count

\* What is bound was the message of the entry during the call, and is still
\* allocated unless it was replaced.
FreshInv ==
  /\ \A m \in loaded.freed : m < loaded.message
  /\ \A t \in Threads : frame[t].message <= loaded.message
  /\ \A t \in Threads : On(t, {"step"}) /\ ~frame[t].own =>
       /\ target.stmt.message >= frame[t].message
       /\ ~frame[t].raced => target.stmt.message \notin loaded.freed
  /\ \A k \in DOMAIN rows : rows[k].new /\ (rows[k].live \/ rows[k].raced)

SqliteInv ==
  /\ SqliteTyped /\ HoldsInv /\ CallInv /\ OwnInv /\ LoopInv /\ StatementInv
  /\ PairInv /\ NumberInv /\ StoredInv /\ FreshInv

(***************************************************************************)
(* What a step does to the call of a thread, field by field.               *)
(***************************************************************************)

CallKept(t) == frame'[t].call = frame[t].call /\ frame'[t].message = frame[t].message

LoopKept(t) == frame'[t].i = frame[t].i /\ frame'[t].count = frame[t].count /\ frame'[t].try = frame[t].try

EndKept(t) == frame'[t].result = frame[t].result /\ frame'[t].busy = frame[t].busy

PairKept(t) == frame'[t].func = frame[t].func /\ frame'[t].data = frame[t].data

OwnKept(t) == frame'[t].own = frame[t].own /\ frame'[t].raced = frame[t].raced

OthersKept(t) == frame' \in [Threads -> SqliteFrame] /\ \A u \in Threads : u # t => frame'[u] = frame[u]

Begun(t, s) ==
  /\ OthersKept(t) /\ frame'[t].step = s /\ frame'[t].call = calls + 1 /\ frame'[t].message = loaded.message
  /\ LoopKept(t) /\ EndKept(t) /\ PairKept(t) /\ OwnKept(t)

Gone(t, s) ==
  /\ OthersKept(t) /\ frame'[t].step = s
  /\ CallKept(t) /\ LoopKept(t) /\ EndKept(t) /\ PairKept(t) /\ OwnKept(t)

Finished(t, r, b) ==
  /\ OthersKept(t) /\ frame'[t].step = "done" /\ frame'[t].result = r /\ frame'[t].busy = b
  /\ CallKept(t) /\ LoopKept(t) /\ PairKept(t) /\ OwnKept(t)

Looped(t, s, i, n, y, o) ==
  /\ OthersKept(t) /\ frame'[t].step = s /\ frame'[t].i = i /\ frame'[t].count = n /\ frame'[t].try = y
  /\ frame'[t].own = o /\ frame'[t].raced = frame[t].raced
  /\ CallKept(t) /\ EndKept(t) /\ PairKept(t)

Paired(t, s, f, d) ==
  /\ OthersKept(t) /\ frame'[t].step = s /\ frame'[t].func = f /\ frame'[t].data = d
  /\ CallKept(t) /\ LoopKept(t) /\ EndKept(t) /\ OwnKept(t)

AllRaced(s) ==
  /\ frame' \in [Threads -> SqliteFrame]
  /\ \A u \in Threads : /\ frame'[u].step = frame[u].step /\ frame'[u].own = frame[u].own
                        /\ CallKept(u) /\ LoopKept(u) /\ EndKept(u) /\ PairKept(u)
                        /\ ~frame'[u].raced => ~frame[u].raced /\ frame[u].step # s
                        /\ frame[u].step # s => frame'[u] = frame[u]

\* The frame of one thread is replaced.
LEMMA FrameReplaced ==
  ASSUME SqliteTyped, NEW t \in Threads, NEW g \in SqliteFrame, frame' = [frame EXCEPT ![t] = g]
  PROVE  OthersKept(t) /\ frame'[t] = g
BY DEF SqliteTyped, OthersKept

\* What is known of the fields of a frame.
LEMMA FrameTyped ==
  ASSUME SqliteTyped, NEW t \in Threads
  PROVE  /\ frame[t] \in SqliteFrame /\ calls + 1 \in Nat /\ loaded.message \in Nat /\ Statements \in Nat
         /\ frame[t].try + 1 \in Nat /\ frame[t].i + 1 \in Nat
<1>1. frame[t] \in SqliteFrame
  BY DEF SqliteTyped
<1>2. frame[t].try \in Nat /\ frame[t].i \in Nat
  BY <1>1 DEF SqliteFrame
<1>3. calls \in Nat /\ loaded.message \in Nat /\ Statements \in Nat
  BY StatementAssumption DEF SqliteTyped
<1> QED
  BY <1>1, <1>2, <1>3

\* A call begins.
LEMMA FrameBegins ==
  ASSUME SqliteTyped, NEW t \in Threads, NEW s \in SqliteSteps, Sqlite3!Begin(t, s)
  PROVE  Begun(t, s)
<1> DEFINE f == frame[t]
           g == [f EXCEPT !.step = s, !.call = calls + 1, !.message = loaded.message]
<1>1. frame' = [frame EXCEPT ![t] = g]
  BY DEF Sqlite3!Begin
<1>0. /\ f \in SqliteFrame /\ calls + 1 \in Nat /\ loaded.message \in Nat /\ Statements \in Nat
      /\ f.try + 1 \in Nat /\ f.i + 1 \in Nat
  BY FrameTyped
<1>s. "done" \in SqliteSteps /\ "step" \in SqliteSteps /\ "get" \in SqliteSteps /\ "got" \in SqliteSteps
  BY DEF SqliteSteps
<1> HIDE DEF f
<1>2. g \in SqliteFrame
  BY <1>0, <1>s DEF SqliteFrame
<1>3. /\ g.step = s /\ g.call = calls + 1 /\ g.i = f.i /\ g.count = f.count /\ g.try = f.try /\ g.result = f.result
      /\ g.own = f.own /\ g.func = f.func /\ g.data = f.data
      /\ g.message = loaded.message /\ g.busy = f.busy /\ g.raced = f.raced
  BY <1>0 DEF SqliteFrame
<1> HIDE DEF g
<1> QED
  BY <1>1, <1>2, <1>3, FrameReplaced DEF f, Begun, CallKept, LoopKept, EndKept, PairKept, OwnKept

\* A call goes to its next step.
LEMMA FrameGoes ==
  ASSUME SqliteTyped, NEW t \in Threads, NEW s \in SqliteSteps, Sqlite3!Goto(t, s)
  PROVE  Gone(t, s)
<1> DEFINE f == frame[t]
           g == [f EXCEPT !.step = s]
<1>1. frame' = [frame EXCEPT ![t] = g]
  BY DEF Sqlite3!Goto
<1>0. /\ f \in SqliteFrame /\ calls + 1 \in Nat /\ loaded.message \in Nat /\ Statements \in Nat
      /\ f.try + 1 \in Nat /\ f.i + 1 \in Nat
  BY FrameTyped
<1>s. "done" \in SqliteSteps /\ "step" \in SqliteSteps /\ "get" \in SqliteSteps /\ "got" \in SqliteSteps
  BY DEF SqliteSteps
<1> HIDE DEF f
<1>2. g \in SqliteFrame
  BY <1>0, <1>s DEF SqliteFrame
<1>3. /\ g.step = s /\ g.call = f.call /\ g.i = f.i /\ g.count = f.count /\ g.try = f.try /\ g.result = f.result
      /\ g.own = f.own /\ g.func = f.func /\ g.data = f.data
      /\ g.message = f.message /\ g.busy = f.busy /\ g.raced = f.raced
  BY <1>0 DEF SqliteFrame
<1> HIDE DEF g
<1> QED
  BY <1>1, <1>2, <1>3, FrameReplaced DEF f, Gone, CallKept, LoopKept, EndKept, PairKept, OwnKept

\* A call ends with a result.
LEMMA FrameFinishes ==
  ASSUME SqliteTyped, NEW t \in Threads, NEW r \in {-1, 0, 1}, Sqlite3!Finish(t, r)
  PROVE  Finished(t, r, frame[t].busy)
<1> DEFINE f == frame[t]
           g == [f EXCEPT !.step = "done", !.result = r]
<1>1. frame' = [frame EXCEPT ![t] = g]
  BY DEF Sqlite3!Finish
<1>0. /\ f \in SqliteFrame /\ calls + 1 \in Nat /\ loaded.message \in Nat /\ Statements \in Nat
      /\ f.try + 1 \in Nat /\ f.i + 1 \in Nat
  BY FrameTyped
<1>s. "done" \in SqliteSteps /\ "step" \in SqliteSteps /\ "get" \in SqliteSteps /\ "got" \in SqliteSteps
  BY DEF SqliteSteps
<1> HIDE DEF f
<1>2. g \in SqliteFrame
  BY <1>0, <1>s DEF SqliteFrame
<1>3. /\ g.step = "done" /\ g.call = f.call /\ g.i = f.i /\ g.count = f.count /\ g.try = f.try /\ g.result = r
      /\ g.own = f.own /\ g.func = f.func /\ g.data = f.data
      /\ g.message = f.message /\ g.busy = f.busy /\ g.raced = f.raced
  BY <1>0 DEF SqliteFrame
<1> HIDE DEF g
<1> QED
  BY <1>1, <1>2, <1>3, FrameReplaced DEF f, Finished, CallKept, LoopKept, EndKept, PairKept, OwnKept

\* A call ends since the database was busy too often.
LEMMA FrameTires ==
  ASSUME SqliteTyped, NEW t \in Threads, frame' = [frame EXCEPT ![t].step = "done", ![t].result = 1, ![t].busy = TRUE]
  PROVE  Finished(t, 1, TRUE)
<1> DEFINE f == frame[t]
           g == [f EXCEPT !.step = "done", !.result = 1, !.busy = TRUE]
<1>1. frame' = [frame EXCEPT ![t] = g]
  OBVIOUS
<1>0. /\ f \in SqliteFrame /\ calls + 1 \in Nat /\ loaded.message \in Nat /\ Statements \in Nat
      /\ f.try + 1 \in Nat /\ f.i + 1 \in Nat
  BY FrameTyped
<1>s. "done" \in SqliteSteps /\ "step" \in SqliteSteps /\ "get" \in SqliteSteps /\ "got" \in SqliteSteps
  BY DEF SqliteSteps
<1> HIDE DEF f
<1>2. g \in SqliteFrame
  BY <1>0, <1>s DEF SqliteFrame
<1>3. /\ g.step = "done" /\ g.call = f.call /\ g.i = f.i /\ g.count = f.count /\ g.try = f.try /\ g.result = 1
      /\ g.own = f.own /\ g.func = f.func /\ g.data = f.data
      /\ g.message = f.message /\ g.busy = TRUE /\ g.raced = f.raced
  BY <1>0 DEF SqliteFrame
<1> HIDE DEF g
<1> QED
  BY <1>1, <1>2, <1>3, FrameReplaced DEF f, Finished, CallKept, LoopKept, EndKept, PairKept, OwnKept

\* A statement is tried again.
LEMMA FrameTries ==
  ASSUME SqliteTyped, NEW t \in Threads, frame' = [frame EXCEPT ![t].try = @ + 1]
  PROVE  Looped(t, frame[t].step, frame[t].i, frame[t].count, frame[t].try + 1, frame[t].own)
<1> DEFINE f == frame[t]
           g == [f EXCEPT !.try = f.try + 1]
<1>1. frame' = [frame EXCEPT ![t] = g]
  OBVIOUS
<1>0. /\ f \in SqliteFrame /\ calls + 1 \in Nat /\ loaded.message \in Nat /\ Statements \in Nat
      /\ f.try + 1 \in Nat /\ f.i + 1 \in Nat
  BY FrameTyped
<1>s. "done" \in SqliteSteps /\ "step" \in SqliteSteps /\ "get" \in SqliteSteps /\ "got" \in SqliteSteps
  BY DEF SqliteSteps
<1> HIDE DEF f
<1>2. g \in SqliteFrame
  BY <1>0, <1>s DEF SqliteFrame
<1>3. /\ g.step = f.step /\ g.call = f.call /\ g.i = f.i /\ g.count = f.count /\ g.try = f.try + 1 /\ g.result = f.result
      /\ g.own = f.own /\ g.func = f.func /\ g.data = f.data
      /\ g.message = f.message /\ g.busy = f.busy /\ g.raced = f.raced
  BY <1>0 DEF SqliteFrame
<1> HIDE DEF g
<1> QED
  BY <1>1, <1>2, <1>3, FrameReplaced DEF f, Looped, CallKept, LoopKept, EndKept, PairKept, OwnKept

\* The next statement is run.
LEMMA FrameContinues ==
  ASSUME SqliteTyped, NEW t \in Threads, frame' = [frame EXCEPT ![t].i = @ + 1, ![t].try = @ + 1]
  PROVE  Looped(t, frame[t].step, frame[t].i + 1, frame[t].count, frame[t].try + 1, frame[t].own)
<1> DEFINE f == frame[t]
           g == [f EXCEPT !.i = f.i + 1, !.try = f.try + 1]
<1>1. frame' = [frame EXCEPT ![t] = g]
  OBVIOUS
<1>0. /\ f \in SqliteFrame /\ calls + 1 \in Nat /\ loaded.message \in Nat /\ Statements \in Nat
      /\ f.try + 1 \in Nat /\ f.i + 1 \in Nat
  BY FrameTyped
<1>s. "done" \in SqliteSteps /\ "step" \in SqliteSteps /\ "get" \in SqliteSteps /\ "got" \in SqliteSteps
  BY DEF SqliteSteps
<1> HIDE DEF f
<1>2. g \in SqliteFrame
  BY <1>0, <1>s DEF SqliteFrame
<1>3. /\ g.step = f.step /\ g.call = f.call /\ g.i = f.i + 1 /\ g.count = f.count /\ g.try = f.try + 1 /\ g.result = f.result
      /\ g.own = f.own /\ g.func = f.func /\ g.data = f.data
      /\ g.message = f.message /\ g.busy = f.busy /\ g.raced = f.raced
  BY <1>0 DEF SqliteFrame
<1> HIDE DEF g
<1> QED
  BY <1>1, <1>2, <1>3, FrameReplaced DEF f, Looped, CallKept, LoopKept, EndKept, PairKept, OwnKept

\* The statements of the application are taken.
LEMMA FrameTakes ==
  ASSUME SqliteTyped, NEW t \in Threads, frame' = [frame EXCEPT ![t].step = "step", ![t].count = Statements, ![t].own = TRUE]
  PROVE  Looped(t, "step", frame[t].i, Statements, frame[t].try, TRUE)
<1> DEFINE f == frame[t]
           g == [f EXCEPT !.step = "step", !.count = Statements, !.own = TRUE]
<1>1. frame' = [frame EXCEPT ![t] = g]
  OBVIOUS
<1>0. /\ f \in SqliteFrame /\ calls + 1 \in Nat /\ loaded.message \in Nat /\ Statements \in Nat
      /\ f.try + 1 \in Nat /\ f.i + 1 \in Nat
  BY FrameTyped
<1>s. "done" \in SqliteSteps /\ "step" \in SqliteSteps /\ "get" \in SqliteSteps /\ "got" \in SqliteSteps
  BY DEF SqliteSteps
<1> HIDE DEF f
<1>2. g \in SqliteFrame
  BY <1>0, <1>s DEF SqliteFrame
<1>3. /\ g.step = "step" /\ g.call = f.call /\ g.i = f.i /\ g.count = Statements /\ g.try = f.try /\ g.result = f.result
      /\ g.own = TRUE /\ g.func = f.func /\ g.data = f.data
      /\ g.message = f.message /\ g.busy = f.busy /\ g.raced = f.raced
  BY <1>0 DEF SqliteFrame
<1> HIDE DEF g
<1> QED
  BY <1>1, <1>2, <1>3, FrameReplaced DEF f, Looped, CallKept, LoopKept, EndKept, PairKept, OwnKept

\* The statement of the target is bound.
LEMMA FrameBinds ==
  ASSUME SqliteTyped, NEW t \in Threads, frame' = [frame EXCEPT ![t].step = "step", ![t].count = 1]
  PROVE  Looped(t, "step", frame[t].i, 1, frame[t].try, frame[t].own)
<1> DEFINE f == frame[t]
           g == [f EXCEPT !.step = "step", !.count = 1]
<1>1. frame' = [frame EXCEPT ![t] = g]
  OBVIOUS
<1>0. /\ f \in SqliteFrame /\ calls + 1 \in Nat /\ loaded.message \in Nat /\ Statements \in Nat
      /\ f.try + 1 \in Nat /\ f.i + 1 \in Nat
  BY FrameTyped
<1>s. "done" \in SqliteSteps /\ "step" \in SqliteSteps /\ "get" \in SqliteSteps /\ "got" \in SqliteSteps
  BY DEF SqliteSteps
<1> HIDE DEF f
<1>2. g \in SqliteFrame
  BY <1>0, <1>s DEF SqliteFrame
<1>3. /\ g.step = "step" /\ g.call = f.call /\ g.i = f.i /\ g.count = 1 /\ g.try = f.try /\ g.result = f.result
      /\ g.own = f.own /\ g.func = f.func /\ g.data = f.data
      /\ g.message = f.message /\ g.busy = f.busy /\ g.raced = f.raced
  BY <1>0 DEF SqliteFrame
<1> HIDE DEF g
<1> QED
  BY <1>1, <1>2, <1>3, FrameReplaced DEF f, Looped, CallKept, LoopKept, EndKept, PairKept, OwnKept

\* The data of the function is read.
LEMMA FrameData ==
  ASSUME SqliteTyped, NEW t \in Threads, NEW p \in Preparers, frame' = [frame EXCEPT ![t].step = "get", ![t].data = p]
  PROVE  Paired(t, "get", frame[t].func, p)
<1> DEFINE f == frame[t]
           g == [f EXCEPT !.step = "get", !.data = p]
<1>1. frame' = [frame EXCEPT ![t] = g]
  OBVIOUS
<1>0. /\ f \in SqliteFrame /\ calls + 1 \in Nat /\ loaded.message \in Nat /\ Statements \in Nat
      /\ f.try + 1 \in Nat /\ f.i + 1 \in Nat
  BY FrameTyped
<1>s. "done" \in SqliteSteps /\ "step" \in SqliteSteps /\ "get" \in SqliteSteps /\ "got" \in SqliteSteps
  BY DEF SqliteSteps
<1> HIDE DEF f
<1>2. g \in SqliteFrame
  BY <1>0, <1>s DEF SqliteFrame
<1>3. /\ g.step = "get" /\ g.call = f.call /\ g.i = f.i /\ g.count = f.count /\ g.try = f.try /\ g.result = f.result
      /\ g.own = f.own /\ g.func = f.func /\ g.data = p
      /\ g.message = f.message /\ g.busy = f.busy /\ g.raced = f.raced
  BY <1>0 DEF SqliteFrame
<1> HIDE DEF g
<1> QED
  BY <1>1, <1>2, <1>3, FrameReplaced DEF f, Paired, CallKept, LoopKept, EndKept, PairKept, OwnKept

\* The function is read.
LEMMA FrameFunc ==
  ASSUME SqliteTyped, NEW t \in Threads, NEW p \in Preparers, frame' = [frame EXCEPT ![t].step = "got", ![t].func = p]
  PROVE  Paired(t, "got", p, frame[t].data)
<1> DEFINE f == frame[t]
           g == [f EXCEPT !.step = "got", !.func = p]
<1>1. frame' = [frame EXCEPT ![t] = g]
  OBVIOUS
<1>0. /\ f \in SqliteFrame /\ calls + 1 \in Nat /\ loaded.message \in Nat /\ Statements \in Nat
      /\ f.try + 1 \in Nat /\ f.i + 1 \in Nat
  BY FrameTyped
<1>s. "done" \in SqliteSteps /\ "step" \in SqliteSteps /\ "get" \in SqliteSteps /\ "got" \in SqliteSteps
  BY DEF SqliteSteps
<1> HIDE DEF f
<1>2. g \in SqliteFrame
  BY <1>0, <1>s DEF SqliteFrame
<1>3. /\ g.step = "got" /\ g.call = f.call /\ g.i = f.i /\ g.count = f.count /\ g.try = f.try /\ g.result = f.result
      /\ g.own = f.own /\ g.func = p /\ g.data = f.data
      /\ g.message = f.message /\ g.busy = f.busy /\ g.raced = f.raced
  BY <1>0 DEF SqliteFrame
<1> HIDE DEF g
<1> QED
  BY <1>1, <1>2, <1>3, FrameReplaced DEF f, Paired, CallKept, LoopKept, EndKept, PairKept, OwnKept

\* A call returns.
LEMMA FrameEnds ==
  ASSUME SqliteTyped, NEW t \in Threads, frame' = [frame EXCEPT ![t] = Sqlite3!Idle]
  PROVE  OthersKept(t) /\ frame'[t] = Sqlite3!Idle
<1>1. Sqlite3!Idle \in SqliteFrame
  BY DEF Sqlite3!Idle, SqliteFrame, SqliteSteps, Preparers
<1> QED
  BY <1>1, FrameReplaced

\* Something was changed under the calls at a step.
LEMMA RacedChanges ==
  ASSUME SqliteTyped, NEW s, frame' = Sqlite3!Raced(s)
  PROVE  AllRaced(s)
<1>1. \A u \in Threads : frame'[u] = IF frame[u].step = s THEN [frame[u] EXCEPT !.raced = TRUE] ELSE frame[u]
  BY DEF Sqlite3!Raced
<1>2. \A u \in Threads : frame[u] \in SqliteFrame
  BY DEF SqliteTyped
<1>3. \A u \in Threads : frame'[u] \in SqliteFrame
  BY <1>1, <1>2 DEF SqliteFrame
<1>4. frame' \in [Threads -> SqliteFrame]
  BY <1>3 DEF Sqlite3!Raced
<1>5. \A u \in Threads : /\ frame'[u].step = frame[u].step /\ frame'[u].own = frame[u].own
                        /\ CallKept(u) /\ LoopKept(u) /\ EndKept(u) /\ PairKept(u)
  BY <1>1, <1>2 DEF SqliteFrame, CallKept, LoopKept, EndKept, PairKept
<1>6. \A u \in Threads : ~frame'[u].raced => ~frame[u].raced /\ frame[u].step # s
  BY <1>1, <1>2 DEF SqliteFrame
<1> QED
  BY <1>1, <1>4, <1>5, <1>6 DEF AllRaced

(***************************************************************************)
(* What a step does to the target and to its statement.                    *)
(***************************************************************************)

TargetSame == target' = target /\ db'.stmts = db.stmts

\* Everything but the statement is as it was.
SettingsSame == target' # NULL /\ target'.sql = target.sql /\ target'.func = target.func /\ target'.data = target.data

\* The statement of the target was run, or one of the application's.
StatementRan(t) ==
  /\ SettingsSame /\ db'.stmts = db.stmts
  /\ frame[t].own => target' = target
  /\ ~frame[t].own => /\ target'.stmt # NULL /\ target'.stmt.sql = target.stmt.sql
                      /\ target'.stmt.message = target.stmt.message

\* The fields of a statement that is made or changed.
LEMMA StatementIs ==
  ASSUME NEW q \in Sqls, NEW b \in BOOLEAN, NEW m \in Nat \cup {NULL}
  PROVE  /\ [sql |-> q, ran |-> b, message |-> m] \in Sqlite3!statement
         /\ \A s \in Sqlite3!statement :
              /\ [s EXCEPT !.ran = b] \in Sqlite3!statement
              /\ [s EXCEPT !.ran = b].sql = s.sql /\ [s EXCEPT !.ran = b].message = s.message
              /\ [s EXCEPT !.ran = b].ran = b
              /\ [s EXCEPT !.message = m] \in Sqlite3!statement
              /\ [s EXCEPT !.message = m].sql = s.sql /\ [s EXCEPT !.message = m].message = m
              /\ [s EXCEPT !.message = m].ran = s.ran
         /\ \A s \in Sqlite3!statement : s # NULL
BY StatementAssumption DEF Sqlite3!statement

\* The fields of a target whose statement is changed.
LEMMA TargetIs ==
  ASSUME NEW g \in Sqlite3!sqlite3_target, NEW s \in Sqlite3!statement \cup {NULL}
  PROVE  /\ g # NULL /\ g.sql \in Sqls /\ g.func \in {"default", "custom"} /\ g.data \in {"default", "custom"}
         /\ g.stmt \in Sqlite3!statement \cup {NULL}
         /\ [g EXCEPT !.stmt = s] \in Sqlite3!sqlite3_target
         /\ [g EXCEPT !.stmt = s].stmt = s /\ [g EXCEPT !.stmt = s].sql = g.sql
         /\ [g EXCEPT !.stmt = s].func = g.func /\ [g EXCEPT !.stmt = s].data = g.data
<1>1. g # NULL
  BY StatementAssumption
<1>2. [g EXCEPT !.stmt = s] \in Sqlite3!sqlite3_target
  BY DEF Sqlite3!sqlite3_target
<1> QED
  BY <1>1, <1>2 DEF Sqlite3!sqlite3_target

\* The fields of a target that is set to something else.
LEMMA SettingIs ==
  ASSUME NEW g \in Sqlite3!sqlite3_target, NEW q \in Sqls, NEW p \in {"default", "custom"}
  PROVE  /\ [g EXCEPT !.sql = q, !.stmt = NULL] \in Sqlite3!sqlite3_target
         /\ [g EXCEPT !.sql = q, !.stmt = NULL].sql = q /\ [g EXCEPT !.sql = q, !.stmt = NULL].stmt = NULL
         /\ [g EXCEPT !.sql = q, !.stmt = NULL].func = g.func /\ [g EXCEPT !.sql = q, !.stmt = NULL].data = g.data
         /\ [g EXCEPT !.func = p, !.data = p] \in Sqlite3!sqlite3_target
         /\ [g EXCEPT !.func = p, !.data = p].func = p /\ [g EXCEPT !.func = p, !.data = p].data = p
         /\ [g EXCEPT !.func = p, !.data = p].sql = g.sql /\ [g EXCEPT !.func = p, !.data = p].stmt = g.stmt
<1>1. [g EXCEPT !.sql = q, !.stmt = NULL] \in Sqlite3!sqlite3_target
  BY DEF Sqlite3!sqlite3_target
<1>2. [g EXCEPT !.func = p, !.data = p] \in Sqlite3!sqlite3_target
  BY DEF Sqlite3!sqlite3_target
<1> QED
  BY <1>1, <1>2 DEF Sqlite3!sqlite3_target

(***************************************************************************)
(* The steps.                                                              *)
(***************************************************************************)

FramesSame == frame' = frame

Opens(t) ==
  /\ target = NULL /\ target' # NULL /\ target'.stmt = NULL /\ target'.func = target'.data /\ db'.stmts = db.stmts
  /\ FramesSame /\ UNCHANGED << rows, mutex, loaded >> /\ calls' = calls + 1

OpensNothing == TargetSame /\ FramesSame /\ UNCHANGED << rows, mutex, loaded >> /\ calls' = calls + 1

Closes ==
  /\ target # NULL /\ target' = NULL /\ db'.stmts = Sqlite3!finalize(target.stmt)
  /\ \A u \in Threads : On(u, {"idle"})
  /\ FramesSame /\ UNCHANGED << rows, mutex, loaded >> /\ calls' = calls + 1

SetsSql ==
  /\ target # NULL /\ mutex = NULL
  /\ target' # NULL /\ target'.stmt = NULL /\ target'.func = target.func /\ target'.data = target.data
  /\ db'.stmts = Sqlite3!finalize(target.stmt)
  /\ FramesSame /\ UNCHANGED << rows, mutex, loaded >> /\ calls' = calls + 1

SetsPrepare ==
  /\ target # NULL /\ mutex = NULL
  /\ target' # NULL /\ target'.sql = target.sql /\ target'.stmt = target.stmt /\ target'.func = target'.data
  /\ db'.stmts = db.stmts
  /\ AllRaced("get") /\ UNCHANGED << rows, mutex, loaded >> /\ calls' = calls + 1

Gets(t) ==
  /\ frame[t] = Sqlite3!Idle /\ target # NULL /\ TargetSame
  /\ Paired(t, "get", frame[t].func, target.data) /\ UNCHANGED << rows, mutex, loaded >> /\ calls' = calls + 1

GetsFunc(t) ==
  /\ On(t, {"get"}) /\ TargetSame
  /\ Paired(t, "got", target.func, frame[t].data) /\ UNCHANGED << rows, mutex, loaded, calls >>

Replaces ==
  /\ TargetSame /\ loaded'.message = loaded.message + 1 /\ loaded'.freed = loaded.freed \cup {loaded.message}
  /\ AllRaced("step") /\ UNCHANGED << rows, mutex >> /\ calls' = calls + 1

Begins(t) ==
  /\ frame[t] = Sqlite3!Idle /\ target # NULL /\ TargetSame
  /\ \/ mutex = NULL /\ mutex' = t /\ Begun(t, "create")
     \/ mutex' = mutex /\ Begun(t, "lock")
  /\ UNCHANGED << rows, loaded >> /\ calls' = calls + 1

\* The call ends without the mutex.
Refuses(t) ==
  /\ \/ frame[t] = Sqlite3!Idle /\ calls' = calls + 1
     \/ On(t, {"lock"}) /\ calls' = calls
  /\ target # NULL /\ TargetSame
  /\ Finished(t, -1, frame[t].busy) /\ UNCHANGED << rows, mutex, loaded >>

\* Or it gives the mutex back: a table is created, or nothing could be bound.
GivesBack(t) ==
  /\ On(t, {"create", "bind"}) /\ TargetSame /\ mutex' = NULL
  /\ \E r \in {-1, 1} : Finished(t, r, frame[t].busy) /\ (r = 1 => On(t, {"create"}))
  /\ UNCHANGED << rows, loaded, calls >>

TriesAgain(t) ==
  /\ On(t, {"create", "step"}) /\ frame[t].try + 1 < Retries
  /\ Looped(t, frame[t].step, frame[t].i, frame[t].count, frame[t].try + 1, frame[t].own)
  /\ On(t, {"create"}) => TargetSame
  /\ On(t, {"step"}) => StatementRan(t)
  /\ UNCHANGED << rows, mutex, loaded, calls >>

Prepares(t) ==
  /\ On(t, {"lock"}) /\ mutex = NULL /\ mutex' = t /\ target # NULL
  /\ \/ /\ target.func = "default" /\ Gone(t, "bind")
        /\ SettingsSame /\ target'.stmt # NULL /\ ~target'.stmt.ran
        /\ \/ target.stmt = NULL /\ target'.stmt.sql = target.sql /\ db'.stmts = db.stmts + 1
           \/ target.stmt # NULL /\ target'.stmt.sql = target.stmt.sql /\ db'.stmts = db.stmts
     \/ TargetSame /\ Looped(t, "step", frame[t].i, Statements, frame[t].try, TRUE)
  /\ UNCHANGED << rows, loaded, calls >>

Binds(t) ==
  /\ On(t, {"bind"}) /\ target # NULL /\ SettingsSame /\ target.stmt # NULL
  /\ target'.stmt # NULL /\ target'.stmt.sql = target.stmt.sql /\ target'.stmt.message = loaded.message
  /\ db'.stmts = db.stmts
  /\ Looped(t, "step", frame[t].i, 1, frame[t].try, frame[t].own)
  /\ UNCHANGED << rows, mutex, loaded, calls >>

Stores(t) ==
  /\ On(t, {"step"}) /\ rows' = Append(rows, Sqlite3!Row(t)) /\ StatementRan(t)
  /\ \/ frame[t].i + 1 = frame[t].count /\ Finished(t, 1, frame[t].busy) /\ mutex' = NULL
     \/ /\ frame[t].i + 1 # frame[t].count /\ mutex' = mutex
        /\ Looped(t, frame[t].step, frame[t].i + 1, frame[t].count, frame[t].try + 1, frame[t].own)
  /\ UNCHANGED << loaded, calls >>

StoresNot(t) ==
  /\ On(t, {"step"}) /\ StatementRan(t) /\ mutex' = NULL
  /\ Finished(t, -1, frame[t].busy) \/ Finished(t, 1, TRUE)
  /\ UNCHANGED << rows, loaded, calls >>

Ends(t) ==
  /\ On(t, {"done", "got"}) /\ TargetSame
  /\ OthersKept(t) /\ frame'[t] = Sqlite3!Idle /\ UNCHANGED << rows, mutex, loaded, calls >>

SqliteStep(t) ==
  /\ SqliteTyped'
  /\ \/ Opens(t) \/ OpensNothing \/ Closes \/ SetsSql \/ SetsPrepare \/ Gets(t) \/ GetsFunc(t) \/ Replaces
     \/ Begins(t) \/ Refuses(t) \/ GivesBack(t) \/ TriesAgain(t) \/ Prepares(t) \/ Binds(t) \/ Stores(t) \/ StoresNot(t)
     \/ Ends(t)

\* Each action is one of these steps.
LEMMA SqliteActionIs ==
  ASSUME SqliteInv, NEW t \in Threads,
         \/ Sqlite3!stumpless_open_sqlite3_target(t) \/ Sqlite3!OpenFails(t) \/ Sqlite3!stumpless_close_sqlite3_target(t)
         \/ Sqlite3!stumpless_set_sqlite3_insert_sql(t) \/ Sqlite3!stumpless_set_sqlite3_prepare(t)
         \/ Sqlite3!stumpless_get_sqlite3_prepare(t) \/ Sqlite3!GetFunc(t) \/ Sqlite3!stumpless_set_entry_message(t)
         \/ Sqlite3!stumpless_create_default_sqlite3_table(t) \/ Sqlite3!StepCreate(t)
         \/ Sqlite3!send_entry_to_sqlite3_target(t) \/ Sqlite3!stumpless_sqlite3_prepare(t) \/ Sqlite3!PrepareFails(t)
         \/ Sqlite3!CustomPrepare(t) \/ Sqlite3!Bind(t) \/ Sqlite3!BindFails(t) \/ Sqlite3!StepDone(t)
         \/ Sqlite3!StepFails(t) \/ Sqlite3!StepBusy(t) \/ Sqlite3!Done(t)
  PROVE  SqliteStep(t)
<1> DEFINE f == frame[t]
           T == Sqlite3!sqlite3_target
           D == [open : BOOLEAN, table : BOOLEAN, stmts : {0, 1}]
           R == [call : Nat, live : BOOLEAN, new : BOOLEAN, raced : BOOLEAN]
<1>0. /\ SqliteTyped /\ f \in SqliteFrame /\ On(t, {f.step}) /\ target \in T \cup {NULL} /\ db \in D /\ rows \in Seq(R)
      /\ mutex \in Threads \cup {NULL} /\ loaded \in [message : Nat, freed : SUBSET Nat]
      /\ frame \in [Threads -> SqliteFrame] /\ calls \in Nat /\ calls + 1 \in Nat
  BY DEF SqliteInv, SqliteTyped, On
<1>1. \A g \in T : /\ g # NULL /\ g.sql \in Sqls /\ g.func \in {"default", "custom"} /\ g.data \in {"default", "custom"}
                   /\ g.stmt \in Sqlite3!statement \cup {NULL}
  BY TargetIs
<1>f. f \in SqliteFrame /\ f.busy \in BOOLEAN /\ f.i \in Nat /\ f.count \in Nat /\ f.try \in Nat /\ f.call \in Nat
      /\ f.message \in Nat /\ f.own \in BOOLEAN /\ f.raced \in BOOLEAN
  BY <1>0 DEF SqliteFrame
\* The number of statements that are not finalized.
<1>n. /\ target # NULL => Sqlite3!finalize(target.stmt) = 0
      /\ target = NULL \/ target.stmt = NULL => db.stmts = 0
      /\ db.stmts \in {0, 1}
  <2>1. db.stmts \in {0, 1}
    BY <1>0
  <2> QED
    BY <2>1 DEF SqliteInv, StatementInv, Sqlite3!StatementsOwned, Sqlite3!finalize
\* The typing of the state after it, from that of what is changed.
<1>t. ASSUME target' \in T \cup {NULL}, db' \in D, rows' \in Seq(R), mutex' \in Threads \cup {NULL},
             loaded' \in [message : Nat, freed : SUBSET Nat], frame' \in [Threads -> SqliteFrame], calls' \in Nat
      PROVE  SqliteTyped'
  BY <1>t DEF SqliteTyped
<1>i. ASSUME Sqlite3!Call(t) PROVE frame[t] = Sqlite3!Idle /\ calls' = calls + 1 /\ On(t, {"idle"})
  BY <1>i DEF Sqlite3!Call, On, Sqlite3!Idle
<1> HIDE DEF T, D, R
<1>2. CASE Sqlite3!stumpless_open_sqlite3_target(t)
  <2>1. target' = Sqlite3!new_sqlite3_target /\ db' = [db EXCEPT !.open = TRUE] /\ target = NULL
        /\ FramesSame /\ UNCHANGED << rows, mutex, loaded >> /\ calls' = calls + 1
    BY <1>2, <1>i DEF Sqlite3!stumpless_open_sqlite3_target, FramesSame
  <2>2. Sqlite3!new_sqlite3_target \in T /\ Sqlite3!new_sqlite3_target.stmt = NULL
        /\ Sqlite3!new_sqlite3_target.func = Sqlite3!new_sqlite3_target.data
    BY StatementAssumption DEF Sqlite3!new_sqlite3_target, T, Sqlite3!sqlite3_target
  <2>3. db' \in D /\ db'.stmts = db.stmts
    BY <1>0, <2>1 DEF D
  <2>4. Opens(t)
    BY <1>1, <2>1, <2>2, <2>3 DEF Opens
  <2>5. SqliteTyped'
    BY <1>0, <1>t, <2>1, <2>2, <2>3 DEF FramesSame
  <2> QED
    BY <2>4, <2>5 DEF SqliteStep
<1>3. CASE Sqlite3!OpenFails(t)
  <2>1. TargetSame /\ FramesSame /\ UNCHANGED << target, db, rows, mutex, loaded >> /\ calls' = calls + 1
    BY <1>3, <1>i DEF Sqlite3!OpenFails, FramesSame, TargetSame
  <2> QED
    BY <1>0, <1>t, <2>1 DEF SqliteStep, OpensNothing, FramesSame
<1>4. CASE Sqlite3!stumpless_close_sqlite3_target(t)
  <2>1. target # NULL /\ target' = NULL /\ FramesSame /\ UNCHANGED << rows, mutex, loaded >> /\ calls' = calls + 1
        /\ \A u \in Threads : frame[u] = Sqlite3!Idle
    BY <1>4, <1>i DEF Sqlite3!stumpless_close_sqlite3_target, FramesSame
  <2>2. db' \in D /\ db'.stmts = Sqlite3!finalize(target.stmt)
    <3>1. PICK with \in BOOLEAN : db' = [db EXCEPT !.open = @ /\ ~with, !.stmts = Sqlite3!finalize(target.stmt)]
      BY <1>4 DEF Sqlite3!stumpless_close_sqlite3_target
    <3>2. (db.open /\ ~with) \in BOOLEAN /\ Sqlite3!finalize(target.stmt) \in {0, 1}
      BY <1>n, <2>1
    <3> QED
      BY <1>0, <3>1, <3>2 DEF D
  <2>3. Closes
    BY <2>1, <2>2 DEF Closes, On, Sqlite3!Idle
  <2>4. SqliteTyped'
    BY <1>0, <1>t, <2>1, <2>2 DEF FramesSame
  <2> QED
    BY <2>3, <2>4 DEF SqliteStep
<1>5. CASE Sqlite3!stumpless_set_sqlite3_insert_sql(t)
  <2>1. PICK sql \in Sqls :
          /\ target # NULL /\ mutex = NULL /\ target' = [target EXCEPT !.sql = sql, !.stmt = NULL]
          /\ db' = [db EXCEPT !.stmts = Sqlite3!finalize(target.stmt)]
          /\ FramesSame /\ UNCHANGED << rows, mutex, loaded >> /\ calls' = calls + 1
    BY <1>5, <1>i DEF Sqlite3!stumpless_set_sqlite3_insert_sql, FramesSame
  <2>2. target \in T
    BY <1>0, <2>1
  <2>3. target' \in T /\ target'.stmt = NULL /\ target'.func = target.func /\ target'.data = target.data
    BY <2>1, <2>2, SettingIs DEF T
  <2>4. db' \in D /\ db'.stmts = Sqlite3!finalize(target.stmt)
    BY <1>0, <1>n, <2>1 DEF D
  <2>5. SetsSql
    BY <1>1, <2>1, <2>3, <2>4 DEF SetsSql
  <2>6. SqliteTyped'
    BY <1>0, <1>t, <2>1, <2>3, <2>4 DEF FramesSame
  <2> QED
    BY <2>5, <2>6 DEF SqliteStep
<1>6. CASE Sqlite3!stumpless_set_sqlite3_prepare(t)
  <2>1. PICK func \in {"default", "custom"} :
          /\ target # NULL /\ mutex = NULL /\ target' = [target EXCEPT !.func = func, !.data = func]
          /\ frame' = Sqlite3!Raced("get") /\ UNCHANGED << db, rows, mutex, loaded >> /\ calls' = calls + 1
    BY <1>6, <1>i DEF Sqlite3!stumpless_set_sqlite3_prepare
  <2>2. target \in T
    BY <1>0, <2>1
  <2>3. target' \in T /\ target'.stmt = target.stmt /\ target'.sql = target.sql /\ target'.func = target'.data
    <3>1. /\ [target EXCEPT !.func = func, !.data = func] \in Sqlite3!sqlite3_target
          /\ [target EXCEPT !.func = func, !.data = func].stmt = target.stmt
          /\ [target EXCEPT !.func = func, !.data = func].sql = target.sql
          /\ [target EXCEPT !.func = func, !.data = func].func = func
          /\ [target EXCEPT !.func = func, !.data = func].data = func
      <4>1. \E q \in Sqls : TRUE
        BY StatementAssumption
      <4>2. PICK q \in Sqls : TRUE
        BY <4>1
      <4> QED
        BY <2>2, <4>2, SettingIs, Zenon DEF T
    <3> QED
      BY <2>1, <3>1 DEF T
  <2>4. AllRaced("get")
    BY <1>0, <2>1, RacedChanges
  <2>5. SetsPrepare
    BY <1>1, <2>1, <2>3, <2>4 DEF SetsPrepare
  <2>6. SqliteTyped'
    BY <1>0, <1>t, <2>1, <2>3, <2>4 DEF AllRaced
  <2> QED
    BY <2>5, <2>6 DEF SqliteStep
<1>7. CASE Sqlite3!stumpless_get_sqlite3_prepare(t)
  <2>1. /\ target # NULL /\ frame' = [frame EXCEPT ![t].step = "get", ![t].data = target.data]
        /\ UNCHANGED << target, db, rows, mutex, loaded >> /\ calls' = calls + 1
    BY <1>7, <1>i DEF Sqlite3!stumpless_get_sqlite3_prepare
  <2>2. target.data \in Preparers
    BY <1>0, <1>1, <2>1 DEF Preparers
  <2>3. Paired(t, "get", frame[t].func, target.data)
    BY <1>0, <2>1, <2>2, FrameData
  <2>4. Gets(t)
    BY <1>7, <1>i, <2>1, <2>3 DEF Gets, TargetSame, Sqlite3!stumpless_get_sqlite3_prepare
  <2>5. SqliteTyped'
    BY <1>0, <1>t, <2>1, <2>3 DEF Paired, OthersKept
  <2> QED
    BY <2>4, <2>5 DEF SqliteStep
<1>8. CASE Sqlite3!GetFunc(t)
  <2>1. /\ On(t, {"get"}) /\ frame' = [frame EXCEPT ![t].step = "got", ![t].func = target.func]
        /\ UNCHANGED << target, db, rows, mutex, loaded, calls >>
    BY <1>8 DEF Sqlite3!GetFunc, On
  <2>2. target.func \in Preparers
    BY <1>0, <1>1, <2>1 DEF Preparers, SqliteInv, CallInv, On
  <2>3. Paired(t, "got", target.func, frame[t].data)
    BY <1>0, <2>1, <2>2, FrameFunc
  <2>4. GetsFunc(t)
    BY <2>1, <2>3 DEF GetsFunc, TargetSame
  <2>5. SqliteTyped'
    BY <1>0, <1>t, <2>1, <2>3 DEF Paired, OthersKept
  <2> QED
    BY <2>4, <2>5 DEF SqliteStep
<1>9. CASE Sqlite3!stumpless_set_entry_message(t)
  <2>1. /\ loaded' = [message |-> loaded.message + 1, freed |-> loaded.freed \cup {loaded.message}]
        /\ frame' = Sqlite3!Raced("step") /\ UNCHANGED << target, db, rows, mutex >> /\ calls' = calls + 1
    BY <1>9, <1>i DEF Sqlite3!stumpless_set_entry_message
  <2>2. AllRaced("step")
    BY <1>0, <2>1, RacedChanges
  <2>3. loaded' \in [message : Nat, freed : SUBSET Nat]
    BY <1>0, <2>1
  <2>4. Replaces
    BY <2>1, <2>2 DEF Replaces, TargetSame
  <2>5. SqliteTyped'
    BY <1>0, <1>t, <2>1, <2>2, <2>3 DEF AllRaced
  <2> QED
    BY <2>4, <2>5 DEF SqliteStep
<1>10. CASE Sqlite3!stumpless_create_default_sqlite3_table(t)
  <2>1. /\ target # NULL /\ mutex = NULL /\ UNCHANGED << target, db, rows, loaded >> /\ calls' = calls + 1
        /\ \/ Sqlite3!Begin(t, "create") /\ mutex' = t
           \/ Sqlite3!Finish(t, -1) /\ mutex' = mutex
    BY <1>10, <1>i DEF Sqlite3!stumpless_create_default_sqlite3_table
  <2>2. \/ Begun(t, "create") /\ mutex' = t
        \/ Finished(t, -1, f.busy) /\ mutex' = mutex
    <3>1. "create" \in SqliteSteps
      BY DEF SqliteSteps
    <3> QED
      BY <1>0, <2>1, <3>1, FrameBegins, FrameFinishes
  <2>3. Begins(t) \/ Refuses(t)
    BY <1>10, <1>i, <2>1, <2>2 DEF Begins, Refuses, TargetSame, Sqlite3!stumpless_create_default_sqlite3_table
  <2>4. SqliteTyped'
    BY <1>0, <1>t, <2>1, <2>2 DEF Begun, Finished, OthersKept
  <2> QED
    BY <2>3, <2>4 DEF SqliteStep
<1>11. CASE Sqlite3!StepCreate(t)
  <2>1. /\ On(t, {"create"}) /\ UNCHANGED << target, rows, loaded, calls >> /\ db' \in D /\ db'.stmts = db.stmts
        /\ \/ (Sqlite3!Finish(t, 1) \/ Sqlite3!Finish(t, -1)) /\ mutex' = NULL
           \/ f.try + 1 < Retries /\ frame' = [frame EXCEPT ![t].try = @ + 1] /\ mutex' = mutex
    BY <1>0, <1>11 DEF Sqlite3!StepCreate, On, D
  <2>2. \/ (Finished(t, 1, f.busy) \/ Finished(t, -1, f.busy)) /\ mutex' = NULL
        \/ f.try + 1 < Retries /\ Looped(t, f.step, f.i, f.count, f.try + 1, f.own) /\ mutex' = mutex
    <3>1. "create" \in SqliteSteps /\ 1 \in {-1, 0, 1} /\ -1 \in {-1, 0, 1}
      BY DEF SqliteSteps
    <3> QED
      BY <1>0, <2>1, <3>1, FrameFinishes, FrameTries
  <2>3. GivesBack(t) \/ TriesAgain(t)
    <3>1. TargetSame /\ On(t, {"create", "bind"}) /\ On(t, {"create", "step"}) /\ ~On(t, {"step"})
      BY <2>1 DEF TargetSame, On
    <3> QED
      BY <2>1, <2>2, <3>1 DEF GivesBack, TriesAgain
  <2>4. SqliteTyped'
    BY <1>0, <1>t, <2>1, <2>2 DEF Looped, Finished, OthersKept
  <2> QED
    BY <2>3, <2>4 DEF SqliteStep
<1>12. CASE Sqlite3!send_entry_to_sqlite3_target(t)
  <2>1. target # NULL /\ UNCHANGED << target, db, rows, mutex, loaded >> /\ calls' = calls + 1 /\ Sqlite3!Begin(t, "lock")
    BY <1>12, <1>i DEF Sqlite3!send_entry_to_sqlite3_target
  <2>2. Begun(t, "lock")
    <3>1. "lock" \in SqliteSteps
      BY DEF SqliteSteps
    <3> QED
      BY <1>0, <2>1, <3>1, FrameBegins
  <2>3. Begins(t)
    BY <1>12, <1>i, <2>1, <2>2 DEF Begins, TargetSame, Sqlite3!send_entry_to_sqlite3_target
  <2>4. SqliteTyped'
    BY <1>0, <1>t, <2>1, <2>2 DEF Begun, OthersKept
  <2> QED
    BY <2>3, <2>4 DEF SqliteStep
<1>13. CASE Sqlite3!stumpless_sqlite3_prepare(t)
  <2>1. /\ On(t, {"lock"}) /\ mutex = NULL /\ mutex' = t /\ Sqlite3!Goto(t, "bind") /\ target.func = "default"
        /\ UNCHANGED << rows, loaded, calls >>
        /\ \/ /\ target.stmt = NULL
              /\ target' = [target EXCEPT !.stmt = [sql |-> target.sql, ran |-> FALSE, message |-> NULL]]
              /\ db' = [db EXCEPT !.stmts = @ + 1]
           \/ target.stmt # NULL /\ target' = [target EXCEPT !.stmt = Sqlite3!Prepared(target.stmt)] /\ db' = db
    BY <1>13 DEF Sqlite3!stumpless_sqlite3_prepare, On
  <2>2. target # NULL /\ target \in T
    BY <1>0, <2>1 DEF SqliteInv, CallInv, On
  <2>3. target.stmt \in Sqlite3!statement \cup {NULL} /\ target.sql \in Sqls
    BY <1>1, <2>2
  <2>4. Gone(t, "bind")
    <3>1. "bind" \in SqliteSteps
      BY DEF SqliteSteps
    <3> QED
      BY <1>0, <2>1, <3>1, FrameGoes
  <2>5. PICK s \in Sqlite3!statement :
          /\ target' = [target EXCEPT !.stmt = s] /\ ~s.ran
          /\ \/ target.stmt = NULL /\ s.sql = target.sql /\ db' = [db EXCEPT !.stmts = @ + 1]
             \/ target.stmt # NULL /\ s.sql = target.stmt.sql /\ db' = db
    <3>1. CASE target.stmt = NULL
      <4> DEFINE s == [sql |-> target.sql, ran |-> FALSE, message |-> NULL]
      <4>1. s \in Sqlite3!statement /\ ~s.ran /\ s.sql = target.sql
        BY <2>3, StatementIs
      <4> QED
        BY <2>1, <3>1, <4>1
    <3>2. CASE target.stmt # NULL
      <4> DEFINE s == Sqlite3!Prepared(target.stmt)
      <4>1. target.stmt \in Sqlite3!statement
        BY <2>3, <3>2
      <4>2. s \in Sqlite3!statement /\ ~s.ran /\ s.sql = target.stmt.sql
        BY <4>1, StatementAssumption DEF Sqlite3!Prepared, Sqlite3!statement
      <4> QED
        BY <2>1, <3>2, <4>2
    <3> QED
      BY <3>1, <3>2
  <2>6. /\ target' \in T /\ target' # NULL /\ target'.stmt = s /\ s # NULL /\ target'.sql = target.sql
        /\ target'.func = target.func /\ target'.data = target.data
    BY <1>1, <2>2, <2>5, TargetIs, StatementIs, StatementAssumption DEF T
  <2>7. /\ db' \in D /\ (target.stmt = NULL => db'.stmts = db.stmts + 1) /\ (target.stmt # NULL => db'.stmts = db.stmts)
    BY <1>0, <1>n, <2>5 DEF D
  <2>8. Prepares(t)
    BY <2>1, <2>2, <2>4, <2>5, <2>6, <2>7 DEF Prepares, SettingsSame
  <2>9. SqliteTyped'
    BY <1>0, <1>t, <2>1, <2>4, <2>6, <2>7 DEF Gone, OthersKept
  <2> QED
    BY <2>8, <2>9 DEF SqliteStep
<1>14. CASE Sqlite3!PrepareFails(t) \/ Sqlite3!CustomPrepare(t)
  <2>1. /\ On(t, {"lock"}) /\ mutex = NULL /\ UNCHANGED << target, db, rows, loaded, calls >>
        /\ \/ Sqlite3!Finish(t, -1) /\ mutex' = mutex
           \/ /\ frame' = [frame EXCEPT ![t].step = "step", ![t].count = Statements, ![t].own = TRUE]
              /\ mutex' = t
    BY <1>14 DEF Sqlite3!PrepareFails, Sqlite3!CustomPrepare, On
  <2>2. target # NULL
    BY <2>1 DEF SqliteInv, CallInv, On
  <2>3. \/ Finished(t, -1, f.busy) /\ mutex' = mutex
        \/ Looped(t, "step", f.i, Statements, f.try, TRUE) /\ mutex' = t
    BY <1>0, <2>1, FrameFinishes, FrameTakes DEF SqliteSteps
  <2>4. Refuses(t) \/ Prepares(t)
    BY <2>1, <2>2, <2>3 DEF Refuses, Prepares, TargetSame
  <2>5. SqliteTyped'
    BY <1>0, <1>t, <2>1, <2>3 DEF Looped, Finished, OthersKept
  <2> QED
    BY <2>4, <2>5 DEF SqliteStep
<1>15. CASE Sqlite3!Bind(t)
  <2>1. /\ On(t, {"bind"}) /\ target' = [target EXCEPT !.stmt.message = loaded.message]
        /\ frame' = [frame EXCEPT ![t].step = "step", ![t].count = 1] /\ UNCHANGED << db, rows, mutex, loaded, calls >>
    BY <1>15 DEF Sqlite3!Bind, On
  <2>2. target \in T /\ target # NULL /\ target.stmt # NULL
    BY <1>0, <2>1 DEF SqliteInv, CallInv, StatementInv, On
  <2>3. target.stmt \in Sqlite3!statement /\ loaded.message \in Nat
    BY <1>0, <1>1, <2>2
  <2> DEFINE s == [target.stmt EXCEPT !.message = loaded.message]
  <2>4. s \in Sqlite3!statement /\ s.sql = target.stmt.sql /\ s.message = loaded.message
    BY <2>3, StatementAssumption DEF Sqlite3!statement
  <2>5. target' = [target EXCEPT !.stmt = s]
    BY <2>1
  <2> HIDE DEF s
  <2>6. target' \in T /\ target' # NULL /\ target'.stmt = s /\ s # NULL /\ target'.sql = target.sql
        /\ target'.func = target.func /\ target'.data = target.data
    BY <1>1, <2>2, <2>4, <2>5, TargetIs, StatementIs, StatementAssumption DEF T
  <2>7. Looped(t, "step", f.i, 1, f.try, f.own)
    BY <1>0, <2>1, FrameBinds DEF SqliteSteps
  <2>8. Binds(t)
    BY <2>1, <2>2, <2>4, <2>6, <2>7 DEF Binds, SettingsSame
  <2>9. SqliteTyped'
    BY <1>0, <1>t, <2>1, <2>6, <2>7 DEF Looped, OthersKept
  <2> QED
    BY <2>8, <2>9 DEF SqliteStep
<1>16. CASE Sqlite3!BindFails(t)
  <2>1. On(t, {"bind"}) /\ mutex' = NULL /\ UNCHANGED << target, db, rows, loaded, calls >> /\ Sqlite3!Finish(t, -1)
    BY <1>16 DEF Sqlite3!BindFails, On
  <2>2. Finished(t, -1, f.busy)
    BY <1>0, <2>1, FrameFinishes DEF SqliteSteps
  <2>3. GivesBack(t)
    BY <2>1, <2>2 DEF GivesBack, TargetSame, On
  <2>4. SqliteTyped'
    BY <1>0, <1>t, <2>1, <2>2 DEF Finished, OthersKept
  <2> QED
    BY <2>3, <2>4 DEF SqliteStep
\* A statement that is run.
<1>r. ASSUME On(t, {"step"}), target' = Sqlite3!Ran(t), db' = db
      PROVE  target' \in T /\ StatementRan(t)
  <2>1. target \in T /\ target # NULL /\ (~f.own => target.stmt # NULL)
    BY <1>0, <1>r DEF SqliteInv, CallInv, StatementInv, On
  <2>2. CASE f.own
    BY <1>r, <2>1, <2>2 DEF Sqlite3!Ran, StatementRan, SettingsSame
  <2>3. CASE ~f.own
    <3> DEFINE s == [target.stmt EXCEPT !.ran = TRUE]
    <3>1. target.stmt \in Sqlite3!statement
      BY <1>1, <2>1, <2>3
    <3>2. s \in Sqlite3!statement /\ s.sql = target.stmt.sql /\ s.message = target.stmt.message
      BY <3>1, StatementAssumption DEF Sqlite3!statement
    <3>3. target' = [target EXCEPT !.stmt = s]
      BY <1>r, <2>3 DEF Sqlite3!Ran
    <3> HIDE DEF s
    <3>4. target' \in T /\ target' # NULL /\ target'.stmt = s /\ s # NULL /\ target'.sql = target.sql
          /\ target'.func = target.func /\ target'.data = target.data
      BY <1>1, <2>1, <3>2, <3>3, TargetIs, StatementIs, StatementAssumption DEF T
    <3> QED
      BY <1>r, <2>3, <3>2, <3>4 DEF StatementRan, SettingsSame
  <2> QED
    BY <2>2, <2>3
<1>17. CASE Sqlite3!StepDone(t)
  <2>1. /\ On(t, {"step"}) /\ rows' = Append(rows, Sqlite3!Row(t)) /\ target' = Sqlite3!Ran(t)
        /\ UNCHANGED << db, loaded, calls >>
        /\ \/ f.i + 1 = f.count /\ Sqlite3!Finish(t, 1) /\ mutex' = NULL
           \/ f.i + 1 # f.count /\ frame' = [frame EXCEPT ![t].i = @ + 1, ![t].try = @ + 1] /\ mutex' = mutex
    BY <1>17 DEF Sqlite3!StepDone, On
  <2>2. target' \in T /\ StatementRan(t)
    BY <1>r, <2>1
  <2>3. \/ f.i + 1 = f.count /\ Finished(t, 1, f.busy) /\ mutex' = NULL
        \/ f.i + 1 # f.count /\ Looped(t, f.step, f.i + 1, f.count, f.try + 1, f.own) /\ mutex' = mutex
    <3>1. "step" \in SqliteSteps /\ 1 \in {-1, 0, 1}
      BY DEF SqliteSteps
    <3> QED
      BY <1>0, <2>1, <3>1, FrameFinishes, FrameContinues
  <2>4. Stores(t)
    BY <2>1, <2>2, <2>3 DEF Stores
  <2>5. rows' \in Seq(R)
    <3>1. Sqlite3!Row(t) \in R
      BY <1>f DEF Sqlite3!Row, R
    <3> QED
      BY <1>0, <2>1, <3>1, AppendProperties
  <2>6. SqliteTyped'
    BY <1>0, <1>t, <2>1, <2>2, <2>3, <2>5 DEF Looped, Finished, OthersKept
  <2> QED
    BY <2>4, <2>6 DEF SqliteStep
<1>18. CASE Sqlite3!StepFails(t) \/ Sqlite3!StepBusy(t)
  <2>1. /\ On(t, {"step"}) /\ target' = Sqlite3!Ran(t) /\ UNCHANGED << db, rows, loaded, calls >>
        /\ \/ Sqlite3!Finish(t, -1) /\ mutex' = NULL
           \/ frame' = [frame EXCEPT ![t].step = "done", ![t].result = 1, ![t].busy = TRUE] /\ mutex' = NULL
           \/ f.try + 1 < Retries /\ frame' = [frame EXCEPT ![t].try = @ + 1] /\ mutex' = mutex
    BY <1>f, <1>18, StatementAssumption DEF Sqlite3!StepFails, Sqlite3!StepBusy, On
  <2>2. target' \in T /\ StatementRan(t)
    BY <1>r, <2>1
  <2>3. \/ Finished(t, -1, f.busy) /\ mutex' = NULL
        \/ Finished(t, 1, TRUE) /\ mutex' = NULL
        \/ f.try + 1 < Retries /\ Looped(t, f.step, f.i, f.count, f.try + 1, f.own) /\ mutex' = mutex
    <3>1. "step" \in SqliteSteps /\ -1 \in {-1, 0, 1}
      BY DEF SqliteSteps
    <3> QED
      BY <1>0, <2>1, <3>1, FrameFinishes, FrameTires, FrameTries
  <2>4. StoresNot(t) \/ TriesAgain(t)
    <3>1. ~On(t, {"create"}) /\ On(t, {"create", "step"})
      BY <2>1 DEF On
    <3> QED
      BY <2>1, <2>2, <2>3, <3>1 DEF StoresNot, TriesAgain
  <2>5. SqliteTyped'
    BY <1>0, <1>t, <2>1, <2>2, <2>3 DEF Looped, Finished, OthersKept
  <2> QED
    BY <2>4, <2>5 DEF SqliteStep
<1>19. CASE Sqlite3!Done(t)
  <2>1. On(t, {"done", "got"}) /\ frame' = [frame EXCEPT ![t] = Sqlite3!Idle]
        /\ UNCHANGED << target, db, rows, mutex, loaded, calls >>
    BY <1>19 DEF Sqlite3!Done, On
  <2>2. OthersKept(t) /\ frame'[t] = Sqlite3!Idle
    BY <1>0, <2>1, FrameEnds DEF SqliteSteps
  <2>3. Ends(t)
    BY <2>1, <2>2 DEF Ends, TargetSame
  <2>4. SqliteTyped'
    BY <1>0, <1>t, <2>1, <2>2 DEF OthersKept
  <2> QED
    BY <2>3, <2>4 DEF SqliteStep
<1> QED
  BY <1>2, <1>3, <1>4, <1>5, <1>6, <1>7, <1>8, <1>9, <1>10, <1>11, <1>12, <1>13, <1>14, <1>15, <1>16, <1>17, <1>18, <1>19

-----------------------------------------------------------------------------
(***************************************************************************)
(* Each part of the invariant is kept.                                     *)
(***************************************************************************)

\* What the steps need of the types.
Facts ==
  /\ frame \in [Threads -> SqliteFrame] /\ frame' \in [Threads -> SqliteFrame]
  /\ mutex \in Threads \cup {NULL} /\ NULL \notin Threads /\ calls \in Nat
  /\ loaded.message \in Nat /\ \A m \in loaded.freed : m \in Nat
  /\ \A k \in DOMAIN rows : rows[k].call \in Nat
  /\ \A u \in Threads : /\ frame[u].call \in Nat /\ frame[u].i \in Nat /\ frame[u].count \in Nat
                        /\ frame[u].try \in Nat /\ frame[u].message \in Nat

\* The facts follow from the types.
LEMMA TypedFacts ==
  ASSUME SqliteTyped, SqliteTyped'
  PROVE  Facts
<1>1. \A u \in Threads : frame[u] \in SqliteFrame
  BY DEF SqliteTyped
<1>2. \A k \in DOMAIN rows : rows[k].call \in Nat
  <2>1. rows \in Seq([call : Nat, live : BOOLEAN, new : BOOLEAN, raced : BOOLEAN])
    BY DEF SqliteTyped
  <2>2. \A k \in DOMAIN rows : rows[k] \in [call : Nat, live : BOOLEAN, new : BOOLEAN, raced : BOOLEAN]
    <3>1. DOMAIN rows = 1 .. Len(rows)
      BY <2>1
    <3> QED
      BY <2>1, <3>1, ElementOfSeq
  <2> QED
    BY <2>2
<1>3. loaded.message \in Nat /\ \A m \in loaded.freed : m \in Nat
  BY DEF SqliteTyped
<1>4. \A u \in Threads : /\ frame[u].call \in Nat /\ frame[u].i \in Nat /\ frame[u].count \in Nat
                        /\ frame[u].try \in Nat /\ frame[u].message \in Nat
  BY <1>1 DEF SqliteFrame
<1>5. /\ frame \in [Threads -> SqliteFrame] /\ frame' \in [Threads -> SqliteFrame]
      /\ mutex \in Threads \cup {NULL} /\ calls \in Nat /\ NULL \notin Threads
  BY StatementAssumption DEF SqliteTyped
<1> QED
  BY <1>2, <1>3, <1>4, <1>5 DEF Facts

\* The row that a step stores.
LEMMA RowStored ==
  ASSUME SqliteTyped, NEW t \in Threads, rows' = Append(rows, Sqlite3!Row(t))
  PROVE  /\ DOMAIN rows' = DOMAIN rows \cup {Len(rows) + 1} /\ Len(rows) + 1 \notin DOMAIN rows
         /\ \A k \in DOMAIN rows : rows'[k] = rows[k]
         /\ rows'[Len(rows) + 1] = Sqlite3!Row(t)
         /\ \A k \in DOMAIN rows' : (k \in DOMAIN rows /\ rows'[k] = rows[k]) \/ rows'[k] = Sqlite3!Row(t)
         /\ Sqlite3!Row(t).call = frame[t].call /\ Sqlite3!Row(t).raced = frame[t].raced
         /\ LET m == IF frame[t].own THEN loaded.message ELSE target.stmt.message
            IN  Sqlite3!Row(t).live = (m \notin loaded.freed) /\ Sqlite3!Row(t).new = (m >= frame[t].message)
<1> DEFINE r == Sqlite3!Row(t)
<1>1. /\ r.call = frame[t].call /\ r.raced = frame[t].raced
      /\ LET m == IF frame[t].own THEN loaded.message ELSE target.stmt.message
         IN  r.live = (m \notin loaded.freed) /\ r.new = (m >= frame[t].message)
  BY DEF Sqlite3!Row
<1>2. rows \in Seq([call : Nat, live : BOOLEAN, new : BOOLEAN, raced : BOOLEAN]) /\ rows' = Append(rows, r)
  BY DEF SqliteTyped
<1> HIDE DEF r
<1>3. /\ DOMAIN rows = 1 .. Len(rows) /\ Len(rows) \in Nat /\ DOMAIN rows' = 1 .. Len(rows) + 1
      /\ \A k \in 1 .. Len(rows) : rows'[k] = rows[k]
      /\ rows'[Len(rows) + 1] = r
  BY <1>2
<1>4. 1 .. Len(rows) + 1 = 1 .. Len(rows) \cup {Len(rows) + 1} /\ Len(rows) + 1 \notin 1 .. Len(rows)
  BY <1>3
<1>5. \A k \in DOMAIN rows' : (k \in DOMAIN rows /\ rows'[k] = rows[k]) \/ rows'[k] = r
  BY <1>3, <1>4
<1> QED
  BY <1>1, <1>3, <1>4, <1>5 DEF r

\* What a call begins with.
BeginsFacts(t) ==
  /\ On(t, {"idle"}) /\ target # NULL /\ TargetSame /\ UNCHANGED << rows, loaded >> /\ calls' = calls + 1
  /\ \A u \in Threads : u # t => frame'[u] = frame[u]
  /\ \/ frame'[t].step = "create" /\ mutex = NULL /\ mutex' = t
     \/ frame'[t].step = "lock" /\ mutex' = mutex
  /\ frame'[t].call = calls + 1 /\ frame'[t].message = loaded.message
  /\ frame'[t].i = 0 /\ frame'[t].count = 0 /\ frame'[t].try = 0 /\ frame'[t].own = FALSE

\* The frame of a call that begins.
LEMMA BeginsWith ==
  ASSUME NEW t \in Threads, Begins(t)
  PROVE  BeginsFacts(t)
<1>1. /\ frame[t].step = "idle" /\ frame[t].i = 0 /\ frame[t].count = 0 /\ frame[t].try = 0 /\ frame[t].own = FALSE
  BY DEF Begins, Sqlite3!Idle
<1>2. Begun(t, "create") \/ Begun(t, "lock")
  BY DEF Begins
<1>3. /\ frame'[t].call = calls + 1 /\ frame'[t].message = loaded.message
      /\ frame'[t].i = 0 /\ frame'[t].count = 0 /\ frame'[t].try = 0 /\ frame'[t].own = FALSE
      /\ \A u \in Threads : u # t => frame'[u] = frame[u]
  BY <1>1, <1>2 DEF Begun, OthersKept, LoopKept, OwnKept
<1>4. \/ frame'[t].step = "create" /\ mutex = NULL /\ mutex' = t
      \/ frame'[t].step = "lock" /\ mutex' = mutex
  BY DEF Begins, Begun
<1> QED
  BY <1>1, <1>3, <1>4 DEF On, Begins, BeginsFacts

\* A call that has no row.
LEMMA StoredNone ==
  ASSUME NEW n, \A k \in DOMAIN rows : rows[k].call # n
  PROVE  Stored(rows, n) = 0
<1> DEFINE R == {k \in DOMAIN rows : rows[k].call = n}
<1>1. R = {}
  OBVIOUS
<1> HIDE DEF R
<1>2. Cardinality(R) = 0
  BY <1>1, FS_EmptySet
<1> QED
  BY <1>2 DEF R, Stored

\* The row that is stored is counted for the call that stores it.
LEMMA StoredGrows ==
  ASSUME SqliteTyped, NEW t \in Threads, rows' = Append(rows, Sqlite3!Row(t)), NEW n
  PROVE  Stored(rows', n) = IF n = frame[t].call THEN Stored(rows, n) + 1 ELSE Stored(rows, n)
<1> DEFINE R == {k \in DOMAIN rows : rows[k].call = n}
           S == {k \in DOMAIN rows' : rows'[k].call = n}
           z == Len(rows) + 1
<1>1. IsFiniteSet(R)
  <2>1. DOMAIN rows = 1 .. Len(rows) /\ Len(rows) \in Nat
    BY DEF SqliteTyped
  <2>2. IsFiniteSet(DOMAIN rows)
    BY <2>1, FS_Interval
  <2>3. R \in SUBSET DOMAIN rows
    OBVIOUS
  <2> HIDE DEF R
  <2> QED
    BY <2>2, <2>3, FS_Subset
<1>2. /\ DOMAIN rows' = DOMAIN rows \cup {z} /\ z \notin DOMAIN rows
      /\ \A k \in DOMAIN rows : rows'[k] = rows[k]
      /\ rows'[z].call = frame[t].call
  BY RowStored
<1> HIDE DEF z
<1>3. S = IF n = frame[t].call THEN R \cup {z} ELSE R
  BY <1>2
<1>4. z \notin R
  BY <1>2
<1> HIDE DEF R, S
<1>5. Cardinality(S) = IF n = frame[t].call THEN Cardinality(R) + 1 ELSE Cardinality(R)
  BY <1>1, <1>3, <1>4, FS_AddElement
<1> QED
  BY <1>5 DEF R, S, Stored
\* The mutex of the database is held where it is used.
LEMMA HoldsInvKept ==
  ASSUME SqliteInv, NEW t \in Threads, SqliteStep(t)
  PROVE  HoldsInv'
<1> USE StatementAssumption DEF HoldsInv, CallInv, On
<1>0. Facts
  BY TypedFacts DEF SqliteStep, SqliteInv
<1> USE DEF Facts
<1>a. HoldsInv /\ CallInv
  BY DEF SqliteInv
<1>1. CASE Opens(t)
  BY <1>0, <1>a, <1>1 DEF Opens, FramesSame, CallKept, LoopKept, EndKept, PairKept, OwnKept
<1>2. CASE OpensNothing
  BY <1>0, <1>a, <1>2 DEF OpensNothing, FramesSame, TargetSame, CallKept, LoopKept, EndKept, PairKept, OwnKept
<1>3. CASE Closes
  BY <1>0, <1>a, <1>3 DEF Closes, FramesSame, CallKept, LoopKept, EndKept, PairKept, OwnKept
<1>4. CASE SetsSql
  BY <1>0, <1>a, <1>4 DEF SetsSql, FramesSame, CallKept, LoopKept, EndKept, PairKept, OwnKept
<1>5. CASE SetsPrepare
  BY <1>0, <1>a, <1>5 DEF SetsPrepare, AllRaced, CallKept, LoopKept, EndKept, PairKept, OwnKept
<1>6. CASE Gets(t)
  BY <1>0, <1>a, <1>6 DEF Gets, Sqlite3!Idle, Paired, OthersKept, TargetSame, CallKept, LoopKept, EndKept,
       PairKept, OwnKept
<1>7. CASE GetsFunc(t)
  BY <1>0, <1>a, <1>7 DEF GetsFunc, Paired, OthersKept, TargetSame, CallKept, LoopKept, EndKept, PairKept,
       OwnKept
<1>8. CASE Replaces
  BY <1>0, <1>a, <1>8 DEF Replaces, AllRaced, TargetSame, CallKept, LoopKept, EndKept, PairKept, OwnKept
<1>9. CASE Begins(t)
  <2>1. BeginsFacts(t)
    BY <1>9, BeginsWith, Zenon
  <2> QED
    BY <1>0, <1>a, <2>1 DEF BeginsFacts, TargetSame
<1>10. CASE Refuses(t)
  BY <1>0, <1>a, <1>10 DEF Refuses, Sqlite3!Idle, Finished, OthersKept, TargetSame, CallKept, LoopKept,
       EndKept, PairKept, OwnKept
<1>11. CASE GivesBack(t)
  BY <1>0, <1>a, <1>11 DEF GivesBack, Finished, OthersKept, TargetSame, CallKept, LoopKept, EndKept,
       PairKept, OwnKept
<1>12. CASE TriesAgain(t)
  BY <1>0, <1>a, <1>12 DEF TriesAgain, Looped, OthersKept, TargetSame, StatementRan, SettingsSame, CallKept,
       LoopKept, EndKept, PairKept, OwnKept
<1>13. CASE Prepares(t)
  BY <1>0, <1>a, <1>13 DEF Prepares, Gone, Looped, OthersKept, TargetSame, SettingsSame, CallKept, LoopKept,
       EndKept, PairKept, OwnKept
<1>14. CASE Binds(t)
  BY <1>0, <1>a, <1>14 DEF Binds, Looped, OthersKept, SettingsSame, CallKept, LoopKept, EndKept, PairKept,
       OwnKept
<1>15. CASE Stores(t)
  BY <1>0, <1>a, <1>15 DEF Stores, Finished, Looped, OthersKept, StatementRan, SettingsSame, CallKept,
       LoopKept, EndKept, PairKept, OwnKept
<1>16. CASE StoresNot(t)
  BY <1>0, <1>a, <1>16 DEF StoresNot, Finished, OthersKept, StatementRan, SettingsSame, CallKept, LoopKept,
       EndKept, PairKept, OwnKept
<1>17. CASE Ends(t)
  BY <1>0, <1>a, <1>17 DEF Ends, OthersKept, TargetSame, Sqlite3!Idle, CallKept, LoopKept, EndKept, PairKept,
       OwnKept
<1> QED
  BY <1>1, <1>2, <1>3, <1>4, <1>5, <1>6, <1>7, <1>8, <1>9, <1>10, <1>11, <1>12, <1>13, <1>14, <1>15, <1>16, <1>17 DEF
       SqliteStep

\* No call is without a target.
LEMMA CallInvKept ==
  ASSUME SqliteInv, NEW t \in Threads, SqliteStep(t)
  PROVE  CallInv'
<1> USE StatementAssumption DEF HoldsInv, CallInv, On
<1>0. Facts
  BY TypedFacts DEF SqliteStep, SqliteInv
<1> USE DEF Facts
<1>a. HoldsInv /\ CallInv
  BY DEF SqliteInv
<1>1. CASE Opens(t)
  BY <1>0, <1>a, <1>1 DEF Opens, FramesSame, CallKept, LoopKept, EndKept, PairKept, OwnKept
<1>2. CASE OpensNothing
  BY <1>0, <1>a, <1>2 DEF OpensNothing, FramesSame, TargetSame, CallKept, LoopKept, EndKept, PairKept, OwnKept
<1>3. CASE Closes
  BY <1>0, <1>a, <1>3 DEF Closes, FramesSame, CallKept, LoopKept, EndKept, PairKept, OwnKept
<1>4. CASE SetsSql
  BY <1>0, <1>a, <1>4 DEF SetsSql, FramesSame, CallKept, LoopKept, EndKept, PairKept, OwnKept
<1>5. CASE SetsPrepare
  BY <1>0, <1>a, <1>5 DEF SetsPrepare, AllRaced, CallKept, LoopKept, EndKept, PairKept, OwnKept
<1>6. CASE Gets(t)
  BY <1>0, <1>a, <1>6 DEF Gets, Sqlite3!Idle, Paired, OthersKept, TargetSame, CallKept, LoopKept, EndKept,
       PairKept, OwnKept
<1>7. CASE GetsFunc(t)
  BY <1>0, <1>a, <1>7 DEF GetsFunc, Paired, OthersKept, TargetSame, CallKept, LoopKept, EndKept, PairKept,
       OwnKept
<1>8. CASE Replaces
  BY <1>0, <1>a, <1>8 DEF Replaces, AllRaced, TargetSame, CallKept, LoopKept, EndKept, PairKept, OwnKept
<1>9. CASE Begins(t)
  <2>1. BeginsFacts(t)
    BY <1>9, BeginsWith, Zenon
  <2> QED
    BY <1>0, <1>a, <2>1 DEF BeginsFacts, TargetSame
<1>10. CASE Refuses(t)
  BY <1>0, <1>a, <1>10 DEF Refuses, Sqlite3!Idle, Finished, OthersKept, TargetSame, CallKept, LoopKept,
       EndKept, PairKept, OwnKept
<1>11. CASE GivesBack(t)
  BY <1>0, <1>a, <1>11 DEF GivesBack, Finished, OthersKept, TargetSame, CallKept, LoopKept, EndKept,
       PairKept, OwnKept
<1>12. CASE TriesAgain(t)
  BY <1>0, <1>a, <1>12 DEF TriesAgain, Looped, OthersKept, TargetSame, StatementRan, SettingsSame, CallKept,
       LoopKept, EndKept, PairKept, OwnKept
<1>13. CASE Prepares(t)
  BY <1>0, <1>a, <1>13 DEF Prepares, Gone, Looped, OthersKept, TargetSame, SettingsSame, CallKept, LoopKept,
       EndKept, PairKept, OwnKept
<1>14. CASE Binds(t)
  BY <1>0, <1>a, <1>14 DEF Binds, Looped, OthersKept, SettingsSame, CallKept, LoopKept, EndKept, PairKept,
       OwnKept
<1>15. CASE Stores(t)
  BY <1>0, <1>a, <1>15 DEF Stores, Finished, Looped, OthersKept, StatementRan, SettingsSame, CallKept,
       LoopKept, EndKept, PairKept, OwnKept
<1>16. CASE StoresNot(t)
  BY <1>0, <1>a, <1>16 DEF StoresNot, Finished, OthersKept, StatementRan, SettingsSame, CallKept, LoopKept,
       EndKept, PairKept, OwnKept
<1>17. CASE Ends(t)
  BY <1>0, <1>a, <1>17 DEF Ends, OthersKept, TargetSame, Sqlite3!Idle, CallKept, LoopKept, EndKept, PairKept,
       OwnKept
<1> QED
  BY <1>1, <1>2, <1>3, <1>4, <1>5, <1>6, <1>7, <1>8, <1>9, <1>10, <1>11, <1>12, <1>13, <1>14, <1>15, <1>16, <1>17 DEF
       SqliteStep

\* The statements of the application.
LEMMA OwnInvKept ==
  ASSUME SqliteInv, NEW t \in Threads, SqliteStep(t)
  PROVE  OwnInv'
<1> USE StatementAssumption DEF CallInv, OwnInv, On
<1>0. Facts
  BY TypedFacts DEF SqliteStep, SqliteInv
<1> USE DEF Facts
<1>a. CallInv /\ OwnInv
  BY DEF SqliteInv
<1>1. CASE Opens(t)
  BY <1>0, <1>a, <1>1 DEF Opens, FramesSame, CallKept, LoopKept, EndKept, PairKept, OwnKept
<1>2. CASE OpensNothing
  BY <1>0, <1>a, <1>2 DEF OpensNothing, FramesSame, TargetSame, CallKept, LoopKept, EndKept, PairKept, OwnKept
<1>3. CASE Closes
  BY <1>0, <1>a, <1>3 DEF Closes, FramesSame, CallKept, LoopKept, EndKept, PairKept, OwnKept
<1>4. CASE SetsSql
  BY <1>0, <1>a, <1>4 DEF SetsSql, FramesSame, CallKept, LoopKept, EndKept, PairKept, OwnKept
<1>5. CASE SetsPrepare
  BY <1>0, <1>a, <1>5 DEF SetsPrepare, AllRaced, CallKept, LoopKept, EndKept, PairKept, OwnKept
<1>6. CASE Gets(t)
  BY <1>0, <1>a, <1>6 DEF Gets, Sqlite3!Idle, Paired, OthersKept, TargetSame, CallKept, LoopKept, EndKept,
       PairKept, OwnKept
<1>7. CASE GetsFunc(t)
  BY <1>0, <1>a, <1>7 DEF GetsFunc, Paired, OthersKept, TargetSame, CallKept, LoopKept, EndKept, PairKept,
       OwnKept
<1>8. CASE Replaces
  BY <1>0, <1>a, <1>8 DEF Replaces, AllRaced, TargetSame, CallKept, LoopKept, EndKept, PairKept, OwnKept
<1>9. CASE Begins(t)
  <2>1. BeginsFacts(t)
    BY <1>9, BeginsWith, Zenon
  <2> QED
    BY <1>0, <1>a, <2>1 DEF BeginsFacts, TargetSame
<1>10. CASE Refuses(t)
  BY <1>0, <1>a, <1>10 DEF Refuses, Sqlite3!Idle, Finished, OthersKept, TargetSame, CallKept, LoopKept,
       EndKept, PairKept, OwnKept
<1>11. CASE GivesBack(t)
  BY <1>0, <1>a, <1>11 DEF GivesBack, Finished, OthersKept, TargetSame, CallKept, LoopKept, EndKept,
       PairKept, OwnKept
<1>12. CASE TriesAgain(t)
  BY <1>0, <1>a, <1>12 DEF TriesAgain, Looped, OthersKept, TargetSame, StatementRan, SettingsSame, CallKept,
       LoopKept, EndKept, PairKept, OwnKept
<1>13. CASE Prepares(t)
  BY <1>0, <1>a, <1>13 DEF Prepares, Gone, Looped, OthersKept, TargetSame, SettingsSame, CallKept, LoopKept,
       EndKept, PairKept, OwnKept
<1>14. CASE Binds(t)
  BY <1>0, <1>a, <1>14 DEF Binds, Looped, OthersKept, SettingsSame, CallKept, LoopKept, EndKept, PairKept,
       OwnKept
<1>15. CASE Stores(t)
  BY <1>0, <1>a, <1>15 DEF Stores, Finished, Looped, OthersKept, StatementRan, SettingsSame, CallKept,
       LoopKept, EndKept, PairKept, OwnKept
<1>16. CASE StoresNot(t)
  BY <1>0, <1>a, <1>16 DEF StoresNot, Finished, OthersKept, StatementRan, SettingsSame, CallKept, LoopKept,
       EndKept, PairKept, OwnKept
<1>17. CASE Ends(t)
  BY <1>0, <1>a, <1>17 DEF Ends, OthersKept, TargetSame, Sqlite3!Idle, CallKept, LoopKept, EndKept, PairKept,
       OwnKept
<1> QED
  BY <1>1, <1>2, <1>3, <1>4, <1>5, <1>6, <1>7, <1>8, <1>9, <1>10, <1>11, <1>12, <1>13, <1>14, <1>15, <1>16, <1>17 DEF
       SqliteStep

\* The loop over the statements stays within its bounds.
LEMMA LoopInvKept ==
  ASSUME SqliteInv, NEW t \in Threads, SqliteStep(t)
  PROVE  LoopInv'
<1> USE StatementAssumption DEF CallInv, LoopInv, On
<1>0. Facts
  BY TypedFacts DEF SqliteStep, SqliteInv
<1> USE DEF Facts
<1>a. CallInv /\ LoopInv
  BY DEF SqliteInv
<1>1. CASE Opens(t)
  BY <1>0, <1>a, <1>1 DEF Opens, FramesSame, CallKept, LoopKept, EndKept, PairKept, OwnKept
<1>2. CASE OpensNothing
  BY <1>0, <1>a, <1>2 DEF OpensNothing, FramesSame, TargetSame, CallKept, LoopKept, EndKept, PairKept, OwnKept
<1>3. CASE Closes
  BY <1>0, <1>a, <1>3 DEF Closes, FramesSame, CallKept, LoopKept, EndKept, PairKept, OwnKept
<1>4. CASE SetsSql
  BY <1>0, <1>a, <1>4 DEF SetsSql, FramesSame, CallKept, LoopKept, EndKept, PairKept, OwnKept
<1>5. CASE SetsPrepare
  BY <1>0, <1>a, <1>5 DEF SetsPrepare, AllRaced, CallKept, LoopKept, EndKept, PairKept, OwnKept
<1>6. CASE Gets(t)
  BY <1>0, <1>a, <1>6 DEF Gets, Sqlite3!Idle, Paired, OthersKept, TargetSame, CallKept, LoopKept, EndKept,
       PairKept, OwnKept
<1>7. CASE GetsFunc(t)
  BY <1>0, <1>a, <1>7 DEF GetsFunc, Paired, OthersKept, TargetSame, CallKept, LoopKept, EndKept, PairKept,
       OwnKept
<1>8. CASE Replaces
  BY <1>0, <1>a, <1>8 DEF Replaces, AllRaced, TargetSame, CallKept, LoopKept, EndKept, PairKept, OwnKept
<1>9. CASE Begins(t)
  <2>1. BeginsFacts(t)
    BY <1>9, BeginsWith, Zenon
  <2> QED
    BY <1>0, <1>a, <2>1 DEF BeginsFacts, TargetSame
<1>10. CASE Refuses(t)
  BY <1>0, <1>a, <1>10 DEF Refuses, Sqlite3!Idle, Finished, OthersKept, TargetSame, CallKept, LoopKept,
       EndKept, PairKept, OwnKept
<1>11. CASE GivesBack(t)
  BY <1>0, <1>a, <1>11 DEF GivesBack, Finished, OthersKept, TargetSame, CallKept, LoopKept, EndKept,
       PairKept, OwnKept
<1>12. CASE TriesAgain(t)
  BY <1>0, <1>a, <1>12 DEF TriesAgain, Looped, OthersKept, TargetSame, StatementRan, SettingsSame, CallKept,
       LoopKept, EndKept, PairKept, OwnKept
<1>13. CASE Prepares(t)
  BY <1>0, <1>a, <1>13 DEF Prepares, Gone, Looped, OthersKept, TargetSame, SettingsSame, CallKept, LoopKept,
       EndKept, PairKept, OwnKept
<1>14. CASE Binds(t)
  BY <1>0, <1>a, <1>14 DEF Binds, Looped, OthersKept, SettingsSame, CallKept, LoopKept, EndKept, PairKept,
       OwnKept
<1>15. CASE Stores(t)
  <2>1. /\ frame[t].i < frame[t].count /\ frame[t].count <= Statements /\ frame[t].try < Retries + frame[t].i
        /\ frame[t].step = "step"
    BY <1>a, <1>15 DEF Stores
  <2>2. \A u \in Threads : u # t => frame'[u] = frame[u]
    BY <1>15 DEF Stores, Finished, Looped, OthersKept
  <2>3. CASE Finished(t, 1, frame[t].busy)
    BY <1>0, <1>a, <2>2, <2>3 DEF Finished, LoopKept
  <2>4. CASE /\ frame[t].i + 1 # frame[t].count
             /\ Looped(t, frame[t].step, frame[t].i + 1, frame[t].count, frame[t].try + 1, frame[t].own)
    <3>1. /\ frame'[t].step = "step" /\ frame'[t].i = frame[t].i + 1 /\ frame'[t].count = frame[t].count
          /\ frame'[t].try = frame[t].try + 1
      BY <2>1, <2>4 DEF Looped
    <3>2. frame[t].i + 1 < frame[t].count /\ frame[t].i + 1 < Statements
          /\ frame[t].try + 1 < Retries + (frame[t].i + 1)
      BY <1>0, <2>1, <2>4
    <3>3. /\ frame'[t].i < Statements /\ frame'[t].try < Retries + frame'[t].i
          /\ ~On(t, {"create", "lock", "bind"})' /\ frame'[t].i < frame'[t].count /\ frame'[t].count <= Statements
      BY <2>1, <3>1, <3>2
    <3> QED
      BY <1>a, <2>2, <3>3
  <2> QED
    BY <1>15, <2>3, <2>4 DEF Stores
<1>16. CASE StoresNot(t)
  BY <1>0, <1>a, <1>16 DEF StoresNot, Finished, OthersKept, StatementRan, SettingsSame, CallKept, LoopKept,
       EndKept, PairKept, OwnKept
<1>17. CASE Ends(t)
  BY <1>0, <1>a, <1>17 DEF Ends, OthersKept, TargetSame, Sqlite3!Idle, CallKept, LoopKept, EndKept, PairKept,
       OwnKept
<1> QED
  BY <1>1, <1>2, <1>3, <1>4, <1>5, <1>6, <1>7, <1>8, <1>9, <1>10, <1>11, <1>12, <1>13, <1>14, <1>15, <1>16, <1>17 DEF
       SqliteStep

\* The statement is the one that was set.
LEMMA StatementInvKept ==
  ASSUME SqliteInv, NEW t \in Threads, SqliteStep(t)
  PROVE  StatementInv'
<1> USE StatementAssumption DEF HoldsInv, CallInv, StatementInv, LoopInv, Sqlite3!StatementsOwned, Sqlite3!finalize, On
<1>0. Facts
  BY TypedFacts DEF SqliteStep, SqliteInv
<1> USE DEF Facts
<1>a. HoldsInv /\ CallInv /\ StatementInv /\ LoopInv
  BY DEF SqliteInv
<1>1. CASE Opens(t)
  BY <1>0, <1>a, <1>1 DEF Opens, FramesSame, CallKept, LoopKept, EndKept, PairKept, OwnKept
<1>2. CASE OpensNothing
  BY <1>0, <1>a, <1>2 DEF OpensNothing, FramesSame, TargetSame, CallKept, LoopKept, EndKept, PairKept, OwnKept
<1>3. CASE Closes
  BY <1>0, <1>a, <1>3 DEF Closes, FramesSame, CallKept, LoopKept, EndKept, PairKept, OwnKept
<1>4. CASE SetsSql
  BY <1>0, <1>a, <1>4 DEF SetsSql, FramesSame, CallKept, LoopKept, EndKept, PairKept, OwnKept
<1>5. CASE SetsPrepare
  BY <1>0, <1>a, <1>5 DEF SetsPrepare, AllRaced, CallKept, LoopKept, EndKept, PairKept, OwnKept
<1>6. CASE Gets(t)
  BY <1>0, <1>a, <1>6 DEF Gets, Sqlite3!Idle, Paired, OthersKept, TargetSame, CallKept, LoopKept, EndKept,
       PairKept, OwnKept
<1>7. CASE GetsFunc(t)
  BY <1>0, <1>a, <1>7 DEF GetsFunc, Paired, OthersKept, TargetSame, CallKept, LoopKept, EndKept, PairKept,
       OwnKept
<1>8. CASE Replaces
  BY <1>0, <1>a, <1>8 DEF Replaces, AllRaced, TargetSame, CallKept, LoopKept, EndKept, PairKept, OwnKept
<1>9. CASE Begins(t)
  <2>1. BeginsFacts(t)
    BY <1>9, BeginsWith, Zenon
  <2> QED
    BY <1>0, <1>a, <2>1 DEF BeginsFacts, TargetSame
<1>10. CASE Refuses(t)
  BY <1>0, <1>a, <1>10 DEF Refuses, Sqlite3!Idle, Finished, OthersKept, TargetSame, CallKept, LoopKept,
       EndKept, PairKept, OwnKept
<1>11. CASE GivesBack(t)
  BY <1>0, <1>a, <1>11 DEF GivesBack, Finished, OthersKept, TargetSame, CallKept, LoopKept, EndKept,
       PairKept, OwnKept
<1>12. CASE TriesAgain(t)
  BY <1>0, <1>a, <1>12 DEF TriesAgain, Looped, OthersKept, TargetSame, StatementRan, SettingsSame, CallKept,
       LoopKept, EndKept, PairKept, OwnKept
<1>13. CASE Prepares(t)
  <2>1. \A u \in Threads : ~On(u, {"bind", "step"})
    BY <1>0, <1>a, <1>13 DEF Prepares
  <2>2. \A u \in Threads : u # t => ~On(u, {"bind", "step"})'
    BY <1>0, <1>13, <2>1 DEF Prepares, Gone, Looped, OthersKept
  <2>3. CASE TargetSame /\ Looped(t, "step", frame[t].i, Statements, frame[t].try, TRUE)
    BY <1>0, <1>a, <2>2, <2>3 DEF TargetSame, Looped
  <2>4. CASE ~(TargetSame /\ Looped(t, "step", frame[t].i, Statements, frame[t].try, TRUE))
    <3>1. /\ Gone(t, "bind") /\ SettingsSame /\ target # NULL /\ target'.stmt # NULL /\ ~target'.stmt.ran
          /\ \/ target.stmt = NULL /\ target'.stmt.sql = target.sql /\ db'.stmts = db.stmts + 1
             \/ target.stmt # NULL /\ target'.stmt.sql = target.stmt.sql /\ db'.stmts = db.stmts
      BY <1>13, <2>4, Zenon DEF Prepares
    <3>2. target'.stmt.sql = target'.sql /\ db'.stmts = 1
      BY <1>a, <3>1 DEF SettingsSame
    <3>3. ~frame[t].own
      BY <1>13 DEF Prepares, SqliteInv, OwnInv
    <3> QED
      BY <2>2, <3>1, <3>2, <3>3 DEF SettingsSame, Gone, OwnKept
  <2> QED
    BY <2>3, <2>4
<1>14. CASE Binds(t)
  <2>1. \A u \in Threads : u # t => ~On(u, {"bind", "step"})'
    BY <1>0, <1>a, <1>14 DEF Binds, Looped, OthersKept
  <2>2. /\ On(t, {"step"})' /\ ~On(t, {"bind"})' /\ target'.stmt # NULL /\ target'.stmt.message \in Nat
    BY <1>0, <1>14 DEF Binds, Looped
  <2>3. target' # NULL /\ target'.stmt.sql = target'.sql /\ db'.stmts = 1
    BY <1>a, <1>14 DEF Binds, SettingsSame
  <2> QED
    BY <2>1, <2>2, <2>3
<1>15. CASE Stores(t)
  <2>1. \A u \in Threads : u # t => ~On(u, {"bind", "step"})'
    BY <1>0, <1>a, <1>15 DEF Stores, Finished, Looped, OthersKept
  <2>2. ~On(t, {"bind"})' /\ frame'[t].own = frame[t].own
    BY <1>0, <1>15 DEF Stores, Finished, Looped, OwnKept, On
  <2>3. StatementRan(t) /\ target # NULL /\ On(t, {"step"})
    BY <1>a, <1>15 DEF Stores
  <2>4. ~frame'[t].own => target'.stmt # NULL /\ target'.stmt.message \in Nat
    BY <1>a, <2>2, <2>3 DEF StatementRan
  <2>5. target' # NULL /\ (target'.stmt = NULL \/ target'.stmt.sql = target'.sql) /\ Sqlite3!StatementsOwned'
    BY <1>a, <2>3 DEF StatementRan, SettingsSame
  <2> QED
    BY <2>1, <2>2, <2>4, <2>5
<1>16. CASE StoresNot(t)
  BY <1>0, <1>a, <1>16 DEF StoresNot, Finished, OthersKept, StatementRan, SettingsSame, CallKept, LoopKept,
       EndKept, PairKept, OwnKept
<1>17. CASE Ends(t)
  BY <1>0, <1>a, <1>17 DEF Ends, OthersKept, TargetSame, Sqlite3!Idle, CallKept, LoopKept, EndKept, PairKept,
       OwnKept
<1> QED
  BY <1>1, <1>2, <1>3, <1>4, <1>5, <1>6, <1>7, <1>8, <1>9, <1>10, <1>11, <1>12, <1>13, <1>14, <1>15, <1>16, <1>17 DEF
       SqliteStep

\* The function and its data.
LEMMA PairInvKept ==
  ASSUME SqliteInv, NEW t \in Threads, SqliteStep(t)
  PROVE  PairInv'
<1> USE StatementAssumption DEF CallInv, PairInv, On
<1>0. Facts
  BY TypedFacts DEF SqliteStep, SqliteInv
<1> USE DEF Facts
<1>a. CallInv /\ PairInv
  BY DEF SqliteInv
<1>1. CASE Opens(t)
  BY <1>0, <1>a, <1>1 DEF Opens, FramesSame, CallKept, LoopKept, EndKept, PairKept, OwnKept
<1>2. CASE OpensNothing
  BY <1>0, <1>a, <1>2 DEF OpensNothing, FramesSame, TargetSame, CallKept, LoopKept, EndKept, PairKept, OwnKept
<1>3. CASE Closes
  BY <1>0, <1>a, <1>3 DEF Closes, FramesSame, CallKept, LoopKept, EndKept, PairKept, OwnKept
<1>4. CASE SetsSql
  BY <1>0, <1>a, <1>4 DEF SetsSql, FramesSame, CallKept, LoopKept, EndKept, PairKept, OwnKept
<1>5. CASE SetsPrepare
  BY <1>0, <1>a, <1>5 DEF SetsPrepare, AllRaced, CallKept, LoopKept, EndKept, PairKept, OwnKept
<1>6. CASE Gets(t)
  BY <1>0, <1>a, <1>6 DEF Gets, Sqlite3!Idle, Paired, OthersKept, TargetSame, CallKept, LoopKept, EndKept,
       PairKept, OwnKept
<1>7. CASE GetsFunc(t)
  BY <1>0, <1>a, <1>7 DEF GetsFunc, Paired, OthersKept, TargetSame, CallKept, LoopKept, EndKept, PairKept,
       OwnKept
<1>8. CASE Replaces
  BY <1>0, <1>a, <1>8 DEF Replaces, AllRaced, TargetSame, CallKept, LoopKept, EndKept, PairKept, OwnKept
<1>9. CASE Begins(t)
  <2>1. BeginsFacts(t)
    BY <1>9, BeginsWith, Zenon
  <2> QED
    BY <1>0, <1>a, <2>1 DEF BeginsFacts, TargetSame
<1>10. CASE Refuses(t)
  BY <1>0, <1>a, <1>10 DEF Refuses, Sqlite3!Idle, Finished, OthersKept, TargetSame, CallKept, LoopKept,
       EndKept, PairKept, OwnKept
<1>11. CASE GivesBack(t)
  BY <1>0, <1>a, <1>11 DEF GivesBack, Finished, OthersKept, TargetSame, CallKept, LoopKept, EndKept,
       PairKept, OwnKept
<1>12. CASE TriesAgain(t)
  BY <1>0, <1>a, <1>12 DEF TriesAgain, Looped, OthersKept, TargetSame, StatementRan, SettingsSame, CallKept,
       LoopKept, EndKept, PairKept, OwnKept
<1>13. CASE Prepares(t)
  BY <1>0, <1>a, <1>13 DEF Prepares, Gone, Looped, OthersKept, TargetSame, SettingsSame, CallKept, LoopKept,
       EndKept, PairKept, OwnKept
<1>14. CASE Binds(t)
  BY <1>0, <1>a, <1>14 DEF Binds, Looped, OthersKept, SettingsSame, CallKept, LoopKept, EndKept, PairKept,
       OwnKept
<1>15. CASE Stores(t)
  BY <1>0, <1>a, <1>15 DEF Stores, Finished, Looped, OthersKept, StatementRan, SettingsSame, CallKept,
       LoopKept, EndKept, PairKept, OwnKept
<1>16. CASE StoresNot(t)
  BY <1>0, <1>a, <1>16 DEF StoresNot, Finished, OthersKept, StatementRan, SettingsSame, CallKept, LoopKept,
       EndKept, PairKept, OwnKept
<1>17. CASE Ends(t)
  BY <1>0, <1>a, <1>17 DEF Ends, OthersKept, TargetSame, Sqlite3!Idle, CallKept, LoopKept, EndKept, PairKept,
       OwnKept
<1> QED
  BY <1>1, <1>2, <1>3, <1>4, <1>5, <1>6, <1>7, <1>8, <1>9, <1>10, <1>11, <1>12, <1>13, <1>14, <1>15, <1>16, <1>17 DEF
       SqliteStep

\* The numbers of calls.
LEMMA NumberInvKept ==
  ASSUME SqliteInv, NEW t \in Threads, SqliteStep(t)
  PROVE  NumberInv'
<1> USE StatementAssumption DEF CallInv, NumberInv, On
<1>0. Facts
  BY TypedFacts DEF SqliteStep, SqliteInv
<1> USE DEF Facts
<1>a. CallInv /\ NumberInv
  BY DEF SqliteInv
<1>1. CASE Opens(t)
  BY <1>0, <1>a, <1>1 DEF Opens, FramesSame, CallKept, LoopKept, EndKept, PairKept, OwnKept
<1>2. CASE OpensNothing
  BY <1>0, <1>a, <1>2 DEF OpensNothing, FramesSame, TargetSame, CallKept, LoopKept, EndKept, PairKept, OwnKept
<1>3. CASE Closes
  BY <1>0, <1>a, <1>3 DEF Closes, FramesSame, CallKept, LoopKept, EndKept, PairKept, OwnKept
<1>4. CASE SetsSql
  BY <1>0, <1>a, <1>4 DEF SetsSql, FramesSame, CallKept, LoopKept, EndKept, PairKept, OwnKept
<1>5. CASE SetsPrepare
  BY <1>0, <1>a, <1>5 DEF SetsPrepare, AllRaced, CallKept, LoopKept, EndKept, PairKept, OwnKept
<1>6. CASE Gets(t)
  BY <1>0, <1>a, <1>6 DEF Gets, Sqlite3!Idle, Paired, OthersKept, TargetSame, CallKept, LoopKept, EndKept,
       PairKept, OwnKept
<1>7. CASE GetsFunc(t)
  BY <1>0, <1>a, <1>7 DEF GetsFunc, Paired, OthersKept, TargetSame, CallKept, LoopKept, EndKept, PairKept,
       OwnKept
<1>8. CASE Replaces
  BY <1>0, <1>a, <1>8 DEF Replaces, AllRaced, TargetSame, CallKept, LoopKept, EndKept, PairKept, OwnKept
<1>9. CASE Begins(t)
  <2>1. BeginsFacts(t)
    BY <1>9, BeginsWith, Zenon
  <2> QED
    BY <1>0, <1>a, <2>1 DEF BeginsFacts, TargetSame
<1>10. CASE Refuses(t)
  BY <1>0, <1>a, <1>10 DEF Refuses, Sqlite3!Idle, Finished, OthersKept, TargetSame, CallKept, LoopKept,
       EndKept, PairKept, OwnKept
<1>11. CASE GivesBack(t)
  BY <1>0, <1>a, <1>11 DEF GivesBack, Finished, OthersKept, TargetSame, CallKept, LoopKept, EndKept,
       PairKept, OwnKept
<1>12. CASE TriesAgain(t)
  BY <1>0, <1>a, <1>12 DEF TriesAgain, Looped, OthersKept, TargetSame, StatementRan, SettingsSame, CallKept,
       LoopKept, EndKept, PairKept, OwnKept
<1>13. CASE Prepares(t)
  BY <1>0, <1>a, <1>13 DEF Prepares, Gone, Looped, OthersKept, TargetSame, SettingsSame, CallKept, LoopKept,
       EndKept, PairKept, OwnKept
<1>14. CASE Binds(t)
  BY <1>0, <1>a, <1>14 DEF Binds, Looped, OthersKept, SettingsSame, CallKept, LoopKept, EndKept, PairKept,
       OwnKept
<1>15. CASE Stores(t)
  <2>1. /\ \A k \in DOMAIN rows' : (k \in DOMAIN rows /\ rows'[k] = rows[k]) \/ rows'[k] = Sqlite3!Row(t)
        /\ Sqlite3!Row(t).call = frame[t].call
    BY <1>15, RowStored DEF Stores, SqliteInv
  <2>2. \A k \in DOMAIN rows' : rows'[k].call > 0 /\ rows'[k].call <= calls'
    BY <1>0, <1>a, <1>15, <2>1 DEF Stores
  <2>3. \A u \in Threads : /\ frame'[u].call = frame[u].call
                           /\ (On(u, {"create", "lock", "bind", "step"})' => On(u, {"create", "lock", "bind", "step"}))
    BY <1>0, <1>15 DEF Stores, Finished, Looped, OthersKept, CallKept
  <2> QED
    BY <1>0, <1>a, <1>15, <2>2, <2>3 DEF Stores
<1>16. CASE StoresNot(t)
  BY <1>0, <1>a, <1>16 DEF StoresNot, Finished, OthersKept, StatementRan, SettingsSame, CallKept, LoopKept,
       EndKept, PairKept, OwnKept
<1>17. CASE Ends(t)
  BY <1>0, <1>a, <1>17 DEF Ends, OthersKept, TargetSame, Sqlite3!Idle, CallKept, LoopKept, EndKept, PairKept,
       OwnKept
<1> QED
  BY <1>1, <1>2, <1>3, <1>4, <1>5, <1>6, <1>7, <1>8, <1>9, <1>10, <1>11, <1>12, <1>13, <1>14, <1>15, <1>16, <1>17 DEF
       SqliteStep

\* What a call has stored.
LEMMA StoredInvKept ==
  ASSUME SqliteInv, NEW t \in Threads, SqliteStep(t)
  PROVE  StoredInv'
<1> USE StatementAssumption DEF HoldsInv, CallInv, LoopInv, NumberInv, StoredInv, On
<1>0. Facts
  BY TypedFacts DEF SqliteStep, SqliteInv
<1> USE DEF Facts
<1>a. HoldsInv /\ CallInv /\ LoopInv /\ NumberInv /\ StoredInv
  BY DEF SqliteInv
<1>1. CASE Opens(t)
  BY <1>0, <1>a, <1>1 DEF Opens, FramesSame, CallKept, LoopKept, EndKept, PairKept, OwnKept
<1>2. CASE OpensNothing
  BY <1>0, <1>a, <1>2 DEF OpensNothing, FramesSame, TargetSame, CallKept, LoopKept, EndKept, PairKept, OwnKept
<1>3. CASE Closes
  BY <1>0, <1>a, <1>3 DEF Closes, FramesSame, CallKept, LoopKept, EndKept, PairKept, OwnKept
<1>4. CASE SetsSql
  BY <1>0, <1>a, <1>4 DEF SetsSql, FramesSame, CallKept, LoopKept, EndKept, PairKept, OwnKept
<1>5. CASE SetsPrepare
  BY <1>0, <1>a, <1>5 DEF SetsPrepare, AllRaced, CallKept, LoopKept, EndKept, PairKept, OwnKept
<1>6. CASE Gets(t)
  BY <1>0, <1>a, <1>6 DEF Gets, Sqlite3!Idle, Paired, OthersKept, TargetSame, CallKept, LoopKept, EndKept,
       PairKept, OwnKept
<1>7. CASE GetsFunc(t)
  BY <1>0, <1>a, <1>7 DEF GetsFunc, Paired, OthersKept, TargetSame, CallKept, LoopKept, EndKept, PairKept,
       OwnKept
<1>8. CASE Replaces
  BY <1>0, <1>a, <1>8 DEF Replaces, AllRaced, TargetSame, CallKept, LoopKept, EndKept, PairKept, OwnKept
<1>9. CASE Begins(t)
  <2>1. BeginsFacts(t)
    BY <1>9, BeginsWith, Zenon
  <2>2. \A k \in DOMAIN rows : rows[k].call # calls + 1
    BY <1>0, <1>a
  <2>3. Stored(rows, calls + 1) = 0
    BY <2>2, StoredNone
  <2>4. rows' = rows /\ \A u \in Threads : u # t => frame'[u] = frame[u]
    BY <2>1 DEF BeginsFacts
  <2>5. frame'[t].call = calls + 1 /\ ~frame'[t].busy /\ frame'[t].step \in {"create", "lock"}
    <3>1. frame'[t].busy = frame[t].busy /\ frame[t] = Sqlite3!Idle
      BY <1>9, Zenon DEF Begins, Begun, EndKept
    <3>2. frame[t].busy = FALSE
      BY <3>1 DEF Sqlite3!Idle
    <3> QED
      BY <2>1, <3>1, <3>2 DEF BeginsFacts
  <2>6. /\ Stored(rows', frame'[t].call) = 0 /\ ~frame'[t].busy
        /\ ~On(t, {"step"})' /\ ~On(t, {"done"})'
    BY <2>3, <2>4, <2>5
  <2>7. \A u \in Threads : u # t => frame'[u] = frame[u] /\ Stored(rows', frame[u].call) = Stored(rows, frame[u].call)
    BY <2>4
  <2>8. StoredInv
    BY <1>a
  <2> QED
    BY <2>6, <2>7, <2>8
<1>10. CASE Refuses(t)
  <2>1. rows' = rows /\ \A u \in Threads : u # t => frame'[u] = frame[u]
    BY <1>10 DEF Refuses, Finished, OthersKept
  <2>2. /\ frame'[t].step = "done" /\ frame'[t].result = -1 /\ frame'[t].busy = frame[t].busy
        /\ frame'[t].call = frame[t].call
    BY <1>10 DEF Refuses, Finished, CallKept
  <2>3. Stored(rows, frame[t].call) = 0
    <3>1. CASE frame[t] = Sqlite3!Idle
      <4>1. \A k \in DOMAIN rows : rows[k].call # 0
        BY <1>0, <1>a
      <4> QED
        BY <3>1, <4>1, StoredNone DEF Sqlite3!Idle
    <3> QED
      BY <1>a, <1>10, <3>1 DEF Refuses
  <2> QED
    BY <1>a, <2>1, <2>2, <2>3
<1>11. CASE GivesBack(t)
  BY <1>0, <1>a, <1>11 DEF GivesBack, Finished, OthersKept, TargetSame, CallKept, LoopKept, EndKept,
       PairKept, OwnKept
<1>12. CASE TriesAgain(t)
  BY <1>0, <1>a, <1>12 DEF TriesAgain, Looped, OthersKept, TargetSame, StatementRan, SettingsSame, CallKept,
       LoopKept, EndKept, PairKept, OwnKept
<1>13. CASE Prepares(t)
  BY <1>0, <1>a, <1>13 DEF Prepares, Gone, Looped, OthersKept, TargetSame, SettingsSame, CallKept, LoopKept,
       EndKept, PairKept, OwnKept
<1>14. CASE Binds(t)
  BY <1>0, <1>a, <1>14 DEF Binds, Looped, OthersKept, SettingsSame, CallKept, LoopKept, EndKept, PairKept,
       OwnKept
<1>15. CASE Stores(t)
  <2>1. /\ On(t, {"step"}) /\ frame[t].call > 0 /\ ~frame[t].busy
        /\ Stored(rows, frame[t].call) = frame[t].i
    BY <1>a, <1>15 DEF Stores
  <2>2. Stored(rows', frame[t].call) = frame[t].i + 1
    BY <2>1, <1>15, StoredGrows DEF Stores, SqliteInv
  <2>3. \A u \in Threads : u # t => frame'[u] = frame[u] /\ Stored(rows', frame[u].call) = Stored(rows, frame[u].call)
    <3>1. \A u \in Threads : u # t => frame'[u] = frame[u] /\ frame[u].call # frame[t].call
      BY <1>0, <1>a, <1>15, <2>1 DEF Stores, Finished, Looped, OthersKept
    <3> QED
      BY <3>1, <1>15, StoredGrows DEF Stores, SqliteInv
  <2>4. /\ frame'[t].call = frame[t].call /\ frame'[t].busy = frame[t].busy
        /\ \/ frame'[t].step = "done" /\ frame'[t].result = 1 /\ frame'[t].count = frame[t].i + 1
           \/ frame'[t].step = "step" /\ frame'[t].i = frame[t].i + 1
    BY <1>15, <2>1 DEF Stores, Finished, Looped, CallKept, LoopKept, EndKept
  <2>5. /\ ~On(t, {"create", "lock", "bind"})'
        /\ On(t, {"step"})' => Stored(rows', frame'[t].call) = frame'[t].i /\ ~frame'[t].busy
        /\ On(t, {"done"})' => frame'[t].result = 1 /\ ~frame'[t].busy /\ Stored(rows', frame'[t].call) = frame'[t].count
    BY <2>1, <2>2, <2>4
  <2> QED
    BY <1>a, <2>3, <2>5
<1>16. CASE StoresNot(t)
  BY <1>0, <1>a, <1>16 DEF StoresNot, Finished, OthersKept, StatementRan, SettingsSame, CallKept, LoopKept,
       EndKept, PairKept, OwnKept
<1>17. CASE Ends(t)
  BY <1>0, <1>a, <1>17 DEF Ends, OthersKept, TargetSame, Sqlite3!Idle, CallKept, LoopKept, EndKept, PairKept,
       OwnKept
<1> QED
  BY <1>1, <1>2, <1>3, <1>4, <1>5, <1>6, <1>7, <1>8, <1>9, <1>10, <1>11, <1>12, <1>13, <1>14, <1>15, <1>16, <1>17 DEF
       SqliteStep

\* What is bound.
LEMMA FreshInvKept ==
  ASSUME SqliteInv, NEW t \in Threads, SqliteStep(t)
  PROVE  FreshInv'
<1> USE StatementAssumption DEF HoldsInv, CallInv, StatementInv, FreshInv, On
<1>0. Facts
  BY TypedFacts DEF SqliteStep, SqliteInv
<1> USE DEF Facts
<1>a. HoldsInv /\ CallInv /\ StatementInv /\ FreshInv
  BY DEF SqliteInv
<1>1. CASE Opens(t)
  BY <1>0, <1>a, <1>1 DEF Opens, FramesSame, CallKept, LoopKept, EndKept, PairKept, OwnKept
<1>2. CASE OpensNothing
  BY <1>0, <1>a, <1>2 DEF OpensNothing, FramesSame, TargetSame, CallKept, LoopKept, EndKept, PairKept, OwnKept
<1>3. CASE Closes
  BY <1>0, <1>a, <1>3 DEF Closes, FramesSame, CallKept, LoopKept, EndKept, PairKept, OwnKept
<1>4. CASE SetsSql
  BY <1>0, <1>a, <1>4 DEF SetsSql, FramesSame, CallKept, LoopKept, EndKept, PairKept, OwnKept
<1>5. CASE SetsPrepare
  BY <1>0, <1>a, <1>5 DEF SetsPrepare, AllRaced, CallKept, LoopKept, EndKept, PairKept, OwnKept
<1>6. CASE Gets(t)
  BY <1>0, <1>a, <1>6 DEF Gets, Sqlite3!Idle, Paired, OthersKept, TargetSame, CallKept, LoopKept, EndKept,
       PairKept, OwnKept
<1>7. CASE GetsFunc(t)
  BY <1>0, <1>a, <1>7 DEF GetsFunc, Paired, OthersKept, TargetSame, CallKept, LoopKept, EndKept, PairKept,
       OwnKept
<1>8. CASE Replaces
  BY <1>0, <1>a, <1>8 DEF Replaces, AllRaced, TargetSame, CallKept, LoopKept, EndKept, PairKept, OwnKept
<1>9. CASE Begins(t)
  <2>1. BeginsFacts(t)
    BY <1>9, BeginsWith, Zenon
  <2> QED
    BY <1>0, <1>a, <2>1 DEF BeginsFacts, TargetSame
<1>10. CASE Refuses(t)
  BY <1>0, <1>a, <1>10 DEF Refuses, Sqlite3!Idle, Finished, OthersKept, TargetSame, CallKept, LoopKept,
       EndKept, PairKept, OwnKept
<1>11. CASE GivesBack(t)
  BY <1>0, <1>a, <1>11 DEF GivesBack, Finished, OthersKept, TargetSame, CallKept, LoopKept, EndKept,
       PairKept, OwnKept
<1>12. CASE TriesAgain(t)
  BY <1>0, <1>a, <1>12 DEF TriesAgain, Looped, OthersKept, TargetSame, StatementRan, SettingsSame, CallKept,
       LoopKept, EndKept, PairKept, OwnKept
<1>13. CASE Prepares(t)
  BY <1>0, <1>a, <1>13 DEF Prepares, Gone, Looped, OthersKept, TargetSame, SettingsSame, CallKept, LoopKept,
       EndKept, PairKept, OwnKept
<1>14. CASE Binds(t)
  BY <1>0, <1>a, <1>14 DEF Binds, Looped, OthersKept, SettingsSame, CallKept, LoopKept, EndKept, PairKept,
       OwnKept
<1>15. CASE Stores(t)
  <2>1. /\ \A k \in DOMAIN rows' : (k \in DOMAIN rows /\ rows'[k] = rows[k]) \/ rows'[k] = Sqlite3!Row(t)
        /\ Sqlite3!Row(t).raced = frame[t].raced
        /\ LET m == IF frame[t].own THEN loaded.message ELSE target.stmt.message
           IN  Sqlite3!Row(t).live = (m \notin loaded.freed) /\ Sqlite3!Row(t).new = (m >= frame[t].message)
    BY <1>15, RowStored DEF Stores, SqliteInv
  <2>2. Sqlite3!Row(t).new /\ (Sqlite3!Row(t).live \/ Sqlite3!Row(t).raced)
    <3>1. CASE frame[t].own
      <4>1. loaded.message \notin loaded.freed /\ loaded.message >= frame[t].message
        BY <1>0, <1>a
      <4> QED
        BY <2>1, <3>1, <4>1
    <3>2. CASE ~frame[t].own
      BY <1>0, <1>a, <1>15, <2>1, <3>2 DEF Stores
    <3> QED
      BY <3>1, <3>2
  <2>3. \A k \in DOMAIN rows' : rows'[k].new /\ (rows'[k].live \/ rows'[k].raced)
    BY <1>a, <2>1, <2>2
  <2>4. \A u \in Threads : u # t => ~On(u, {"step"})
    BY <1>0, <1>a, <1>15 DEF Stores
  <2>5. \A u \in Threads : /\ frame'[u].message <= loaded'.message
                           /\ On(u, {"step"})' => u = t
    BY <1>0, <1>a, <1>15, <2>4 DEF Stores, Finished, Looped, OthersKept, CallKept
  <2>6. On(t, {"step"})' /\ ~frame'[t].own =>
          /\ target'.stmt.message >= frame'[t].message
          /\ ~frame'[t].raced => target'.stmt.message \notin loaded'.freed
    BY <1>0, <1>a, <1>15 DEF Stores, StatementRan, Finished, Looped, CallKept
  <2>7. \A m \in loaded'.freed : m < loaded'.message
    BY <1>a, <1>15 DEF Stores
  <2>8. \A u \in Threads : On(u, {"step"})' /\ ~frame'[u].own =>
          /\ target'.stmt.message >= frame'[u].message
          /\ ~frame'[u].raced => target'.stmt.message \notin loaded'.freed
    <3> SUFFICES ASSUME NEW u \in Threads, On(u, {"step"})', ~frame'[u].own
                 PROVE  /\ target'.stmt.message >= frame'[u].message
                        /\ ~frame'[u].raced => target'.stmt.message \notin loaded'.freed
      OBVIOUS
    <3>1. u = t
      BY <2>5
    <3>2. frame'[t] = frame'[u]
      BY <3>1
    <3>3. frame'[t].step \in {"step"} /\ ~frame'[t].own
      BY <3>2, Zenon
    <3> QED
      BY <2>6, <3>2, <3>3, Zenon
  <2> QED
    BY <2>3, <2>5, <2>7, <2>8
<1>16. CASE StoresNot(t)
  BY <1>0, <1>a, <1>16 DEF StoresNot, Finished, OthersKept, StatementRan, SettingsSame, CallKept, LoopKept,
       EndKept, PairKept, OwnKept
<1>17. CASE Ends(t)
  BY <1>0, <1>a, <1>17 DEF Ends, OthersKept, TargetSame, Sqlite3!Idle, CallKept, LoopKept, EndKept, PairKept,
       OwnKept
<1> QED
  BY <1>1, <1>2, <1>3, <1>4, <1>5, <1>6, <1>7, <1>8, <1>9, <1>10, <1>11, <1>12, <1>13, <1>14, <1>15, <1>16, <1>17 DEF
       SqliteStep

-----------------------------------------------------------------------------
(***************************************************************************)
(* The invariant, and what follows from it.                                *)
(***************************************************************************)

\* There is no target and no call.
LEMMA SqliteInvInit ==
  ASSUME Sqlite3!Init
  PROVE  SqliteInv
<1> USE StatementAssumption
<1>0. /\ target = NULL /\ db = [open |-> FALSE, table |-> FALSE, stmts |-> 0] /\ rows = <<>> /\ mutex = NULL
      /\ loaded = [message |-> 1, freed |-> {}] /\ frame = [t \in Threads |-> Sqlite3!Idle] /\ calls = 0
  BY DEF Sqlite3!Init
<1>1. Sqlite3!Idle \in SqliteFrame
  BY DEF Sqlite3!Idle, SqliteFrame, SqliteSteps, Preparers
<1>2. rows \in Seq([call : Nat, live : BOOLEAN, new : BOOLEAN, raced : BOOLEAN]) /\ DOMAIN rows = {}
  BY <1>0
<1>3. SqliteTyped
  <2>1. /\ target \in Sqlite3!sqlite3_target \cup {NULL} /\ mutex \in Threads \cup {NULL} /\ calls \in Nat
        /\ frame \in [Threads -> SqliteFrame]
    BY <1>0, <1>1
  <2>2. db \in [open : BOOLEAN, table : BOOLEAN, stmts : {0, 1}]
    BY <1>0
  <2>3. loaded \in [message : Nat, freed : SUBSET Nat]
    BY <1>0
  <2> QED
    BY <1>2, <2>1, <2>2, <2>3 DEF SqliteTyped
<1>4. \A t \in Threads : frame[t] = Sqlite3!Idle /\ frame[t].step = "idle"
  BY <1>0 DEF Sqlite3!Idle
<1>5. \A t \in Threads : /\ frame[t].i = 0 /\ frame[t].try = 0 /\ frame[t].call = 0 /\ frame[t].message = 0
  BY <1>0 DEF Sqlite3!Idle
<1>6. HoldsInv /\ CallInv /\ OwnInv /\ LoopInv /\ PairInv
  BY <1>0, <1>4, <1>5 DEF HoldsInv, CallInv, OwnInv, LoopInv, PairInv, On
<1>7. StatementInv /\ NumberInv
  BY <1>0, <1>2, <1>4, <1>5 DEF StatementInv, Sqlite3!StatementsOwned, NumberInv, On
<1>8. StoredInv /\ FreshInv
  BY <1>0, <1>2, <1>4, <1>5 DEF StoredInv, FreshInv, On
<1> QED
  BY <1>3, <1>6, <1>7, <1>8 DEF SqliteInv

\* Each step keeps each part of the invariant.
LEMMA SqliteInvStep ==
  ASSUME SqliteInv, [Sqlite3!Next]_sqlite
  PROVE  SqliteInv'
<1>1. CASE UNCHANGED sqlite
  <2>1. SqliteTyped' /\ HoldsInv' /\ CallInv' /\ OwnInv' /\ LoopInv' /\ PairInv'
    BY <1>1 DEF sqlite, SqliteInv, SqliteTyped, HoldsInv, CallInv, OwnInv, LoopInv, PairInv, On
  <2>2. StatementInv' /\ NumberInv' /\ StoredInv' /\ FreshInv'
    BY <1>1 DEF sqlite, SqliteInv, StatementInv, Sqlite3!StatementsOwned, NumberInv, StoredInv, FreshInv, On
  <2> QED
    BY <2>1, <2>2 DEF SqliteInv
<1>2. ASSUME NEW t \in Threads, SqliteStep(t) PROVE SqliteInv'
  <2>1. HoldsInv' /\ CallInv' /\ OwnInv' /\ LoopInv'
    BY <1>2, HoldsInvKept, CallInvKept, OwnInvKept, LoopInvKept, Zenon
  <2>2. StatementInv' /\ PairInv' /\ NumberInv' /\ StoredInv' /\ FreshInv'
    BY <1>2, StatementInvKept, PairInvKept, NumberInvKept, StoredInvKept, FreshInvKept, Zenon
  <2> QED
    BY <1>2, <2>1, <2>2 DEF SqliteInv, SqliteStep
<1>3. CASE Sqlite3!Next
  <2>1. PICK t \in Threads :
         \/ Sqlite3!stumpless_open_sqlite3_target(t) \/ Sqlite3!OpenFails(t) \/ Sqlite3!stumpless_close_sqlite3_target(t)
         \/ Sqlite3!stumpless_set_sqlite3_insert_sql(t) \/ Sqlite3!stumpless_set_sqlite3_prepare(t)
         \/ Sqlite3!stumpless_get_sqlite3_prepare(t) \/ Sqlite3!GetFunc(t) \/ Sqlite3!stumpless_set_entry_message(t)
         \/ Sqlite3!stumpless_create_default_sqlite3_table(t) \/ Sqlite3!StepCreate(t)
         \/ Sqlite3!send_entry_to_sqlite3_target(t) \/ Sqlite3!stumpless_sqlite3_prepare(t) \/ Sqlite3!PrepareFails(t)
         \/ Sqlite3!CustomPrepare(t) \/ Sqlite3!Bind(t) \/ Sqlite3!BindFails(t) \/ Sqlite3!StepDone(t)
         \/ Sqlite3!StepFails(t) \/ Sqlite3!StepBusy(t) \/ Sqlite3!Done(t)
    BY <1>3, Zenon DEF Sqlite3!Next
  <2>2. SqliteStep(t)
    BY <2>1, SqliteActionIs, Zenon
  <2> QED
    BY <1>2, <2>2
<1> QED
  BY <1>1, <1>3

\* So it holds always.
LEMMA SqliteInvAlways == Sqlite3!Spec => []SqliteInv
<1>1. SqliteInv /\ [Sqlite3!Next]_(Sqlite3!vars) => SqliteInv'
  BY SqliteInvStep DEF Sqlite3!vars, sqlite
<1> QED
  BY <1>1, SqliteInvInit, PTL DEF Sqlite3!Spec

\* FiniteSets is instantiated with the module.
LEMMA CountsRows == \A S : Sqlite3!Cardinality(S) = Cardinality(S)
BY Zenon DEF Sqlite3!Cardinality, Cardinality

(***************************************************************************)
(* A row of the database has a message that the entry had during the call  *)
(* and that was allocated when it was read, unless another thread replaced *)
(* it in between; and the result of the call tells whether all statements  *)
(* of the entry were run, or the database was busy too often.              *)
(* send_entry_to_sqlite3_target and stumpless_create_default_sqlite3_table *)
(* in src/src/target/sqlite3.c.                                            *)
(***************************************************************************)
THEOREM RowsAreTold == Sqlite3!Spec => []RowsTold
<1>1. SqliteInv => RowsTold
  <2> SUFFICES ASSUME SqliteInv PROVE RowsTold
    OBVIOUS
  <2>1. Sqlite3!RowsFresh
    BY DEF SqliteInv, FreshInv, Sqlite3!RowsFresh
  <2>2. \A t \in Threads : Sqlite3!RowsOf(t) = Stored(rows, frame[t].call)
    BY CountsRows DEF Sqlite3!RowsOf, Stored
  <2>3. Sqlite3!StoredTold
    BY <2>2 DEF SqliteInv, StoredInv, On, Sqlite3!StoredTold
  <2> QED
    BY <2>1, <2>3 DEF RowsTold, Sqlite3!RowsTold
<1> QED
  BY <1>1, SqliteInvAlways, PTL

(***************************************************************************)
(* The statement that the target keeps is compiled from the SQL that was   *)
(* set last; there is none other that is not finalized; it is reset before *)
(* it is bound; and the function that prepares it is read with its data.   *)
(* stumpless_sqlite3_prepare and the setters in src/src/target/sqlite3.c.  *)
(***************************************************************************)
THEOREM StatementsAreSound == Sqlite3!Spec => []StatementsSound
<1>1. SqliteInv => StatementsSound
  <2> SUFFICES ASSUME SqliteInv PROVE StatementsSound
    OBVIOUS
  <2> USE StatementAssumption DEF On
  <2>0. SqliteTyped /\ HoldsInv /\ LoopInv /\ StatementInv /\ PairInv
    BY DEF SqliteInv
  <2>1. Sqlite3!TypeOK
    <3>1. target \in Sqlite3!sqlite3_target \cup {NULL} /\ db \in [open : BOOLEAN, table : BOOLEAN, stmts : {0, 1}]
      BY <2>0 DEF SqliteTyped
    <3>2. {0, 1} = 0..1
      OBVIOUS
    <3>3. mutex # NULL => frame[mutex].step \in {"create", "bind", "step"}
      BY <2>0 DEF SqliteTyped, HoldsInv
    <3>4. \A t \in Threads : frame[t].i < Statements /\ frame[t].try < Retries + frame[t].i
      BY <2>0 DEF LoopInv
    <3> QED
      BY <3>1, <3>2, <3>3, <3>4 DEF Sqlite3!TypeOK
  <2>2. Sqlite3!SqlCurrent /\ Sqlite3!StatementsOwned /\ Sqlite3!BindReady
    BY <2>0 DEF StatementInv, Sqlite3!SqlCurrent, Sqlite3!BindReady
  <2>3. Sqlite3!PairTogether
    BY <2>0 DEF PairInv, Sqlite3!PairTogether
  <2> QED
    BY <2>1, <2>2, <2>3 DEF StatementsSound, Sqlite3!StatementsSound
<1> QED
  BY <1>1, SqliteInvAlways, PTL

(***************************************************************************)
(* JournaldTarget: its types.                                              *)
(***************************************************************************)

JournalObjects == JournalEntries \cup Elements \cup Params

JournalSteps == {"idle", "entry", "measure", "write", "send"}

RecordFields == [place : Nat \X Nat, object : Elements \cup Params, value : Nat]

\* The frame of a call, whatever its record is to be.
SendingTyped(f) ==
  /\ f = [step |-> f.step, entry |-> f.entry, i |-> f.i, j |-> f.j, count |-> f.count, needed |-> f.needed,
          pos |-> f.pos, offset |-> f.offset, record |-> f.record, message |-> f.message,
          facility |-> f.facility, asked |-> f.asked]
  /\ f.step \in JournalSteps
  /\ f.step = "idle" => f = Journald!Idle
  /\ f.step # "idle" => f.entry \in JournalEntries
  /\ f.i \in Nat \ {0} /\ f.j \in Nat /\ f.count \in Nat /\ f.needed \in Nat /\ f.pos \in Nat /\ f.offset \in Nat
  /\ f.record \in Seq(RecordFields)

BufferTypes == [fields : Nat, fixed : BOOLEAN, bases : BOOLEAN, message : Nat, base : Nat, sd : Nat]

TreeTyped ==
  /\ elements \in [JournalEntries -> Seq(Elements)]
  /\ params \in [Elements -> Seq(Params)]
  /\ value \in [Params -> Nat]
  /\ message \in [JournalEntries -> Nat]

JournalTyped ==
  /\ TreeTyped
  /\ holder \in [JournalObjects -> Threads \cup {NULL}]
  /\ local \in [Threads -> BufferTypes]
  /\ sending = [t \in Threads |-> sending[t]] /\ \A t \in Threads : SendingTyped(sending[t])

(***************************************************************************)
(* The places of an entry, and the one that follows in the loops.          *)
(***************************************************************************)

ParamsAt(e, i) == params[elements[e][i]]

Following(e, a) ==
  IF a[2] < Len(ParamsAt(e, a[1])) THEN << a[1], a[2] + 1 >> ELSE << a[1] + 1, 0 >>

Behind(e) == << Len(elements[e]) + 1, 0 >>

\* What a place is.
LEMMA PlaceIs ==
  ASSUME TreeTyped, NEW e \in JournalEntries, NEW a \in Journald!Places(e)
  PROVE  /\ a \in Nat \X Nat /\ a = << a[1], a[2] >>
         /\ a[1] \in 1..Len(elements[e]) /\ a[2] \in 0..Len(ParamsAt(e, a[1]))
         /\ elements[e][a[1]] \in Elements
<1>1. PICK i \in DOMAIN elements[e] : a \in {i} \X (0..Len(params[elements[e][i]]))
  BY DEF Journald!Places
<1>2. elements[e] \in Seq(Elements)
  BY DEF TreeTyped
<1>3. i \in 1..Len(elements[e]) /\ elements[e][i] \in Elements
  BY <1>2, <1>1
<1>4. params[elements[e][i]] \in Seq(Params)
  BY <1>3 DEF TreeTyped
<1>5. Len(elements[e]) \in Nat /\ Len(params[elements[e][i]]) \in Nat
  BY <1>2, <1>4
<1>6. a[1] = i /\ a[2] \in 0..Len(params[elements[e][i]]) /\ a = << a[1], a[2] >>
  BY <1>1
<1> QED
  BY <1>3, <1>5, <1>6 DEF ParamsAt

LEMMA PlaceOf ==
  ASSUME TreeTyped, NEW e \in JournalEntries, NEW i \in 1..Len(elements[e]), NEW j \in 0..Len(ParamsAt(e, i))
  PROVE  << i, j >> \in Journald!Places(e)
<1>1. DOMAIN elements[e] = 1..Len(elements[e])
  BY DEF TreeTyped
<1>2. << i, j >> \in {i} \X (0..Len(params[elements[e][i]]))
  BY DEF ParamsAt
<1> QED
  BY <1>1, <1>2 DEF Journald!Places

\* What is there.
LEMMA ObjectIs ==
  ASSUME TreeTyped, NEW e \in JournalEntries, NEW a \in Journald!Places(e)
  PROVE  /\ a[2] = 0 => Journald!ObjectAt(e, a) = elements[e][a[1]] /\ Journald!ObjectAt(e, a) \in Elements
         /\ a[2] # 0 => Journald!ObjectAt(e, a) = ParamsAt(e, a[1])[a[2]] /\ Journald!ObjectAt(e, a) \in Params
         /\ Journald!ValueAt(e, a) \in Nat
<1>1. /\ a[1] \in 1..Len(elements[e]) /\ a[2] \in 0..Len(ParamsAt(e, a[1])) /\ elements[e][a[1]] \in Elements
  BY PlaceIs
<1>2. ParamsAt(e, a[1]) \in Seq(Params)
  BY <1>1 DEF TreeTyped, ParamsAt
<1>3. ASSUME a[2] # 0
      PROVE  ParamsAt(e, a[1])[a[2]] \in Params
  BY <1>1, <1>2, <1>3
<1>4. \A p \in Params : value[p] \in Nat
  BY DEF TreeTyped
<1> QED
  BY <1>1, <1>3, <1>4 DEF Journald!ObjectAt, Journald!ValueAt, ParamsAt

\* Behind a place come those that came behind it, but the one that follows.
LEMMA FollowingIs ==
  ASSUME TreeTyped, NEW e \in JournalEntries, NEW a \in Journald!Places(e)
  PROVE  /\ Following(e, a) \in Journald!Places(e) \cup {Behind(e)}
         /\ Journald!Earlier(a, Following(e, a))
         /\ \A b \in Journald!Places(e) :
              Journald!Earlier(b, Following(e, a)) <=> Journald!Earlier(b, a) \/ b = a
<1>1. /\ a[1] \in 1..Len(elements[e]) /\ a[2] \in 0..Len(ParamsAt(e, a[1])) /\ a = << a[1], a[2] >>
  BY PlaceIs
<1>2. Len(elements[e]) \in Nat /\ elements[e] \in Seq(Elements)
  BY DEF TreeTyped
<1>3. ASSUME NEW i \in 1..Len(elements[e])
      PROVE  Len(ParamsAt(e, i)) \in Nat
  <2>1. elements[e][i] \in Elements
    BY <1>2
  <2>2. params[elements[e][i]] \in Seq(Params)
    BY <2>1 DEF TreeTyped
  <2> QED
    BY <2>2 DEF ParamsAt
<1>4. Following(e, a) \in Journald!Places(e) \cup {Behind(e)}
  <2>1. CASE a[2] < Len(ParamsAt(e, a[1]))
    <3>1. a[2] + 1 \in 0..Len(ParamsAt(e, a[1]))
      BY <1>1, <1>3, <2>1
    <3>2. << a[1], a[2] + 1 >> \in Journald!Places(e)
      BY <1>1, <3>1, PlaceOf
    <3> QED
      BY <2>1, <3>2 DEF Following
  <2>2. CASE ~(a[2] < Len(ParamsAt(e, a[1]))) /\ a[1] < Len(elements[e])
    <3>1. a[1] + 1 \in 1..Len(elements[e])
      BY <1>1, <1>2, <2>2
    <3>2. 0 \in 0..Len(ParamsAt(e, a[1] + 1))
      BY <1>3, <3>1
    <3>3. << a[1] + 1, 0 >> \in Journald!Places(e)
      BY <3>1, <3>2, PlaceOf
    <3> QED
      BY <2>2, <3>3 DEF Following
  <2>3. CASE ~(a[2] < Len(ParamsAt(e, a[1]))) /\ ~(a[1] < Len(elements[e]))
    <3>1. a[1] = Len(elements[e])
      BY <1>1, <1>2, <2>3
    <3> QED
      BY <2>3, <3>1 DEF Following, Behind
  <2> QED
    BY <2>1, <2>2, <2>3
<1>5. Journald!Earlier(a, Following(e, a))
  BY <1>1, <1>2, <1>3 DEF Following, Journald!Earlier
<1>6. ASSUME NEW b \in Journald!Places(e)
      PROVE  Journald!Earlier(b, Following(e, a)) <=> Journald!Earlier(b, a) \/ b = a
  <2>1. b[1] \in 1..Len(elements[e]) /\ b[2] \in 0..Len(ParamsAt(e, b[1])) /\ b = << b[1], b[2] >>
    BY PlaceIs
  <2>2. Len(ParamsAt(e, a[1])) \in Nat /\ (b[1] = a[1] => b[2] \in 0..Len(ParamsAt(e, a[1])))
    BY <1>1, <1>3, <2>1
  <2>3. b = a <=> b[1] = a[1] /\ b[2] = a[2]
    BY <1>1, <2>1
  <2>4. CASE a[2] < Len(ParamsAt(e, a[1]))
    BY <1>1, <1>2, <2>1, <2>2, <2>3, <2>4 DEF Following, Journald!Earlier
  <2>5. CASE ~(a[2] < Len(ParamsAt(e, a[1])))
    BY <1>1, <1>2, <2>1, <2>2, <2>3, <2>5 DEF Following, Journald!Earlier
  <2> QED
    BY <2>4, <2>5
<1> QED
  BY <1>4, <1>5, <1>6, Zenon

\* Two different places come one behind the other, and all come before the end.
LEMMA PlacesOrdered ==
  ASSUME TreeTyped, NEW e \in JournalEntries, NEW a \in Journald!Places(e)
  PROVE  /\ Journald!Earlier(a, Behind(e)) /\ ~Journald!Earlier(a, << 1, 0 >>) /\ ~Journald!Earlier(a, a)
         /\ Behind(e) \notin Journald!Places(e)
         /\ \A b \in Journald!Places(e) : a # b => Journald!Earlier(a, b) \/ Journald!Earlier(b, a)
<1>1. /\ a[1] \in 1..Len(elements[e]) /\ a[2] \in Nat /\ a = << a[1], a[2] >>
  BY PlaceIs
<1>2. Len(elements[e]) \in Nat
  BY DEF TreeTyped
<1>3. Behind(e) \notin Journald!Places(e)
  <2> SUFFICES ASSUME Behind(e) \in Journald!Places(e)
               PROVE  FALSE
    OBVIOUS
  <2>1. Behind(e)[1] \in 1..Len(elements[e])
    BY PlaceIs
  <2> QED
    BY <2>1, <1>2 DEF Behind
<1>4. ASSUME NEW b \in Journald!Places(e), a # b
      PROVE  Journald!Earlier(a, b) \/ Journald!Earlier(b, a)
  <2>1. b[1] \in 1..Len(elements[e]) /\ b[2] \in Nat /\ b = << b[1], b[2] >>
    BY PlaceIs
  <2> QED
    BY <1>1, <1>2, <1>4, <2>1 DEF Journald!Earlier
<1>5. /\ Journald!Earlier(a, Behind(e)) /\ ~Journald!Earlier(a, << 1, 0 >>) /\ ~Journald!Earlier(a, a)
  BY <1>1, <1>2 DEF Journald!Earlier, Behind
<1> QED
  BY <1>3, <1>4, <1>5

(***************************************************************************)
(* The mutexes.                                                            *)
(***************************************************************************)

\* What a call has of its entry: in the first pass all it came by, in the second
\* what it has not come by yet, and the element that it is in.
IsMine(t, a) ==
  IF sending[t].step = "measure" THEN Journald!Earlier(a, Journald!Place(t))
  ELSE ~Journald!Earlier(a, Journald!Place(t)) \/ a = << sending[t].i, 0 >>

Mine(t) == {a \in Journald!Places(sending[t].entry) : IsMine(t, a)}

InPasses(t) == sending[t].step \in {"measure", "write"}

Kept(t, o) ==
  InPasses(t) /\ (o = sending[t].entry \/ \E a \in Mine(t) : o = Journald!ObjectAt(sending[t].entry, a))

\* A mutex is held exactly by the call that has the object.
HeldOf(t) == \A o \in JournalObjects : holder[o] = t <=> Kept(t, o)

\* It has no object at two places.
DistinctOf(t) ==
  InPasses(t) =>
    \A a, b \in Mine(t) :
      Journald!ObjectAt(sending[t].entry, a) = Journald!ObjectAt(sending[t].entry, b) => a = b

\* The loops are at a place, or behind the last one.
AtOf(t) ==
  InPasses(t) =>
    Journald!Place(t) \in Journald!Places(sending[t].entry) \cup {Behind(sending[t].entry)}

(***************************************************************************)
(* What is added up: m says how much space there is to be before a place,  *)
(* n how many fields before an element.                                    *)
(***************************************************************************)

NameAt(e, a) ==
  IF a[2] = 0 THEN Journald!stumpless_flatten_element_name(elements[e][a[1]])
  ELSE Journald!stumpless_flatten_param_name(elements[e][a[1]], ParamsAt(e, a[1])[a[2]])

SizeAt(e, a) == Len(NameAt(e, a)) + 1 + Journald!ValueAt(e, a)

Spaces == [Nat \X Nat -> Nat]

\* In the places P, m goes up by what each needs, and stays below a limit.
AddsUp(m, e, P, limit) ==
  \A a \in P : m[Following(e, a)] = m[a] + SizeAt(e, a) /\ m[Following(e, a)] <= limit

\* The places to come in the second pass.
Ahead(t) == {a \in Journald!Places(sending[t].entry) : ~Journald!Earlier(a, Journald!Place(t))}

\* The space added up so far, and what is left of it.
SpaceMeasured(m, t) ==
  /\ m[<< 1, 0 >>] = 0 /\ m[Journald!Place(t)] = sending[t].needed
  /\ AddsUp(m, sending[t].entry, Mine(t), sending[t].needed)

SpaceLeft(m, t) ==
  /\ m[Journald!Place(t)] = sending[t].pos /\ sending[t].pos <= local[t].sd
  /\ AddsUp(m, sending[t].entry, Ahead(t), local[t].sd)

SpaceOf(t) ==
  /\ sending[t].step = "measure" => sending[t].pos = 0 /\ \E m \in Spaces : SpaceMeasured(m, t)
  /\ sending[t].step = "write" => \E m \in Spaces : SpaceLeft(m, t)
  /\ sending[t].step = "send" => sending[t].pos <= local[t].sd

\* In the elements S, n goes up by one and their params.
CountsUp(n, e, S, limit) ==
  \A i \in S : n[i + 1] = n[i] + 1 + Len(ParamsAt(e, i)) /\ n[i + 1] <= limit

\* The next element to be counted, behind those whose params are.
NextCounted(t) == IF sending[t].j = 0 THEN sending[t].i ELSE sending[t].i + 1

FieldsCounted(n, t) ==
  /\ n[1] = Journald!SD_FIELDS_OFFSET /\ n[NextCounted(t)] >= Journald!SD_FIELDS_OFFSET
  /\ sending[t].count + NextCounted(t) = n[NextCounted(t)] + Len(elements[sending[t].entry]) + 1
  /\ CountsUp(n, sending[t].entry, 1 .. (NextCounted(t) - 1), n[NextCounted(t)])

FieldsLeft(n, t) ==
  /\ sending[t].offset = n[sending[t].i] + sending[t].j /\ n[sending[t].i] <= local[t].fields
  /\ CountsUp(n, sending[t].entry, sending[t].i .. Len(elements[sending[t].entry]), local[t].fields)

CountOf(t) ==
  /\ sending[t].step = "measure" => \E n \in [Nat -> Nat] : FieldsCounted(n, t)
  /\ sending[t].step = "write" => \E n \in [Nat -> Nat] : FieldsLeft(n, t)
  /\ sending[t].step = "send" => sending[t].offset <= local[t].fields

(***************************************************************************)
(* The buffers of a thread, and the record.                                *)
(***************************************************************************)

BuffersOf(t) ==
  /\ local[t].fixed /\ local[t].fields > 0 => local[t].bases
  /\ local[t].base = local[t].message
  /\ sending[t].step # "idle" => local[t].fixed
  /\ sending[t].step \in {"write", "send"} => local[t].fields >= Journald!SD_FIELDS_OFFSET

\* The fields of the record are those asked for before the place p.
Recorded(f, p) ==
  LET F == f.asked.fields IN
  /\ DOMAIN F \subseteq Nat \X Nat
  /\ \A k, l \in DOMAIN f.record : k < l => Journald!Earlier(f.record[k].place, f.record[l].place)
  /\ \A k \in DOMAIN f.record : f.record[k].place \in DOMAIN F /\ Journald!Earlier(f.record[k].place, p)
  /\ \A a \in DOMAIN F : Journald!Earlier(a, p) =>
       \E k \in DOMAIN f.record : f.record[k] = [place |-> a, object |-> F[a].object, value |-> F[a].value]

\* Those to come are still as they were.
Unchanged(t) ==
  LET F == sending[t].asked.fields
      e == sending[t].entry
  IN
  /\ {a \in DOMAIN F : ~Journald!Earlier(a, Journald!Place(t))} = Ahead(t)
  /\ \A a \in Ahead(t) :
       F[a].object = Journald!ObjectAt(e, a) /\ F[a].value = Journald!ValueAt(e, a)

\* The record has all that was asked for.
RecordSent(f) ==
  /\ \E p \in Nat \X Nat : Recorded(f, p) /\ \A a \in DOMAIN f.asked.fields : Journald!Earlier(a, p)
  /\ f.message = f.asked.message
  /\ f.facility = Journald!load_facility(Facility[f.entry])

RecordOf(t) ==
  LET f == sending[t] IN
  /\ f.step \in {"entry", "measure"} => f.record = << >> /\ f.i \in Nat /\ f.pos = 0
  /\ f.step = "entry" => f.i = 1 /\ f.j = 0 /\ f.needed = 0
  /\ f.step = "write" =>
       /\ Recorded(f, Journald!Place(t)) /\ Unchanged(t)
       /\ f.asked.message = message[f.entry]
  /\ f.step = "send" => RecordSent(f)

CallOf(t) == HeldOf(t) /\ DistinctOf(t) /\ AtOf(t) /\ SpaceOf(t) /\ CountOf(t) /\ BuffersOf(t) /\ RecordOf(t)

JournalInv == JournalTyped /\ \A t \in Threads : CallOf(t)

(***************************************************************************)
(* What the others do does not disturb a call.                             *)
(***************************************************************************)

OthersAct(t) ==
  /\ elements' = elements /\ sending'[t] = sending[t] /\ local'[t] = local[t]
  /\ \A o \in JournalObjects : holder'[o] = t <=> holder[o] = t
  /\ \A p \in Params : holder[p] = t => value'[p] = value[p]
  /\ \A e \in JournalEntries : holder[e] = t => message'[e] = message[e]
  /\ \A el \in Elements : holder[el] = t => params'[el] = params[el]
  /\ \A el \in Elements :
       /\ Len(params[el]) <= Len(params'[el])
       /\ \A j \in 1..Len(params[el]) : params'[el][j] = params[el][j]

\* With any place of an element, the element itself is the call's.
LEMMA ElementIsMine ==
  ASSUME JournalTyped, NEW t \in Threads, InPasses(t),
         NEW i \in 1..Len(elements[sending[t].entry]), NEW j \in Nat, IsMine(t, << i, j >>)
  PROVE  << i, 0 >> \in Mine(t)
<1>1. sending[t].entry \in JournalEntries /\ sending[t].i \in Nat /\ sending[t].j \in Nat
  BY DEF JournalTyped, SendingTyped, InPasses
<1>2. TreeTyped
  BY DEF JournalTyped
<1>3. elements[sending[t].entry] \in Seq(Elements)
  BY <1>1, <1>2 DEF TreeTyped
<1>4. elements[sending[t].entry][i] \in Elements
  BY <1>3
<1>5. params[elements[sending[t].entry][i]] \in Seq(Params)
  BY <1>2, <1>4 DEF TreeTyped
<1>6. 0 \in 0..Len(ParamsAt(sending[t].entry, i))
  BY <1>5 DEF ParamsAt
<1>7. << i, 0 >> \in Journald!Places(sending[t].entry)
  BY <1>1, <1>2, <1>6, PlaceOf
<1>8. IsMine(t, << i, 0 >>)
  BY <1>1, <1>3 DEF IsMine, Journald!Earlier, Journald!Place
<1> QED
  BY <1>7, <1>8 DEF Mine

LEMMA MineKept ==
  ASSUME JournalTyped, TreeTyped', NEW t \in Threads, HeldOf(t), OthersAct(t), InPasses(t),
         NEW e, e = sending[t].entry
  PROVE  /\ Journald!Places(e) \subseteq Journald!Places(e)'
         /\ Mine(t)' = Mine(t)
         /\ \A i \in 1..Len(elements[e]) : << i, 0 >> \in Mine(t) => ParamsAt(e, i)' = ParamsAt(e, i)
         /\ \A a \in Mine(t) :
              /\ Journald!ObjectAt(e, a)' = Journald!ObjectAt(e, a)
              /\ Journald!ValueAt(e, a)' = Journald!ValueAt(e, a)
              /\ SizeAt(e, a)' = SizeAt(e, a) /\ Following(e, a)' = Following(e, a)
<1>1. e \in JournalEntries /\ TreeTyped /\ sending'[t] = sending[t] /\ elements' = elements
  BY DEF JournalTyped, SendingTyped, InPasses, OthersAct
<1>2. elements[e] \in Seq(Elements) /\ Len(elements[e]) \in Nat
  BY <1>1 DEF TreeTyped
<1>3. ASSUME NEW i \in 1..Len(elements[e]), << i, 0 >> \in Mine(t)
      PROVE  ParamsAt(e, i)' = ParamsAt(e, i)
  <2>1. elements[e][i] \in Elements
    BY <1>2
  <2>2. Journald!ObjectAt(e, << i, 0 >>) = elements[e][i]
    BY DEF Journald!ObjectAt
  <2>3. Kept(t, elements[e][i])
    BY <1>3, <2>2 DEF Kept
  <2>4. holder[elements[e][i]] = t
    BY <2>1, <2>3 DEF HeldOf, JournalObjects
  <2>5. params'[elements[e][i]] = params[elements[e][i]]
    BY <2>1, <2>4 DEF OthersAct
  <2> QED
    BY <1>1, <2>5 DEF ParamsAt
<1>4. ASSUME NEW a
      PROVE  IsMine(t, a)' <=> IsMine(t, a)
  BY <1>1 DEF IsMine, Journald!Earlier, Journald!Place
<1>5. ASSUME NEW a \in Journald!Places(e)
      PROVE  a \in Journald!Places(e)'
  <2>1. /\ a[1] \in 1..Len(elements[e]) /\ a[2] \in 0..Len(ParamsAt(e, a[1])) /\ a = << a[1], a[2] >>
        /\ elements[e][a[1]] \in Elements
    BY <1>1, PlaceIs
  <2>2. Len(params[elements[e][a[1]]]) <= Len(params'[elements[e][a[1]]])
    BY <2>1 DEF OthersAct
  <2>3. params[elements[e][a[1]]] \in Seq(Params) /\ params'[elements[e][a[1]]] \in Seq(Params)
    BY <1>1, <2>1 DEF TreeTyped
  <2>4. a[2] \in 0..Len(params'[elements[e][a[1]]])
    BY <2>1, <2>2, <2>3 DEF ParamsAt
  <2>5. a \in {a[1]} \X (0..Len(params'[elements'[e][a[1]]])) /\ a[1] \in DOMAIN elements'[e]
    BY <1>1, <1>2, <2>1, <2>4
  <2> QED
    BY <2>5 DEF Journald!Places
<1>6. ASSUME NEW a \in Mine(t)'
      PROVE  a \in Mine(t)
  <2>1. a \in Journald!Places(e)' /\ IsMine(t, a)
    BY <1>1, <1>4, <1>6 DEF Mine
  <2>2. PICK i \in DOMAIN elements[e] : a \in {i} \X (0..Len(params'[elements[e][i]]))
    BY <1>1, <2>1 DEF Journald!Places
  <2>3. i \in 1..Len(elements[e]) /\ elements[e][i] \in Elements
    BY <1>2, <2>2
  <2>4. params'[elements[e][i]] \in Seq(Params)
    BY <1>1, <2>3 DEF TreeTyped
  <2>5. a[2] \in Nat /\ a = << i, a[2] >> /\ a[2] \in 0..Len(params'[elements[e][i]])
    BY <2>2, <2>4
  <2>6. << i, 0 >> \in Mine(t)
    BY <2>1, <2>3, <2>5, ElementIsMine
  <2>7. params'[elements[e][i]] = params[elements[e][i]]
    BY <1>1, <1>3, <2>3, <2>6 DEF ParamsAt
  <2>8. a \in Journald!Places(e)
    BY <1>1, <2>3, <2>5, <2>7, PlaceOf DEF ParamsAt
  <2> QED
    BY <2>1, <2>8 DEF Mine
<1>7. ASSUME NEW a \in Mine(t)
      PROVE  a \in Mine(t)'
  BY <1>1, <1>4, <1>5, <1>7 DEF Mine
<1>8. ASSUME NEW a \in Mine(t)
      PROVE  /\ Journald!ObjectAt(e, a)' = Journald!ObjectAt(e, a)
             /\ Journald!ValueAt(e, a)' = Journald!ValueAt(e, a)
             /\ SizeAt(e, a)' = SizeAt(e, a) /\ Following(e, a)' = Following(e, a)
  <2>1. a \in Journald!Places(e) /\ IsMine(t, a)
    BY <1>8 DEF Mine
  <2>2. /\ a[1] \in 1..Len(elements[e]) /\ a[2] \in 0..Len(ParamsAt(e, a[1])) /\ a = << a[1], a[2] >> /\ a[2] \in Nat
    BY <1>1, <2>1, PlaceIs
  <2>3. << a[1], 0 >> \in Mine(t)
    BY <2>1, <2>2, ElementIsMine
  <2>4. ParamsAt(e, a[1])' = ParamsAt(e, a[1])
    BY <1>3, <2>2, <2>3
  <2>5. Journald!ObjectAt(e, a)' = Journald!ObjectAt(e, a)
    BY <1>1, <2>4 DEF Journald!ObjectAt, ParamsAt
  <2>6. Journald!ValueAt(e, a)' = Journald!ValueAt(e, a)
    <3>1. CASE a[2] = 0
      BY <3>1 DEF Journald!ValueAt
    <3>2. CASE a[2] # 0
      <4>1. Journald!ObjectAt(e, a) \in Params
        BY <1>1, <2>1, <3>2, ObjectIs
      <4>2. Kept(t, Journald!ObjectAt(e, a))
        BY <1>8 DEF Kept
      <4>3. holder[Journald!ObjectAt(e, a)] = t
        BY <4>1, <4>2 DEF HeldOf, JournalObjects
      <4>4. value'[Journald!ObjectAt(e, a)] = value[Journald!ObjectAt(e, a)]
        BY <4>1, <4>3 DEF OthersAct
      <4> QED
        BY <2>5, <3>2, <4>4 DEF Journald!ValueAt
    <3> QED
      BY <3>1, <3>2
  <2>7. NameAt(e, a)' = NameAt(e, a)
    BY <1>1, <2>4 DEF NameAt, Journald!stumpless_flatten_element_name, Journald!stumpless_flatten_param_name,
                      Journald!get_journald_field_name
  <2>8. SizeAt(e, a)' = SizeAt(e, a)
    BY <2>6, <2>7 DEF SizeAt
  <2>9. Following(e, a)' = Following(e, a)
    BY <2>4 DEF Following
  <2> QED
    BY <2>5, <2>6, <2>8, <2>9
<1>9. Mine(t)' = Mine(t)
  BY <1>6, <1>7
<1> QED
  BY <1>3, <1>5, <1>8, <1>9

\* The places ahead are the call's.
LEMMA AheadIsMine ==
  ASSUME JournalTyped, NEW t \in Threads, sending[t].step = "write"
  PROVE  /\ Ahead(t) = {a \in Mine(t) : ~Journald!Earlier(a, Journald!Place(t))}
         /\ Mine(t) = Ahead(t) \cup {a \in Journald!Places(sending[t].entry) : a = << sending[t].i, 0 >>}
BY DEF Ahead, Mine, IsMine

LEMMA AheadKept ==
  ASSUME JournalTyped, TreeTyped', NEW t \in Threads, HeldOf(t), OthersAct(t), sending[t].step = "write"
  PROVE  Ahead(t)' = Ahead(t)
<1>1. Mine(t)' = Mine(t) /\ InPasses(t)
  BY MineKept DEF InPasses
<1>2. sending'[t] = sending[t]
  BY DEF OthersAct
<1>3. \A a : Journald!Earlier(a, Journald!Place(t))' <=> Journald!Earlier(a, Journald!Place(t))
  BY <1>2 DEF Journald!Earlier, Journald!Place
<1>4. Ahead(t)' = {a \in Mine(t)' : ~Journald!Earlier(a, Journald!Place(t))'}
  BY <1>2 DEF Ahead, Mine, IsMine
<1> QED
  BY <1>1, <1>3, <1>4, AheadIsMine

LEMMA MutexesKept ==
  ASSUME JournalTyped, TreeTyped', NEW t \in Threads, HeldOf(t), DistinctOf(t), AtOf(t), OthersAct(t),
         NEW e, e = sending[t].entry
  PROVE  HeldOf(t)' /\ DistinctOf(t)' /\ AtOf(t)'
<1>1. sending'[t] = sending[t] /\ elements' = elements /\ (InPasses(t)' <=> InPasses(t))
  BY DEF OthersAct, InPasses
<1>2. ASSUME InPasses(t)
      PROVE  /\ Mine(t)' = Mine(t) /\ Journald!Places(e) \subseteq Journald!Places(e)'
             /\ \A a \in Mine(t) : Journald!ObjectAt(e, a)' = Journald!ObjectAt(e, a)
  BY <1>2, MineKept
<1>3. ASSUME NEW o
      PROVE  Kept(t, o)' <=> Kept(t, o)
  <2>1. CASE InPasses(t)
    <3>1. Mine(t)' = Mine(t) /\ \A a \in Mine(t) : Journald!ObjectAt(e, a)' = Journald!ObjectAt(e, a)
      BY <1>2, <2>1
    <3>2. Kept(t, o)' <=> InPasses(t)' /\ (o = e \/ \E a \in Mine(t)' : o = Journald!ObjectAt(e, a)')
      BY <1>1 DEF Kept
    <3> QED
      BY <1>1, <3>1, <3>2 DEF Kept
  <2>2. CASE ~InPasses(t)
    BY <1>1, <2>2 DEF Kept
  <2> QED
    BY <2>1, <2>2
<1>4. HeldOf(t)'
  BY <1>3 DEF HeldOf, OthersAct
<1>5. DistinctOf(t)'
  <2> SUFFICES ASSUME InPasses(t)
               PROVE  DistinctOf(t)'
    BY <1>1 DEF DistinctOf
  <2>1. Mine(t)' = Mine(t) /\ \A a \in Mine(t) : Journald!ObjectAt(e, a)' = Journald!ObjectAt(e, a)
    BY <1>2
  <2>2. DistinctOf(t)' <=> (InPasses(t)' => \A a, b \in Mine(t)' :
          Journald!ObjectAt(e, a)' = Journald!ObjectAt(e, b)' => a = b)
    BY <1>1 DEF DistinctOf
  <2> QED
    BY <1>1, <2>1, <2>2 DEF DistinctOf
<1>6. AtOf(t)'
  <2> SUFFICES ASSUME InPasses(t)
               PROVE  AtOf(t)'
    BY <1>1 DEF AtOf
  <2>1. Journald!Places(e) \subseteq Journald!Places(e)'
    BY <1>2
  <2>2. Journald!Place(t)' = Journald!Place(t) /\ Behind(e)' = Behind(e)
    BY <1>1 DEF Journald!Place, Behind
  <2>3. Journald!Place(t) \in Journald!Places(e) \cup {Behind(e)}
    BY DEF AtOf
  <2>4. AtOf(t)' <=> (InPasses(t)' => Journald!Place(t)' \in Journald!Places(e)' \cup {Behind(e)'})
    BY <1>1 DEF AtOf
  <2> QED
    BY <2>1, <2>2, <2>3, <2>4
<1> QED
  BY <1>4, <1>5, <1>6

LEMMA SpaceKept ==
  ASSUME JournalTyped, TreeTyped', NEW t \in Threads, HeldOf(t), OthersAct(t), SpaceOf(t),
         NEW e, e = sending[t].entry
  PROVE  SpaceOf(t)'
<1>1. sending'[t] = sending[t] /\ local'[t] = local[t]
  BY DEF OthersAct
<1>2. Journald!Place(t)' = Journald!Place(t)
  BY <1>1 DEF Journald!Place
<1>3. ASSUME NEW m, NEW P, P \subseteq Mine(t), NEW limit, InPasses(t), AddsUp(m, e, P, limit)
      PROVE  \A a \in P : m[Following(e, a)'] = m[a] + SizeAt(e, a)' /\ m[Following(e, a)'] <= limit
  <2>1. \A a \in Mine(t) : SizeAt(e, a)' = SizeAt(e, a) /\ Following(e, a)' = Following(e, a)
    BY <1>3, MineKept
  <2> QED
    BY <1>3, <2>1 DEF AddsUp
<1>4. CASE sending[t].step = "measure"
  <2>1. PICK m \in Spaces : SpaceMeasured(m, t)
    BY <1>4 DEF SpaceOf
  <2>2. \A a \in Mine(t) : m[Following(e, a)'] = m[a] + SizeAt(e, a)' /\ m[Following(e, a)'] <= sending[t].needed
    BY <1>3, <1>4, <2>1 DEF InPasses, SpaceMeasured
  <2>3. Mine(t)' = Mine(t)
    BY <1>4, MineKept DEF InPasses
  <2>4. AddsUp(m, sending[t].entry, Mine(t), sending[t].needed)'
    BY <1>1, <2>2, <2>3 DEF AddsUp
  <2>5. SpaceMeasured(m, t)'
    BY <1>1, <1>2, <2>1, <2>4 DEF SpaceMeasured
  <2> QED
    BY <1>1, <1>4, <2>5 DEF SpaceOf
<1>5. CASE sending[t].step = "write"
  <2>1. PICK m \in Spaces : SpaceLeft(m, t)
    BY <1>5 DEF SpaceOf
  <2>2. Ahead(t) \subseteq Mine(t) /\ Ahead(t)' = Ahead(t)
    BY <1>5, AheadKept, AheadIsMine
  <2>3. \A a \in Ahead(t) : m[Following(e, a)'] = m[a] + SizeAt(e, a)' /\ m[Following(e, a)'] <= local[t].sd
    BY <1>3, <1>5, <2>1, <2>2 DEF InPasses, SpaceLeft
  <2>4. AddsUp(m, sending[t].entry, Ahead(t), local[t].sd)'
    BY <1>1, <2>2, <2>3 DEF AddsUp
  <2>5. SpaceLeft(m, t)'
    BY <1>1, <1>2, <2>1, <2>4 DEF SpaceLeft
  <2> QED
    BY <1>1, <1>5, <2>5 DEF SpaceOf
<1>6. CASE sending[t].step \notin {"measure", "write"}
  BY <1>1, <1>6 DEF SpaceOf
<1> QED
  BY <1>4, <1>5, <1>6

\* Where the loops of a call can be.
LEMMA LoopsAt ==
  ASSUME JournalTyped, NEW t \in Threads, AtOf(t), InPasses(t), NEW e, e = sending[t].entry
  PROVE  /\ e \in JournalEntries /\ Len(elements[e]) \in Nat /\ sending[t].i \in Nat \ {0} /\ sending[t].j \in Nat
         /\ \A i \in 1..Len(elements[e]) : Len(ParamsAt(e, i)) \in Nat
         /\ sending[t].i <= Len(elements[e]) + 1 /\ (sending[t].i = Len(elements[e]) + 1 => sending[t].j = 0)
         /\ NextCounted(t) \in Nat \ {0} /\ NextCounted(t) <= Len(elements[e]) + 1
<1>1. TreeTyped /\ e \in JournalEntries /\ sending[t].i \in Nat \ {0} /\ sending[t].j \in Nat
  BY DEF JournalTyped, SendingTyped, InPasses
<1>2. elements[e] \in Seq(Elements)
  BY <1>1 DEF TreeTyped
<1>3. \A i \in 1..Len(elements[e]) : elements[e][i] \in Elements
  BY <1>2
<1>5. \A i \in 1..Len(elements[e]) : ParamsAt(e, i) \in Seq(Params)
  BY <1>1, <1>3 DEF ParamsAt, TreeTyped
<1>6. Journald!Place(t) \in Journald!Places(e) \cup {Behind(e)}
  BY DEF AtOf
<1>7. sending[t].i <= Len(elements[e]) + 1 /\ (sending[t].i = Len(elements[e]) + 1 => sending[t].j = 0)
  <2>1. CASE Journald!Place(t) \in Journald!Places(e)
    <3>1. Journald!Place(t)[1] \in 1..Len(elements[e])
      BY <1>1, <2>1, PlaceIs
    <3> QED
      BY <1>2, <3>1 DEF Journald!Place
  <2>2. CASE Journald!Place(t) = Behind(e)
    BY <1>2, <2>2 DEF Journald!Place, Behind
  <2> QED
    BY <1>6, <2>1, <2>2
<1>8. NextCounted(t) \in Nat \ {0} /\ NextCounted(t) <= Len(elements[e]) + 1
  <2>1. Len(elements[e]) \in Nat
    BY <1>2
  <2>2. CASE sending[t].j = 0
    BY <1>1, <1>7, <2>1, <2>2 DEF NextCounted
  <2>3. CASE sending[t].j # 0
    BY <1>1, <1>7, <2>1, <2>3 DEF NextCounted
  <2> QED
    BY <2>2, <2>3
<1> QED
  BY <1>1, <1>2, <1>5, <1>7, <1>8

LEMMA CountKept ==
  ASSUME JournalTyped, TreeTyped', NEW t \in Threads, HeldOf(t), AtOf(t), OthersAct(t), CountOf(t),
         NEW e, e = sending[t].entry
  PROVE  CountOf(t)'
<1>1. sending'[t] = sending[t] /\ local'[t] = local[t] /\ elements' = elements
  BY DEF OthersAct
<1>2. NextCounted(t)' = NextCounted(t)
  BY <1>1 DEF NextCounted
<1>3. ASSUME InPasses(t)
      PROVE  /\ Len(elements[e]) \in Nat /\ sending[t].i \in Nat \ {0} /\ sending[t].j \in Nat
             /\ NextCounted(t) \in Nat \ {0} /\ NextCounted(t) <= Len(elements[e]) + 1
  BY <1>3, LoopsAt
<1>4. ASSUME InPasses(t), NEW i \in 1..Len(elements[e]),
             IF sending[t].step = "measure" THEN i < NextCounted(t) ELSE i >= sending[t].i
      PROVE  ParamsAt(e, i)' = ParamsAt(e, i)
  <2>1. IsMine(t, << i, 0 >>)
    BY <1>3, <1>4 DEF IsMine, Journald!Earlier, Journald!Place, NextCounted
  <2>2. << i, 0 >> \in Mine(t)
    BY <1>4, <2>1, ElementIsMine
  <2> QED
    BY <1>4, <2>2, MineKept
<1>5. CASE sending[t].step = "measure"
  <2>0. InPasses(t)
    BY <1>5 DEF InPasses
  <2>1. PICK n \in [Nat -> Nat] : FieldsCounted(n, t)
    BY <1>5 DEF CountOf
  <2>2. ASSUME NEW i \in 1 .. (NextCounted(t) - 1)
        PROVE  ParamsAt(e, i)' = ParamsAt(e, i)
    <3>1. NextCounted(t) \in Nat /\ NextCounted(t) <= Len(elements[e]) + 1 /\ Len(elements[e]) \in Nat
      BY <1>3, <2>0
    <3> DEFINE k == NextCounted(t)
           l == Len(elements[e])
    <3>2. i \in 1..l /\ i < k
      <4>1. i \in 1..(k - 1) /\ k \in Nat /\ k <= l + 1 /\ l \in Nat
        BY <2>2, <3>1
      <4> HIDE DEF k, l
      <4> QED
        BY <4>1
    <3> QED
      BY <1>4, <1>5, <2>0, <3>2
  <2>3. CountsUp(n, sending[t].entry, 1 .. (NextCounted(t) - 1), n[NextCounted(t)])'
    BY <1>1, <1>2, <2>1, <2>2 DEF CountsUp, FieldsCounted
  <2>4. FieldsCounted(n, t)'
    BY <1>1, <1>2, <2>1, <2>3 DEF FieldsCounted
  <2> QED
    BY <1>1, <1>5, <2>4 DEF CountOf
<1>6. CASE sending[t].step = "write"
  <2>0. InPasses(t)
    BY <1>6 DEF InPasses
  <2>1. PICK n \in [Nat -> Nat] : FieldsLeft(n, t)
    BY <1>6 DEF CountOf
  <2>2. ASSUME NEW i \in sending[t].i .. Len(elements[e])
        PROVE  ParamsAt(e, i)' = ParamsAt(e, i)
    <3> DEFINE k == sending[t].i
           l == Len(elements[e])
    <3>1. i \in 1..l /\ i >= k
      <4>1. i \in k..l /\ k \in Nat \ {0} /\ l \in Nat
        BY <1>3, <2>0, <2>2
      <4> HIDE DEF k, l
      <4> QED
        BY <4>1
    <3> QED
      BY <1>4, <1>6, <2>0, <3>1
  <2>3. CountsUp(n, sending[t].entry, sending[t].i .. Len(elements[sending[t].entry]), local[t].fields)'
    BY <1>1, <2>1, <2>2 DEF CountsUp, FieldsLeft
  <2>4. FieldsLeft(n, t)'
    BY <1>1, <2>1, <2>3 DEF FieldsLeft
  <2> QED
    BY <1>1, <1>6, <2>4 DEF CountOf
<1>7. CASE sending[t].step \notin {"measure", "write"}
  BY <1>1, <1>7 DEF CountOf
<1> QED
  BY <1>5, <1>6, <1>7

LEMMA RecordKept ==
  ASSUME JournalTyped, TreeTyped', NEW t \in Threads, HeldOf(t), OthersAct(t), RecordOf(t), BuffersOf(t),
         NEW e, e = sending[t].entry
  PROVE  RecordOf(t)' /\ BuffersOf(t)'
<1>1. sending'[t] = sending[t] /\ local'[t] = local[t]
  BY DEF OthersAct
<1>2. Journald!Place(t)' = Journald!Place(t)
  BY <1>1 DEF Journald!Place
<1>3. BuffersOf(t)'
  BY <1>1 DEF BuffersOf
<1>4. CASE sending[t].step = "write"
  <2>1. Recorded(sending[t], Journald!Place(t)) /\ Unchanged(t) /\ sending[t].asked.message = message[e]
    BY <1>4 DEF RecordOf
  <2>2. Ahead(t)' = Ahead(t) /\ Ahead(t) \subseteq Mine(t) /\ InPasses(t)
    BY <1>4, AheadKept, AheadIsMine DEF InPasses
  <2>3. \A a \in Mine(t) : /\ Journald!ObjectAt(e, a)' = Journald!ObjectAt(e, a)
                           /\ Journald!ValueAt(e, a)' = Journald!ValueAt(e, a)
    BY <2>2, MineKept
  <2>4. message'[e] = message[e]
    <3>1. e \in JournalEntries
      BY <2>2 DEF JournalTyped, SendingTyped, InPasses
    <3>2. holder[e] = t
      BY <2>2, <3>1 DEF HeldOf, Kept, JournalObjects
    <3> QED
      BY <3>1, <3>2 DEF OthersAct
  <2>5. Unchanged(t)'
    <3> DEFINE F == sending[t].asked.fields
    <3>1. {a \in DOMAIN F : ~Journald!Earlier(a, Journald!Place(t)')} = Ahead(t)'
      BY <1>2, <2>1, <2>2 DEF Unchanged
    <3>2. \A a \in Ahead(t)' : F[a].object = Journald!ObjectAt(e, a)' /\ F[a].value = Journald!ValueAt(e, a)'
      BY <2>1, <2>2, <2>3 DEF Unchanged
    <3>3. \A a : Journald!Earlier(a, Journald!Place(t))' <=> Journald!Earlier(a, Journald!Place(t)')
      BY DEF Journald!Earlier
    <3> QED
      BY <1>1, <3>1, <3>2, <3>3 DEF Unchanged
  <2>6. Recorded(sending'[t], Journald!Place(t)')
    BY <1>1, <1>2, <2>1
  <2>7. Recorded(sending[t], Journald!Place(t))'
    BY <2>6 DEF Recorded, Journald!Earlier
  <2> QED
    BY <1>1, <1>3, <1>4, <2>1, <2>4, <2>5, <2>7 DEF RecordOf
<1>5. CASE sending[t].step # "write"
  BY <1>1, <1>3, <1>5 DEF RecordOf, RecordSent, Recorded, Journald!Earlier
<1> QED
  BY <1>4, <1>5

LEMMA SendingKept ==
  ASSUME JournalTyped, TreeTyped', NEW t \in Threads, CallOf(t), OthersAct(t)
  PROVE  CallOf(t)'
<1>1. HeldOf(t)' /\ DistinctOf(t)' /\ AtOf(t)'
  BY MutexesKept DEF CallOf
<1>2. SpaceOf(t)' /\ CountOf(t)'
  BY SpaceKept, CountKept DEF CallOf
<1>3. RecordOf(t)' /\ BuffersOf(t)'
  BY RecordKept DEF CallOf
<1> QED
  BY <1>1, <1>2, <1>3 DEF CallOf

(***************************************************************************)
(* A step of a call.                                                       *)
(***************************************************************************)

\* t comes to the frame f, and takes mutexes or gives its own back.
Acts(t, f, b) ==
  /\ UNCHANGED << elements, params, value, message >>
  /\ sending' = [sending EXCEPT ![t] = f]
  /\ local' = [local EXCEPT ![t] = b]
  /\ holder' \in [JournalObjects -> Threads \cup {NULL}]
  /\ \A o \in JournalObjects : holder'[o] = holder[o] \/ (holder[o] \in {t, NULL} /\ holder'[o] \in {t, NULL})

LEMMA ActsKeeps ==
  ASSUME JournalInv, NEW t \in Threads, NEW f, NEW b, Acts(t, f, b), SendingTyped(f), b \in BufferTypes
  PROVE  /\ JournalTyped' /\ sending'[t] = f /\ local'[t] = b
         /\ \A u \in Threads \ {t} : OthersAct(u)
<1>1. /\ JournalTyped /\ TreeTyped /\ sending = [u \in Threads |-> sending[u]] /\ \A u \in Threads : SendingTyped(sending[u])
      /\ local \in [Threads -> BufferTypes] /\ holder \in [JournalObjects -> Threads \cup {NULL}]
  BY DEF JournalInv, JournalTyped
<1>2. /\ sending' = [u \in Threads |-> sending'[u]] /\ sending'[t] = f /\ \A u \in Threads \ {t} : sending'[u] = sending[u]
  BY <1>1 DEF Acts
<1>3. /\ local' \in [Threads -> BufferTypes] /\ local'[t] = b /\ \A u \in Threads \ {t} : local'[u] = local[u]
  BY <1>1 DEF Acts
<1>4. TreeTyped'
  BY <1>1 DEF Acts, TreeTyped
<1>5. \A u \in Threads : SendingTyped(sending'[u])
  BY <1>1, <1>2
<1>6. \A u \in Threads : SendingTyped(sending[u])'
  BY <1>5 DEF SendingTyped, Journald!Idle
<1>7. JournalTyped'
  BY <1>2, <1>3, <1>4, <1>6 DEF JournalTyped, Acts
<1>8. ASSUME NEW u \in Threads \ {t}
      PROVE  OthersAct(u)
  <2>1. u # t /\ u # NULL
    BY JournalAssumption
  <2>2. \A o \in JournalObjects : holder'[o] = u <=> holder[o] = u
    BY <2>1 DEF Acts
  <2>3. \A el \in Elements : Len(params[el]) <= Len(params'[el])
    <3>1. \A el \in Elements : Len(params[el]) \in Nat
      BY <1>1 DEF TreeTyped
    <3> QED
      BY <3>1 DEF Acts
  <2> QED
    BY <1>2, <1>3, <2>2, <2>3 DEF OthersAct, Acts
<1> QED
  BY <1>2, <1>3, <1>7, <1>8

\* The invariant is kept if the call that acts keeps its part.
LEMMA ActsInv ==
  ASSUME JournalInv, NEW t \in Threads, JournalTyped', CallOf(t)', \A u \in Threads \ {t} : OthersAct(u)
  PROVE  JournalInv'
<1>1. ASSUME NEW u \in Threads \ {t}
      PROVE  CallOf(u)'
  BY <1>1, SendingKept DEF JournalInv, JournalTyped
<1> QED
  BY <1>1 DEF JournalInv

\* Where a call is.
LEMMA AtIs ==
  ASSUME JournalTyped, NEW t \in Threads, AtOf(t), InPasses(t), NEW e, e = sending[t].entry
  PROVE  /\ e \in JournalEntries
         /\ Journald!At(t) # NULL => /\ Journald!Place(t) \in Journald!Places(e)
                                     /\ Journald!At(t) = Journald!ObjectAt(e, Journald!Place(t))
                                     /\ Journald!At(t) \in Elements \cup Params
         /\ Journald!At(t) = NULL => Journald!Place(t) = Behind(e)
<1>1. e \in JournalEntries /\ Len(elements[e]) \in Nat /\ sending[t].i \in Nat /\ sending[t].j \in Nat
  BY LoopsAt
<1>2. Journald!Place(t) \in Journald!Places(e) \cup {Behind(e)}
  BY DEF AtOf
<1>3. TreeTyped
  BY DEF JournalTyped
<1>4. CASE Journald!Place(t) \in Journald!Places(e)
  <2>1. Journald!Place(t)[1] \in 1..Len(elements[e])
    BY <1>1, <1>3, <1>4, PlaceIs
  <2>2. Journald!At(t) = Journald!ObjectAt(e, Journald!Place(t))
    BY <1>1, <2>1 DEF Journald!At, Journald!Place
  <2>3. Journald!ObjectAt(e, Journald!Place(t)) \in Elements \cup Params
    BY <1>1, <1>3, <1>4, ObjectIs
  <2> QED
    BY <1>1, <1>4, <2>2, <2>3, JournalAssumption
<1>5. CASE Journald!Place(t) = Behind(e)
  <2>1. Journald!At(t) = NULL
    BY <1>1, <1>5 DEF Journald!At, Journald!Place, Behind
  <2> QED
    BY <1>1, <1>5, <2>1
<1> QED
  BY <1>2, <1>4, <1>5

\* Behind the last place of the second pass only the entry is left.
LEMMA NothingAhead ==
  ASSUME JournalTyped, NEW t \in Threads, sending[t].step = "write", AtOf(t), HeldOf(t), Journald!At(t) = NULL
  PROVE  /\ Mine(t) = {}
         /\ \A o \in JournalObjects : holder[o] = t <=> o = sending[t].entry
<1> DEFINE e == sending[t].entry
<1>1. InPasses(t)
  BY DEF InPasses
<1>2. e \in JournalEntries /\ Journald!Place(t) = Behind(e) /\ TreeTyped
  BY <1>1, AtIs DEF JournalTyped
<1>3. Len(elements[e]) \in Nat /\ sending[t].i = Len(elements[e]) + 1
  <2>1. Len(elements[e]) \in Nat
    BY <1>2 DEF TreeTyped
  <2> QED
    BY <1>2, <2>1 DEF Journald!Place, Behind
<1>4. ASSUME NEW a \in Journald!Places(e)
      PROVE  ~IsMine(t, a)
  <2>1. Journald!Earlier(a, Behind(e)) /\ a[1] \in 1..Len(elements[e])
    BY <1>2, PlacesOrdered, PlaceIs
  <2>2. a # << sending[t].i, 0 >>
    BY <1>3, <2>1
  <2> QED
    BY <1>2, <2>1, <2>2 DEF IsMine
<1>5. Mine(t) = {}
  BY <1>4 DEF Mine
<1> QED
  BY <1>1, <1>5 DEF HeldOf, Kept

\* A call that is in neither pass has no mutex.
LEMMA OutsideHolds ==
  ASSUME NEW t \in Threads, ~InPasses(t), \A o \in JournalObjects : holder[o] # t
  PROVE  HeldOf(t) /\ DistinctOf(t) /\ AtOf(t)
BY DEF HeldOf, Kept, DistinctOf, AtOf

(***************************************************************************)
(* The actions outside of the passes.                                      *)
(***************************************************************************)

\* A change by which no call is disturbed.
LEMMA ChangesInv ==
  ASSUME JournalInv, TreeTyped', UNCHANGED << holder, local, sending >>, \A u \in Threads : OthersAct(u)
  PROVE  JournalInv'
<1>1. \A u \in Threads : SendingTyped(sending[u])'
  BY DEF JournalInv, JournalTyped, SendingTyped, Journald!Idle
<1>2. JournalTyped'
  BY <1>1 DEF JournalInv, JournalTyped
<1>3. ASSUME NEW u \in Threads
      PROVE  CallOf(u)'
  BY <1>3, SendingKept DEF JournalInv
<1> QED
  BY <1>2, <1>3 DEF JournalInv

LEMMA ValueInv ==
  ASSUME JournalInv, NEW t \in Threads, Journald!stumpless_set_param_value(t)
  PROVE  JournalInv'
<1>1. PICK p \in Params, v \in Lengths :
        /\ holder[p] = NULL /\ value' = [value EXCEPT ![p] = v]
        /\ UNCHANGED << elements, params, message, holder, local, sending >>
  BY DEF Journald!stumpless_set_param_value
<1>2. TreeTyped /\ v \in Nat
  BY JournalAssumption DEF JournalInv, JournalTyped
<1>3. TreeTyped'
  BY <1>1, <1>2 DEF TreeTyped
<1>4. \A el \in Elements : Len(params[el]) \in Nat
  BY <1>2 DEF TreeTyped
<1>5. ASSUME NEW u \in Threads
      PROVE  OthersAct(u)
  <2>1. \A q \in Params : holder[q] = u => value'[q] = value[q]
    BY <1>1, <1>2, JournalAssumption DEF TreeTyped
  <2> QED
    BY <1>1, <1>4, <2>1 DEF OthersAct
<1> QED
  BY <1>1, <1>3, <1>5, ChangesInv

LEMMA MessageInv ==
  ASSUME JournalInv, NEW t \in Threads, Journald!stumpless_set_entry_message(t)
  PROVE  JournalInv'
<1>1. PICK e \in JournalEntries, v \in Lengths :
        /\ holder[e] = NULL /\ message' = [message EXCEPT ![e] = v]
        /\ UNCHANGED << elements, params, value, holder, local, sending >>
  BY DEF Journald!stumpless_set_entry_message
<1>2. TreeTyped /\ v \in Nat
  BY JournalAssumption DEF JournalInv, JournalTyped
<1>3. TreeTyped'
  BY <1>1, <1>2 DEF TreeTyped
<1>4. \A el \in Elements : Len(params[el]) \in Nat
  BY <1>2 DEF TreeTyped
<1>5. ASSUME NEW u \in Threads
      PROVE  OthersAct(u)
  <2>1. \A d \in JournalEntries : holder[d] = u => message'[d] = message[d]
    BY <1>1, <1>2, JournalAssumption DEF TreeTyped
  <2> QED
    BY <1>1, <1>4, <2>1 DEF OthersAct
<1> QED
  BY <1>1, <1>3, <1>5, ChangesInv

LEMMA AddParamInv ==
  ASSUME JournalInv, NEW t \in Threads, Journald!stumpless_add_param(t)
  PROVE  JournalInv'
<1>1. PICK x \in Elements, p \in Params :
        /\ holder[x] = NULL /\ params' = [params EXCEPT ![x] = Append(@, p)]
        /\ UNCHANGED << elements, value, message, holder, local, sending >>
  BY DEF Journald!stumpless_add_param
<1>2. TreeTyped
  BY DEF JournalInv, JournalTyped
<1>3. params[x] \in Seq(Params)
  BY <1>2 DEF TreeTyped
<1>4. /\ Append(params[x], p) \in Seq(Params) /\ Len(Append(params[x], p)) = Len(params[x]) + 1
      /\ \A j \in 1..Len(params[x]) : Append(params[x], p)[j] = params[x][j]
  BY <1>3, AppendProperties
<1>5. /\ params'[x] = Append(params[x], p) /\ \A y \in Elements \ {x} : params'[y] = params[y]
      /\ params' \in [Elements -> Seq(Params)]
  BY <1>1, <1>2, <1>4 DEF TreeTyped
<1>6. TreeTyped'
  BY <1>1, <1>2, <1>5 DEF TreeTyped
<1>7. \A el \in Elements : Len(params[el]) \in Nat
  BY <1>2 DEF TreeTyped
<1>8. ASSUME NEW u \in Threads
      PROVE  OthersAct(u)
  <2>1. \A el \in Elements : holder[el] = u => params'[el] = params[el]
    BY <1>1, <1>5, JournalAssumption
  <2>2. ASSUME NEW el \in Elements
        PROVE  Len(params[el]) <= Len(params'[el]) /\ \A j \in 1..Len(params[el]) : params'[el][j] = params[el][j]
    <3>1. CASE el = x
      <4>1. Len(params[x]) \in Nat /\ params'[x] = Append(params[x], p)
        BY <1>5, <1>7
      <4>2. Len(params[x]) <= Len(params'[x])
        BY <1>4, <4>1
      <4>3. \A j \in 1..Len(params[x]) : params'[x][j] = params[x][j]
        BY <1>4, <4>1, Zenon
      <4> QED
        BY <4>2, <4>3, <3>1
    <3>2. CASE el # x
      BY <1>5, <1>7, <3>2
    <3> QED
      BY <3>1, <3>2
  <2> QED
    BY <1>1, <2>1, <2>2 DEF OthersAct
<1> QED
  BY <1>1, <1>6, <1>8, ChangesInv

LEMMA InitFailsInv ==
  ASSUME JournalInv, NEW t \in Threads, Journald!InitFails(t)
  PROVE  JournalInv'
<1>1. UNCHANGED << elements, params, value, message, holder, local, sending >>
  BY DEF Journald!InitFails
<1>2. TreeTyped
  BY DEF JournalInv, JournalTyped
<1>3. TreeTyped'
  BY <1>1, <1>2 DEF TreeTyped
<1>4. \A el \in Elements : Len(params[el]) \in Nat
  BY <1>2 DEF TreeTyped
<1>5. ASSUME NEW u \in Threads
      PROVE  OthersAct(u)
  BY <1>1, <1>4 DEF OthersAct
<1> QED
  BY <1>1, <1>3, <1>5, ChangesInv

\* What is to be shown of a call that comes to be in neither pass.
LEMMA OutsideInv ==
  ASSUME JournalInv, NEW t \in Threads, NEW f, NEW b, Acts(t, f, b), SendingTyped(f), b \in BufferTypes,
         f.step \in {"idle", "entry"}, \A o \in JournalObjects : holder'[o] # t,
         b.fixed /\ b.fields > 0 => b.bases, b.base = b.message, f.step # "idle" => b.fixed,
         f.step = "entry" => f.record = << >> /\ f.pos = 0 /\ f.i = 1 /\ f.j = 0 /\ f.needed = 0
  PROVE  JournalInv'
<1>1. /\ JournalTyped' /\ sending'[t] = f /\ local'[t] = b
      /\ \A u \in Threads \ {t} : OthersAct(u)
  BY ActsKeeps
<1>2. ~InPasses(t)'
  BY <1>1 DEF InPasses
<1>3. HeldOf(t)' /\ DistinctOf(t)' /\ AtOf(t)'
  BY <1>2, OutsideHolds DEF HeldOf, Kept, DistinctOf, AtOf
<1>4. SpaceOf(t)' /\ CountOf(t)'
  BY <1>1 DEF SpaceOf, CountOf
<1>5. BuffersOf(t)'
  BY <1>1 DEF BuffersOf
<1>6. RecordOf(t)'
  BY <1>1 DEF RecordOf
<1> QED
  BY <1>1, <1>3, <1>4, <1>5, <1>6, ActsInv DEF CallOf

LEMMA IdleTyped == SendingTyped(Journald!Idle)
<1>1. << >> \in Seq(RecordFields)
  OBVIOUS
<1> QED
  BY <1>1 DEF SendingTyped, Journald!Idle, JournalSteps

LEMMA FreeThreadInv ==
  ASSUME JournalInv, NEW t \in Threads, Journald!journald_free_thread(t)
  PROVE  JournalInv'
<1>1. sending[t] = Journald!Idle /\ sending[t].step = "idle"
  BY DEF Journald!journald_free_thread, Journald!Idle
<1>2. Acts(t, Journald!Idle, Journald!Fresh)
  <2>1. sending' = [sending EXCEPT ![t] = Journald!Idle]
    BY <1>1 DEF Journald!journald_free_thread, JournalInv, JournalTyped
  <2> QED
    BY <2>1 DEF Journald!journald_free_thread, Acts, JournalInv, JournalTyped
<1>3. Journald!Fresh \in BufferTypes
  BY DEF Journald!Fresh, BufferTypes
<1>4. \A o \in JournalObjects : holder'[o] # t
  BY <1>1 DEF Journald!journald_free_thread, JournalInv, CallOf, HeldOf, Kept, InPasses
<1> QED
  BY <1>2, <1>3, <1>4, IdleTyped, OutsideInv DEF Journald!Idle, Journald!Fresh

LEMMA SendEntryInv ==
  ASSUME JournalInv, NEW t \in Threads, Journald!send_entry_to_journald_target(t)
  PROVE  JournalInv'
<1> DEFINE l == local[t]
           s == IF l.fixed THEN l.bases ELSE l.fields > 0
<1>1. PICK e \in JournalEntries :
        /\ sending[t] = Journald!Idle
        /\ sending' = [sending EXCEPT ![t].step = "entry", ![t].entry = e]
        /\ local' = [local EXCEPT ![t].fixed = TRUE, ![t].bases = s]
        /\ UNCHANGED << elements, params, value, message, holder >>
  BY DEF Journald!send_entry_to_journald_target, Journald!Call
<1>2. l \in BufferTypes /\ CallOf(t)
  BY DEF JournalInv, JournalTyped
<1>3. PICK f : f = [Journald!Idle EXCEPT !.step = "entry", !.entry = e]
  OBVIOUS
<1>4. /\ f.step = "entry" /\ f.entry = e /\ f.record = << >> /\ f.pos = 0 /\ f.i = 1 /\ f.j = 0 /\ f.needed = 0
      /\ SendingTyped(f)
  <2>1. << >> \in Seq(RecordFields)
    OBVIOUS
  <2>2. f = [step |-> "entry", entry |-> e, i |-> 1, j |-> 0, count |-> 0, needed |-> 0, pos |-> 0, offset |-> 0,
             record |-> << >>, message |-> 0, facility |-> << >>, asked |-> << >>]
    BY <1>3 DEF Journald!Idle
  <2> QED
    BY <2>1, <2>2 DEF SendingTyped, JournalSteps
<1>5. s \in BOOLEAN /\ (l.fields > 0 => s) /\ l.base = l.message
  <2>1. l.bases \in BOOLEAN /\ l.fixed \in BOOLEAN
    BY <1>2 DEF BufferTypes
  <2>2. l.base = l.message /\ (l.fixed /\ l.fields > 0 => l.bases)
    BY <1>2 DEF CallOf, BuffersOf
  <2>3. CASE l.fixed
    BY <2>1, <2>2, <2>3
  <2>4. CASE ~l.fixed
    BY <2>1, <2>2, <2>4
  <2> QED
    BY <2>3, <2>4
<1>6. s = IF l.fixed THEN l.bases ELSE l.fields > 0
  OBVIOUS
<1> HIDE DEF s
<1>7. PICK b : b = [l EXCEPT !.fixed = TRUE, !.bases = s]
  OBVIOUS
<1>8. b \in BufferTypes /\ b.fixed /\ b.base = b.message /\ (b.fields > 0 => b.bases)
  <2>1. b = [fields |-> l.fields, fixed |-> TRUE, bases |-> s, message |-> l.message, base |-> l.base, sd |-> l.sd]
    BY <1>2, <1>7 DEF BufferTypes
  <2> HIDE DEF l
  <2> QED
    BY <1>2, <1>5, <2>1 DEF BufferTypes
<1>9. Acts(t, f, b)
  BY <1>1, <1>3, <1>7 DEF Acts, JournalInv, JournalTyped
<1>10. \A o \in JournalObjects : holder'[o] # t
  BY <1>1 DEF Journald!Idle, JournalInv, CallOf, HeldOf, Kept, InPasses
<1> QED
  BY <1>4, <1>8, <1>9, <1>10, OutsideInv

\* The fields are moved when they do not fit.
LEMMA FieldsGrow ==
  ASSUME NEW l \in BufferTypes, NEW c \in Nat, l.fixed /\ l.fields > 0 => l.bases,
         NEW n, n = Journald!Larger(l.fields, c), NEW s \in BOOLEAN, s <=> l.bases \/ l.fields < c,
         NEW d \in Nat,
         NEW b, b = [fields |-> n, fixed |-> l.fixed, bases |-> s, message |-> l.message, base |-> l.base, sd |-> d]
  PROVE  /\ b \in BufferTypes /\ b.fields >= c /\ b.fields >= l.fields
         /\ b.fixed /\ b.fields > 0 => b.bases
<1>1. l.fields \in Nat /\ l.message \in Nat /\ l.base \in Nat /\ l.fixed \in BOOLEAN
  BY DEF BufferTypes
<1>2. n \in Nat /\ n >= c /\ n >= l.fields
  BY <1>1 DEF Journald!Larger
<1>3. ASSUME l.fixed, n > 0
      PROVE  s
  BY <1>1, <1>3 DEF Journald!Larger
<1> QED
  BY <1>1, <1>2, <1>3 DEF BufferTypes

\* Every mutex is given back, or only the one of the entry is left.
LEMMA LoadFailsInv ==
  ASSUME JournalInv, NEW t \in Threads, Journald!LoadFails(t)
  PROVE  JournalInv'
<1>1. PICK b : /\ local' = [local EXCEPT ![t] = b] /\ b \in BufferTypes
               /\ b.fixed /\ b.fields > 0 => b.bases
               /\ b.base = b.message
  <2> DEFINE l == local[t]
             c == sending[t].count
             n == Journald!Larger(l.fields, c)
             s == l.bases \/ l.fields < c
  <2>1. l \in BufferTypes /\ c \in Nat /\ local \in [Threads -> BufferTypes]
    BY DEF JournalInv, JournalTyped, SendingTyped
  <2>2. /\ l.fixed /\ l.fields > 0 => l.bases
        /\ l.base = l.message
    BY DEF JournalInv, CallOf, BuffersOf
  <2>3. CASE UNCHANGED local
    <3>1. local' = [local EXCEPT ![t] = local[t]]
      BY <2>1, <2>3
    <3> QED
      BY <2>1, <2>2, <3>1
  <2>4. CASE local' = [local EXCEPT ![t].fields = n, ![t].bases = s]
    <3>1. s \in BOOLEAN /\ (s <=> l.bases \/ l.fields < c) /\ n = Journald!Larger(l.fields, c)
      BY <2>1 DEF BufferTypes
    <3> HIDE DEF s, n
    <3>2. PICK b : b = [l EXCEPT !.fields = n, !.bases = s]
      OBVIOUS
    <3>3. local' = [local EXCEPT ![t] = b]
      <4>1. local' = [local EXCEPT ![t].fields = n, ![t].bases = s]
        BY <2>4
      <4> QED
        BY <2>1, <3>2, <4>1
    <3>4. b = [fields |-> n, fixed |-> l.fixed, bases |-> s, message |-> l.message, base |-> l.base, sd |-> l.sd]
      BY <2>1, <3>2 DEF BufferTypes
    <3>7. l.sd \in Nat
      BY <2>1 DEF BufferTypes
    <3> HIDE DEF l, c
    <3>5. b \in BufferTypes /\ (b.fixed /\ b.fields > 0 => b.bases)
      BY <2>1, <2>2, <3>1, <3>4, <3>7, FieldsGrow
    <3>6. b.base = b.message
      BY <2>2, <3>4
    <3> QED
      BY <3>3, <3>5, <3>6
  <2> QED
    BY <2>3, <2>4 DEF Journald!LoadFails
<1>2. /\ holder' = [o \in DOMAIN holder |-> IF holder[o] = t THEN NULL ELSE holder[o]]
      /\ sending' = [sending EXCEPT ![t] = Journald!Idle]
      /\ UNCHANGED << elements, params, value, message >>
  BY DEF Journald!LoadFails
<1>3. holder \in [JournalObjects -> Threads \cup {NULL}] /\ t # NULL
  BY JournalAssumption DEF JournalInv, JournalTyped
<1>4. Acts(t, Journald!Idle, b)
  BY <1>1, <1>2, <1>3 DEF Acts
<1>5. \A o \in JournalObjects : holder'[o] # t
  BY <1>2, <1>3
<1> QED
  BY <1>1, <1>4, <1>5, IdleTyped, OutsideInv DEF Journald!Idle

LEMMA MessageFailsInv ==
  ASSUME JournalInv, NEW t \in Threads, Journald!MessageFails(t)
  PROVE  JournalInv'
<1>1. /\ sending[t].step = "write" /\ Journald!At(t) = NULL
      /\ holder' = [holder EXCEPT ![sending[t].entry] = NULL]
      /\ sending' = [sending EXCEPT ![t] = Journald!Idle]
      /\ UNCHANGED << elements, params, value, message, local >>
  BY DEF Journald!MessageFails
<1>2. /\ holder \in [JournalObjects -> Threads \cup {NULL}] /\ t # NULL
      /\ local \in [Threads -> BufferTypes] /\ local[t] \in BufferTypes
      /\ sending[t].entry \in JournalObjects
  BY <1>1, JournalAssumption DEF JournalInv, JournalTyped, SendingTyped, JournalObjects
<1>3. \A o \in JournalObjects : holder[o] = t <=> o = sending[t].entry
  BY <1>1, NothingAhead DEF JournalInv, CallOf
<1>4. Acts(t, Journald!Idle, local[t])
  BY <1>1, <1>2, <1>3 DEF Acts
<1>5. \A o \in JournalObjects : holder'[o] # t
  BY <1>1, <1>2, <1>3
<1>6. /\ local[t].fixed /\ local[t].fields > 0 => local[t].bases
      /\ local[t].base = local[t].message
  BY DEF JournalInv, CallOf, BuffersOf
<1> QED
  BY <1>2, <1>4, <1>5, <1>6, IdleTyped, OutsideInv DEF Journald!Idle

LEMMA SendvInv ==
  ASSUME JournalInv, NEW t \in Threads, Journald!sd_journal_sendv(t)
  PROVE  JournalInv'
<1>1. /\ sending[t].step = "send"
      /\ sending' = [sending EXCEPT ![t] = Journald!Idle]
      /\ UNCHANGED << elements, params, value, message, holder, local >>
  BY DEF Journald!sd_journal_sendv
<1>2. /\ holder \in [JournalObjects -> Threads \cup {NULL}]
      /\ local \in [Threads -> BufferTypes] /\ local[t] \in BufferTypes
  BY DEF JournalInv, JournalTyped
<1>3. Acts(t, Journald!Idle, local[t])
  BY <1>1, <1>2 DEF Acts
<1>4. \A o \in JournalObjects : holder'[o] # t
  BY <1>1 DEF JournalInv, CallOf, HeldOf, Kept, InPasses
<1>5. /\ local[t].fixed /\ local[t].fields > 0 => local[t].bases
      /\ local[t].base = local[t].message
  BY DEF JournalInv, CallOf, BuffersOf
<1> QED
  BY <1>2, <1>3, <1>4, <1>5, IdleTyped, OutsideInv DEF Journald!Idle

(***************************************************************************)
(* The steps of the passes.                                                *)
(***************************************************************************)

FieldCodes == 48..57 \cup 65..90 \cup {95}

\* The name of a field, with the codes that journald takes.
LEMMA NameIs ==
  ASSUME NEW raw \in Seq(33..126)
  PROVE  Journald!get_journald_field_name(raw) \in Seq(FieldCodes)
<1>1. DOMAIN raw = 1..Len(raw) /\ Len(raw) \in Nat
  OBVIOUS
<1>2. ASSUME NEW i \in DOMAIN raw
      PROVE  (IF raw[i] \in 48..57 \cup 65..90 THEN raw[i] ELSE IF raw[i] \in 97..122 THEN raw[i] - 32 ELSE 95)
               \in FieldCodes
  <2>1. PICK c \in 33..126 : c = raw[i]
    BY <1>1, <1>2, ElementOfSeq
  <2>2. (IF c \in 48..57 \cup 65..90 THEN c ELSE IF c \in 97..122 THEN c - 32 ELSE 95) \in FieldCodes
    BY DEF FieldCodes
  <2> QED
    BY <2>1, <2>2
<1>3. Journald!get_journald_field_name(raw) \in [1..Len(raw) -> FieldCodes]
  BY <1>1, <1>2 DEF Journald!get_journald_field_name
<1> QED
  BY <1>1, <1>3, SeqDef

LEMMA NameAtIs ==
  ASSUME TreeTyped, NEW e \in JournalEntries, NEW a \in Journald!Places(e)
  PROVE  /\ NameAt(e, a) \in Seq(FieldCodes)
         /\ SizeAt(e, a) \in Nat
<1>1. elements[e][a[1]] \in Elements /\ (a[2] # 0 => ParamsAt(e, a[1])[a[2]] \in Params)
  BY PlaceIs, ObjectIs
<1>2. Journald!stumpless_flatten_element_name(elements[e][a[1]]) \in Seq(FieldCodes)
  <2>1. Name[elements[e][a[1]]] \in Seq(33..126)
    BY <1>1, JournalAssumption
  <2> QED
    BY <2>1, NameIs DEF Journald!stumpless_flatten_element_name
<1>3. ASSUME a[2] # 0
      PROVE  Journald!stumpless_flatten_param_name(elements[e][a[1]], ParamsAt(e, a[1])[a[2]]) \in Seq(FieldCodes)
  <2>1. Name[ParamsAt(e, a[1])[a[2]]] \in Seq(33..126)
    BY <1>1, <1>3, JournalAssumption
  <2>2. Journald!get_journald_field_name(Name[ParamsAt(e, a[1])[a[2]]]) \in Seq(FieldCodes)
    BY <2>1, NameIs
  <2>3. << 95 >> \in Seq(FieldCodes)
    BY DEF FieldCodes
  <2> QED
    BY <1>2, <2>2, <2>3 DEF Journald!stumpless_flatten_param_name
<1>4. NameAt(e, a) \in Seq(FieldCodes)
  BY <1>2, <1>3 DEF NameAt
<1>5. Len(NameAt(e, a)) \in Nat /\ Journald!ValueAt(e, a) \in Nat
  BY <1>4, ObjectIs
<1> QED
  BY <1>4, <1>5 DEF SizeAt

\* What a call does at its place is about that place.
LEMMA PlaceNamed ==
  ASSUME JournalTyped, NEW t \in Threads, AtOf(t), InPasses(t), Journald!At(t) # NULL,
         NEW e, e = sending[t].entry, NEW p, p = Journald!Place(t)
  PROVE  /\ e \in JournalEntries /\ p \in Journald!Places(e) /\ p = << sending[t].i, sending[t].j >>
         /\ Journald!At(t) = Journald!ObjectAt(e, p)
         /\ Journald!Element(t) = elements[e][sending[t].i] /\ params[Journald!Element(t)] = ParamsAt(e, sending[t].i)
         /\ sending[t].j # 0 => Journald!Param(t) = Journald!ObjectAt(e, p)
         /\ Journald!FieldName(t) = NameAt(e, p) /\ Journald!SizeNeeded(t) = SizeAt(e, p)
<1>1. e \in JournalEntries /\ p \in Journald!Places(e) /\ Journald!At(t) = Journald!ObjectAt(e, p)
  BY AtIs
<1>2. p = << sending[t].i, sending[t].j >> /\ p[1] = sending[t].i /\ p[2] = sending[t].j
  BY DEF Journald!Place
<1>3. Journald!Element(t) = elements[e][sending[t].i] /\ params[Journald!Element(t)] = ParamsAt(e, sending[t].i)
  BY DEF Journald!Element, ParamsAt
<1>4. ASSUME sending[t].j # 0
      PROVE  Journald!Param(t) = Journald!ObjectAt(e, p)
  BY <1>2, <1>3, <1>4 DEF Journald!Param, Journald!ObjectAt, ParamsAt
<1>5. Journald!FieldName(t) = NameAt(e, p)
  BY <1>2, <1>3 DEF Journald!FieldName, NameAt, Journald!Param
<1>6. Journald!SizeNeeded(t) = SizeAt(e, p)
  BY <1>2, <1>4, <1>5 DEF Journald!SizeNeeded, SizeAt, Journald!ValueAt
<1> QED
  BY <1>1, <1>2, <1>3, <1>4, <1>5, <1>6

LEMMA FrameMoved ==
  ASSUME NEW g, SendingTyped(g), g.step # "idle", NEW i \in Nat \ {0}, NEW j \in Nat,
         NEW f, f = [step |-> g.step, entry |-> g.entry, i |-> i, j |-> j, count |-> g.count, needed |-> g.needed,
                     pos |-> g.pos, offset |-> g.offset, record |-> g.record, message |-> g.message,
                     facility |-> g.facility, asked |-> g.asked]
  PROVE  SendingTyped(f) /\ f.i = i /\ f.j = j
<1>1. f.step = g.step /\ f.entry = g.entry /\ f.record = g.record
  OBVIOUS
<1>2. f.i = i /\ f.j = j /\ f.count = g.count /\ f.needed = g.needed /\ f.pos = g.pos /\ f.offset = g.offset
  OBVIOUS
<1>3. f.message = g.message /\ f.facility = g.facility /\ f.asked = g.asked
  OBVIOUS
<1>4. f = [step |-> f.step, entry |-> f.entry, i |-> f.i, j |-> f.j, count |-> f.count, needed |-> f.needed,
           pos |-> f.pos, offset |-> f.offset, record |-> f.record, message |-> f.message,
           facility |-> f.facility, asked |-> f.asked]
  BY <1>1, <1>2, <1>3
<1> QED
  BY <1>1, <1>2, <1>4 DEF SendingTyped

\* The loops go on to the place that follows.
LEMMA AdvanceIs ==
  ASSUME JournalTyped, NEW t \in Threads, AtOf(t), InPasses(t), Journald!At(t) # NULL,
         NEW e, e = sending[t].entry, NEW q, q = Following(e, Journald!Place(t)),
         NEW g, SendingTyped(g), g.step = sending[t].step, g.i = sending[t].i, g.j = sending[t].j,
         NEW f, f = Journald!Advance(t, g)
  PROVE  /\ SendingTyped(f) /\ q = << f.i, f.j >>
         /\ f = [step |-> g.step, entry |-> g.entry, i |-> f.i, j |-> f.j, count |-> g.count, needed |-> g.needed,
                 pos |-> g.pos, offset |-> g.offset, record |-> g.record, message |-> g.message,
                 facility |-> g.facility, asked |-> g.asked]
<1>1. params[Journald!Element(t)] = ParamsAt(e, sending[t].i)
  BY PlaceNamed
<1>2. Journald!Place(t) = << sending[t].i, sending[t].j >> /\ g.i \in Nat \ {0} /\ g.j \in Nat
  BY DEF Journald!Place, SendingTyped
<1>3. g = [step |-> g.step, entry |-> g.entry, i |-> g.i, j |-> g.j, count |-> g.count, needed |-> g.needed,
           pos |-> g.pos, offset |-> g.offset, record |-> g.record, message |-> g.message,
           facility |-> g.facility, asked |-> g.asked]
  BY DEF SendingTyped
<1>4. g.step # "idle"
  BY DEF InPasses
<1>5. CASE g.j < Len(ParamsAt(e, sending[t].i))
  <2>1. PICK j \in Nat : j = g.j + 1
    BY <1>2
  <2>2. f = [g EXCEPT !.j = j]
    BY <1>1, <1>5, <2>1 DEF Journald!Advance
  <2>3. f = [step |-> g.step, entry |-> g.entry, i |-> g.i, j |-> j, count |-> g.count, needed |-> g.needed,
             pos |-> g.pos, offset |-> g.offset, record |-> g.record, message |-> g.message,
             facility |-> g.facility, asked |-> g.asked]
    BY <1>3, <2>2
  <2>4. SendingTyped(f) /\ f.i = g.i /\ f.j = j
    BY <1>2, <1>4, <2>3, FrameMoved
  <2>5. q = << g.i, j >>
    BY <1>2, <1>5, <2>1 DEF Following
  <2> QED
    BY <2>3, <2>4, <2>5
<1>6. CASE ~(g.j < Len(ParamsAt(e, sending[t].i)))
  <2>1. PICK i \in Nat \ {0} : i = g.i + 1
    BY <1>2
  <2>2. f = [g EXCEPT !.i = i, !.j = 0]
    BY <1>1, <1>6, <2>1 DEF Journald!Advance
  <2>3. f = [step |-> g.step, entry |-> g.entry, i |-> i, j |-> 0, count |-> g.count, needed |-> g.needed,
             pos |-> g.pos, offset |-> g.offset, record |-> g.record, message |-> g.message,
             facility |-> g.facility, asked |-> g.asked]
    BY <1>3, <2>2
  <2>4. SendingTyped(f) /\ f.i = i /\ f.j = 0
    BY <1>4, <2>3, FrameMoved
  <2>5. q = << i, 0 >>
    BY <1>2, <1>6, <2>1 DEF Following
  <2> QED
    BY <2>3, <2>4, <2>5
<1> QED
  BY <1>5, <1>6

LEMMA TreeSame ==
  ASSUME UNCHANGED << elements, params, value, message >>
  PROVE  \A e :
           /\ Journald!Places(e)' = Journald!Places(e) /\ Behind(e)' = Behind(e)
           /\ \A i : ParamsAt(e, i)' = ParamsAt(e, i)
           /\ \A a : /\ Journald!ObjectAt(e, a)' = Journald!ObjectAt(e, a)
                     /\ Journald!ValueAt(e, a)' = Journald!ValueAt(e, a)
                     /\ SizeAt(e, a)' = SizeAt(e, a) /\ Following(e, a)' = Following(e, a)
BY DEF Journald!Places, Behind, ParamsAt, Journald!ObjectAt, Journald!ValueAt, SizeAt, NameAt, Following,
       Journald!stumpless_flatten_element_name, Journald!stumpless_flatten_param_name,
       Journald!get_journald_field_name

\* The places of a call after a step into a pass or in one.
LEMMA NextCall ==
  ASSUME UNCHANGED << elements, params, value, message >>, NEW t \in Threads, NEW f, sending'[t] = f,
         f.step \in {"measure", "write"}, NEW e, e = f.entry, NEW q, q = << f.i, f.j >>
  PROVE  /\ InPasses(t)' /\ Journald!Place(t)' = q
         /\ f.step = "measure" => Mine(t)' = {a \in Journald!Places(e) : Journald!Earlier(a, q)}
         /\ f.step = "write" => Mine(t)' = {a \in Journald!Places(e) : ~Journald!Earlier(a, q) \/ a = << f.i, 0 >>}
         /\ Ahead(t)' = {a \in Journald!Places(e) : ~Journald!Earlier(a, q)}
<1>1. Journald!Places(e)' = Journald!Places(e) /\ Journald!Place(t)' = q
  BY TreeSame DEF Journald!Place
<1>2. \A a : Journald!Earlier(a, Journald!Place(t))' <=> Journald!Earlier(a, q)
  BY <1>1 DEF Journald!Earlier
<1>3. Mine(t)' = {a \in Journald!Places(e)' : IsMine(t, a)'}
  BY DEF Mine
<1>4. Ahead(t)' = {a \in Journald!Places(e)' : ~Journald!Earlier(a, Journald!Place(t))'}
  BY DEF Ahead
<1>5. \A a : IsMine(t, a)' <=> IF f.step = "measure" THEN Journald!Earlier(a, q)
                               ELSE ~Journald!Earlier(a, q) \/ a = << f.i, 0 >>
  BY <1>2 DEF IsMine
<1> QED
  BY <1>1, <1>2, <1>3, <1>4, <1>5 DEF InPasses

LEMMA FirstPlace ==
  ASSUME TreeTyped, NEW e \in JournalEntries
  PROVE  << 1, 0 >> \in Journald!Places(e) \cup {Behind(e)}
<1>1. elements[e] \in Seq(Elements) /\ Len(elements[e]) \in Nat
  BY DEF TreeTyped
<1>2. CASE Len(elements[e]) = 0
  BY <1>2 DEF Behind
<1>3. CASE Len(elements[e]) # 0
  <2>1. 1 \in 1..Len(elements[e])
    BY <1>1, <1>3
  <2>2. elements[e][1] \in Elements
    BY <1>1, <2>1
  <2>3. 0 \in 0..Len(ParamsAt(e, 1))
    BY <2>2 DEF TreeTyped, ParamsAt
  <2> QED
    BY <2>1, <2>3, PlaceOf
<1> QED
  BY <1>2, <1>3

LEMMA LockEntryInv ==
  ASSUME JournalInv, NEW t \in Threads, Journald!LockEntry(t)
  PROVE  JournalInv'
<1>1. PICK e \in JournalEntries : e = sending[t].entry
  BY DEF JournalInv, JournalTyped, SendingTyped, Journald!LockEntry
<1>2. /\ sending[t].step = "entry" /\ holder[e] = NULL /\ holder' = [holder EXCEPT ![e] = t]
      /\ sending' = [sending EXCEPT ![t].step = "measure", ![t].count = 7 + Len(elements[e])]
      /\ UNCHANGED << elements, params, value, message, local >>
  BY <1>1 DEF Journald!LockEntry, Journald!SD_FIELDS_OFFSET
<1>3. /\ JournalTyped /\ TreeTyped /\ SendingTyped(sending[t]) /\ local[t] \in BufferTypes /\ t # NULL
      /\ CallOf(t) /\ holder \in [JournalObjects -> Threads \cup {NULL}] /\ e \in JournalObjects
  BY JournalAssumption DEF JournalInv, JournalTyped, JournalObjects
<1>4. Len(elements[e]) \in Nat
  BY <1>3 DEF TreeTyped
<1>5. PICK c \in Nat : c = 7 + Len(elements[e])
  BY <1>4
<1>6. PICK f : f = [sending[t] EXCEPT !.step = "measure", !.count = c]
  OBVIOUS
<1>7. /\ SendingTyped(f) /\ f.step = "measure" /\ f.entry = e /\ f.count = c
      /\ f.i = 1 /\ f.j = 0 /\ f.needed = 0 /\ f.pos = 0 /\ f.record = << >>
  <2> DEFINE g == sending[t]
  <2>1. f = [step |-> "measure", entry |-> g.entry, i |-> g.i, j |-> g.j, count |-> c, needed |-> g.needed,
             pos |-> g.pos, offset |-> g.offset, record |-> g.record, message |-> g.message,
             facility |-> g.facility, asked |-> g.asked]
    BY <1>3, <1>6 DEF SendingTyped
  <2>2. g.i = 1 /\ g.j = 0 /\ g.needed = 0 /\ g.pos = 0 /\ g.record = << >>
    BY <1>2, <1>3 DEF CallOf, RecordOf
  <2> HIDE DEF g
  <2> QED
    BY <1>1, <1>2, <1>3, <2>1, <2>2 DEF SendingTyped, JournalSteps, g
<1>8. Acts(t, f, local[t])
  BY <1>2, <1>3, <1>5, <1>6 DEF Acts, JournalTyped
<1>9. /\ JournalTyped' /\ sending'[t] = f /\ local'[t] = local[t] /\ \A u \in Threads \ {t} : OthersAct(u)
  BY <1>3, <1>7, <1>8, ActsKeeps
<1>10. InPasses(t)' /\ Mine(t)' = {} /\ Journald!Place(t)' = << 1, 0 >>
  <2>1. << 1, 0 >> = << f.i, f.j >> /\ e = f.entry /\ f.step \in {"measure", "write"} /\ sending'[t] = f
    BY <1>7, <1>9
  <2>2. UNCHANGED << elements, params, value, message >>
    BY <1>2
  <2>3. /\ InPasses(t)' /\ Journald!Place(t)' = << 1, 0 >>
        /\ f.step = "measure" => Mine(t)' = {a \in Journald!Places(e) : Journald!Earlier(a, << 1, 0 >>)}
    BY <2>1, <2>2, NextCall
  <2> QED
    BY <1>3, <1>7, <2>3, PlacesOrdered
<1>11. HeldOf(t)' /\ DistinctOf(t)'
  <2>1. \A o \in JournalObjects : holder[o] # t
    BY <1>2, <1>3 DEF CallOf, HeldOf, Kept, InPasses
  <2>2. \A o \in JournalObjects : holder'[o] = t <=> o = e
    BY <1>2, <1>3, <2>1
  <2> QED
    BY <1>7, <1>9, <1>10, <2>2 DEF HeldOf, Kept, DistinctOf
<1>12. AtOf(t)'
  <2>1. << 1, 0 >> \in Journald!Places(e) \cup {Behind(e)}
    BY <1>3, FirstPlace
  <2>2. Journald!Places(e)' = Journald!Places(e) /\ Behind(e)' = Behind(e)
    BY <1>2, TreeSame
  <2> QED
    BY <1>7, <1>9, <1>10, <2>1, <2>2 DEF AtOf
<1>13. SpaceOf(t)'
  <2>1. PICK m \in Spaces : m = [x \in Nat \X Nat |-> 0]
    BY DEF Spaces
  <2>2. m[<< 1, 0 >>] = 0
    BY <2>1
  <2>3. AddsUp(m, sending[t].entry, Mine(t), sending[t].needed)'
    BY <1>10 DEF AddsUp
  <2>4. SpaceMeasured(m, t)'
    BY <1>7, <1>9, <1>10, <2>2, <2>3 DEF SpaceMeasured
  <2> QED
    BY <1>7, <1>9, <2>4 DEF SpaceOf
<1>14. CountOf(t)'
  <2>1. PICK n \in [Nat -> Nat] : n = [x \in Nat |-> 7]
    OBVIOUS
  <2>2. NextCounted(t)' = 1
    BY <1>7, <1>9 DEF NextCounted
  <2>3. n[1] = 7
    BY <2>1
  <2>4. c + 1 = n[1] + Len(elements[e]) + 1
    BY <1>4, <1>5, <2>3
  <2>5. CountsUp(n, sending[t].entry, 1 .. (NextCounted(t) - 1), n[NextCounted(t)])'
    BY <2>2 DEF CountsUp
  <2>6. sending'[t].count + 1 = n[1] + Len(elements'[sending'[t].entry]) + 1
    BY <1>2, <1>7, <1>9, <2>4
  <2>7. n[1] >= 7
    BY <2>3
  <2>8. FieldsCounted(n, t)'
    BY <2>2, <2>3, <2>5, <2>6, <2>7 DEF FieldsCounted, Journald!SD_FIELDS_OFFSET
  <2> QED
    BY <1>7, <1>9, <2>8 DEF CountOf
<1>15. BuffersOf(t)'
  BY <1>2, <1>3, <1>7, <1>9 DEF BuffersOf, CallOf
<1>16. RecordOf(t)'
  BY <1>7, <1>9 DEF RecordOf
<1> QED
  BY <1>3, <1>9, <1>11, <1>12, <1>13, <1>14, <1>15, <1>16, ActsInv DEF CallOf

\* What is added up is that of the places that the call has come by.
LEMMA MeasuredIs ==
  ASSUME JournalTyped, NEW t \in Threads, AtOf(t), sending[t].step = "measure", Journald!At(t) # NULL,
         NEW e, e = sending[t].entry, NEW p, p = Journald!Place(t), NEW q, q = Following(e, p),
         SpaceOf(t), NEW needed, needed = sending[t].needed + SizeAt(e, p)
  PROVE  \E k \in Spaces : k[<< 1, 0 >>] = 0 /\ k[q] = needed /\ AddsUp(k, e, Mine(t) \cup {p}, needed)
<1>1. InPasses(t) /\ TreeTyped /\ sending[t].needed \in Nat
  BY DEF InPasses, JournalTyped, SendingTyped
<1>2. e \in JournalEntries /\ p \in Journald!Places(e)
  BY <1>1, PlaceNamed
<1>3. SizeAt(e, p) \in Nat /\ needed \in Nat /\ sending[t].needed <= needed
  <2>1. SizeAt(e, p) \in Nat
    BY <1>1, <1>2, NameAtIs
  <2> QED
    BY <1>1, <2>1
<1>4. ASSUME NEW a \in Journald!Places(e)
      PROVE  a \in Nat \X Nat /\ Following(e, a) \in Nat \X Nat
  <2>1. a \in Nat \X Nat /\ a = << a[1], a[2] >>
    BY <1>1, <1>2, PlaceIs
  <2> QED
    BY <2>1 DEF Following
<1>5. q \in Nat \X Nat
  BY <1>2, <1>4
<1>12. PICK m \in Spaces : SpaceMeasured(m, t)
  BY DEF SpaceOf
<1>13. PICK k : k = [m EXCEPT ![q] = needed]
  OBVIOUS
<1>6. k \in Spaces /\ k[q] = needed /\ \A x \in Nat \X Nat : x # q => k[x] = m[x]
  BY <1>3, <1>5, <1>13 DEF Spaces
<1>7. p # q /\ << 1, 0 >> # q
  <2>1. Journald!Earlier(p, q)
    BY <1>1, <1>2, FollowingIs
  <2> QED
    BY <1>1, <1>2, <2>1, PlacesOrdered
<1>8. /\ m[<< 1, 0 >>] = 0 /\ m[p] = sending[t].needed
      /\ \A a \in Mine(t) : m[Following(e, a)] = m[a] + SizeAt(e, a) /\ m[Following(e, a)] <= sending[t].needed
  BY <1>12 DEF SpaceMeasured, AddsUp
<1>9. ASSUME NEW a \in Mine(t)
      PROVE  k[Following(e, a)] = k[a] + SizeAt(e, a) /\ k[Following(e, a)] <= needed
  <2>1. a \in Journald!Places(e) /\ Journald!Earlier(a, p)
    BY <1>9 DEF Mine, IsMine
  <2>2. a # q
    <3>1. Journald!Earlier(a, q) /\ ~Journald!Earlier(a, a)
      BY <1>1, <1>2, <2>1, FollowingIs, PlacesOrdered
    <3> QED
      BY <3>1
  <2>3. Following(e, a) # q
    <3>1. ~Journald!Earlier(p, a) /\ p # a
      <4>1. a \in Nat \X Nat /\ p \in Nat \X Nat
        BY <1>2, <1>4, <2>1
      <4> QED
        BY <2>1, <4>1 DEF Journald!Earlier
    <3>2. ~Journald!Earlier(p, Following(e, a))
      BY <1>1, <1>2, <2>1, <3>1, FollowingIs
    <3>3. Journald!Earlier(p, q)
      BY <1>1, <1>2, FollowingIs
    <3> QED
      BY <3>2, <3>3
  <2>4. k[a] = m[a] /\ k[Following(e, a)] = m[Following(e, a)] /\ m[Following(e, a)] \in Nat
    BY <1>4, <1>6, <2>1, <2>2, <2>3 DEF Spaces
  <2> QED
    BY <1>1, <1>3, <1>8, <1>9, <2>4
<1>10. k[p] = sending[t].needed /\ k[<< 1, 0 >>] = 0
  BY <1>2, <1>4, <1>6, <1>7, <1>8
<1>11. k[Following(e, p)] = k[p] + SizeAt(e, p) /\ k[Following(e, p)] <= needed
  BY <1>3, <1>6, <1>10
<1>14. AddsUp(k, e, Mine(t) \cup {p}, needed)
  BY <1>9, <1>11 DEF AddsUp
<1> QED
  BY <1>6, <1>10, <1>14

\* The params of an element are counted when its mutex is taken.
CountAfter(t) ==
  sending[t].count + (IF sending[t].j = 0 THEN Len(ParamsAt(sending[t].entry, sending[t].i)) ELSE 0)

Counted(n, e, i, c) ==
  /\ n[1] = 7 /\ n[i + 1] >= 7
  /\ c + (i + 1) = n[i + 1] + Len(elements[e]) + 1
  /\ \A l \in 1..i : n[l + 1] = n[l] + 1 + Len(ParamsAt(e, l)) /\ n[l + 1] <= n[i + 1]

LEMMA CountedIs ==
  ASSUME JournalTyped, NEW t \in Threads, AtOf(t), sending[t].step = "measure", Journald!At(t) # NULL, CountOf(t),
         NEW e, e = sending[t].entry
  PROVE  /\ CountAfter(t) \in Nat
         /\ \E n \in [Nat -> Nat] : Counted(n, e, sending[t].i, CountAfter(t))
<1>1. InPasses(t) /\ TreeTyped /\ sending[t].count \in Nat
  BY DEF InPasses, JournalTyped, SendingTyped
<1>2. /\ sending[t].i \in Nat \ {0} /\ sending[t].j \in Nat /\ Len(elements[e]) \in Nat
      /\ \A l \in 1..Len(elements[e]) : Len(ParamsAt(e, l)) \in Nat
  BY <1>1, LoopsAt
<1>3. sending[t].i \in 1..Len(elements[e])
  BY <1>1, <1>2, PlaceNamed, PlaceIs
<1>4. PICK i \in Nat \ {0}, k \in Nat, size \in Nat :
        i = sending[t].i /\ k = Len(ParamsAt(e, i)) /\ size = Len(elements[e]) /\ i <= size
  BY <1>2, <1>3
<1>5. PICK n \in [Nat -> Nat] : FieldsCounted(n, t)
  BY DEF CountOf
<1>6. CASE sending[t].j = 0
  <2>1. /\ n[1] = 7 /\ n[i] >= 7 /\ sending[t].count + i = n[i] + size + 1
        /\ \A l \in 1..(i - 1) : n[l + 1] = n[l] + 1 + Len(ParamsAt(e, l)) /\ n[l + 1] <= n[i]
    BY <1>4, <1>5, <1>6 DEF FieldsCounted, NextCounted, CountsUp, Journald!SD_FIELDS_OFFSET
  <2>2. CountAfter(t) = sending[t].count + k /\ n[i] \in Nat
    BY <1>4, <1>6 DEF CountAfter
  <2>3. PICK x \in Nat : x = n[i] + 1 + k
    BY <2>2
  <2>4. PICK o \in [Nat -> Nat] : o = [n EXCEPT ![i + 1] = x]
    OBVIOUS
  <2>5. o[i + 1] = x /\ \A l \in Nat : l # i + 1 => o[l] = n[l]
    BY <2>4
  <2>6. o[1] = 7 /\ x >= 7 /\ CountAfter(t) \in Nat /\ CountAfter(t) + (i + 1) = x + size + 1
    <3>1. 1 # i + 1 /\ 1 \in Nat
      OBVIOUS
    <3>2. o[1] = n[1]
      BY <2>5, <3>1, Zenon
    <3>3. PICK y \in Nat, d \in Nat : y = n[i] /\ d = sending[t].count
      BY <1>1, <2>2
    <3>4. y >= 7 /\ d + i = y + size + 1 /\ CountAfter(t) = d + k /\ x = y + 1 + k
      BY <2>1, <2>2, <2>3, <3>3
    <3>5. i \in Nat /\ k \in Nat /\ size \in Nat
      BY <1>4
    <3>6. x >= 7 /\ CountAfter(t) \in Nat /\ CountAfter(t) + (i + 1) = x + size + 1
      BY <3>4, <3>5
    <3>7. n[1] = 7
      BY <2>1
    <3> QED
      BY <3>2, <3>6, <3>7
  <2>7. ASSUME NEW l \in 1..i
        PROVE  o[l + 1] = o[l] + 1 + Len(ParamsAt(e, l)) /\ o[l + 1] <= x
    <3>1. CASE l = i
      <4>1. o[l] = n[i] /\ o[l + 1] = x
        BY <2>5, <3>1
      <4> QED
        BY <1>4, <2>3, <3>1, <4>1
    <3>2. CASE l # i
      <4>1. l \in 1..(i - 1) /\ l # i + 1 /\ l + 1 # i + 1 /\ l \in Nat /\ l + 1 \in Nat
        BY <2>7, <3>2
      <4>2. o[l] = n[l] /\ o[l + 1] = n[l + 1] /\ n[l + 1] \in Nat
        BY <2>5, <4>1
      <4>3. n[l + 1] = n[l] + 1 + Len(ParamsAt(e, l)) /\ n[l + 1] <= n[i]
        BY <2>1, <4>1
      <4>4. n[i] <= x
        BY <2>2, <2>3
      <4> QED
        BY <2>2, <4>2, <4>3, <4>4
    <3> QED
      BY <3>1, <3>2
  <2>8. Counted(o, e, i, CountAfter(t))
    BY <1>4, <2>5, <2>6, <2>7 DEF Counted
  <2> QED
    BY <1>4, <2>6, <2>8
<1>7. CASE sending[t].j # 0
  <2>1. /\ n[1] = 7 /\ n[i + 1] >= 7 /\ sending[t].count + (i + 1) = n[i + 1] + size + 1
        /\ \A l \in 1..((i + 1) - 1) : n[l + 1] = n[l] + 1 + Len(ParamsAt(e, l)) /\ n[l + 1] <= n[i + 1]
    BY <1>4, <1>5, <1>7 DEF FieldsCounted, NextCounted, CountsUp, Journald!SD_FIELDS_OFFSET
  <2>2. CountAfter(t) = sending[t].count /\ (i + 1) - 1 = i
    BY <1>1, <1>7 DEF CountAfter
  <2>3. Counted(n, e, i, CountAfter(t))
    BY <1>4, <2>1, <2>2 DEF Counted
  <2> QED
    BY <1>1, <1>4, <2>2, <2>3
<1> QED
  BY <1>6, <1>7

LEMMA MeasureInv ==
  ASSUME JournalInv, NEW t \in Threads, Journald!Measure(t)
  PROVE  JournalInv'
<1>1. PICK e \in JournalEntries : e = sending[t].entry
  BY DEF JournalInv, JournalTyped, SendingTyped, Journald!Measure
<1>2. /\ sending[t].step = "measure" /\ Journald!At(t) # NULL /\ holder[Journald!At(t)] = NULL
      /\ holder' = [holder EXCEPT ![Journald!At(t)] = t]
      /\ UNCHANGED << elements, params, value, message, local >>
  BY DEF Journald!Measure
<1>3. /\ JournalTyped /\ TreeTyped /\ SendingTyped(sending[t]) /\ local[t] \in BufferTypes /\ t # NULL
      /\ CallOf(t) /\ holder \in [JournalObjects -> Threads \cup {NULL}] /\ InPasses(t)
  BY <1>2, JournalAssumption DEF JournalInv, JournalTyped, InPasses
<1>4. PICK p \in Journald!Places(e) :
        /\ p = Journald!Place(t) /\ p = << sending[t].i, sending[t].j >> /\ Journald!At(t) = Journald!ObjectAt(e, p)
        /\ Journald!SizeNeeded(t) = SizeAt(e, p)
        /\ params[Journald!Element(t)] = ParamsAt(e, sending[t].i)
  BY <1>1, <1>2, <1>3, PlaceNamed DEF CallOf
<1>5. PICK x \in Elements \cup Params : x = Journald!At(t)
  BY <1>2, <1>4, <1>3, ObjectIs
<1>6. PICK q : q = Following(e, p)
  OBVIOUS
<1>7. PICK needed \in Nat : needed = sending[t].needed + SizeAt(e, p)
  <2>1. SizeAt(e, p) \in Nat /\ sending[t].needed \in Nat
    BY <1>3, NameAtIs DEF SendingTyped
  <2> QED
    BY <2>1
<1>8. PICK c \in Nat : c = CountAfter(t)
  BY <1>1, <1>2, <1>3, CountedIs DEF CallOf
<1>9. PICK g : g = [sending[t] EXCEPT !.needed = needed, !.count = c]
  OBVIOUS
<1>10. /\ SendingTyped(g) /\ g.step = "measure" /\ g.entry = e /\ g.i = sending[t].i /\ g.j = sending[t].j
       /\ g.needed = needed /\ g.count = c /\ g.pos = 0 /\ g.record = << >>
  <2> DEFINE h == sending[t]
  <2>1. g = [step |-> h.step, entry |-> h.entry, i |-> h.i, j |-> h.j, count |-> c, needed |-> needed,
             pos |-> h.pos, offset |-> h.offset, record |-> h.record, message |-> h.message,
             facility |-> h.facility, asked |-> h.asked]
    BY <1>3, <1>9 DEF SendingTyped
  <2>2. h.pos = 0 /\ h.record = << >>
    BY <1>2, <1>3 DEF CallOf, RecordOf
  <2> HIDE DEF h
  <2> QED
    BY <1>1, <1>2, <1>3, <2>1, <2>2 DEF SendingTyped, JournalSteps, h
<1>11. PICK f : f = Journald!Advance(t, g)
  OBVIOUS
<1>12. /\ SendingTyped(f) /\ q = << f.i, f.j >>
       /\ f = [step |-> g.step, entry |-> g.entry, i |-> f.i, j |-> f.j, count |-> g.count, needed |-> g.needed,
               pos |-> g.pos, offset |-> g.offset, record |-> g.record, message |-> g.message,
               facility |-> g.facility, asked |-> g.asked]
  <2>1. /\ JournalTyped /\ AtOf(t) /\ InPasses(t) /\ Journald!At(t) # NULL
        /\ q = Following(e, Journald!Place(t)) /\ g.step = sending[t].step
    BY <1>2, <1>3, <1>4, <1>6, <1>10 DEF CallOf
  <2> QED
    BY <1>1, <1>10, <1>11, <2>1, AdvanceIs
<1>13. /\ f.step = "measure" /\ f.entry = e /\ f.needed = needed /\ f.count = c /\ f.pos = 0 /\ f.record = << >>
       /\ f.i \in Nat \ {0} /\ f.j \in Nat
  BY <1>10, <1>12 DEF SendingTyped
<1>14. sending' = [sending EXCEPT ![t] = f]
  <2> DEFINE subfields == IF sending[t].j = 0 THEN Len(params[Journald!Element(t)]) ELSE 0
  <2>1. sending' = [sending EXCEPT ![t] = Journald!Advance(t,
                      [sending[t] EXCEPT !.needed = sending[t].needed + Journald!SizeNeeded(t),
                                         !.count = sending[t].count + subfields])]
    BY DEF Journald!Measure
  <2>2. sending[t].needed + Journald!SizeNeeded(t) = needed
    BY <1>4, <1>7
  <2>3. sending[t].count + subfields = c
    BY <1>1, <1>4, <1>8 DEF CountAfter
  <2> HIDE DEF subfields
  <2>4. sending' = [sending EXCEPT ![t] = Journald!Advance(t, g)]
    BY <1>9, <2>1, <2>2, <2>3
  <2> QED
    BY <1>11, <2>4
<1>15. Acts(t, f, local[t])
  <2>1. local' = [local EXCEPT ![t] = local[t]]
    BY <1>2, <1>3 DEF JournalTyped
  <2>2. x \in JournalObjects /\ holder[x] = NULL /\ holder' = [holder EXCEPT ![x] = t]
    BY <1>2, <1>5 DEF JournalObjects
  <2> QED
    BY <1>2, <1>3, <1>14, <2>1, <2>2 DEF Acts
<1>16. /\ JournalTyped' /\ sending'[t] = f /\ local'[t] = local[t] /\ \A u \in Threads \ {t} : OthersAct(u)
  BY <1>3, <1>12, <1>15, ActsKeeps
<1>17. InPasses(t)' /\ Journald!Place(t)' = q /\ Mine(t)' = Mine(t) \cup {p}
  <2>1. f.step \in {"measure", "write"} /\ f.entry = e /\ UNCHANGED << elements, params, value, message >>
    BY <1>2, <1>13
  <2>2. /\ InPasses(t)' /\ Journald!Place(t)' = q
        /\ f.step = "measure" => Mine(t)' = {a \in Journald!Places(e) : Journald!Earlier(a, q)}
    BY <1>12, <1>16, <2>1, NextCall
  <2>3. \A a \in Journald!Places(e) : Journald!Earlier(a, q) <=> Journald!Earlier(a, p) \/ a = p
    BY <1>3, <1>6, FollowingIs
  <2>4. Mine(t) = {a \in Journald!Places(e) : Journald!Earlier(a, p)}
    BY <1>1, <1>2, <1>4 DEF Mine, IsMine
  <2> QED
    BY <1>13, <2>2, <2>3, <2>4
<1>18. /\ Journald!Places(e)' = Journald!Places(e) /\ Behind(e)' = Behind(e)
       /\ \A a : /\ Journald!ObjectAt(e, a)' = Journald!ObjectAt(e, a)
                 /\ SizeAt(e, a)' = SizeAt(e, a) /\ Following(e, a)' = Following(e, a)
       /\ \A i : ParamsAt(e, i)' = ParamsAt(e, i)
  BY <1>2, TreeSame
<1>19. HeldOf(t)'
  <2>1. \A o \in JournalObjects : holder'[o] = t <=> holder[o] = t \/ o = x
    BY <1>2, <1>3, <1>5 DEF JournalObjects
  <2>2. \A o \in JournalObjects : holder[o] = t <=> o = e \/ \E a \in Mine(t) : o = Journald!ObjectAt(e, a)
    BY <1>1, <1>3 DEF CallOf, HeldOf, Kept
  <2>3. \A o : Kept(t, o)' <=> o = e \/ \E a \in Mine(t) \cup {p} : o = Journald!ObjectAt(e, a)
    <3>1. \A o : Kept(t, o)' <=> InPasses(t)' /\ (o = e \/ \E a \in Mine(t)' : o = Journald!ObjectAt(e, a)')
      BY <1>13, <1>16 DEF Kept
    <3> QED
      BY <1>17, <1>18, <3>1
  <2>4. x = Journald!ObjectAt(e, p)
    BY <1>4, <1>5
  <2>5. \A o \in JournalObjects : holder'[o] = t <=> Kept(t, o)'
    BY <2>1, <2>2, <2>3, <2>4
  <2> QED
    BY <2>5 DEF HeldOf
<1>20. DistinctOf(t)'
  <2>1. ASSUME NEW a \in Mine(t)
        PROVE  Journald!ObjectAt(e, a) # Journald!ObjectAt(e, p)
    <3>1. Kept(t, Journald!ObjectAt(e, a))
      BY <1>1, <1>3 DEF Kept
    <3>2. Journald!ObjectAt(e, a) \in JournalObjects
      BY <1>1, <1>3, ObjectIs DEF Mine, JournalObjects
    <3>3. holder[Journald!ObjectAt(e, a)] = t
      BY <1>3, <3>1, <3>2 DEF CallOf, HeldOf
    <3> QED
      BY <1>2, <1>3, <1>4, <3>3
  <2>2. \A a, b \in Mine(t) : Journald!ObjectAt(e, a) = Journald!ObjectAt(e, b) => a = b
    BY <1>1, <1>3 DEF CallOf, DistinctOf
  <2>3. \A a, b \in Mine(t) \cup {p} : Journald!ObjectAt(e, a) = Journald!ObjectAt(e, b) => a = b
    BY <2>1, <2>2
  <2>4. DistinctOf(t)' <=> (InPasses(t)' => \A a, b \in Mine(t)' :
          Journald!ObjectAt(e, a)' = Journald!ObjectAt(e, b)' => a = b)
    BY <1>13, <1>16 DEF DistinctOf
  <2> QED
    BY <1>17, <1>18, <2>3, <2>4
<1>21. AtOf(t)'
  <2>1. q \in Journald!Places(e) \cup {Behind(e)}
    BY <1>3, <1>6, FollowingIs
  <2>2. AtOf(t)' <=> (InPasses(t)' => Journald!Place(t)' \in Journald!Places(e)' \cup {Behind(e)'})
    BY <1>13, <1>16 DEF AtOf
  <2> QED
    BY <1>17, <1>18, <2>1, <2>2
<1>22. SpaceOf(t)'
  <2>1. SpaceOf(t) /\ JournalTyped /\ AtOf(t) /\ p = Journald!Place(t)
    BY <1>3, <1>4 DEF CallOf
  <2>2. PICK k \in Spaces : k[<< 1, 0 >>] = 0 /\ k[q] = needed /\ AddsUp(k, e, Mine(t) \cup {p}, needed)
    BY <1>1, <1>2, <1>6, <1>7, <2>1, MeasuredIs
  <2>3. \A a \in Mine(t) \cup {p} : k[Following(e, a)] = k[a] + SizeAt(e, a) /\ k[Following(e, a)] <= needed
    BY <2>2 DEF AddsUp
  <2>4. AddsUp(k, sending[t].entry, Mine(t), sending[t].needed)'
    BY <1>13, <1>16, <1>17, <1>18, <2>3 DEF AddsUp
  <2>5. SpaceMeasured(k, t)'
    BY <1>13, <1>16, <1>17, <2>2, <2>4 DEF SpaceMeasured
  <2> QED
    BY <1>13, <1>16, <2>5 DEF SpaceOf
<1>23. CountOf(t)'
  <2>1. PICK i \in Nat \ {0} : i = sending[t].i
    BY <1>3 DEF SendingTyped
  <2>2. PICK n \in [Nat -> Nat] :
          /\ n[1] = 7 /\ n[i + 1] >= 7 /\ c + (i + 1) = n[i + 1] + Len(elements[e]) + 1
          /\ \A l \in 1..i : n[l + 1] = n[l] + 1 + Len(ParamsAt(e, l)) /\ n[l + 1] <= n[i + 1]
    <3>1. JournalTyped /\ AtOf(t) /\ CountOf(t)
      BY <1>3 DEF CallOf
    <3>2. \E n \in [Nat -> Nat] : Counted(n, e, sending[t].i, CountAfter(t))
      BY <1>1, <1>2, <3>1, CountedIs
    <3>3. PICK n \in [Nat -> Nat] : Counted(n, e, i, c)
      BY <1>8, <2>1, <3>2
    <3> QED
      BY <3>3 DEF Counted
  <2>3. NextCounted(t)' = i + 1
    <3>1. p = << i, sending[t].j >>
      BY <1>4, <2>1
    <3>2. q[1] = f.i /\ q[2] = f.j /\ sending[t].j \in Nat
      BY <1>3, <1>12 DEF SendingTyped
    <3>3. (f.i = i /\ f.j = sending[t].j + 1) \/ (f.i = i + 1 /\ f.j = 0)
      BY <1>6, <3>1, <3>2 DEF Following
    <3>4. IF f.j = 0 THEN f.i = i + 1 ELSE f.i = i
      BY <3>2, <3>3
    <3> QED
      BY <1>16, <3>4 DEF NextCounted
  <2>4. (i + 1) - 1 = i
    OBVIOUS
  <2>5. CountsUp(n, sending[t].entry, 1 .. (NextCounted(t) - 1), n[NextCounted(t)])'
    <3>1. \A l \in 1..((i + 1) - 1) : n[l + 1] = n[l] + 1 + Len(ParamsAt(e, l)') /\ n[l + 1] <= n[i + 1]
      BY <1>18, <2>2, <2>4
    <3> QED
      BY <1>13, <1>16, <2>3, <3>1 DEF CountsUp
  <2>6. sending'[t].count + (i + 1) = n[i + 1] + Len(elements'[sending'[t].entry]) + 1
    BY <1>2, <1>13, <1>16, <2>2
  <2>7. FieldsCounted(n, t)'
    BY <2>2, <2>3, <2>5, <2>6 DEF FieldsCounted, Journald!SD_FIELDS_OFFSET
  <2> QED
    BY <1>13, <1>16, <2>7 DEF CountOf
<1>24. BuffersOf(t)'
  BY <1>2, <1>3, <1>13, <1>16 DEF BuffersOf, CallOf
<1>25. RecordOf(t)'
  BY <1>13, <1>16 DEF RecordOf
<1> QED
  BY <1>3, <1>16, <1>19, <1>20, <1>21, <1>22, <1>23, <1>24, <1>25, ActsInv DEF CallOf

\* At the end of the first pass, what was added up fits.
LEMMA LoadedIs ==
  ASSUME JournalTyped, NEW t \in Threads, AtOf(t), sending[t].step = "measure", Journald!At(t) = NULL,
         SpaceOf(t), CountOf(t), NEW e, e = sending[t].entry,
         NEW sd \in Nat, sending[t].needed <= sd, NEW fields \in Nat, sending[t].count <= fields
  PROVE  /\ fields >= 7 /\ Mine(t) = Journald!Places(e)
         /\ \E m \in Spaces : m[<< 1, 0 >>] = 0 /\ AddsUp(m, e, Journald!Places(e), sd)
         /\ \E n \in [Nat -> Nat] : n[1] = 7 /\ CountsUp(n, e, 1..Len(elements[e]), fields)
<1>1. InPasses(t) /\ TreeTyped /\ sending[t].needed \in Nat /\ sending[t].count \in Nat
  BY DEF InPasses, JournalTyped, SendingTyped
<1>2. e \in JournalEntries /\ Journald!Place(t) = Behind(e)
  BY <1>1, AtIs
<1>3. Mine(t) = Journald!Places(e)
  BY <1>1, <1>2, PlacesOrdered DEF Mine, IsMine
<1>4. \E m \in Spaces : m[<< 1, 0 >>] = 0 /\ AddsUp(m, e, Journald!Places(e), sd)
  <2>1. PICK m \in Spaces : SpaceMeasured(m, t)
    BY DEF SpaceOf
  <2>2. m[<< 1, 0 >>] = 0 /\ AddsUp(m, e, Journald!Places(e), sending[t].needed)
    BY <1>3, <2>1 DEF SpaceMeasured
  <2>3. ASSUME NEW a \in Journald!Places(e)
        PROVE  m[Following(e, a)] = m[a] + SizeAt(e, a) /\ m[Following(e, a)] <= sd
    <3>1. m[Following(e, a)] = m[a] + SizeAt(e, a) /\ m[Following(e, a)] <= sending[t].needed
      BY <2>2 DEF AddsUp
    <3>2. a \in Nat \X Nat /\ a = << a[1], a[2] >>
      BY <1>1, <1>2, PlaceIs
    <3>3. Following(e, a) \in Nat \X Nat
      BY <3>2 DEF Following
    <3>4. m[Following(e, a)] \in Nat
      BY <3>3 DEF Spaces
    <3> QED
      BY <1>1, <3>1, <3>4
  <2>4. AddsUp(m, e, Journald!Places(e), sd)
    BY <2>3 DEF AddsUp
  <2> QED
    BY <2>2, <2>4
<1>5. fields >= 7 /\ \E n \in [Nat -> Nat] : n[1] = 7 /\ CountsUp(n, e, 1..Len(elements[e]), fields)
  <2>1. PICK n \in [Nat -> Nat] : FieldsCounted(n, t)
    BY DEF CountOf
  <2>2. PICK size \in Nat : size = Len(elements[e])
    BY <1>1, <1>2 DEF TreeTyped
  <2>3. NextCounted(t) = size + 1
    BY <1>2, <2>2 DEF Journald!Place, Behind, NextCounted
  <2>4. (size + 1) - 1 = size
    OBVIOUS
  <2>5. /\ n[1] = 7 /\ n[size + 1] >= 7 /\ sending[t].count + (size + 1) = n[size + 1] + size + 1
        /\ CountsUp(n, e, 1..size, n[size + 1])
    BY <2>1, <2>2, <2>3, <2>4 DEF FieldsCounted, Journald!SD_FIELDS_OFFSET
  <2>6. PICK x \in Nat : x = n[size + 1]
    OBVIOUS
  <2>7. x <= fields /\ fields >= 7
    <3>1. x >= 7 /\ sending[t].count + (size + 1) = x + size + 1
      BY <2>5, <2>6
    <3>2. PICK y \in Nat : y = sending[t].count
      BY <1>1
    <3>3. y = x
      BY <3>1, <3>2
    <3> QED
      BY <3>1, <3>2, <3>3
  <2>8. ASSUME NEW i \in 1..size
        PROVE  n[i + 1] = n[i] + 1 + Len(ParamsAt(e, i)) /\ n[i + 1] <= fields
    <3>1. n[i + 1] = n[i] + 1 + Len(ParamsAt(e, i)) /\ n[i + 1] <= n[size + 1]
      BY <2>5 DEF CountsUp
    <3>2. n[i + 1] \in Nat
      OBVIOUS
    <3> QED
      BY <2>6, <2>7, <3>1, <3>2
  <2>9. CountsUp(n, e, 1..Len(elements[e]), fields)
    BY <2>2, <2>8 DEF CountsUp
  <2> QED
    BY <2>5, <2>7, <2>9
<1> QED
  BY <1>3, <1>4, <1>5

LEMMA LoadInv ==
  ASSUME JournalInv, NEW t \in Threads, Journald!load_sd_fields(t)
  PROVE  JournalInv'
<1> DEFINE l == local[t]
           c == sending[t].count
           n == Journald!Larger(l.fields, c)
           s == l.bases \/ l.fields < c
           d == Journald!Larger(l.sd, sending[t].needed)
<1>1. PICK e \in JournalEntries : e = sending[t].entry
  BY DEF JournalInv, JournalTyped, SendingTyped, Journald!load_sd_fields
<1>2. /\ sending[t].step = "measure" /\ Journald!At(t) = NULL
      /\ local' = [local EXCEPT ![t].fields = n, ![t].bases = s, ![t].sd = d]
      /\ UNCHANGED << elements, params, value, message, holder >>
  BY DEF Journald!load_sd_fields
<1>3. /\ JournalTyped /\ TreeTyped /\ SendingTyped(sending[t]) /\ l \in BufferTypes /\ CallOf(t) /\ InPasses(t)
      /\ local \in [Threads -> BufferTypes] /\ holder \in [JournalObjects -> Threads \cup {NULL}]
  BY <1>2 DEF JournalInv, JournalTyped, InPasses
<1>4. /\ s \in BOOLEAN /\ (s <=> l.bases \/ l.fields < c) /\ n = Journald!Larger(l.fields, c)
      /\ c \in Nat /\ d \in Nat /\ sending[t].needed <= d /\ n \in Nat /\ c <= n
  BY <1>3 DEF BufferTypes, SendingTyped, Journald!Larger
<1>5. l.fixed /\ l.bases = l.bases /\ l.base = l.message /\ (l.fixed /\ l.fields > 0 => l.bases)
  BY <1>2, <1>3 DEF CallOf, BuffersOf
<1> HIDE DEF s, n, d
<1>6. PICK b : b = [l EXCEPT !.fields = n, !.bases = s, !.sd = d]
  OBVIOUS
<1>7. local' = [local EXCEPT ![t] = b]
  BY <1>2, <1>3, <1>6
<1>8. b = [fields |-> n, fixed |-> l.fixed, bases |-> s, message |-> l.message, base |-> l.base, sd |-> d]
  BY <1>3, <1>6 DEF BufferTypes
<1>9. b.fixed = l.fixed /\ b.base = l.base /\ b.message = l.message /\ b.sd = d /\ b.fields = n
  BY <1>8
<1> HIDE DEF l, c
<1>10. b \in BufferTypes /\ (b.fixed /\ b.fields > 0 => b.bases)
  BY <1>3, <1>4, <1>5, <1>8, FieldsGrow
<1>11. PICK A : A = Journald!Asked(e)
  OBVIOUS
<1>12. PICK f : f = [sending[t] EXCEPT !.step = "write", !.i = 1, !.j = 0, !.offset = 7, !.asked = A]
  OBVIOUS
<1>13. /\ SendingTyped(f) /\ f.step = "write" /\ f.entry = e /\ f.i = 1 /\ f.j = 0 /\ f.offset = 7
       /\ f.pos = 0 /\ f.record = << >> /\ f.asked = A
  <2> DEFINE g == sending[t]
  <2>1. f = [step |-> "write", entry |-> g.entry, i |-> 1, j |-> 0, count |-> g.count, needed |-> g.needed,
             pos |-> g.pos, offset |-> 7, record |-> g.record, message |-> g.message,
             facility |-> g.facility, asked |-> A]
    BY <1>3, <1>12 DEF SendingTyped
  <2>2. g.pos = 0 /\ g.record = << >>
    BY <1>2, <1>3 DEF CallOf, RecordOf
  <2> HIDE DEF g
  <2> QED
    BY <1>1, <1>2, <1>3, <2>1, <2>2 DEF SendingTyped, JournalSteps, g
<1>14. Acts(t, f, b)
  <2>1. sending' = [sending EXCEPT ![t].step = "write", ![t].i = 1, ![t].j = 0, ![t].offset = 7, ![t].asked = A]
    BY <1>1, <1>11 DEF Journald!load_sd_fields, Journald!SD_FIELDS_OFFSET
  <2>2. sending' = [sending EXCEPT ![t] = f]
    BY <1>3, <1>12, <2>1 DEF JournalTyped
  <2> QED
    BY <1>2, <1>3, <1>7, <2>2 DEF Acts
<1>15. /\ JournalTyped' /\ sending'[t] = f /\ local'[t] = b /\ \A u \in Threads \ {t} : OthersAct(u)
  BY <1>10, <1>13, <1>14, ActsKeeps
<1>16. /\ n >= 7 /\ Mine(t) = Journald!Places(e)
       /\ \E m \in Spaces : m[<< 1, 0 >>] = 0 /\ AddsUp(m, e, Journald!Places(e), d)
       /\ \E k \in [Nat -> Nat] : k[1] = 7 /\ CountsUp(k, e, 1..Len(elements[e]), n)
  <2>1. AtOf(t) /\ SpaceOf(t) /\ CountOf(t) /\ sending[t].count <= n
    BY <1>3, <1>4 DEF CallOf, c
  <2> QED
    BY <1>1, <1>2, <1>3, <1>4, <2>1, LoadedIs
<1>17. /\ InPasses(t)' /\ Journald!Place(t)' = << 1, 0 >>
       /\ Mine(t)' = Journald!Places(e) /\ Ahead(t)' = Journald!Places(e)
  <2>1. << 1, 0 >> = << f.i, f.j >> /\ e = f.entry /\ f.step \in {"measure", "write"} /\ f.i = 1
        /\ UNCHANGED << elements, params, value, message >>
    BY <1>2, <1>13
  <2>2. /\ InPasses(t)' /\ Journald!Place(t)' = << 1, 0 >>
        /\ f.step = "write" => Mine(t)' = {a \in Journald!Places(e) : ~Journald!Earlier(a, << 1, 0 >>) \/ a = << f.i, 0 >>}
        /\ Ahead(t)' = {a \in Journald!Places(e) : ~Journald!Earlier(a, << 1, 0 >>)}
    BY <1>15, <2>1, NextCall
  <2>3. \A a \in Journald!Places(e) : ~Journald!Earlier(a, << 1, 0 >>)
    BY <1>3, PlacesOrdered
  <2> QED
    BY <1>13, <2>2, <2>3
<1>18. /\ Journald!Places(e)' = Journald!Places(e) /\ Behind(e)' = Behind(e)
       /\ \A a : /\ Journald!ObjectAt(e, a)' = Journald!ObjectAt(e, a)
                 /\ Journald!ValueAt(e, a)' = Journald!ValueAt(e, a)
                 /\ SizeAt(e, a)' = SizeAt(e, a) /\ Following(e, a)' = Following(e, a)
       /\ \A i : ParamsAt(e, i)' = ParamsAt(e, i)
  BY <1>2, TreeSame
<1>19. HeldOf(t)'
  <2>1. \A o \in JournalObjects : holder[o] = t <=> o = e \/ \E a \in Mine(t) : o = Journald!ObjectAt(e, a)
    BY <1>1, <1>3 DEF CallOf, HeldOf, Kept
  <2>2. \A o : Kept(t, o)' <=> InPasses(t)' /\ (o = e \/ \E a \in Mine(t)' : o = Journald!ObjectAt(e, a)')
    BY <1>13, <1>15 DEF Kept
  <2>3. \A o : Kept(t, o)' <=> o = e \/ \E a \in Journald!Places(e) : o = Journald!ObjectAt(e, a)
    BY <1>17, <1>18, <2>2
  <2>4. \A o \in JournalObjects : holder[o] = t <=> o = e \/ \E a \in Journald!Places(e) : o = Journald!ObjectAt(e, a)
    BY <1>16, <2>1
  <2>5. holder' = holder
    BY <1>2
  <2> QED
    BY <2>3, <2>4, <2>5 DEF HeldOf
<1>20. DistinctOf(t)'
  <2>1. \A a, b_1 \in Mine(t) : Journald!ObjectAt(e, a) = Journald!ObjectAt(e, b_1) => a = b_1
    BY <1>1, <1>3 DEF CallOf, DistinctOf
  <2>2. DistinctOf(t)' <=> (InPasses(t)' => \A a, o \in Mine(t)' :
          Journald!ObjectAt(e, a)' = Journald!ObjectAt(e, o)' => a = o)
    BY <1>13, <1>15 DEF DistinctOf
  <2> QED
    BY <1>16, <1>17, <1>18, <2>1, <2>2
<1>21. AtOf(t)'
  <2>1. AtOf(t)' <=> (InPasses(t)' => Journald!Place(t)' \in Journald!Places(e)' \cup {Behind(e)'})
    BY <1>13, <1>15 DEF AtOf
  <2> QED
    BY <1>3, <1>17, <1>18, <2>1, FirstPlace
<1>22. SpaceOf(t)'
  <2>1. PICK m \in Spaces : m[<< 1, 0 >>] = 0 /\ AddsUp(m, e, Journald!Places(e), d)
    BY <1>16
  <2>2. \A a \in Journald!Places(e) : m[Following(e, a)] = m[a] + SizeAt(e, a) /\ m[Following(e, a)] <= d
    BY <2>1 DEF AddsUp
  <2>3. AddsUp(m, sending[t].entry, Ahead(t), local[t].sd)'
    BY <1>9, <1>13, <1>15, <1>17, <1>18, <2>2 DEF AddsUp
  <2>4. 0 <= d
    BY <1>4
  <2>5. SpaceLeft(m, t)'
    BY <1>9, <1>13, <1>15, <1>17, <2>1, <2>3, <2>4 DEF SpaceLeft
  <2> QED
    BY <1>13, <1>15, <2>5 DEF SpaceOf
<1>23. CountOf(t)'
  <2>1. PICK k \in [Nat -> Nat] : k[1] = 7 /\ CountsUp(k, e, 1..Len(elements[e]), n)
    BY <1>16
  <2>2. \A i \in 1..Len(elements[e]) : k[i + 1] = k[i] + 1 + Len(ParamsAt(e, i)') /\ k[i + 1] <= n
    BY <1>18, <2>1 DEF CountsUp
  <2>3. CountsUp(k, sending[t].entry, sending[t].i .. Len(elements[sending[t].entry]), local[t].fields)'
    BY <1>2, <1>9, <1>13, <1>15, <2>2 DEF CountsUp
  <2>4. f.offset = k[f.i] + f.j /\ k[f.i] <= n
    BY <1>4, <1>13, <1>16, <2>1
  <2>5. FieldsLeft(k, t)'
    BY <1>9, <1>15, <2>3, <2>4 DEF FieldsLeft
  <2> QED
    BY <1>13, <1>15, <2>5 DEF CountOf
<1>24. BuffersOf(t)'
  BY <1>5, <1>9, <1>10, <1>13, <1>15, <1>16 DEF BuffersOf, Journald!SD_FIELDS_OFFSET
<1>25. RecordOf(t)'
  <2> DEFINE F == A.fields
  <2>1. /\ A.message = message[e] /\ DOMAIN F = Journald!Places(e)
        /\ \A a \in Journald!Places(e) : F[a].object = Journald!ObjectAt(e, a) /\ F[a].value = Journald!ValueAt(e, a)
    BY <1>11 DEF Journald!Asked
  <2> HIDE DEF F
  <2>2. \A a \in Journald!Places(e) : ~Journald!Earlier(a, << 1, 0 >>) /\ a \in Nat \X Nat
    BY <1>3, PlacesOrdered, PlaceIs
  <2>3. Recorded(f, << 1, 0 >>)
    BY <1>13, <2>1, <2>2 DEF Recorded, F
  <2>4. Recorded(sending[t], Journald!Place(t))'
    BY <1>15, <1>17, <2>3 DEF Recorded, Journald!Earlier
  <2>5. Unchanged(t)'
    <3>1. {a \in DOMAIN F : ~Journald!Earlier(a, << 1, 0 >>)} = Ahead(t)'
      BY <1>17, <2>1, <2>2
    <3>2. \A a \in Ahead(t)' : F[a].object = Journald!ObjectAt(e, a)' /\ F[a].value = Journald!ValueAt(e, a)'
      BY <1>17, <1>18, <2>1
    <3>3. \A a : Journald!Earlier(a, Journald!Place(t))' <=> Journald!Earlier(a, << 1, 0 >>)
      BY <1>17 DEF Journald!Earlier
    <3> QED
      BY <1>13, <1>15, <3>1, <3>2, <3>3 DEF Unchanged, F
  <2>6. f.asked.message = message'[e]
    BY <1>2, <1>13, <2>1
  <2> QED
    BY <1>13, <1>15, <2>4, <2>5, <2>6 DEF RecordOf
<1> QED
  BY <1>3, <1>15, <1>19, <1>20, <1>21, <1>22, <1>23, <1>24, <1>25, ActsInv DEF CallOf

LEMMA LoadMessageInv ==
  ASSUME JournalInv, NEW t \in Threads, Journald!load_message(t)
  PROVE  JournalInv'
<1>1. PICK e \in JournalEntries : e = sending[t].entry
  BY DEF JournalInv, JournalTyped, SendingTyped, Journald!load_message
<1>2. PICK length : length = message[e] + Journald!MESSAGE_PREFIX_SIZE
  OBVIOUS
<1>3. PICK facility : facility = Journald!load_facility(Facility[e])
  OBVIOUS
<1>4. /\ sending[t].step = "write" /\ Journald!At(t) = NULL
      /\ local' = IF length > local[t].message
                  THEN [local EXCEPT ![t].message = length, ![t].base = length] ELSE local
      /\ holder' = [holder EXCEPT ![e] = NULL]
      /\ sending' = [sending EXCEPT ![t].step = "send", ![t].message = message[e], ![t].facility = facility]
      /\ UNCHANGED << elements, params, value, message >>
  BY <1>1, <1>2, <1>3 DEF Journald!load_message
<1>5. /\ JournalTyped /\ TreeTyped /\ SendingTyped(sending[t]) /\ local[t] \in BufferTypes /\ CallOf(t) /\ InPasses(t)
      /\ local \in [Threads -> BufferTypes] /\ holder \in [JournalObjects -> Threads \cup {NULL}]
      /\ t # NULL /\ e \in JournalObjects
  BY <1>4, JournalAssumption DEF JournalInv, JournalTyped, InPasses, JournalObjects
<1>6. length \in Nat
  BY <1>2, <1>5 DEF TreeTyped, Journald!MESSAGE_PREFIX_SIZE
<1>7. PICK b \in BufferTypes : /\ local' = [local EXCEPT ![t] = b]
                               /\ b.fields = local[t].fields /\ b.fixed = local[t].fixed /\ b.bases = local[t].bases
                               /\ b.sd = local[t].sd /\ b.base = b.message
  <2> DEFINE l == local[t]
  <2>1. CASE length > l.message
    <3>1. PICK b : b = [l EXCEPT !.message = length, !.base = length]
      OBVIOUS
    <3>2. local' = [local EXCEPT ![t].message = length, ![t].base = length]
      BY <1>4, <2>1
    <3>3. local' = [local EXCEPT ![t] = b]
      BY <1>5, <3>1, <3>2
    <3>4. b = [fields |-> l.fields, fixed |-> l.fixed, bases |-> l.bases, message |-> length, base |-> length,
               sd |-> l.sd]
      BY <1>5, <3>1 DEF BufferTypes
    <3>5. b \in BufferTypes
      BY <1>5, <1>6, <3>4 DEF BufferTypes
    <3> QED
      BY <3>3, <3>4, <3>5
  <2>2. CASE ~(length > l.message)
    <3>1. local' = [local EXCEPT ![t] = l]
      BY <1>4, <1>5, <2>2
    <3>2. l.base = l.message
      BY <1>5 DEF CallOf, BuffersOf
    <3> QED
      BY <1>5, <3>1, <3>2
  <2> QED
    BY <2>1, <2>2
<1>8. PICK f : f = [sending[t] EXCEPT !.step = "send", !.message = message[e], !.facility = facility]
  OBVIOUS
<1>9. /\ SendingTyped(f) /\ f.step = "send" /\ f.entry = e /\ f.message = message[e] /\ f.facility = facility
      /\ f.record = sending[t].record /\ f.asked = sending[t].asked /\ f.pos = sending[t].pos
      /\ f.offset = sending[t].offset
  <2> DEFINE g == sending[t]
  <2>1. f = [step |-> "send", entry |-> g.entry, i |-> g.i, j |-> g.j, count |-> g.count, needed |-> g.needed,
             pos |-> g.pos, offset |-> g.offset, record |-> g.record, message |-> message[e],
             facility |-> facility, asked |-> g.asked]
    BY <1>5, <1>8 DEF SendingTyped
  <2> HIDE DEF g
  <2> QED
    BY <1>1, <1>4, <1>5, <2>1 DEF SendingTyped, JournalSteps, g
<1>10. \A o \in JournalObjects : holder[o] = t <=> o = e
  BY <1>1, <1>4, <1>5, NothingAhead DEF CallOf
<1>11. Acts(t, f, b)
  <2>1. sending' = [sending EXCEPT ![t] = f]
    BY <1>4, <1>5, <1>8 DEF JournalTyped
  <2> QED
    BY <1>4, <1>5, <1>7, <1>10, <2>1 DEF Acts
<1>12. /\ JournalTyped' /\ sending'[t] = f /\ local'[t] = b /\ \A u \in Threads \ {t} : OthersAct(u)
  BY <1>9, <1>11, ActsKeeps
<1>13. HeldOf(t)' /\ DistinctOf(t)' /\ AtOf(t)'
  <2>1. ~InPasses(t)'
    BY <1>9, <1>12 DEF InPasses
  <2>2. \A o \in JournalObjects : holder'[o] # t
    BY <1>4, <1>5, <1>10
  <2> QED
    BY <2>1, <2>2 DEF HeldOf, Kept, DistinctOf, AtOf
<1>14. SpaceOf(t)'
  <2>1. sending[t].pos <= local[t].sd
    BY <1>4, <1>5 DEF CallOf, SpaceOf, SpaceLeft
  <2> QED
    BY <1>7, <1>9, <1>12, <2>1 DEF SpaceOf
<1>15. Journald!Place(t) = Behind(e) /\ Ahead(t) = {}
  <2>1. AtOf(t) /\ HeldOf(t) /\ JournalTyped
    BY <1>5 DEF CallOf
  <2>2. Journald!Place(t) = Behind(e)
    BY <1>1, <1>4, <1>5, <2>1, AtIs
  <2>3. Mine(t) = {}
    BY <1>4, <2>1, NothingAhead
  <2> QED
    BY <1>4, <2>1, <2>2, <2>3, AheadIsMine
<1>16. CountOf(t)'
  <2>1. PICK n \in [Nat -> Nat] : FieldsLeft(n, t)
    BY <1>4, <1>5 DEF CallOf, CountOf
  <2>2. sending[t].i \in Nat /\ sending[t].j = 0
    BY <1>5, <1>15 DEF SendingTyped, Journald!Place, Behind
  <2>3. sending[t].offset <= local[t].fields
    BY <2>1, <2>2 DEF FieldsLeft
  <2> QED
    BY <1>7, <1>9, <1>12, <2>3 DEF CountOf
<1>17. BuffersOf(t)'
  BY <1>4, <1>5, <1>7, <1>9, <1>12 DEF BuffersOf, CallOf
<1>18. RecordOf(t)'
  <2>1. Recorded(sending[t], Behind(e)) /\ Unchanged(t) /\ sending[t].asked.message = message[e]
    BY <1>1, <1>4, <1>5, <1>15 DEF CallOf, RecordOf
  <2>2. Recorded(f, Behind(e))
    BY <1>9, <2>1 DEF Recorded
  <2>3. \A a \in DOMAIN f.asked.fields : Journald!Earlier(a, Behind(e))
    BY <1>9, <1>15, <2>1 DEF Unchanged
  <2>4. PICK p \in Nat \X Nat : p = Behind(e)
    <3>1. Len(elements[e]) \in Nat
      BY <1>5 DEF TreeTyped
    <3>2. Len(elements[e]) + 1 \in Nat
      BY <3>1
    <3>3. Behind(e) \in Nat \X Nat
      BY <3>2 DEF Behind
    <3> QED
      BY <3>3
  <2>5. f.message = f.asked.message /\ f.facility = Journald!load_facility(Facility[f.entry])
    BY <1>3, <1>9, <2>1
  <2>6. RecordSent(f)
    BY <2>2, <2>3, <2>4, <2>5 DEF RecordSent
  <2>7. RecordSent(sending[t])'
    BY <1>12, <2>6 DEF RecordSent, Recorded, Journald!Earlier, Journald!load_facility
  <2> QED
    BY <1>9, <1>12, <2>7 DEF RecordOf
<1> QED
  BY <1>5, <1>12, <1>13, <1>14, <1>16, <1>17, <1>18, ActsInv DEF CallOf

\* What is given back after a field, and the places that are kept then.
GivenBack(t) ==
  (IF sending[t].j = 0 THEN {} ELSE {Journald!Param(t)}) \cup
  (IF sending[t].j = Len(params[Journald!Element(t)]) THEN {Journald!Element(t)} ELSE {})

KeptFrom(e, q) == {a \in Journald!Places(e) : ~Journald!Earlier(a, q) \/ a = << q[1], 0 >>}

From(e, q) == {a \in Journald!Places(e) : ~Journald!Earlier(a, q)}

FieldAt(e, p) == [place |-> p, object |-> Journald!ObjectAt(e, p), value |-> Journald!ValueAt(e, p)]

InBounds(t, e, i, j, size, total) ==
  /\ i = sending[t].i /\ j = sending[t].j /\ size = Len(ParamsAt(e, i)) /\ total = Len(elements[e])
  /\ i \in 1..total /\ j <= size

LEMMA LoopBounds ==
  ASSUME JournalTyped, NEW t \in Threads, AtOf(t), InPasses(t), Journald!At(t) # NULL,
         NEW e, e = sending[t].entry
  PROVE  \E i \in Nat \ {0}, j \in Nat, size \in Nat, total \in Nat :
           InBounds(t, e, i, j, size, total)
<1>1. TreeTyped
  BY DEF JournalTyped
<1>2. PICK p \in Journald!Places(e) : e \in JournalEntries /\ p = << sending[t].i, sending[t].j >>
  BY PlaceNamed
<1>3. p[1] = sending[t].i /\ p[2] = sending[t].j
  BY <1>2
<1>4. p[1] \in 1..Len(elements[e]) /\ p[2] \in 0..Len(ParamsAt(e, p[1])) /\ elements[e][p[1]] \in Elements
  BY <1>1, <1>2, PlaceIs
<1>5. Len(ParamsAt(e, p[1])) \in Nat
  BY <1>1, <1>4 DEF TreeTyped, ParamsAt
<1>6. Len(elements[e]) \in Nat
  BY <1>1, <1>2 DEF TreeTyped
<1>7. sending[t].i \in Nat \ {0} /\ sending[t].j \in Nat
  BY LoopsAt
<1> QED
  BY <1>3, <1>4, <1>5, <1>6, <1>7 DEF InBounds

\* One field more, of the same element or of the next one.
LEMMA OffsetMoves ==
  ASSUME NEW n \in [Nat -> Nat], NEW i \in Nat, NEW j \in Nat, NEW size \in Nat, NEW offset \in Nat,
         NEW limit \in Nat, offset = n[i] + j, n[i + 1] = n[i] + 1 + size, n[i + 1] <= limit,
         NEW k \in Nat, NEW l \in Nat,
         (k = i /\ l = j + 1) \/ (k = i + 1 /\ l = 0 /\ j = size)
  PROVE  offset + 1 = n[k] + l /\ n[k] <= limit /\ k >= i
<1>1. PICK x \in Nat, z \in Nat : x = n[i] /\ z = n[i + 1]
  OBVIOUS
<1>2. CASE k = i /\ l = j + 1
  BY <1>1, <1>2
<1>3. CASE k = i + 1 /\ l = 0 /\ j = size
  BY <1>1, <1>3
<1> QED
  BY <1>2, <1>3

LEMMA GoneFromMine ==
  ASSUME JournalTyped, NEW t \in Threads, AtOf(t), DistinctOf(t), sending[t].step = "write", Journald!At(t) # NULL,
         NEW e, e = sending[t].entry, NEW p, p = Journald!Place(t), NEW q, q = Following(e, p),
         NEW back, back = GivenBack(t),
         NEW M, M = KeptFrom(e, q)
  PROVE  /\ M \subseteq Mine(t) /\ back \subseteq Elements \cup Params
         /\ \A a \in Mine(t) : a \in M <=> Journald!ObjectAt(e, a) \notin back
         /\ \A o \in back : \E a \in Mine(t) : o = Journald!ObjectAt(e, a)
<1>0. \A a : a \in M <=> a \in Journald!Places(e) /\ (~Journald!Earlier(a, q) \/ a = << q[1], 0 >>)
  BY DEF KeptFrom
<1>1. InPasses(t) /\ TreeTyped
  BY DEF InPasses, JournalTyped
<1>2. /\ e \in JournalEntries /\ p \in Journald!Places(e) /\ p = << sending[t].i, sending[t].j >>
      /\ Journald!Element(t) = elements[e][sending[t].i] /\ params[Journald!Element(t)] = ParamsAt(e, sending[t].i)
      /\ sending[t].j # 0 => Journald!Param(t) = Journald!ObjectAt(e, p)
  BY <1>1, PlaceNamed
<1>3. PICK i \in Nat \ {0}, j \in Nat, size \in Nat, total \in Nat :
        /\ i = sending[t].i /\ j = sending[t].j /\ size = Len(ParamsAt(e, i)) /\ total = Len(elements[e])
        /\ i \in 1..total /\ j <= size
  BY <1>1, LoopBounds DEF InBounds
<1>4. p = << i, j >> /\ p[1] = i /\ p[2] = j
  BY <1>2, <1>3
<1>5. PICK r \in Journald!Places(e) : r = << i, 0 >> /\ Journald!ObjectAt(e, r) = Journald!Element(t)
  <2>1. 0 \in 0..Len(ParamsAt(e, i))
    BY <1>3
  <2>2. << i, 0 >> \in Journald!Places(e)
    BY <1>1, <1>2, <1>3, <2>1, PlaceOf
  <2>3. Journald!ObjectAt(e, << i, 0 >>) = elements[e][i]
    BY DEF Journald!ObjectAt
  <2> QED
    BY <1>2, <1>3, <2>2, <2>3
<1>6. \A a \in Journald!Places(e) : a \in Mine(t) <=> ~Journald!Earlier(a, p) \/ a = r
  BY <1>3, <1>5 DEF Mine, IsMine
<1>7. p \in Mine(t) /\ r \in Mine(t)
  <2>1. ~Journald!Earlier(p, p)
    BY <1>1, <1>2, PlacesOrdered
  <2> QED
    BY <1>2, <1>5, <1>6, <2>1
<1>8. \A a \in Journald!Places(e) : Journald!Earlier(a, q) <=> Journald!Earlier(a, p) \/ a = p
  BY <1>1, <1>2, FollowingIs
<1>9. \A a \in Journald!Places(e) : a \in Mine(t) =>
        Journald!ObjectAt(e, a) \in Elements \cup Params /\
        \A b \in Mine(t) : Journald!ObjectAt(e, a) = Journald!ObjectAt(e, b) => a = b
  BY <1>1, <1>2, ObjectIs DEF DistinctOf
<1>10. CASE j = size
  <2>1. q = << i + 1, 0 >> /\ q[1] = i + 1
    BY <1>3, <1>4, <1>10 DEF Following
  <2>2. ASSUME NEW a \in Journald!Places(e)
        PROVE  a \in M <=> a \in Mine(t) /\ a # p /\ a # r
    <3>1. a[1] \in Nat /\ a[2] \in Nat /\ a = << a[1], a[2] >>
      BY <1>1, <1>2, PlaceIs
    <3>2. a = << i + 1, 0 >> => ~Journald!Earlier(a, q)
      BY <2>1, <3>1 DEF Journald!Earlier
    <3>3. a \in M <=> ~Journald!Earlier(a, q)
      BY <1>0, <2>1, <3>2
    <3>4. Journald!Earlier(r, q)
      BY <1>5, <2>1 DEF Journald!Earlier
    <3> QED
      BY <1>6, <1>8, <3>3, <3>4
  <2>3. back = (IF j = 0 THEN {} ELSE {Journald!ObjectAt(e, p)}) \cup {Journald!ObjectAt(e, r)}
    BY <1>2, <1>3, <1>5, <1>10 DEF GivenBack
  <2>4. j = 0 => p = r
    BY <1>4, <1>5
  <2>5. \A a \in Mine(t) : Journald!ObjectAt(e, a) \notin back <=> a # p /\ a # r
    BY <1>2, <1>5, <1>7, <1>9, <2>3, <2>4 DEF Mine
  <2>6. M \subseteq Mine(t) /\ \A a \in Mine(t) : a \in M <=> Journald!ObjectAt(e, a) \notin back
    BY <1>0, <2>2, <2>5 DEF Mine
  <2> QED
    BY <1>2, <1>5, <1>7, <1>9, <2>3, <2>6
<1>11. CASE j # size
  <2>1. q = << i, j + 1 >> /\ q[1] = i
    BY <1>3, <1>4, <1>11 DEF Following
  <2>2. ASSUME NEW a \in Journald!Places(e)
        PROVE  a \in M <=> a \in Mine(t) /\ (a # p \/ p = r)
    BY <1>0, <1>5, <1>6, <1>8, <2>1
  <2>3. back = IF j = 0 THEN {} ELSE {Journald!ObjectAt(e, p)}
    BY <1>2, <1>3, <1>11 DEF GivenBack
  <2>4. j = 0 <=> p = r
    BY <1>4, <1>5
  <2>5. \A a \in Mine(t) : Journald!ObjectAt(e, a) \notin back <=> a # p \/ p = r
    BY <1>2, <1>7, <1>9, <2>3, <2>4 DEF Mine
  <2>6. M \subseteq Mine(t) /\ \A a \in Mine(t) : a \in M <=> Journald!ObjectAt(e, a) \notin back
    BY <1>0, <2>2, <2>5 DEF Mine
  <2> QED
    BY <1>2, <1>7, <1>9, <2>3, <2>6
<1> QED
  BY <1>10, <1>11

\* A field is added to the record.
LEMMA RecordedIs ==
  ASSUME JournalTyped, NEW t \in Threads, AtOf(t), sending[t].step = "write", Journald!At(t) # NULL, RecordOf(t),
         NEW e, e = sending[t].entry, NEW p, p = Journald!Place(t), NEW q, q = Following(e, p),
         NEW field, field = FieldAt(e, p),
         NEW f, f.record = Append(sending[t].record, field), f.asked = sending[t].asked
  PROVE  /\ Recorded(f, q) /\ field \in RecordFields
         /\ {a \in DOMAIN f.asked.fields : ~Journald!Earlier(a, q)} = From(e, q)
         /\ From(e, q) \subseteq Ahead(t)
<1>1. InPasses(t) /\ TreeTyped /\ sending[t].record \in Seq(RecordFields)
  BY DEF InPasses, JournalTyped, SendingTyped
<1>2. e \in JournalEntries /\ p \in Journald!Places(e) /\ p \in Nat \X Nat /\ p = << p[1], p[2] >>
  BY <1>1, PlaceNamed, PlaceIs
<1>3. field \in RecordFields
  BY <1>1, <1>2, ObjectIs DEF RecordFields, FieldAt
<1>20. field.place = p /\ field = [place |-> p, object |-> Journald!ObjectAt(e, p), value |-> Journald!ValueAt(e, p)]
  BY DEF FieldAt
<1> DEFINE F == f.asked.fields
           old == sending[t].record
           new == f.record
<1>4. /\ Recorded(sending[t], p) /\ {a \in DOMAIN F : ~Journald!Earlier(a, p)} = Ahead(t)
      /\ \A a \in Ahead(t) : F[a].object = Journald!ObjectAt(e, a) /\ F[a].value = Journald!ValueAt(e, a)
  BY DEF RecordOf, Unchanged
<1>5. /\ DOMAIN F \subseteq Nat \X Nat
      /\ \A k, l \in DOMAIN old : k < l => Journald!Earlier(old[k].place, old[l].place)
      /\ \A k \in DOMAIN old : old[k].place \in DOMAIN F /\ Journald!Earlier(old[k].place, p)
      /\ \A a \in DOMAIN F : Journald!Earlier(a, p) =>
           \E k \in DOMAIN old : old[k] = [place |-> a, object |-> F[a].object, value |-> F[a].value]
  BY <1>4 DEF Recorded
<1>6. PICK len \in Nat : /\ len = Len(old) /\ DOMAIN old = 1..len /\ DOMAIN new = 1..(len + 1)
                         /\ new[len + 1] = field /\ \A k \in 1..len : new[k] = old[k]
  <2>1. PICK len \in Nat : len = Len(old)
    BY <1>1
  <2>2. DOMAIN old = 1..len
    BY <1>1, <2>1
  <2>3. new = Append(old, field)
    OBVIOUS
  <2>4. /\ new \in Seq(RecordFields) /\ Len(new) = len + 1 /\ new[len + 1] = field
        /\ \A k \in 1..len : new[k] = old[k]
    BY <1>1, <1>3, <2>1, <2>3, AppendProperties
  <2>5. DOMAIN new = 1..(len + 1)
    BY <2>4
  <2> QED
    BY <2>1, <2>2, <2>4, <2>5
<1>7. p \in Ahead(t) /\ p \in DOMAIN F
  <2>1. ~Journald!Earlier(p, p)
    BY <1>1, <1>2, PlacesOrdered
  <2> QED
    BY <1>2, <1>4, <2>1 DEF Ahead
<1>8. Journald!Earlier(p, q) /\ \A a \in Journald!Places(e) : Journald!Earlier(a, q) <=> Journald!Earlier(a, p) \/ a = p
  BY <1>1, <1>2, FollowingIs
<1>9. q \in Nat \X Nat
  BY <1>2 DEF Following
<1>10. ASSUME NEW a \in Nat \X Nat, Journald!Earlier(a, p)
       PROVE  Journald!Earlier(a, q)
  BY <1>2, <1>8, <1>9, <1>10 DEF Journald!Earlier
<1>11. Ahead(t) = {a \in Journald!Places(e) : ~Journald!Earlier(a, p)}
  BY DEF Ahead
<1>12. {a \in Journald!Places(e) : ~Journald!Earlier(a, q)} \subseteq Ahead(t)
  BY <1>8, <1>11
<1>13. {a \in DOMAIN F : ~Journald!Earlier(a, q)} = {a \in Journald!Places(e) : ~Journald!Earlier(a, q)}
  <2>1. ASSUME NEW a \in DOMAIN F, ~Journald!Earlier(a, q)
        PROVE  a \in Journald!Places(e)
    <3>1. ~Journald!Earlier(a, p)
      BY <1>5, <1>10, <2>1
    <3> QED
      BY <1>4, <1>11, <3>1
  <2>2. ASSUME NEW a \in Journald!Places(e), ~Journald!Earlier(a, q)
        PROVE  a \in DOMAIN F
    BY <1>4, <1>12, <2>2
  <2> QED
    BY <2>1, <2>2
<1>14. \A k, l \in DOMAIN new : k < l => Journald!Earlier(new[k].place, new[l].place)
  <2> SUFFICES ASSUME NEW k \in 1..(len + 1), NEW l \in 1..(len + 1), k < l
               PROVE  Journald!Earlier(new[k].place, new[l].place)
    BY <1>6
  <2>1. k \in 1..len
    OBVIOUS
  <2>2. CASE l \in 1..len
    BY <1>5, <1>6, <2>1, <2>2
  <2>3. CASE l \notin 1..len
    <3>1. l = len + 1
      BY <2>3
    <3>2. new[l].place = p
      BY <1>6, <1>20, <3>1
    <3>3. new[k] = old[k] /\ k \in DOMAIN old
      BY <1>6, <2>1
    <3> QED
      BY <1>5, <3>2, <3>3
  <2> QED
    BY <2>2, <2>3
<1>15. ASSUME NEW k \in DOMAIN new
       PROVE  new[k].place \in DOMAIN F /\ Journald!Earlier(new[k].place, q)
  <2>1. CASE k \in 1..len
    <3>1. old[k].place \in DOMAIN F /\ Journald!Earlier(old[k].place, p) /\ new[k] = old[k]
      BY <1>5, <1>6, <2>1
    <3> QED
      BY <1>5, <1>10, <3>1
  <2>2. CASE k \notin 1..len
    <3>1. k = len + 1
      BY <1>6, <1>15, <2>2
    <3>2. new[k].place = p
      BY <1>6, <1>20, <3>1
    <3> QED
      BY <1>7, <1>8, <3>2
  <2> QED
    BY <2>1, <2>2
<1>16. ASSUME NEW a \in DOMAIN F, Journald!Earlier(a, q)
       PROVE  \E k \in DOMAIN new : new[k] = [place |-> a, object |-> F[a].object, value |-> F[a].value]
  <2>1. CASE Journald!Earlier(a, p)
    <3>1. PICK k \in DOMAIN old : old[k] = [place |-> a, object |-> F[a].object, value |-> F[a].value]
      BY <1>5, <2>1
    <3>2. k \in DOMAIN new /\ new[k] = old[k]
      BY <1>6
    <3> QED
      BY <3>1, <3>2
  <2>2. CASE ~Journald!Earlier(a, p)
    <3>1. a \in Ahead(t)
      BY <1>4, <2>2
    <3>2. a = p
      BY <1>8, <1>11, <1>16, <2>2, <3>1
    <3>3. field = [place |-> a, object |-> F[a].object, value |-> F[a].value]
      BY <1>4, <1>20, <3>1, <3>2
    <3>4. len + 1 \in DOMAIN new
      BY <1>6
    <3> QED
      BY <1>6, <3>3, <3>4
  <2> QED
    BY <2>1, <2>2
<1>17. Recorded(f, q)
  BY <1>5, <1>14, <1>15, <1>16 DEF Recorded
<1> QED
  BY <1>3, <1>12, <1>13, <1>17 DEF From

LEMMA WriteFieldInv ==
  ASSUME JournalInv, NEW t \in Threads, Journald!WriteField(t)
  PROVE  JournalInv'
<1> DEFINE field == [place |-> Journald!Place(t), object |-> Journald!At(t),
                     value |-> Journald!ValueAt(sending[t].entry, Journald!Place(t))]
<1>1. PICK e \in JournalEntries : e = sending[t].entry
  BY DEF JournalInv, JournalTyped, SendingTyped, Journald!WriteField
<1>2. PICK back : back = GivenBack(t)
  OBVIOUS
<1>3. /\ sending[t].step = "write" /\ Journald!At(t) # NULL
      /\ holder' = [o \in DOMAIN holder |-> IF o \in back THEN NULL ELSE holder[o]]
      /\ sending' = [sending EXCEPT ![t] = Journald!Advance(t,
           [sending[t] EXCEPT !.pos = sending[t].pos + Len(Journald!FieldName(t)) + 1 + field.value,
                              !.offset = sending[t].offset + 1, !.record = Append(sending[t].record, field)])]
      /\ UNCHANGED << elements, params, value, message, local >>
  BY <1>2 DEF Journald!WriteField, GivenBack
<1>4. /\ JournalTyped /\ TreeTyped /\ SendingTyped(sending[t]) /\ local[t] \in BufferTypes /\ t # NULL
      /\ CallOf(t) /\ holder \in [JournalObjects -> Threads \cup {NULL}] /\ InPasses(t)
      /\ AtOf(t) /\ DistinctOf(t) /\ RecordOf(t) /\ HeldOf(t)
  BY <1>3, JournalAssumption DEF JournalInv, JournalTyped, InPasses, CallOf
<1>5. PICK p \in Journald!Places(e) :
        /\ p = Journald!Place(t) /\ p = << sending[t].i, sending[t].j >> /\ Journald!At(t) = Journald!ObjectAt(e, p)
        /\ Journald!FieldName(t) = NameAt(e, p)
  BY <1>1, <1>3, <1>4, PlaceNamed
<1>6. PICK q : q = Following(e, p)
  OBVIOUS
<1>7. PICK y : y = FieldAt(e, p)
  OBVIOUS
<1>8. field = y /\ y.value = Journald!ValueAt(e, p)
  BY <1>1, <1>5, <1>7 DEF FieldAt
<1>9. /\ SizeAt(e, p) \in Nat /\ Len(NameAt(e, p)) + 1 + y.value = SizeAt(e, p)
      /\ Len(NameAt(e, p)) \in Nat /\ y.value \in Nat
  BY <1>4, <1>8, NameAtIs, ObjectIs DEF SizeAt
<1>10. PICK pos \in Nat : pos = sending[t].pos + SizeAt(e, p)
  BY <1>4, <1>9 DEF SendingTyped
<1>11. PICK offset \in Nat : offset = sending[t].offset + 1
  BY <1>4 DEF SendingTyped
<1>12. PICK record : record = Append(sending[t].record, y)
  OBVIOUS
<1> HIDE DEF field
<1>13. PICK g : g = [sending[t] EXCEPT !.pos = pos, !.offset = offset, !.record = record]
  OBVIOUS
<1>14. y \in RecordFields
  BY <1>4, <1>5, <1>7, PlaceIs, ObjectIs DEF RecordFields, FieldAt
<1>15. /\ SendingTyped(g) /\ g.step = "write" /\ g.entry = e /\ g.i = sending[t].i /\ g.j = sending[t].j
       /\ g.pos = pos /\ g.offset = offset /\ g.record = record /\ g.asked = sending[t].asked
  <2> DEFINE h == sending[t]
  <2>1. g = [step |-> h.step, entry |-> h.entry, i |-> h.i, j |-> h.j, count |-> h.count, needed |-> h.needed,
             pos |-> pos, offset |-> offset, record |-> record, message |-> h.message,
             facility |-> h.facility, asked |-> h.asked]
    BY <1>4, <1>13 DEF SendingTyped
  <2>2. h.record \in Seq(RecordFields)
    BY <1>4 DEF SendingTyped
  <2>3. record \in Seq(RecordFields)
    BY <1>12, <1>14, <2>2, AppendProperties
  <2> HIDE DEF h
  <2> QED
    BY <1>1, <1>3, <1>4, <2>1, <2>3 DEF SendingTyped, JournalSteps, h
<1>16. PICK f : f = Journald!Advance(t, g)
  OBVIOUS
<1>17. /\ SendingTyped(f) /\ q = << f.i, f.j >>
       /\ f = [step |-> g.step, entry |-> g.entry, i |-> f.i, j |-> f.j, count |-> g.count, needed |-> g.needed,
               pos |-> g.pos, offset |-> g.offset, record |-> g.record, message |-> g.message,
               facility |-> g.facility, asked |-> g.asked]
  <2>1. q = Following(e, Journald!Place(t)) /\ g.step = sending[t].step
    BY <1>3, <1>5, <1>6, <1>15
  <2> QED
    BY <1>1, <1>3, <1>4, <1>15, <1>16, <2>1, AdvanceIs
<1>18. /\ f.step = "write" /\ f.entry = e /\ f.pos = pos /\ f.offset = offset /\ f.record = record
       /\ f.asked = sending[t].asked /\ f.i \in Nat \ {0} /\ f.j \in Nat
  BY <1>15, <1>17 DEF SendingTyped
<1>19. sending' = [sending EXCEPT ![t] = f]
  <2>1. sending[t].pos + Len(Journald!FieldName(t)) + 1 + field.value = pos
    <3>1. PICK a \in Nat, b \in Nat, c \in Nat : a = sending[t].pos /\ b = Len(NameAt(e, p)) /\ c = y.value
      BY <1>4, <1>9 DEF SendingTyped
    <3>2. b + 1 + c = SizeAt(e, p) /\ pos = a + SizeAt(e, p)
      BY <1>9, <1>10, <3>1
    <3>3. a + b + 1 + c = pos
      BY <1>9, <3>2
    <3> QED
      BY <1>5, <1>8, <3>1, <3>3
  <2>2. sending' = [sending EXCEPT ![t] = Journald!Advance(t, g)]
    BY <1>3, <1>8, <1>11, <1>12, <1>13, <2>1
  <2> QED
    BY <1>16, <2>2
<1>20. PICK M : M = KeptFrom(e, q)
  OBVIOUS
<1>21. /\ M \subseteq Mine(t) /\ back \subseteq Elements \cup Params
       /\ \A a \in Mine(t) : a \in M <=> Journald!ObjectAt(e, a) \notin back
       /\ \A o \in back : \E a \in Mine(t) : o = Journald!ObjectAt(e, a)
  <2>1. sending[t].step = "write" /\ Journald!At(t) # NULL
    BY <1>3
  <2>2. JournalTyped /\ AtOf(t) /\ DistinctOf(t)
    BY <1>4
  <2>3. e = sending[t].entry /\ p = Journald!Place(t) /\ q = Following(e, p) /\ back = GivenBack(t) /\ M = KeptFrom(e, q)
    BY <1>1, <1>2, <1>5, <1>6, <1>20
  <2> QED
    BY <2>1, <2>2, <2>3, GoneFromMine
<1>22. \A o \in JournalObjects : holder[o] = t <=> o = e \/ \E a \in Mine(t) : o = Journald!ObjectAt(e, a)
  BY <1>1, <1>4 DEF HeldOf, Kept
<1>23. Acts(t, f, local[t])
  <2>1. local' = [local EXCEPT ![t] = local[t]]
    BY <1>3, <1>4 DEF JournalTyped
  <2>2. \A o \in back : o \in JournalObjects /\ holder[o] = t
    BY <1>21, <1>22 DEF JournalObjects
  <2> QED
    BY <1>3, <1>4, <1>19, <2>1, <2>2 DEF Acts
<1>24. /\ JournalTyped' /\ sending'[t] = f /\ local'[t] = local[t] /\ \A u \in Threads \ {t} : OthersAct(u)
  BY <1>4, <1>17, <1>23, ActsKeeps
<1>25. /\ InPasses(t)' /\ Journald!Place(t)' = q /\ Mine(t)' = M
       /\ Ahead(t)' = {a \in Journald!Places(e) : ~Journald!Earlier(a, q)}
  <2>1. f.step \in {"measure", "write"} /\ f.entry = e /\ UNCHANGED << elements, params, value, message >>
        /\ q[1] = f.i
    BY <1>3, <1>17, <1>18
  <2>2. /\ InPasses(t)' /\ Journald!Place(t)' = q
        /\ f.step = "write" => Mine(t)' = {a \in Journald!Places(e) : ~Journald!Earlier(a, q) \/ a = << f.i, 0 >>}
        /\ Ahead(t)' = {a \in Journald!Places(e) : ~Journald!Earlier(a, q)}
    BY <1>17, <1>24, <2>1, NextCall
  <2> QED
    BY <1>18, <1>20, <2>1, <2>2 DEF KeptFrom
<1>26. /\ Journald!Places(e)' = Journald!Places(e) /\ Behind(e)' = Behind(e)
       /\ \A a : /\ Journald!ObjectAt(e, a)' = Journald!ObjectAt(e, a)
                 /\ Journald!ValueAt(e, a)' = Journald!ValueAt(e, a)
                 /\ SizeAt(e, a)' = SizeAt(e, a) /\ Following(e, a)' = Following(e, a)
       /\ \A i : ParamsAt(e, i)' = ParamsAt(e, i)
  BY <1>3, TreeSame
<1>27. HeldOf(t)'
  <2>1. \A o : Kept(t, o)' <=> o = e \/ \E a \in M : o = Journald!ObjectAt(e, a)
    <3>1. \A o : Kept(t, o)' <=> InPasses(t)' /\ (o = e \/ \E a \in Mine(t)' : o = Journald!ObjectAt(e, a)')
      BY <1>18, <1>24 DEF Kept
    <3> QED
      BY <1>25, <1>26, <3>1
  <2>2. e \notin back
    BY <1>21, JournalAssumption
  <2>3. ASSUME NEW o \in JournalObjects
        PROVE  holder'[o] = t <=> o = e \/ \E a \in M : o = Journald!ObjectAt(e, a)
    <3>1. holder'[o] = t <=> o \notin back /\ holder[o] = t
      BY <1>3, <1>4
    <3> QED
      BY <1>21, <1>22, <2>2, <3>1
  <2> QED
    BY <2>1, <2>3 DEF HeldOf
<1>28. DistinctOf(t)'
  <2>1. \A a, b \in Mine(t) : Journald!ObjectAt(e, a) = Journald!ObjectAt(e, b) => a = b
    BY <1>1, <1>4 DEF DistinctOf
  <2>2. DistinctOf(t)' <=> (InPasses(t)' => \A a, b \in Mine(t)' :
          Journald!ObjectAt(e, a)' = Journald!ObjectAt(e, b)' => a = b)
    BY <1>18, <1>24 DEF DistinctOf
  <2>3. \A a, b \in M : Journald!ObjectAt(e, a) = Journald!ObjectAt(e, b) => a = b
    BY <1>21, <2>1
  <2> QED
    BY <1>25, <1>26, <2>2, <2>3
<1>29. AtOf(t)'
  <2>1. q \in Journald!Places(e) \cup {Behind(e)}
    BY <1>4, <1>6, FollowingIs
  <2>2. AtOf(t)' <=> (InPasses(t)' => Journald!Place(t)' \in Journald!Places(e)' \cup {Behind(e)'})
    BY <1>18, <1>24 DEF AtOf
  <2> QED
    BY <1>25, <1>26, <2>1, <2>2
<1>30. /\ Recorded(f, q)
       /\ {a \in DOMAIN f.asked.fields : ~Journald!Earlier(a, q)} = Ahead(t)'
       /\ Ahead(t)' \subseteq Ahead(t)
  <2>1. f.record = Append(sending[t].record, y)
    BY <1>12, <1>18
  <2>2. sending[t].step = "write" /\ Journald!At(t) # NULL /\ p = Journald!Place(t) /\ f.asked = sending[t].asked
    BY <1>3, <1>5, <1>18
  <2>3. /\ Recorded(f, q) /\ {a \in DOMAIN f.asked.fields : ~Journald!Earlier(a, q)} = From(e, q)
        /\ From(e, q) \subseteq Ahead(t)
    BY <1>1, <1>4, <1>6, <1>7, <2>1, <2>2, RecordedIs
  <2>4. Ahead(t)' = From(e, q)
    BY <1>25 DEF From
  <2> QED
    BY <2>3, <2>4
<1>31. SpaceOf(t)'
  <2>1. PICK m \in Spaces : SpaceLeft(m, t)
    BY <1>3, <1>4 DEF CallOf, SpaceOf
  <2>2. /\ m[p] = sending[t].pos
        /\ \A a \in Ahead(t) : m[Following(e, a)] = m[a] + SizeAt(e, a) /\ m[Following(e, a)] <= local[t].sd
    BY <1>1, <1>5, <2>1 DEF SpaceLeft, AddsUp
  <2>3. p \in Ahead(t)
    BY <1>1, <1>4, <1>5, PlacesOrdered DEF Ahead
  <2>4. m[q] = pos /\ pos <= local[t].sd
    BY <1>6, <1>10, <2>2, <2>3
  <2>5. AddsUp(m, sending[t].entry, Ahead(t), local[t].sd)'
    BY <1>18, <1>24, <1>26, <1>30, <2>2 DEF AddsUp
  <2>6. SpaceLeft(m, t)'
    BY <1>18, <1>24, <1>25, <2>4, <2>5 DEF SpaceLeft
  <2> QED
    BY <1>18, <1>24, <2>6 DEF SpaceOf
<1>32. CountOf(t)'
  <2>1. PICK n \in [Nat -> Nat] : FieldsLeft(n, t)
    BY <1>3, <1>4 DEF CallOf, CountOf
  <2>2. PICK i \in Nat \ {0}, j \in Nat, size \in Nat, total \in Nat :
          /\ i = sending[t].i /\ j = sending[t].j /\ size = Len(ParamsAt(e, i)) /\ total = Len(elements[e])
          /\ i \in 1..total /\ j <= size
    <3>1. JournalTyped /\ AtOf(t) /\ InPasses(t) /\ Journald!At(t) # NULL /\ e = sending[t].entry
      BY <1>1, <1>3, <1>4
    <3>2. PICK i \in Nat \ {0}, j \in Nat, size \in Nat, total \in Nat : InBounds(t, e, i, j, size, total)
      BY <3>1, LoopBounds
    <3> QED
      BY <3>2 DEF InBounds
  <2>3. /\ sending[t].offset = n[i] + j
        /\ \A l \in i..total : n[l + 1] = n[l] + 1 + Len(ParamsAt(e, l)) /\ n[l + 1] <= local[t].fields
    BY <1>1, <2>1, <2>2 DEF FieldsLeft, CountsUp
  <2>4. i \in i..total
    <3>1. i \in 1..total
      BY <2>2
    <3> QED
      BY <3>1
  <2>5. n[i + 1] = n[i] + 1 + size /\ n[i + 1] <= local[t].fields
    BY <2>2, <2>3, <2>4
  <2>10. (f.i = i /\ f.j = j + 1) \/ (f.i = i + 1 /\ f.j = 0 /\ j = size)
    <3>1. p[1] = i /\ p[2] = j /\ q[1] = f.i /\ q[2] = f.j /\ size = Len(ParamsAt(e, i))
      BY <1>5, <1>17, <2>2
    <3>2. j <= size
      BY <2>2
    <3>3. CASE j < size
      BY <1>6, <3>1, <3>3 DEF Following
    <3>4. CASE ~(j < size)
      <4>1. q = << i + 1, 0 >>
        BY <1>6, <3>1, <3>4 DEF Following
      <4>2. j = size
        BY <3>2, <3>4
      <4>3. q[1] = i + 1 /\ q[2] = 0
        BY <4>1
      <4> QED
        BY <3>1, <4>2, <4>3
    <3> QED
      BY <3>3, <3>4
  <2>11. PICK k \in Nat, limit \in Nat : k = sending[t].offset /\ limit = local[t].fields
    BY <1>4 DEF BufferTypes, SendingTyped
  <2>12. k + 1 = n[f.i] + f.j /\ n[f.i] <= limit /\ f.i >= i
    <3>1. PICK v \in Nat, w \in Nat : v = f.i /\ w = f.j
      BY <1>18
    <3>2. (v = i /\ w = j + 1) \/ (v = i + 1 /\ w = 0 /\ j = size)
      BY <2>10, <3>1
    <3>3. k = n[i] + j /\ n[i + 1] = n[i] + 1 + size /\ n[i + 1] <= limit
      BY <2>3, <2>5, <2>11
    <3>4. k + 1 = n[v] + w /\ n[v] <= limit /\ v >= i
      BY <3>2, <3>3, OffsetMoves
    <3> QED
      BY <3>1, <3>4
  <2>6. offset = n[f.i] + f.j /\ n[f.i] <= local[t].fields /\ f.i >= i
    BY <1>11, <2>11, <2>12
  <2>7. \A l \in f.i .. total : n[l + 1] = n[l] + 1 + Len(ParamsAt(e, l)') /\ n[l + 1] <= local[t].fields
    <3>1. \A l \in f.i .. total : l \in i..total
      BY <1>18, <2>6
    <3> QED
      BY <1>26, <2>3, <3>1
  <2>8. CountsUp(n, sending[t].entry, sending[t].i .. Len(elements[sending[t].entry]), local[t].fields)'
    BY <1>3, <1>18, <1>24, <2>2, <2>7 DEF CountsUp
  <2>9. FieldsLeft(n, t)'
    BY <1>18, <1>24, <2>6, <2>8 DEF FieldsLeft
  <2> QED
    BY <1>18, <1>24, <2>9 DEF CountOf
<1>33. BuffersOf(t)'
  BY <1>3, <1>4, <1>18, <1>24 DEF BuffersOf, CallOf
<1>34. RecordOf(t)'
  <2> DEFINE F == f.asked.fields
  <2>1. Recorded(sending[t], Journald!Place(t))'
    BY <1>24, <1>25, <1>30 DEF Recorded, Journald!Earlier
  <2>2. /\ \A a \in Ahead(t) : F[a].object = Journald!ObjectAt(e, a) /\ F[a].value = Journald!ValueAt(e, a)
        /\ f.asked.message = message[e]
    BY <1>1, <1>3, <1>4, <1>18 DEF RecordOf, Unchanged
  <2>3. Unchanged(t)'
    <3>1. \A a \in Ahead(t)' : F[a].object = Journald!ObjectAt(e, a)' /\ F[a].value = Journald!ValueAt(e, a)'
      BY <1>26, <1>30, <2>2
    <3>2. \A a : Journald!Earlier(a, Journald!Place(t))' <=> Journald!Earlier(a, q)
      BY <1>25 DEF Journald!Earlier
    <3> QED
      BY <1>18, <1>24, <1>30, <3>1, <3>2 DEF Unchanged
  <2>4. f.asked.message = message'[e]
    BY <1>3, <2>2
  <2> QED
    BY <1>18, <1>24, <2>1, <2>3, <2>4 DEF RecordOf
<1> QED
  BY <1>4, <1>24, <1>27, <1>28, <1>29, <1>31, <1>32, <1>33, <1>34, ActsInv DEF CallOf

LEMMA JournalInit ==
  ASSUME Journald!Init
  PROVE  JournalInv
<1>1. PICK s \in Shapes : elements = s.elements /\ params = s.params
  BY DEF Journald!Init
<1>2. /\ value = [p \in Params |-> 0] /\ message = [e \in JournalEntries |-> 0]
      /\ holder = [o \in JournalObjects |-> NULL]
      /\ local = [t \in Threads |-> Journald!Fresh]
      /\ sending = [t \in Threads |-> Journald!Idle]
  BY DEF Journald!Init, JournalObjects
<1>3. TreeTyped
  BY <1>1, <1>2, JournalAssumption DEF TreeTyped
<1>4. Journald!Fresh \in BufferTypes
  BY DEF Journald!Fresh, BufferTypes
<1>5. JournalTyped
  BY <1>2, <1>3, <1>4, IdleTyped DEF JournalTyped
<1>6. ASSUME NEW t \in Threads
      PROVE  CallOf(t)
  <2>1. sending[t].step = "idle" /\ local[t] = Journald!Fresh
    BY <1>2 DEF Journald!Idle
  <2>2. HeldOf(t) /\ DistinctOf(t) /\ AtOf(t)
    BY <1>2, <2>1, OutsideHolds, JournalAssumption DEF InPasses
  <2>3. SpaceOf(t) /\ CountOf(t) /\ RecordOf(t)
    BY <2>1 DEF SpaceOf, CountOf, RecordOf
  <2>4. BuffersOf(t)
    BY <2>1 DEF BuffersOf, Journald!Fresh
  <2> QED
    BY <2>2, <2>3, <2>4 DEF CallOf
<1> QED
  BY <1>5, <1>6 DEF JournalInv

LEMMA JournalNext ==
  ASSUME JournalInv, [Journald!Next]_(Journald!vars)
  PROVE  JournalInv'
<1>1. CASE Journald!Next
  <2>1. PICK t \in Threads :
          \/ Journald!stumpless_set_param_value(t) \/ Journald!stumpless_set_entry_message(t)
          \/ Journald!stumpless_add_param(t) \/ Journald!send_entry_to_journald_target(t)
          \/ Journald!InitFails(t) \/ Journald!LockEntry(t) \/ Journald!Measure(t)
          \/ Journald!load_sd_fields(t) \/ Journald!LoadFails(t) \/ Journald!WriteField(t)
          \/ Journald!load_message(t) \/ Journald!MessageFails(t)
          \/ Journald!sd_journal_sendv(t) \/ Journald!journald_free_thread(t)
    BY <1>1 DEF Journald!Next
  <2>2. CASE Journald!stumpless_set_param_value(t)
    BY <2>2, ValueInv
  <2>3. CASE Journald!stumpless_set_entry_message(t)
    BY <2>3, MessageInv
  <2>4. CASE Journald!stumpless_add_param(t)
    BY <2>4, AddParamInv
  <2>5. CASE Journald!send_entry_to_journald_target(t)
    BY <2>5, SendEntryInv
  <2>6. CASE Journald!InitFails(t)
    BY <2>6, InitFailsInv
  <2>7. CASE Journald!LockEntry(t)
    BY <2>7, LockEntryInv
  <2>8. CASE Journald!Measure(t)
    BY <2>8, MeasureInv
  <2>9. CASE Journald!load_sd_fields(t)
    BY <2>9, LoadInv
  <2>10. CASE Journald!LoadFails(t)
    BY <2>10, LoadFailsInv
  <2>11. CASE Journald!WriteField(t)
    BY <2>11, WriteFieldInv
  <2>12. CASE Journald!load_message(t)
    BY <2>12, LoadMessageInv
  <2>13. CASE Journald!MessageFails(t)
    BY <2>13, MessageFailsInv
  <2>14. CASE Journald!sd_journal_sendv(t)
    BY <2>14, SendvInv
  <2>15. CASE Journald!journald_free_thread(t)
    BY <2>15, FreeThreadInv
  <2> QED
    BY <2>1, <2>2, <2>3, <2>4, <2>5, <2>6, <2>7, <2>8, <2>9, <2>10, <2>11, <2>12, <2>13, <2>14, <2>15
<1>2. CASE UNCHANGED Journald!vars
  <2>1. UNCHANGED << elements, params, value, message, holder, local, sending >>
    BY <1>2 DEF Journald!vars
  <2>2. TreeTyped
    BY DEF JournalInv, JournalTyped
  <2>3. TreeTyped'
    BY <2>1, <2>2 DEF TreeTyped
  <2>4. \A el \in Elements : Len(params[el]) \in Nat
    BY <2>2 DEF TreeTyped
  <2>5. ASSUME NEW u \in Threads
        PROVE  OthersAct(u)
    BY <2>1, <2>4 DEF OthersAct
  <2> QED
    BY <2>1, <2>3, <2>5, ChangesInv
<1> QED
  BY <1>1, <1>2

LEMMA JournalInvAlways == Journald!Spec => []JournalInv
<1>1. Journald!Init => JournalInv
  BY JournalInit
<1>2. JournalInv /\ [Journald!Next]_(Journald!vars) => JournalInv'
  BY JournalNext
<1> QED
  BY <1>1, <1>2, PTL DEF Journald!Spec

\* One that waits for a thread of the set waits for one in the first pass.
LEMMA WaitsForOneInPass ==
  ASSUME JournalInv, NEW S \in SUBSET Threads, \A t \in S : Journald!Waiting(t, S), NEW t \in S
  PROVE  \E h \in S : /\ holder[Journald!Wanted(t)] = h /\ Journald!Wanted(t) \in JournalObjects
                      /\ Kept(h, Journald!Wanted(t))
                      /\ sending[h].step = "measure" /\ Journald!At(h) # NULL
<1>1. \A u \in S : Journald!Wanted(u) # NULL
  BY DEF Journald!Waiting
<1>2. PICK h : h = holder[Journald!Wanted(t)] /\ h # NULL /\ (h \in S \/ sending[h] = Journald!Idle)
  BY DEF Journald!Waiting
<1>3. Journald!Wanted(t) \in JournalObjects
  <2>1. CASE sending[t].step = "entry"
    BY <2>1 DEF Journald!Wanted, JournalInv, JournalTyped, SendingTyped, JournalObjects
  <2>2. CASE sending[t].step = "measure"
    <3>1. Journald!At(t) # NULL /\ Journald!Wanted(t) = Journald!At(t)
      BY <1>1, <2>2 DEF Journald!Wanted
    <3>2. JournalTyped /\ AtOf(t) /\ InPasses(t)
      BY <2>2 DEF JournalInv, CallOf, InPasses
    <3> QED
      BY <3>1, <3>2, AtIs DEF JournalObjects
  <2> QED
    BY <1>1, <2>1, <2>2 DEF Journald!Wanted
<1>4. h \in Threads
  BY <1>2, <1>3 DEF JournalInv, JournalTyped
<1>5. Kept(h, Journald!Wanted(t))
  BY <1>2, <1>3, <1>4 DEF JournalInv, CallOf, HeldOf
<1>6. sending[h].step \in {"measure", "write"}
  BY <1>5 DEF Kept, InPasses
<1>7. h \in S
  BY <1>2, <1>6 DEF Journald!Idle
<1>8. sending[h].step = "measure" /\ Journald!At(h) # NULL
  BY <1>1, <1>6, <1>7 DEF Journald!Wanted
<1> QED
  BY <1>2, <1>3, <1>5, <1>7, <1>8

LEMMA StallsAreTwisted ==
  ASSUME JournalInv
  PROVE  Journald!NoStall
<1> SUFFICES ASSUME NEW S \in (SUBSET Threads) \ {{}}, \A t \in S : Journald!Waiting(t, S)
             PROVE  Journald!Twisted
  BY DEF Journald!NoStall
<1> DEFINE W == {h \in S : sending[h].step = "measure" /\ Journald!At(h) # NULL}
           O == {Journald!At(h) : h \in W}
<1>1. \A h \in W : /\ JournalTyped /\ AtOf(h) /\ InPasses(h) /\ HeldOf(h)
                   /\ h \in Threads
  BY DEF JournalInv, CallOf, InPasses
<1>2. \A h \in W : /\ sending[h].entry \in JournalEntries
                   /\ Journald!Place(h) \in Journald!Places(sending[h].entry)
                   /\ Journald!At(h) = Journald!ObjectAt(sending[h].entry, Journald!Place(h))
                   /\ Journald!At(h) \in Elements \cup Params
  BY <1>1, AtIs
<1>3. O \subseteq Elements \cup Params
  BY <1>2
<1>4. O # {}
  <2>1. PICK t \in S : TRUE
    OBVIOUS
  <2>2. \E h \in S : sending[h].step = "measure" /\ Journald!At(h) # NULL
    BY WaitsForOneInPass
  <2> QED
    BY <2>2
<1>5. ASSUME NEW o \in O
      PROVE  \E p \in O, e \in JournalEntries : Journald!Before(e, o, p)
  <2>1. PICK t \in W : o = Journald!At(t)
    OBVIOUS
  <2>2. Journald!Wanted(t) = o
    BY <2>1 DEF Journald!Wanted
  <2>3. PICK h \in S : Kept(h, o) /\ sending[h].step = "measure" /\ Journald!At(h) # NULL
    BY <2>2, WaitsForOneInPass
  <2>4. h \in W
    BY <2>3
  <2>5. PICK e \in JournalEntries : e = sending[h].entry
    BY <1>2, <2>4
  <2>6. o # e
    BY <1>3, JournalAssumption
  <2>7. PICK a \in Mine(h) : o = Journald!ObjectAt(e, a)
    BY <2>3, <2>5, <2>6 DEF Kept
  <2>8. a \in Journald!Places(e) /\ Journald!Earlier(a, Journald!Place(h))
    BY <2>3, <2>5 DEF Mine, IsMine
  <2>9. Journald!Place(h) \in Journald!Places(e) /\ Journald!At(h) = Journald!ObjectAt(e, Journald!Place(h))
    BY <1>2, <2>4, <2>5
  <2>10. Journald!Before(e, o, Journald!At(h))
    BY <2>7, <2>8, <2>9 DEF Journald!Before
  <2> QED
    BY <2>4, <2>10
<1> HIDE DEF O
<1> QED
  BY <1>3, <1>4, <1>5 DEF Journald!Twisted

\* The second pass does not leave the array of fields.
LEMMA OffsetFits ==
  ASSUME JournalTyped, NEW t \in Threads, AtOf(t), CountOf(t), sending[t].step = "write", local[t].fields \in Nat
  PROVE  sending[t].offset <= local[t].fields
<1>1. InPasses(t)
  BY DEF InPasses
<1>2. PICK n \in [Nat -> Nat] : FieldsLeft(n, t)
  BY DEF CountOf
<1>3. PICK e : e = sending[t].entry
  OBVIOUS
<1>4. CASE Journald!At(t) # NULL
  <2>1. PICK i \in Nat \ {0}, j \in Nat, size \in Nat, total \in Nat : InBounds(t, e, i, j, size, total)
    BY <1>1, <1>3, <1>4, LoopBounds
  <2>2. i = sending[t].i /\ j = sending[t].j /\ size = Len(ParamsAt(e, i)) /\ total = Len(elements[e])
    BY <2>1 DEF InBounds
  <2>3. i \in 1..total /\ j <= size
    BY <2>1 DEF InBounds
  <2>4. i \in i..total
    BY <2>3
  <2>5. n[i + 1] = n[i] + 1 + size /\ n[i + 1] <= local[t].fields
    BY <1>2, <1>3, <2>2, <2>4 DEF FieldsLeft, CountsUp
  <2>6. sending[t].offset = n[i] + j
    BY <1>2, <2>2 DEF FieldsLeft
  <2>7. n[i] \in Nat
    OBVIOUS
  <2> QED
    BY <2>3, <2>5, <2>6, <2>7
<1>5. CASE Journald!At(t) = NULL
  <2>1. Journald!Place(t) = Behind(e)
    BY <1>1, <1>3, <1>5, AtIs
  <2>2. sending[t].j = 0
    BY <2>1 DEF Journald!Place, Behind
  <2>3. sending[t].i \in Nat
    BY <1>1, <1>3, LoopsAt
  <2>4. n[sending[t].i] \in Nat
    BY <2>3
  <2> QED
    BY <1>2, <2>2, <2>4 DEF FieldsLeft
<1> QED
  BY <1>4, <1>5

LEMMA RecordsAre ==
  ASSUME JournalInv
  PROVE  Journald!RecordsSound
<1>0. JournalTyped /\ TreeTyped /\ \A t \in Threads : CallOf(t) /\ local[t] \in BufferTypes /\ SendingTyped(sending[t])
  BY DEF JournalInv, JournalTyped
<1>1. Journald!TypeOK
  <2>1. \A o \in DOMAIN holder : holder[o] \in Threads \cup {NULL}
    BY <1>0 DEF JournalTyped
  <2>2. ASSUME NEW t \in Threads, sending[t].step = "send"
        PROVE  local[t].fixed /\ local[t].fields >= Journald!SD_FIELDS_OFFSET
    BY <1>0, <2>2 DEF CallOf, BuffersOf
  <2>3. ASSUME NEW t \in Threads, sending[t].step \in {"measure", "write"}, Journald!At(t) # NULL,
               NEW i \in DOMAIN Journald!FieldName(t)
        PROVE  Journald!FieldName(t)[i] \in 48..57 \cup 65..90 \cup {95}
    <3>1. InPasses(t) /\ AtOf(t)
      BY <1>0, <2>3 DEF InPasses, CallOf
    <3>2. PICK e \in JournalEntries : e = sending[t].entry
      BY <1>0, <3>1, AtIs
    <3>3. PICK p \in Journald!Places(e) : Journald!FieldName(t) = NameAt(e, p)
      BY <1>0, <2>3, <3>1, <3>2, PlaceNamed
    <3>4. Journald!FieldName(t) \in Seq(FieldCodes)
      BY <1>0, <3>3, NameAtIs
    <3>5. Journald!FieldName(t)[i] \in FieldCodes
      BY <2>3, <3>4, ElementOfSeq
    <3> QED
      BY <3>5 DEF FieldCodes
  <2> QED
    BY <2>1, <2>2, <2>3 DEF Journald!TypeOK
<1>2. Journald!BuffersFit
  <2> SUFFICES ASSUME NEW t \in Threads, sending[t].step \in {"write", "send"}
               PROVE  sending[t].pos <= local[t].sd /\ sending[t].offset <= local[t].fields
    BY DEF Journald!BuffersFit
  <2>1. CASE sending[t].step = "send"
    BY <1>0, <2>1 DEF CallOf, SpaceOf, CountOf
  <2>2. CASE sending[t].step = "write"
    <3>1. sending[t].pos <= local[t].sd
      BY <1>0, <2>2 DEF CallOf, SpaceOf, SpaceLeft
    <3>2. local[t].fields \in Nat /\ AtOf(t) /\ CountOf(t)
      BY <1>0 DEF BufferTypes, CallOf
    <3> QED
      BY <1>0, <2>2, <3>1, <3>2, OffsetFits
  <2> QED
    BY <2>1, <2>2
<1>3. Journald!FieldsLive
  <2> SUFFICES ASSUME NEW t \in Threads, sending[t].step = "send"
               PROVE  local[t].bases /\ local[t].base = local[t].message
    BY DEF Journald!FieldsLive
  <2>1. BuffersOf(t) /\ local[t].fields \in Nat
    BY <1>0 DEF CallOf, BufferTypes
  <2>2. local[t].fixed /\ local[t].fields > 0
    BY <2>1 DEF BuffersOf, Journald!SD_FIELDS_OFFSET
  <2> QED
    BY <2>1, <2>2 DEF BuffersOf
<1>4. Journald!RecordWhole
  <2> SUFFICES ASSUME NEW t \in Threads, sending[t].step = "send", NEW f, f = sending[t]
               PROVE  /\ f.message = f.asked.message
                      /\ \A k, l \in DOMAIN f.record : k < l => Journald!Earlier(f.record[k].place, f.record[l].place)
                      /\ \A k \in DOMAIN f.record : f.record[k].place \in DOMAIN f.asked.fields
                      /\ \A a \in DOMAIN f.asked.fields : \E k \in DOMAIN f.record :
                           f.record[k] = [place |-> a, object |-> f.asked.fields[a].object,
                                          value |-> f.asked.fields[a].value]
                      /\ Facility[f.entry] <= 9 => f.facility = << 48 + Facility[f.entry] >>
    BY DEF Journald!RecordWhole
  <2>1. RecordSent(f)
    BY <1>0 DEF CallOf, RecordOf
  <2>2. PICK p \in Nat \X Nat : Recorded(f, p) /\ \A a \in DOMAIN f.asked.fields : Journald!Earlier(a, p)
    BY <2>1 DEF RecordSent
  <2>3. f.entry \in JournalEntries
    BY <1>0 DEF SendingTyped
  <2>4. Facility[f.entry] <= 9 => f.facility = << 48 + Facility[f.entry] >>
    <3>1. PICK c \in Nat : c = Facility[f.entry]
      BY <2>3, JournalAssumption
    <3>2. f.facility = Journald!load_facility(c)
      BY <2>1, <3>1 DEF RecordSent
    <3>3. c + 48 = 48 + c
      OBVIOUS
    <3>4. c <= 9 => f.facility = << c + 48 >>
      BY <3>2 DEF Journald!load_facility
    <3> QED
      BY <3>1, <3>3, <3>4
  <2> QED
    BY <2>1, <2>2, <2>4 DEF RecordSent, Recorded
<1> QED
  BY <1>1, <1>2, <1>3, <1>4 DEF Journald!RecordsSound

(***************************************************************************)
(* However many threads send entries to journald at once: none waits for a *)
(* mutex that is not given back, unless the entries share elements or      *)
(* params in orders that make a circle or one has one of them twice.       *)
(* send_entry_to_journald_target and load_sd_fields in                     *)
(* src/src/target/journald.c.                                              *)
(***************************************************************************)
THEOREM JournalNeverStalls == Journald!Spec => []JournalNoStall
<1>1. JournalInv => JournalNoStall
  BY StallsAreTwisted DEF JournalNoStall
<1> QED
  BY <1>1, JournalInvAlways, PTL

(***************************************************************************)
(* A record that is sent has every element and param of the entry once, in *)
(* order and with the values of one moment, its names have only the codes  *)
(* that journald takes, and what was added up in the first pass is enough  *)
(* for what the second one wrote, in buffers that were not moved since.    *)
(* load_sd_fields, load_message and init_fields in                         *)
(* src/src/target/journald.c.                                              *)
(***************************************************************************)
THEOREM RecordsAreSound == Journald!Spec => []RecordsSound
<1>1. JournalInv => RecordsSound
  BY RecordsAre DEF RecordsSound
<1> QED
  BY <1>1, JournalInvAlways, PTL

(***************************************************************************)
(* The three kinds of targets together: every behaviour of EntryTargets is *)
(* one of each of them, in which those of the other kinds stutter, so all  *)
(* that was shown of the kinds holds for it, with any number of threads.   *)
(* The functions that are given an entry in src/src/target/chain.c,        *)
(* src/src/target/sqlite3.c and src/src/target/journald.c.                 *)
(***************************************************************************)
THEOREM EntryTargetsAreSound ==
  EntryTargetsSpec =>
    [](ChainsLocked /\ Broadcast /\ RowsTold /\ StatementsSound /\ JournalNoStall /\ RecordsSound)
<1>1. EntryTargetsInit => Init /\ Sqlite3!Init /\ Journald!Init
  BY DEF EntryTargetsInit
<1>2. [EntryTargetsNext]_<< kind, vars, sqlite, journal >> =>
        [Next]_vars /\ [Sqlite3!Next]_(Sqlite3!vars) /\ [Journald!Next]_(Journald!vars)
  <2>1. UNCHANGED sqlite => UNCHANGED Sqlite3!vars
    BY DEF sqlite, Sqlite3!vars
  <2>2. UNCHANGED journal => UNCHANGED Journald!vars
    BY DEF journal, Journald!vars
  <2> QED
    BY <2>1, <2>2 DEF EntryTargetsNext, Rest
<1>3. EntryTargetsSpec => Spec /\ Sqlite3!Spec /\ Journald!Spec
  BY <1>1, <1>2, PTL DEF EntryTargetsSpec, Spec, Sqlite3!Spec, Journald!Spec
<1> QED
  BY <1>3, ChainsAreLocked, EntriesBroadcast, RowsAreTold, StatementsAreSound, JournalNeverStalls, RecordsAreSound, PTL
=============================================================================
