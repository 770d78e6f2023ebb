--------------------------- MODULE DeliveryProofs ---------------------------
(***************************************************************************)
(* Proofs about Delivery, for any number of threads, calls, handles,       *)
(* severities and names.                                                   *)
(*                                                                         *)
(* PlaceInv says where the calls are, and is what the others rely on.      *)
(* HandleInv is about handles and mutexes, ToldInv about what a call       *)
(* returns, and MaskInv, StreamInv, NameInv and TraceInv are about what is *)
(* written.  First comes what each step makes of the frame of its thread   *)
(* (Becomes, or Meanwhile for the setters), then one section for each      *)
(* invariant, with a lemma for each group of steps.                        *)
(***************************************************************************)
EXTENDS Delivery, SequenceTheorems, FiniteSetTheorems, TLAPS

-----------------------------------------------------------------------------
(***************************************************************************)
(* What a step makes of the frame of the thread that takes it.             *)
(***************************************************************************)

\* Only t's frame changes, to f.
Becomes(t, f) ==
  /\ f \in Frames
  /\ frame' \in [Threads -> Frames]
  /\ \A u \in Threads : frame'[u] = IF u = t THEN f ELSE frame[u]

\* Frames that differ in their step and their result only.
Alike(f, g) ==
  /\ f.call = g.call /\ f.severity = g.severity /\ f.own = g.own /\ f.masks = g.masks
  /\ f.code = g.code /\ f.kept = g.kept /\ f.trace = g.trace

LEMMA FrameFields ==
  ASSUME NEW f \in Frames
  PROVE  /\ f.step \in Steps /\ f.call \in Nat /\ f.severity \in Severities \cup {0}
         /\ f.own \in {"none"} \cup Kinds /\ f.masks \in SUBSET Severities /\ f.code \in Codes \cup {NULL}
         /\ f.result \in Results /\ f.kept \in BOOLEAN /\ f.trace \in 0..3
BY DEF Frames

LEMMA BecomesIt ==
  ASSUME frame \in [Threads -> Frames], NEW t \in Threads, NEW f \in Frames, frame' = [frame EXCEPT ![t] = f]
  PROVE  Becomes(t, f)
BY DEF Becomes

LEMMA IdleFrame ==
  /\ Idle \in Frames
  /\ Idle.step = "idle" /\ Idle.call = 0 /\ Idle.own = "none" /\ Idle.kept = FALSE /\ Idle.trace = 0
  /\ Idle.masks = {} /\ Idle.code = NULL
BY DEF Idle, Frames, Steps, Results

LEMMA AtStep ==
  ASSUME NEW g \in Frames, NEW s \in Steps
  PROVE  LET f == [g EXCEPT !.step = s] IN f \in Frames /\ f.step = s /\ f.result = g.result /\ Alike(f, g)
BY DEF Frames, Alike

LEMMA GotoFrame ==
  ASSUME frame \in [Threads -> Frames], NEW t \in Threads, NEW s \in Steps, Goto(t, s)
  PROVE  \E f \in Frames : Becomes(t, f) /\ f.step = s /\ f.result = frame[t].result /\ Alike(f, frame[t])
<1> DEFINE f == [frame[t] EXCEPT !.step = s]
<1>1. f \in Frames /\ f.step = s /\ f.result = frame[t].result /\ Alike(f, frame[t])
  BY DEF Frames, Alike
<1>2. Becomes(t, f)
  BY <1>1, BecomesIt DEF Goto
<1> QED
  BY <1>1, <1>2

LEMMA ReturnFrame ==
  ASSUME frame \in [Threads -> Frames], NEW t \in Threads, NEW r \in Results, Return(t, r)
  PROVE  \E f \in Frames : Becomes(t, f) /\ f.step = "done" /\ f.result = r /\ Alike(f, frame[t])
<1> DEFINE f == [frame[t] EXCEPT !.step = "done", !.result = r]
<1>1. f \in Frames /\ f.step = "done" /\ f.result = r /\ Alike(f, frame[t])
  BY DEF Frames, Alike, Steps
<1>2. Becomes(t, f)
  BY <1>1, BecomesIt DEF Return
<1> QED
  BY <1>1, <1>2

LEMMA CrashFrame ==
  ASSUME frame \in [Threads -> Frames], NEW t \in Threads, Crash(t)
  PROVE  \E f \in Frames :
           /\ Becomes(t, f)
           /\ f.step = "crashed" /\ f.call = 0 /\ f.own = "none" /\ f.kept = FALSE /\ f.trace = 0
<1> DEFINE f == [Idle EXCEPT !.step = "crashed"]
<1>1. f \in Frames /\ f.step = "crashed" /\ f.call = 0 /\ f.own = "none" /\ f.kept = FALSE /\ f.trace = 0
  <2>1. "crashed" \in Steps
    BY DEF Steps
  <2>2. f \in Frames /\ f.step = "crashed" /\ f.result = Idle.result /\ Alike(f, Idle)
    BY <2>1, AtStep, IdleFrame
  <2> QED
    BY <2>2, IdleFrame DEF Alike
<1>2. Becomes(t, f)
  BY <1>1, BecomesIt DEF Crash
<1> QED
  BY <1>1, <1>2

LEMMA AtEntry ==
  ASSUME NEW g \in Frames, NEW a \in Steps, NEW c \in Nat, NEW s \in Severities, NEW o \in {"none"} \cup Kinds,
         NEW m \in SUBSET Severities, NEW k \in BOOLEAN
  PROVE  [g EXCEPT !.step = a, !.call = c, !.severity = s, !.own = o, !.masks = m, !.kept = k] \in Frames
BY DEF Frames

LEMMA EnterFrame ==
  ASSUME frame \in [Threads -> Frames], NEW t \in Threads, target \in Targets,
         NEW c \in Nat, NEW s \in Severities, NEW o \in {"none"} \cup Kinds, Enter(t, c, s, o)
  PROVE  \E f \in Frames :
           /\ Becomes(t, f)
           /\ f.step = IF "ODELAY" \in target.options THEN "is_open" ELSE "filter"
           /\ f.call = c /\ f.severity = s /\ f.own = o
           /\ f.masks = IF target.filter THEN target.mask ELSE Severities
           /\ f.kept => "CONS" \in target.options
           /\ f.code = frame[t].code /\ f.result = frame[t].result /\ f.trace = frame[t].trace
<1> DEFINE f == [frame[t] EXCEPT !.step = IF "ODELAY" \in target.options THEN "is_open" ELSE "filter",
                                 !.call = c, !.severity = s, !.own = o,
                                 !.masks = IF target.filter THEN target.mask ELSE Severities,
                                 !.kept = "CONS" \in target.options]
<1>1. /\ f.step = IF "ODELAY" \in target.options THEN "is_open" ELSE "filter"
      /\ f.call = c /\ f.severity = s /\ f.own = o
      /\ f.masks = IF target.filter THEN target.mask ELSE Severities
      /\ f.code = frame[t].code /\ f.result = frame[t].result /\ f.trace = frame[t].trace
  BY DEF Frames
<1>2. f.kept => "CONS" \in target.options
  BY DEF Frames
<1>3. f \in Frames
  <2>1. (IF "ODELAY" \in target.options THEN "is_open" ELSE "filter") \in Steps
    BY DEF Steps
  <2>2. (IF target.filter THEN target.mask ELSE Severities) \in SUBSET Severities
    BY DEF Targets
  <2>3. ("CONS" \in target.options) \in BOOLEAN
    OBVIOUS
  <2> QED
    BY ONLY frame \in [Threads -> Frames], t \in Threads, c \in Nat, s \in Severities, o \in {"none"} \cup Kinds,
            <2>1, <2>2, <2>3, AtEntry
<1>4. Becomes(t, f)
  BY <1>3, BecomesIt DEF Enter
<1> QED
  BY <1>1, <1>2, <1>3, <1>4

LEMMA NullApart ==
  /\ NULL \notin Threads /\ NULL \notin Handles /\ NULL \notin Codes /\ NULL \notin Targets /\ NULL \notin Entries
  /\ "shared" \notin Threads
BY DeliveryAssumption

LEMMA TargetFields ==
  ASSUME NEW x \in Targets
  PROVE  /\ x # NULL
         /\ x.type \in Types /\ x.stream \in Handles \cup {NULL} /\ x.options \in SUBSET Options
         /\ x.filter \in BOOLEAN /\ x.mask \in SUBSET Severities /\ x.name \in [1..2 -> Nat]
         /\ x.length \in 1..2 /\ x.codes \in [Severities -> Codes \cup {NULL}] /\ x.ready \in BOOLEAN
BY NullApart DEF Targets

LEMMA CodeFrame ==
  ASSUME frame \in [Threads -> Frames], NEW t \in Threads, NEW c \in Codes \cup {NULL},
         frame' = [frame EXCEPT ![t] = [@ EXCEPT !.step = "code", !.code = c]]
  PROVE  \E f \in Frames :
           /\ Becomes(t, f)
           /\ f.step = "code" /\ f.code = c /\ f.result = frame[t].result
           /\ f.call = frame[t].call /\ f.severity = frame[t].severity /\ f.own = frame[t].own
           /\ f.masks = frame[t].masks /\ f.kept = frame[t].kept /\ f.trace = frame[t].trace
<1> DEFINE f == [frame[t] EXCEPT !.step = "code", !.code = c]
<1>1. /\ f \in Frames /\ f.step = "code" /\ f.code = c /\ f.result = frame[t].result
      /\ f.call = frame[t].call /\ f.severity = frame[t].severity /\ f.own = frame[t].own
      /\ f.masks = frame[t].masks /\ f.kept = frame[t].kept /\ f.trace = frame[t].trace
  BY DEF Frames, Steps
<1>2. Becomes(t, f)
  BY <1>1, BecomesIt
<1> QED
  BY <1>1, <1>2

LEMMA TracedFrame ==
  ASSUME frame \in [Threads -> Frames], NEW t \in Threads,
         frame' = [frame EXCEPT ![t] = [@ EXCEPT !.step = "trace", !.trace = 1]]
  PROVE  \E f \in Frames :
           /\ Becomes(t, f)
           /\ f.step = "trace" /\ f.trace = 1 /\ f.call = frame[t].call /\ f.severity = frame[t].severity
           /\ f.own = frame[t].own /\ f.masks = frame[t].masks /\ f.code = frame[t].code
           /\ f.result = frame[t].result /\ f.kept = frame[t].kept
<1>0. PICK one \in 0..3 : one = 1
  OBVIOUS
<1> DEFINE f == [frame[t] EXCEPT !.step = "trace", !.trace = one]
<1>1. /\ f \in Frames /\ f.step = "trace" /\ f.trace = one /\ f.call = frame[t].call /\ f.severity = frame[t].severity
      /\ f.own = frame[t].own /\ f.masks = frame[t].masks /\ f.code = frame[t].code
      /\ f.result = frame[t].result /\ f.kept = frame[t].kept
  BY DEF Frames, Steps
<1>2. Becomes(t, f)
  BY <1>0, <1>1, BecomesIt
<1> QED
  BY <1>0, <1>1, <1>2

LEMMA NextTraceFrame ==
  ASSUME frame \in [Threads -> Frames], NEW t \in Threads, frame[t].trace < 3,
         frame' = [frame EXCEPT ![t].trace = @ + 1]
  PROVE  \E f \in Frames :
           /\ Becomes(t, f)
           /\ f.trace = frame[t].trace + 1 /\ f.step = frame[t].step /\ f.call = frame[t].call
           /\ f.severity = frame[t].severity /\ f.own = frame[t].own /\ f.masks = frame[t].masks
           /\ f.code = frame[t].code /\ f.result = frame[t].result /\ f.kept = frame[t].kept
<1>0. frame[t].trace \in 0..3
  BY FrameFields
<1>1. PICK n \in 0..3 : n = frame[t].trace + 1
  BY <1>0
<1> DEFINE f == [frame[t] EXCEPT !.trace = n]
<1>2. /\ f \in Frames /\ f.trace = n /\ f.step = frame[t].step /\ f.call = frame[t].call
      /\ f.severity = frame[t].severity /\ f.own = frame[t].own /\ f.masks = frame[t].masks
      /\ f.code = frame[t].code /\ f.result = frame[t].result /\ f.kept = frame[t].kept
  BY DEF Frames
<1>3. frame' = [frame EXCEPT ![t] = f]
  BY <1>1
<1>4. Becomes(t, f)
  BY <1>2, <1>3, BecomesIt
<1> QED
  BY <1>1, <1>2, <1>4

\* A setter of the target leaves the calls where they are: the masks they have
\* met may grow, and CONS may be taken back.
Meanwhile(f, g) ==
  /\ f.step = g.step /\ f.call = g.call /\ f.severity = g.severity /\ f.own = g.own
  /\ f.code = g.code /\ f.result = g.result /\ f.trace = g.trace
  /\ g.masks \subseteq f.masks
  /\ f.kept => g.kept

LEMMA KeptFrames ==
  ASSUME frame \in [Threads -> Frames], frame' = [u \in Threads |-> [frame[u] EXCEPT !.kept = FALSE]]
  PROVE  /\ frame' \in [Threads -> Frames]
         /\ \A u \in Threads : Meanwhile(frame'[u], frame[u]) /\ frame'[u].kept = FALSE
<1>1. ASSUME NEW g \in Frames
      PROVE  /\ [g EXCEPT !.kept = FALSE] \in Frames
             /\ Meanwhile([g EXCEPT !.kept = FALSE], g)
             /\ [g EXCEPT !.kept = FALSE].kept = FALSE
  BY DEF Frames, Meanwhile
<1> QED
  BY <1>1

LEMMA MaskFrames ==
  ASSUME frame \in [Threads -> Frames], NEW m \in SUBSET Severities,
         frame' = [u \in Threads |-> IF frame[u] = Idle THEN Idle ELSE [frame[u] EXCEPT !.masks = @ \cup m]]
  PROVE  /\ frame' \in [Threads -> Frames]
         /\ \A u \in Threads :
              /\ Meanwhile(frame'[u], frame[u])
              /\ frame[u].step # "idle" => m \subseteq frame'[u].masks
<1>1. ASSUME NEW g \in Frames
      PROVE  LET f == [g EXCEPT !.masks = @ \cup m] IN f \in Frames /\ Meanwhile(f, g) /\ m \subseteq f.masks
  BY DEF Frames, Meanwhile
<1>2. \A g \in Frames : Meanwhile(g, g)
  BY DEF Meanwhile
<1>3. Idle.step = "idle" /\ Idle \in Frames
  BY IdleFrame
<1>4. ASSUME NEW u \in Threads
      PROVE  /\ frame'[u] \in Frames /\ Meanwhile(frame'[u], frame[u])
             /\ frame[u].step # "idle" => m \subseteq frame'[u].masks
  <2>1. CASE frame[u] = Idle
    BY <2>1, <1>2, <1>3
  <2>2. CASE frame[u] # Idle
    BY <2>2, <1>1
  <2> QED
    BY <2>1, <2>2
<1>5. DOMAIN frame' = Threads /\ frame' = [u \in Threads |-> frame'[u]]
  OBVIOUS
<1>6. frame' \in [Threads -> Frames]
  BY <1>4, <1>5
<1> QED
  BY <1>4, <1>6

LEMMA FilterFrames ==
  ASSUME frame \in [Threads -> Frames], NEW on \in BOOLEAN,
         frame' = [u \in Threads |->
                    IF frame[u] = Idle \/ on THEN frame[u] ELSE [frame[u] EXCEPT !.masks = Severities]]
  PROVE  /\ frame' \in [Threads -> Frames]
         /\ \A u \in Threads :
              /\ Meanwhile(frame'[u], frame[u])
              /\ frame[u].step # "idle" /\ ~on => frame'[u].masks = Severities
<1>1. ASSUME NEW g \in Frames
      PROVE  LET f == [g EXCEPT !.masks = Severities] IN f \in Frames /\ Meanwhile(f, g) /\ f.masks = Severities
  BY DEF Frames, Meanwhile
<1>2. \A g \in Frames : Meanwhile(g, g)
  BY DEF Meanwhile
<1>3. Idle.step = "idle" /\ Idle \in Frames
  BY IdleFrame
<1>4. ASSUME NEW u \in Threads
      PROVE  /\ frame'[u] \in Frames /\ Meanwhile(frame'[u], frame[u])
             /\ frame[u].step # "idle" /\ ~on => frame'[u].masks = Severities
  <2>1. CASE frame[u] = Idle \/ on
    BY <2>1, <1>2, <1>3
  <2>2. CASE ~(frame[u] = Idle \/ on)
    BY <2>2, <1>1
  <2> QED
    BY <2>1, <2>2
<1>5. DOMAIN frame' = Threads /\ frame' = [u \in Threads |-> frame'[u]]
  OBVIOUS
<1>6. frame' \in [Threads -> Frames]
  BY <1>4, <1>5
<1> QED
  BY <1>4, <1>6

-----------------------------------------------------------------------------
(***************************************************************************)
(* What a setter makes of the target.                                      *)
(***************************************************************************)

LEMMA NewTarget ==
  ASSUME NEW type \in Types, NEW o \in SUBSET Options,
         NEW y, y = [type |-> type, stream |-> NULL, options |-> o, filter |-> TRUE, mask |-> Severities,
                     name |-> << 45, 0 >>, length |-> 1, codes |-> [s \in Severities |-> NULL], ready |-> FALSE]
  PROVE  /\ y \in Targets /\ y.stream = NULL /\ ~y.ready
         /\ y.name = << 45, 0 >> /\ y.length = 1
<1>1. y.stream = NULL /\ y.ready = FALSE /\ y.name = << 45, 0 >> /\ y.length = 1
  OBVIOUS
<1>2. << 45, 0 >> \in [1..2 -> Nat]
  OBVIOUS
<1>3. [s \in Severities |-> NULL] \in [Severities -> Codes \cup {NULL}]
  OBVIOUS
<1>4. 1 \in 1..2
  OBVIOUS
<1>5. ASSUME NEW n \in [1..2 -> Nat], NEW c \in [Severities -> Codes \cup {NULL}], NEW l \in 1..2
      PROVE  [type |-> type, stream |-> NULL, options |-> o, filter |-> TRUE, mask |-> Severities,
              name |-> n, length |-> l, codes |-> c, ready |-> FALSE] \in Targets
  BY DEF Targets
<1>6. y \in Targets
  BY <1>2, <1>3, <1>4, <1>5
<1> QED
  BY <1>1, <1>6

LEMMA ReadyTarget ==
  ASSUME NEW x \in Targets, NEW y, y = [x EXCEPT !.ready = TRUE]
  PROVE  /\ y \in Targets /\ y.ready
         /\ y.type = x.type /\ y.stream = x.stream /\ y.options = x.options /\ y.filter = x.filter
         /\ y.mask = x.mask /\ y.name = x.name /\ y.length = x.length /\ y.codes = x.codes
BY DEF Targets

LEMMA StreamTarget ==
  ASSUME NEW x \in Targets, NEW h \in Handles \cup {NULL}, NEW y, y = [x EXCEPT !.stream = h]
  PROVE  /\ y \in Targets /\ (y.ready <=> x.ready)
         /\ y.type = x.type /\ y.stream = h /\ y.options = x.options /\ y.filter = x.filter
         /\ y.mask = x.mask /\ y.name = x.name /\ y.length = x.length /\ y.codes = x.codes
BY DEF Targets

LEMMA OptionsTarget ==
  ASSUME NEW x \in Targets, NEW o \in SUBSET Options, NEW y, y = [x EXCEPT !.options = o]
  PROVE  /\ y \in Targets /\ (y.ready <=> x.ready)
         /\ y.type = x.type /\ y.stream = x.stream /\ y.options = o /\ y.filter = x.filter
         /\ y.mask = x.mask /\ y.name = x.name /\ y.length = x.length /\ y.codes = x.codes
BY DEF Targets

LEMMA MaskTarget ==
  ASSUME NEW x \in Targets, NEW m \in SUBSET Severities, NEW y, y = [x EXCEPT !.mask = m]
  PROVE  /\ y \in Targets /\ (y.ready <=> x.ready)
         /\ y.type = x.type /\ y.stream = x.stream /\ y.options = x.options /\ y.filter = x.filter
         /\ y.mask = m /\ y.name = x.name /\ y.length = x.length /\ y.codes = x.codes
BY DEF Targets

LEMMA FilterTarget ==
  ASSUME NEW x \in Targets, NEW on \in BOOLEAN, NEW y, y = [x EXCEPT !.filter = on]
  PROVE  /\ y \in Targets /\ (y.ready <=> x.ready) /\ (y.filter <=> on)
         /\ y.type = x.type /\ y.stream = x.stream /\ y.options = x.options
         /\ y.mask = x.mask /\ y.name = x.name /\ y.length = x.length /\ y.codes = x.codes
BY DEF Targets

LEMMA NameTarget ==
  ASSUME NEW x \in Targets, NEW n \in [1..2 -> Nat], NEW l \in 1..2, NEW y, y = [x EXCEPT !.name = n, !.length = l]
  PROVE  /\ y \in Targets /\ (y.ready <=> x.ready)
         /\ y.type = x.type /\ y.stream = x.stream /\ y.options = x.options /\ y.filter = x.filter
         /\ y.mask = x.mask /\ y.name = n /\ y.length = l /\ y.codes = x.codes
BY DEF Targets

LEMMA CodesTarget ==
  ASSUME NEW x \in Targets, NEW s \in Severities, NEW c \in Codes, NEW y, y = [x EXCEPT !.codes[s] = c]
  PROVE  /\ y \in Targets /\ (y.ready <=> x.ready)
         /\ y.type = x.type /\ y.stream = x.stream /\ y.options = x.options /\ y.filter = x.filter
         /\ y.mask = x.mask /\ y.name = x.name /\ y.length = x.length
<1>1. PICK d \in [Severities -> Codes \cup {NULL}] : d = [x.codes EXCEPT ![s] = c]
  BY TargetFields
<1>2. y = [x EXCEPT !.codes = d]
  BY <1>1
<1> QED
  BY <1>2 DEF Targets

\* A name written over an array.
LEMMA OverlaidName ==
  ASSUME NEW k \in Nat, NEW a \in [1..k -> Nat], NEW n \in Seq(Nat)
  PROVE  /\ Overlaid(a, n) \in [1..k -> Nat]
         /\ \A i \in 1..k : (i <= Len(n) => Overlaid(a, n)[i] = n[i]) /\ (Len(n) < i => Overlaid(a, n)[i] = a[i])
<1>1. ASSUME NEW i \in 1..k
      PROVE  (IF i <= Len(n) THEN n[i] ELSE a[i]) \in Nat
  OBVIOUS
<1> QED
  BY <1>1 DEF Overlaid

LEMMA NameTypes ==
  ASSUME NEW n \in Names
  PROVE  n \in Seq(Nat) /\ Len(n) \in 1..2 /\ \A i \in 1..Len(n) : n[i] # 0
<1>1. n \in Seq(Nat \ {0}) /\ Len(n) \in 1..2
  BY DeliveryAssumption
<1>2. n \in [1..Len(n) -> Nat \ {0}]
  BY <1>1
<1>3. \A i \in 1..Len(n) : n[i] \in Nat /\ n[i] # 0
  BY <1>2
<1> QED
  BY <1>1, <1>3

\* The name that is copied to an entry: the array up to the length.
LEMMA CopiedName ==
  ASSUME NEW a \in [1..2 -> Nat], NEW l \in 1..2
  PROVE  /\ SubSeq(a, 1, l) \in Seq(Nat) /\ Len(SubSeq(a, 1, l)) = l
         /\ \A i \in 1..l : SubSeq(a, 1, l)[i] = a[i]
<1>1. a \in Seq(Nat) /\ Len(a) = 2
  <2>1. \A i \in 1..2 : a[i] \in Nat
    OBVIOUS
  <2>2. a \in Seq(Nat)
    BY <2>1, SeqDef
  <2> QED
    BY <2>2, LenProperties
<1> QED
  BY <1>1, SubSeqProperties

LEMMA EntryFields ==
  ASSUME NEW e \in Entries
  PROVE  e # NULL /\ e.name \in [1..3 -> Nat] /\ e.length \in 1..2
BY NullApart DEF Entries

\* Only the entry k of thread t changes, to e.
CachedBecomes(t, k, e) ==
  /\ e \in Entries
  /\ cached' \in [Threads -> [Kinds -> Entries \cup {NULL}]]
  /\ \A u \in Threads, j \in Kinds : cached'[u][j] = IF u = t /\ j = k THEN e ELSE cached[u][j]

LEMMA CachedIt ==
  ASSUME cached \in [Threads -> [Kinds -> Entries \cup {NULL}]], NEW t \in Threads, NEW k \in Kinds,
         NEW e \in Entries, cached' = [cached EXCEPT ![t][k] = e]
  PROVE  CachedBecomes(t, k, e)
BY DEF CachedBecomes

LEMMA LoadEntry ==
  ASSUME cached \in [Threads -> [Kinds -> Entries \cup {NULL}]], NEW t \in Threads, NEW k \in Kinds,
         cached' = [cached EXCEPT ![t][k] = IF @ = NULL THEN [name |-> << 45, 0, 0 >>, length |-> 1] ELSE @]
  PROVE  \E e \in Entries :
           /\ CachedBecomes(t, k, e)
           /\ cached[t][k] # NULL => e = cached[t][k]
           /\ cached[t][k] = NULL => e.name = << 45, 0, 0 >> /\ e.length = 1
<1> DEFINE new == [name |-> << 45, 0, 0 >>, length |-> 1]
<1>1. new \in Entries /\ new.name = << 45, 0, 0 >> /\ new.length = 1
  <2>1. << 45, 0, 0 >> \in [1..3 -> Nat] /\ 1 \in 1..2
    OBVIOUS
  <2> QED
    BY <2>1 DEF Entries
<1> HIDE DEF new
<1>2. PICK e \in Entries : e = IF cached[t][k] = NULL THEN new ELSE cached[t][k]
  BY <1>1
<1>3. cached' = [cached EXCEPT ![t][k] = e]
  BY <1>2 DEF new
<1>4. CachedBecomes(t, k, e)
  BY <1>3, CachedIt
<1> QED
  BY <1>1, <1>2, <1>4

LEMMA NameEntry ==
  ASSUME cached \in [Threads -> [Kinds -> Entries \cup {NULL}]], NEW t \in Threads, NEW k \in Kinds,
         cached[t][k] # NULL, NEW n \in Seq(Nat), cached' = [cached EXCEPT ![t][k].name = Overlaid(@, n)]
  PROVE  \E e \in Entries :
           /\ CachedBecomes(t, k, e)
           /\ e.length = cached[t][k].length
           /\ \A i \in 1..3 : (i <= Len(n) => e.name[i] = n[i]) /\ (Len(n) < i => e.name[i] = cached[t][k].name[i])
<1>1. PICK x \in Entries : x = cached[t][k]
  OBVIOUS
<1>2. PICK b \in [1..3 -> Nat] : b = x.name
  BY EntryFields
<1>3. /\ Overlaid(b, n) \in [1..3 -> Nat]
      /\ \A i \in 1..3 : (i <= Len(n) => Overlaid(b, n)[i] = n[i]) /\ (Len(n) < i => Overlaid(b, n)[i] = b[i])
  <2>1. PICK three \in Nat : three = 3
    OBVIOUS
  <2>2. b \in [1..three -> Nat]
    BY <2>1
  <2>3. /\ Overlaid(b, n) \in [1..three -> Nat]
        /\ \A i \in 1..three : (i <= Len(n) => Overlaid(b, n)[i] = n[i]) /\ (Len(n) < i => Overlaid(b, n)[i] = b[i])
    BY ONLY <2>2, three \in Nat, n \in Seq(Nat), OverlaidName
  <2> QED
    BY <2>1, <2>3
<1>4. PICK a \in [1..3 -> Nat] : a = Overlaid(b, n)
  BY <1>3
<1> DEFINE e == [x EXCEPT !.name = a]
<1>5. e \in Entries /\ e.name = a /\ e.length = x.length
  BY DEF Entries
<1>6. cached' = [cached EXCEPT ![t][k] = e]
  BY <1>1, <1>2, <1>4
<1>7. CachedBecomes(t, k, e)
  BY <1>5, <1>6, CachedIt
<1>8. \A i \in 1..3 : (i <= Len(n) => e.name[i] = n[i]) /\ (Len(n) < i => e.name[i] = cached[t][k].name[i])
  BY <1>1, <1>2, <1>3, <1>4, <1>5 
<1>9. e.length = cached[t][k].length
  BY <1>1, <1>5
<1> HIDE DEF e
<1> QED
  BY <1>5, <1>7, <1>8, <1>9

-----------------------------------------------------------------------------
(***************************************************************************)
(* Where the calls are: what a call that is at some step relies on.  A     *)
(* target that is being made has its maker to itself.                      *)
(***************************************************************************)
Outside == {"idle", "new", "crashed"}

Placed(t, f) ==
  /\ f.step # "idle" => target # NULL
  /\ f.step \notin Outside => target.ready
  /\ f.step = "new" => ~target.ready /\ target.stream = NULL
  /\ f.step \notin Outside \cup {"done"} => f.severity \in Severities
  /\ f.step = "trace" => f.trace # 0
  /\ f.step \in {"name", "length"} => f.own # "none"
  /\ f.own # "none" => cached[t][f.own] # NULL
  /\ f.step \in {"code", "text", "reset"} => target.type = "stream"

NewAlone ==
  \A t, u \in Threads : frame[t].step = "new" /\ u # t => frame[u].step = "idle"

PlaceInv ==
  /\ TypeOK
  /\ \A t \in Threads : Placed(t, frame[t])
  /\ NewAlone

(***************************************************************************)
(* Handles and mutexes: the mutex of the stream is held between two writes *)
(* of one message, and a target that may be found closed has ODELAY, or it *)
(* was taken back, or the target was opened by two threads.                *)
(***************************************************************************)
Excused == seen \cap {"undelayed", "raced"} # {}

StreamHeld ==
  \A t \in Threads : holder["stream"] = t <=> frame[t].step \in {"text", "reset"}

Delayed ==
  target # NULL /\ target.ready /\ target.type \in {"file", "socket"} /\ target.stream = NULL
    /\ "ODELAY" \notin target.options => Excused

FoundOpen(f) ==
  f.step \in {"filter", "mask", "send"} /\ target.type = "file" /\ target.stream = NULL => Excused

HandleInv ==
  /\ HandlesOwned
  /\ SendsOpen
  /\ StreamHeld
  /\ holder["target"] # NULL => "color" \in seen
  /\ Delayed
  /\ \A t \in Threads : FoundOpen(frame[t])

(***************************************************************************)
(* What became of a message: its call is the only one with its number, and *)
(* it is written at one step of the call.                                  *)
(***************************************************************************)
IsText(i, c) == out[i] = << "text", c >>

Absent(c) == \A i \in DOMAIN out : ~IsText(i, c)

Once(c) == \E i \in DOMAIN out : IsText(i, c) /\ \A j \in DOMAIN out : IsText(j, c) => j = i

Before == {"name", "length", "trace", "is_open", "open", "filter", "mask", "send", "code", "text"}

Told(f) ==
  /\ f.call <= calls
  /\ f.step \in Outside => f.call = 0 /\ ~f.kept
  /\ f.step \in Before => f.call # 0 /\ Absent(f.call) /\ f.call \notin cons
  /\ f.step = "reset" => f.call # 0 /\ Once(f.call) /\ f.call \notin cons
  /\ f.step = "cons" => f.call # 0 /\ (Absent(f.call) \/ Once(f.call)) /\ f.call \notin cons
  /\ f.kept /\ f.step # "done" => "CONS" \in target.options
  /\ f.step = "done" =>
       /\ f.result = "sent" => Once(f.call) /\ f.call \notin cons
       /\ f.result \in {"filtered", "refused"} => Absent(f.call) /\ f.call \notin cons
       /\ f.result = "rejected" => f.call \notin cons
       /\ f.result = "failed" => (Absent(f.call) \/ Once(f.call)) /\ (f.kept => f.call \in cons)

ToldInv ==
  /\ \A i \in DOMAIN out : out[i][1] = "text" => out[i][2] \in 1..calls
  /\ \A t \in Threads : Told(frame[t])
  /\ \A t, u \in Threads : t # u /\ frame[t].call = frame[u].call => frame[t].call = 0

(***************************************************************************)
(* The masks that a call has met hold the one that the target has now.     *)
(***************************************************************************)
Inside == {"is_open", "open", "filter", "mask", "send", "code", "text", "reset", "cons"}

Met(f) ==
  /\ f.step \in Inside => target.mask \subseteq f.masks /\ (~target.filter => f.masks = Severities)
  /\ f.step \in {"send", "code", "text", "reset", "cons"} => f.severity \in f.masks

MaskInv == \A t \in Threads : Met(frame[t])

(***************************************************************************)
(* The last that was written is a code exactly while the thread that wrote *)
(* it goes on to the text, and the last but one while it goes on to the    *)
(* reset.                                                                  *)
(***************************************************************************)
IsCode(i) == i \in DOMAIN out /\ out[i][1] = "code"

Colored(step) == \E t \in Threads : frame[t].step = step /\ frame[t].code # NULL

StreamInv ==
  /\ StreamWhole
  /\ "cut" \notin seen => (IsCode(Len(out)) <=> Colored("text"))
  /\ "cut" \notin seen => (IsCode(Len(out) - 1) <=> Colored("reset"))

(***************************************************************************)
(* Names: the first part of an array is a name, and what is behind it is   *)
(* zero.  While a name is copied, its length is the one of the target.     *)
(***************************************************************************)
IsName(array, length) ==
  \E n \in Names \cup {NIL} : Len(n) = length /\ \A i \in 1..length : array[i] = n[i]

Ended(array, length) == \A i \in 1..3 : length < i => array[i] = 0

LengthOf(t, k) ==
  IF frame[t].step = "length" /\ frame[t].own = k THEN target.length ELSE cached[t][k].length

NameInv ==
  /\ target # NULL => IsName(target.name, target.length)
  /\ \A t \in Threads, k \in Kinds :
       /\ "renamed" \notin seen /\ frame[t].own = k /\ frame[t].step # "name" =>
            IsName(cached[t][k].name, LengthOf(t, k))
       /\ "renamed" \notin seen /\ "shrunk" \notin seen /\ cached[t][k] # NULL =>
            Ended(cached[t][k].name, LengthOf(t, k))

(***************************************************************************)
(* Traces: at most one thread traces the shared entry, unless they mix,    *)
(* and the params set so far are those of the call.                        *)
(***************************************************************************)
Tracing(t) == frame[t].trace # 0 /\ frame[t].own = "none"

TraceInv ==
  /\ "mixed" \notin seen => \A t, u \in Threads : Tracing(t) /\ Tracing(u) => t = u
  /\ \A t \in Threads :
       frame[t].trace # 0 /\ ("mixed" \notin seen \/ frame[t].own # "none") =>
         /\ frame[t].step = "trace" =>
              \A i \in 1..3 : i < frame[t].trace => trace[Traced(t)][i] = frame[t].call
         /\ frame[t].step \in Inside => \A i \in 1..3 : trace[Traced(t)][i] = frame[t].call
  /\ \A t \in Threads : frame[t].step \in {"name", "length"} => frame[t].trace = 0

-----------------------------------------------------------------------------
(***************************************************************************)
(* PlaceInv is inductive.                                                  *)
(***************************************************************************)

LEMMA PlaceInit ==
  Init => PlaceInv
<1> SUFFICES ASSUME Init PROVE PlaceInv
  OBVIOUS
<1>1. \A t \in Threads : frame[t] = Idle
  BY DEF Init
<1>2. Idle.step = "idle" /\ Idle.own = "none" /\ Idle \in Frames
  BY IdleFrame
<1>3. trace \in [Threads \cup {"shared"} -> [1..3 -> Nat]]
  <2>1. << 0, 0, 0 >> \in [1..3 -> Nat]
    OBVIOUS
  <2> QED
    BY <2>1 DEF Init
<1>4. /\ target \in Targets \cup {NULL} /\ opened \subseteq Handles
      /\ holder \in [{"target", "stream"} -> Threads \cup {NULL}]
      /\ cached \in [Threads -> [Kinds -> Entries \cup {NULL}]]
      /\ frame \in [Threads -> Frames]
  BY <1>2 DEF Init
<1>5. default \subseteq Options /\ calls \in Nat /\ cons \subseteq 1..calls
  BY DEF Init, Options
<1>6. out \in Seq(({"text"} \X Nat) \cup ({"code"} \X Codes) \cup ({"reset"} \X {0}))
  BY DEF Init
<1>7. TypeOK
  BY <1>3, <1>4, <1>5, <1>6 DEF TypeOK
<1>8. \A t \in Threads : Placed(t, frame[t])
  BY <1>1, <1>2 DEF Placed, Outside
<1>9. NewAlone
  BY <1>1, <1>2 DEF NewAlone
<1> QED
  BY <1>7, <1>8, <1>9 DEF PlaceInv

LEMMA HasTarget ==
  ASSUME PlaceInv, target # NULL
  PROVE  target \in Targets
BY DEF PlaceInv, TypeOK

LEMMA HasFrame ==
  ASSUME PlaceInv, NEW t \in Threads
  PROVE  /\ frame \in [Threads -> Frames]
         /\ frame[t] \in Frames /\ Placed(t, frame[t])
BY DEF PlaceInv, TypeOK

LEMMA InCall ==
  ASSUME PlaceInv, NEW t \in Threads, frame[t].step \notin Outside
  PROVE  target \in Targets /\ target.ready
<1>1. Placed(t, frame[t])
  BY HasFrame
<1>2. target # NULL /\ target.ready
  BY <1>1 DEF Placed, Outside
<1> QED
  BY <1>2, HasTarget

\* A target that is ready is not being made.
LEMMA ReadyNotNew ==
  ASSUME PlaceInv, target.ready
  PROVE  \A u \in Threads : frame[u].step # "new"
<1> SUFFICES ASSUME NEW u \in Threads, frame[u].step = "new" PROVE FALSE
  OBVIOUS
<1>1. Placed(u, frame[u])
  BY HasFrame
<1> QED
  BY <1>1 DEF Placed

\* A step of a call, while the target stays what it is.
LEMMA PlaceStep ==
  ASSUME PlaceInv, NEW t \in Threads, NEW f \in Frames, Becomes(t, f), f.step # "new",
         target.ready, target' \in Targets, target'.ready, target'.type = target.type,
         \A u \in Threads, k \in Kinds : cached[u][k] # NULL => cached'[u][k] # NULL,
         f.step \notin Outside \cup {"done"} => f.severity \in Severities,
         f.step = "trace" => f.trace # 0,
         f.step \in {"name", "length"} => f.own # "none",
         f.own # "none" => cached'[t][f.own] # NULL,
         f.step \in {"code", "text", "reset"} => target.type = "stream"
  PROVE  (\A u \in Threads : Placed(u, frame[u])') /\ NewAlone'
<1>1. target' # NULL
  BY NullApart
<1>2. ASSUME NEW u \in Threads
      PROVE  Placed(u, frame[u])' /\ frame'[u].step # "new"
  <2>1. CASE u = t
    <3>1. frame'[t] = f
      BY DEF Becomes
    <3> QED
      BY <2>1, <3>1, <1>1 DEF Placed, Outside
  <2>2. CASE u # t
    <3>1. frame'[u] = frame[u] /\ Placed(u, frame[u]) /\ frame[u].step # "new" /\ frame[u] \in Frames
      BY <2>2, HasFrame, ReadyNotNew DEF Becomes
    <3>2. frame[u].own \in Kinds \cup {"none"}
      BY <3>1, FrameFields
    <3> QED
      BY <3>1, <3>2, <1>1 DEF Placed, Outside
  <2> QED
    BY <2>1, <2>2
<1> QED
  BY <1>2 DEF NewAlone

\* The same while other calls stay where they are.
LEMMA PlaceSet ==
  ASSUME PlaceInv, frame' \in [Threads -> Frames], \A u \in Threads : Meanwhile(frame'[u], frame[u]),
         target.ready, target' \in Targets, target'.ready, target'.type = target.type, cached' = cached
  PROVE  (\A u \in Threads : Placed(u, frame[u])') /\ NewAlone'
<1>1. target' # NULL
  BY NullApart
<1>2. ASSUME NEW u \in Threads
      PROVE  Placed(u, frame[u])' /\ frame'[u].step # "new"
  <2>1. /\ Placed(u, frame[u]) /\ frame[u].step # "new"
        /\ frame'[u].step = frame[u].step /\ frame'[u].severity = frame[u].severity
        /\ frame'[u].own = frame[u].own /\ frame'[u].trace = frame[u].trace
    BY HasFrame, ReadyNotNew DEF Meanwhile
  <2> QED
    BY <2>1, <1>1 DEF Placed, Outside
<1> QED
  BY <1>2 DEF NewAlone

\* A step that goes on, or returns, with the same entry.
LEMMA MovePlace ==
  ASSUME PlaceInv, TypeOK', NEW t \in Threads, NEW f \in Frames, Becomes(t, f), Alike(f, frame[t]),
         frame[t].step \notin Outside \cup {"done"},
         f.step \in {"open", "filter", "mask", "send", "text", "reset", "cons", "done"},
         f.step \in {"text", "reset"} => target.type = "stream",
         UNCHANGED << target, cached >>
  PROVE  PlaceInv'
<1>1. frame[t] \in Frames /\ Placed(t, frame[t]) /\ target \in Targets /\ target.ready
  BY HasFrame, InCall
<1>2. f.severity \in Severities /\ (f.own # "none" => cached'[t][f.own] # NULL)
  BY <1>1 DEF Alike, Placed
<1>3. (\A u \in Threads : Placed(u, frame[u])') /\ NewAlone'
  <2>1. \A u \in Threads, k \in Kinds : cached[u][k] # NULL => cached'[u][k] # NULL
    OBVIOUS
  <2>2. f.step # "new" /\ f.step # "trace" /\ f.step \notin {"name", "length"} /\ f.step # "code"
    OBVIOUS
  <2>3. f.step \in {"code", "text", "reset"} => target.type = "stream"
    BY <2>2
  <2>4. target' \in Targets /\ target'.ready /\ target'.type = target.type
    BY <1>1
  <2> QED
    BY <1>1, <1>2, <2>1, <2>2, <2>3, <2>4, PlaceStep
<1> QED
  BY <1>3 DEF PlaceInv

LEMMA TypesOnly ==
  ASSUME PlaceInv, frame' \in [Threads -> Frames],
         UNCHANGED << target, default, opened, holder, cached, trace, out, cons, calls >>
  PROVE  TypeOK'
BY DEF PlaceInv, TypeOK

Written == ({"text"} \X Nat) \cup ({"code"} \X Codes) \cup ({"reset"} \X {0})

\* What is written is a text, a code or a reset.
LEMMA WrittenOut ==
  ASSUME PlaceInv, NEW x \in Written, out' = Append(out, x)
  PROVE  out' \in Seq(Written)
<1>1. out \in Seq(Written)
  BY DEF PlaceInv, TypeOK, Written
<1> QED
  BY <1>1

LEMMA TextWritten ==
  ASSUME PlaceInv, NEW t \in Threads
  PROVE  Text(t) \in Written
BY HasFrame, FrameFields DEF Text, Written

LEMMA TypesOut ==
  ASSUME PlaceInv, frame' \in [Threads -> Frames], out' \in Seq(Written),
         holder' \in [{"target", "stream"} -> Threads \cup {NULL}],
         UNCHANGED << target, default, opened, cached, trace, cons, calls >>
  PROVE  TypeOK'
BY DEF PlaceInv, TypeOK, Written

LEMMA HeldType ==
  ASSUME PlaceInv, NEW m \in {"target", "stream"}, NEW x \in Threads \cup {NULL}, holder' = [holder EXCEPT ![m] = x]
  PROVE  /\ holder' \in [{"target", "stream"} -> Threads \cup {NULL}]
         /\ holder'[m] = x
         /\ \A n \in {"target", "stream"} : n # m => holder'[n] = holder[n]
BY DEF PlaceInv, TypeOK

LEMMA SameTypes ==
  ASSUME PlaceInv
  PROVE  /\ out \in Seq(Written)
         /\ holder \in [{"target", "stream"} -> Threads \cup {NULL}]
BY DEF PlaceInv, TypeOK, Written

-----------------------------------------------------------------------------
(***************************************************************************)
(* Where each step of a call leaves its frame.                             *)
(***************************************************************************)

LEMMA IsOpenStep ==
  ASSUME PlaceInv, NEW t \in Threads, stumpless_target_is_open(t)
  PROVE  \E f \in Frames :
           /\ Becomes(t, f) /\ Alike(f, frame[t])
           /\ f.step \in {"open", "filter"}
           /\ f.step = "filter" => ~(target.type \in {"file", "socket"} /\ target.stream = NULL)
<1>1. frame \in [Threads -> Frames] /\ frame[t].step = "is_open"
  BY HasFrame DEF stumpless_target_is_open
<1>2. PICK s \in {"open", "filter"} :
        Goto(t, s) /\ (s = "filter" => ~(target.type \in {"file", "socket"} /\ target.stream = NULL))
  BY DEF stumpless_target_is_open
<1>3. s \in Steps
  BY DEF Steps
<1>4. PICK f \in Frames : Becomes(t, f) /\ f.step = s /\ f.result = frame[t].result /\ Alike(f, frame[t])
  BY <1>1, <1>2, <1>3, GotoFrame
<1> QED
  BY <1>2, <1>4

LEMMA FilterStep ==
  ASSUME PlaceInv, NEW t \in Threads, Filter(t)
  PROVE  \E f \in Frames :
           Becomes(t, f) /\ Alike(f, frame[t]) /\ f.step \in {"mask", "send"} /\ (f.step = "send" => ~target.filter)
<1>1. frame \in [Threads -> Frames] /\ frame[t].step = "filter"
  BY HasFrame DEF Filter
<1>2. PICK s \in {"mask", "send"} : Goto(t, s) /\ (s = "send" => ~target.filter)
  BY DEF Filter
<1>3. s \in Steps
  BY DEF Steps
<1>4. PICK f \in Frames : Becomes(t, f) /\ f.step = s /\ f.result = frame[t].result /\ Alike(f, frame[t])
  BY <1>1, <1>2, <1>3, GotoFrame
<1> QED
  BY <1>2, <1>4

LEMMA MaskStep ==
  ASSUME PlaceInv, NEW t \in Threads, stumpless_mask_filter(t)
  PROVE  \E f \in Frames :
           /\ Becomes(t, f) /\ Alike(f, frame[t])
           /\ \/ f.step = "send" /\ frame[t].severity \in target.mask
              \/ f.step = "done" /\ f.result = "filtered"
<1>1. frame \in [Threads -> Frames] /\ "send" \in Steps /\ "filtered" \in Results
  BY HasFrame DEF Steps, Results
<1>2. CASE Goto(t, "send") /\ frame[t].severity \in target.mask
  BY <1>1, <1>2, GotoFrame
<1>3. CASE Return(t, "filtered")
  BY <1>1, <1>3, ReturnFrame
<1> QED
  BY <1>2, <1>3 DEF stumpless_mask_filter

LEMMA RefusedStep ==
  ASSUME PlaceInv, NEW t \in Threads, Return(t, "refused")
  PROVE  \E f \in Frames : Becomes(t, f) /\ Alike(f, frame[t]) /\ f.step = "done" /\ f.result = "refused"
<1>1. frame \in [Threads -> Frames] /\ "refused" \in Results
  BY HasFrame DEF Results
<1> QED
  BY <1>1, ReturnFrame

LEMMA SentStep ==
  ASSUME PlaceInv, NEW t \in Threads, Return(t, "sent")
  PROVE  \E f \in Frames : Becomes(t, f) /\ Alike(f, frame[t]) /\ f.step = "done" /\ f.result = "sent"
<1>1. frame \in [Threads -> Frames] /\ "sent" \in Results
  BY HasFrame DEF Results
<1> QED
  BY <1>1, ReturnFrame

LEMMA ConsStep ==
  ASSUME PlaceInv, NEW t \in Threads, Goto(t, "cons")
  PROVE  \E f \in Frames : Becomes(t, f) /\ Alike(f, frame[t]) /\ f.step = "cons"
<1>1. frame \in [Threads -> Frames] /\ "cons" \in Steps
  BY HasFrame DEF Steps
<1> QED
  BY <1>1, GotoFrame

LEMMA FunctionStep ==
  ASSUME PlaceInv, NEW t \in Threads, send_entry_to_function_target(t)
  PROVE  \E f \in Frames :
           Becomes(t, f) /\ Alike(f, frame[t]) /\ f.step = "done" /\ f.result \in {"sent", "rejected"}
<1>1. frame \in [Threads -> Frames]
  BY HasFrame
<1>2. PICK r \in {"sent", "rejected"} : Return(t, r)
  BY DEF send_entry_to_function_target
<1>3. r \in Results
  BY DEF Results
<1> QED
  BY <1>1, <1>2, <1>3, ReturnFrame

LEMMA FileStep ==
  ASSUME PlaceInv, NEW t \in Threads, sendto_file_target(t)
  PROVE  \E f \in Frames :
           /\ Becomes(t, f)
           /\ \/ /\ target.stream = NULL /\ out' = out
                 /\ f.step = "crashed" /\ f.call = 0 /\ f.own = "none" /\ f.kept = FALSE /\ f.trace = 0
              \/ Alike(f, frame[t]) /\ f.step = "done" /\ f.result = "sent" /\ out' = Append(out, Text(t))
              \/ Alike(f, frame[t]) /\ f.step = "cons" /\ out' = out
<1>1. frame \in [Threads -> Frames]
  BY HasFrame
<1>2. CASE target.stream = NULL /\ Crash(t) /\ UNCHANGED out
  BY <1>1, <1>2, CrashFrame
<1>3. CASE out' = Append(out, Text(t)) /\ Return(t, "sent")
  BY <1>3, SentStep
<1>4. CASE Goto(t, "cons") /\ UNCHANGED out
  BY <1>4, ConsStep
<1> QED
  BY <1>2, <1>3, <1>4 DEF sendto_file_target

LEMMA SocketStep ==
  ASSUME PlaceInv, NEW t \in Threads, sendto_socket_target(t)
  PROVE  \E f \in Frames :
           /\ Becomes(t, f) /\ Alike(f, frame[t])
           /\ \/ f.step = "done" /\ f.result = "sent" /\ out' = Append(out, Text(t))
              \/ f.step = "cons" /\ out' = out
<1>1. CASE out' = Append(out, Text(t)) /\ Return(t, "sent")
  BY <1>1, SentStep
<1>2. CASE Goto(t, "cons") /\ UNCHANGED out
  BY <1>2, ConsStep
<1> QED
  BY <1>1, <1>2 DEF sendto_socket_target

LEMMA StreamStep ==
  ASSUME PlaceInv, NEW t \in Threads, sendto_stream_target(t)
  PROVE  \E f \in Frames :
           /\ Becomes(t, f)
           /\ f.step = "code"
           /\ f.call = frame[t].call /\ f.severity = frame[t].severity /\ f.own = frame[t].own
           /\ f.masks = frame[t].masks /\ f.kept = frame[t].kept /\ f.trace = frame[t].trace
<1>1. frame \in [Threads -> Frames] /\ frame[t].step = "send" /\ Placed(t, frame[t])
  BY HasFrame DEF sendto_stream_target
<1>2. target \in Targets /\ frame[t].severity \in Severities
  BY <1>1, InCall DEF Placed, Outside
<1>3. PICK c \in Codes \cup {NULL} : c = target.codes[frame[t].severity]
  BY <1>2, TargetFields
<1>4. frame' = [frame EXCEPT ![t] = [@ EXCEPT !.step = "code", !.code = c]]
  BY <1>3 DEF sendto_stream_target
<1> QED
  BY <1>1, <1>4, CodeFrame

LEMMA WriteCodeStep ==
  ASSUME PlaceInv, NEW t \in Threads, WriteCode(t)
  PROVE  \E f \in Frames : Becomes(t, f) /\ Alike(f, frame[t]) /\ f.step = "text"
<1>1. frame \in [Threads -> Frames] /\ "text" \in Steps
  BY HasFrame DEF Steps
<1> QED
  BY <1>1, GotoFrame DEF WriteCode

LEMMA WriteTextStep ==
  ASSUME PlaceInv, NEW t \in Threads, WriteText(t)
  PROVE  \E f \in Frames : Becomes(t, f) /\ Alike(f, frame[t]) /\ f.step = "reset"
<1>1. frame \in [Threads -> Frames] /\ "reset" \in Steps
  BY HasFrame DEF Steps
<1> QED
  BY <1>1, GotoFrame DEF WriteText

LEMMA ConsoleStep ==
  ASSUME PlaceInv, NEW t \in Threads, Console(t)
  PROVE  \E f \in Frames : Becomes(t, f) /\ Alike(f, frame[t]) /\ f.step = "done" /\ f.result = "failed"
<1>1. frame \in [Threads -> Frames] /\ "failed" \in Results
  BY HasFrame DEF Results
<1> QED
  BY <1>1, ReturnFrame DEF Console

LEMMA DoneStep ==
  ASSUME PlaceInv, NEW t \in Threads, Done(t)
  PROVE  Becomes(t, Idle)
<1>1. frame \in [Threads -> Frames] /\ Idle \in Frames
  BY HasFrame, IdleFrame
<1> QED
  BY <1>1, BecomesIt DEF Done

\* What a call of stumpless_add_entry starts with.
Entered(f, c, s, o, old) ==
  /\ f.step \in {"is_open", "filter"}
  /\ f.step = "filter" => "ODELAY" \notin target.options
  /\ f.call = c /\ f.severity = s /\ f.own = o
  /\ f.masks = IF target.filter THEN target.mask ELSE Severities
  /\ f.kept => "CONS" \in target.options
  /\ f.code = old.code /\ f.trace = old.trace

LEMMA EnterStep ==
  ASSUME PlaceInv, NEW t \in Threads, target \in Targets, NEW c \in Nat, NEW s \in Severities,
         NEW o \in {"none"} \cup Kinds, Enter(t, c, s, o)
  PROVE  \E f \in Frames : Becomes(t, f) /\ Entered(f, c, s, o, frame[t])
<1>1. frame \in [Threads -> Frames]
  BY HasFrame
<1>2. PICK f \in Frames :
           /\ Becomes(t, f)
           /\ f.step = IF "ODELAY" \in target.options THEN "is_open" ELSE "filter"
           /\ f.call = c /\ f.severity = s /\ f.own = o
           /\ f.masks = IF target.filter THEN target.mask ELSE Severities
           /\ f.kept => "CONS" \in target.options
           /\ f.code = frame[t].code /\ f.result = frame[t].result /\ f.trace = frame[t].trace
  BY <1>1, EnterFrame
<1> QED
  BY <1>2 DEF Entered

LEMMA IdleCall ==
  ASSUME PlaceInv, NEW t \in Threads, Call(t)
  PROVE  /\ frame[t] = Idle /\ frame[t].step = "idle" /\ frame[t].call = 0 /\ frame[t].own = "none"
         /\ frame[t].kept = FALSE /\ frame[t].trace = 0 /\ frame[t].code = NULL
         /\ calls \in Nat /\ calls' = calls + 1 /\ calls' \in Nat /\ calls + 1 \in Nat
<1>1. calls \in Nat /\ calls' = calls + 1
  BY DEF PlaceInv, TypeOK, Call
<1>2. frame[t] = Idle
  BY DEF Call
<1> QED
  BY <1>1, <1>2, IdleFrame

LEMMA AddEntryStep ==
  ASSUME PlaceInv, NEW t \in Threads, stumpless_add_entry(t)
  PROVE  \E f \in Frames, s \in Severities :
           Becomes(t, f) /\ Entered(f, calls + 1, s, "none", frame[t])
<1>1. PICK s \in Severities : Call(t) /\ target # NULL /\ Enter(t, calls + 1, s, "none")
  BY DEF stumpless_add_entry
<1>2. target \in Targets /\ calls + 1 \in Nat
  BY <1>1, HasTarget, IdleCall
<1>3. PICK c \in Nat : c = calls + 1
  BY <1>2
<1>4. \E f \in Frames : Becomes(t, f) /\ Entered(f, c, s, "none", frame[t])
  BY <1>1, <1>2, <1>3, EnterStep
<1> QED
  BY <1>3, <1>4

LEMMA CopyLengthStep ==
  ASSUME PlaceInv, NEW t \in Threads, CopyLength(t)
  PROVE  \E f \in Frames :
           /\ Becomes(t, f)
           /\ \/ /\ frame[t].own = "entry"
                 /\ Entered(f, frame[t].call, frame[t].severity, frame[t].own, frame[t])
              \/ /\ f.step = "trace" /\ f.trace = 1 /\ f.call = frame[t].call /\ f.severity = frame[t].severity
                 /\ f.own = frame[t].own /\ f.code = frame[t].code /\ f.kept = frame[t].kept
<1>1. frame \in [Threads -> Frames] /\ frame[t] \in Frames /\ frame[t].step = "length" /\ Placed(t, frame[t])
  BY HasFrame DEF CopyLength
<1>2. target \in Targets /\ frame[t].severity \in Severities /\ frame[t].call \in Nat
  BY <1>1, InCall, FrameFields DEF Placed, Outside
<1>3. CASE frame[t].own = "entry"
  <2>1. Enter(t, frame[t].call, frame[t].severity, "entry")
    BY <1>3 DEF CopyLength, Loaded
  <2>2. PICK c \in Nat, s \in Severities : c = frame[t].call /\ s = frame[t].severity
    BY <1>2
  <2>3. "entry" \in {"none"} \cup Kinds
    BY DEF Kinds
  <2>4. \E f \in Frames : Becomes(t, f) /\ Entered(f, c, s, "entry", frame[t])
    BY <1>2, <2>1, <2>2, <2>3, EnterStep
  <2> QED
    BY <1>3, <2>2, <2>4
<1>4. CASE frame[t].own # "entry"
  <2>1. frame' = [frame EXCEPT ![t] = [@ EXCEPT !.step = "trace", !.trace = 1]]
    BY <1>4 DEF CopyLength, Loaded
  <2> QED
    BY <1>1, <2>1, TracedFrame
<1> QED
  BY <1>3, <1>4

LEMMA CopyNameStep ==
  ASSUME PlaceInv, NEW t \in Threads, CopyName(t)
  PROVE  \E f \in Frames : Becomes(t, f) /\ Alike(f, frame[t]) /\ f.step = "length"
<1>1. frame \in [Threads -> Frames] /\ "length" \in Steps
  BY HasFrame DEF Steps
<1> QED
  BY <1>1, GotoFrame DEF CopyName

LEMMA TraceEntryStep ==
  ASSUME PlaceInv, NEW t \in Threads, stumpless_trace_entry(t)
  PROVE  \E f \in Frames, s \in Severities :
           /\ Becomes(t, f)
           /\ f.step = "trace" /\ f.trace = 1 /\ f.call = calls + 1 /\ f.severity = s
           /\ f.own = frame[t].own /\ f.masks = frame[t].masks /\ f.code = frame[t].code
           /\ f.kept = frame[t].kept
<1>1. PICK s \in Severities :
        /\ Call(t)
        /\ frame' = [frame EXCEPT ![t] =
                      [@ EXCEPT !.step = "trace", !.call = calls + 1, !.severity = s, !.trace = 1]]
  BY DEF stumpless_trace_entry
<1>2. frame \in [Threads -> Frames] /\ calls + 1 \in Nat
  BY <1>1, IdleCall, HasFrame
<1>3. PICK c \in Nat : c = calls + 1
  BY <1>2
<1>4. \E f \in Frames :
           /\ Becomes(t, f)
           /\ f.step = "trace" /\ f.trace = 1 /\ f.call = c /\ f.severity = s
           /\ f.own = frame[t].own /\ f.masks = frame[t].masks /\ f.code = frame[t].code
           /\ f.result = frame[t].result /\ f.kept = frame[t].kept
  <2>1. frame' = [frame EXCEPT ![t] = [@ EXCEPT !.step = "trace", !.call = c, !.severity = s, !.trace = 1]]
    BY <1>1, <1>3
  <2>2. PICK one \in 0..3 : one = 1
    OBVIOUS
  <2> DEFINE f == [frame[t] EXCEPT !.step = "trace", !.call = c, !.severity = s, !.trace = one]
  <2>3. /\ f \in Frames /\ f.step = "trace" /\ f.trace = one /\ f.call = c /\ f.severity = s
        /\ f.own = frame[t].own /\ f.masks = frame[t].masks /\ f.code = frame[t].code
        /\ f.result = frame[t].result /\ f.kept = frame[t].kept
    BY <1>2 DEF Frames, Steps
  <2>4. Becomes(t, f)
    BY <1>2, <2>1, <2>2, <2>3, BecomesIt
  <2> QED
    BY <2>2, <2>3, <2>4
<1> QED
  BY <1>3, <1>4

LEMMA SetTraceStep ==
  ASSUME PlaceInv, NEW t \in Threads, SetTrace(t)
  PROVE  \E f \in Frames :
           /\ Becomes(t, f)
           /\ \/ /\ Alike(f, frame[t]) /\ f.step = "done" /\ f.result = "refused" /\ trace' = trace
              \/ /\ trace' = [trace EXCEPT ![Traced(t)][frame[t].trace] = frame[t].call]
                 /\ frame[t].trace < 3
                 /\ f.step = "trace" /\ f.trace = frame[t].trace + 1
                 /\ f.call = frame[t].call /\ f.severity = frame[t].severity /\ f.own = frame[t].own
                 /\ f.code = frame[t].code /\ f.kept = frame[t].kept
              \/ /\ trace' = [trace EXCEPT ![Traced(t)][frame[t].trace] = frame[t].call]
                 /\ frame[t].trace = 3
                 /\ Entered(f, frame[t].call, frame[t].severity, frame[t].own, frame[t])
<1>1. frame \in [Threads -> Frames] /\ frame[t] \in Frames /\ frame[t].step = "trace" /\ Placed(t, frame[t])
  BY HasFrame DEF SetTrace
<1>2. /\ target \in Targets /\ frame[t].severity \in Severities /\ frame[t].call \in Nat
      /\ frame[t].trace \in 0..3 /\ frame[t].own \in {"none"} \cup Kinds
  BY <1>1, InCall, FrameFields DEF Placed, Outside
<1>3. CASE UNCHANGED trace /\ Return(t, "refused")
  BY <1>3, RefusedStep
<1>4. CASE /\ trace' = [trace EXCEPT ![Traced(t)][frame[t].trace] = frame[t].call]
           /\ frame[t].trace < 3 /\ frame' = [frame EXCEPT ![t].trace = @ + 1]
  BY <1>1, <1>4, NextTraceFrame
<1>5. CASE /\ trace' = [trace EXCEPT ![Traced(t)][frame[t].trace] = frame[t].call]
           /\ ~(frame[t].trace < 3) /\ Enter(t, frame[t].call, frame[t].severity, frame[t].own)
  <2>1. frame[t].trace = 3
    BY <1>2, <1>5
  <2>2. PICK c \in Nat, s \in Severities, o \in {"none"} \cup Kinds :
          c = frame[t].call /\ s = frame[t].severity /\ o = frame[t].own
    BY <1>2
  <2>3. \E f \in Frames : Becomes(t, f) /\ Entered(f, c, s, o, frame[t])
    BY <1>2, <1>5, <2>2, EnterStep
  <2> QED
    BY <1>5, <2>1, <2>2, <2>3
<1> QED
  BY <1>3, <1>4, <1>5 DEF SetTrace

\* The thread has loaded its entry k, or could not.
Loads(t, f, s, k) ==
  /\ Becomes(t, f)
  /\ f.masks = frame[t].masks /\ f.code = NULL /\ f.kept = FALSE /\ f.trace = 0
  /\ \/ /\ f.step = "done" /\ f.result = "refused" /\ f.call = 0 /\ f.own = "none" /\ cached' = cached
     \/ /\ f.step = "name" /\ f.call = calls + 1 /\ f.severity = s /\ f.own = k
        /\ \E e \in Entries :
             /\ CachedBecomes(t, k, e)
             /\ cached[t][k] # NULL => e = cached[t][k]
             /\ cached[t][k] = NULL => e.name = << 45, 0, 0 >> /\ e.length = 1

LEMMA LoadStep ==
  ASSUME PlaceInv, NEW t \in Threads, NEW s \in Severities, NEW k \in Kinds, Call(t), Load(t, s, k)
  PROVE  \E f \in Frames : Loads(t, f, s, k)
<1>1. frame \in [Threads -> Frames] /\ cached \in [Threads -> [Kinds -> Entries \cup {NULL}]]
  BY DEF PlaceInv, TypeOK
<1>2. /\ calls + 1 \in Nat /\ frame[t].code = NULL /\ frame[t].kept = FALSE /\ frame[t].trace = 0
      /\ frame[t].call = 0 /\ frame[t].own = "none"
  BY IdleCall
<1>3. CASE Return(t, "refused") /\ UNCHANGED cached
  BY <1>2, <1>3, RefusedStep DEF Alike, Loads
<1>4. CASE /\ cached' = [cached EXCEPT ![t][k] = IF @ = NULL THEN [name |-> << 45, 0, 0 >>, length |-> 1] ELSE @]
           /\ frame' = [frame EXCEPT ![t] =
                         [@ EXCEPT !.step = "name", !.call = calls + 1, !.severity = s, !.own = k]]
  <2>1. PICK c \in Nat : c = calls + 1
    BY <1>2
  <2>2. \E f \in Frames :
           /\ Becomes(t, f)
           /\ f.step = "name" /\ f.call = c /\ f.severity = s /\ f.own = k
           /\ f.masks = frame[t].masks /\ f.code = frame[t].code /\ f.result = frame[t].result
           /\ f.kept = frame[t].kept /\ f.trace = frame[t].trace
    <3>1. frame' = [frame EXCEPT ![t] = [@ EXCEPT !.step = "name", !.call = c, !.severity = s, !.own = k]]
      BY <1>4, <2>1
    <3> DEFINE f == [frame[t] EXCEPT !.step = "name", !.call = c, !.severity = s, !.own = k]
    <3>2. /\ f \in Frames /\ f.step = "name" /\ f.call = c /\ f.severity = s /\ f.own = k
          /\ f.masks = frame[t].masks /\ f.code = frame[t].code /\ f.result = frame[t].result
          /\ f.kept = frame[t].kept /\ f.trace = frame[t].trace
      BY <1>1 DEF Frames, Steps
    <3>3. Becomes(t, f)
      BY <1>1, <3>1, <3>2, BecomesIt
    <3> QED
      BY <3>2, <3>3
  <2>3. \E e \in Entries :
          /\ CachedBecomes(t, k, e)
          /\ cached[t][k] # NULL => e = cached[t][k]
          /\ cached[t][k] = NULL => e.name = << 45, 0, 0 >> /\ e.length = 1
    BY <1>1, <1>4, LoadEntry
  <2> QED
    BY <1>2, <2>1, <2>2, <2>3 DEF Loads
<1> QED
  BY <1>3, <1>4 DEF Load

-----------------------------------------------------------------------------
(***************************************************************************)
(* Every step keeps PlaceInv.                                              *)
(***************************************************************************)

LEMMA PlaceIsOpen ==
  ASSUME PlaceInv, NEW t \in Threads, stumpless_target_is_open(t)
  PROVE  PlaceInv'
<1>1. PICK f \in Frames : Becomes(t, f) /\ Alike(f, frame[t]) /\ f.step \in {"open", "filter"}
  BY IsOpenStep
<1>2. TypeOK'
  BY <1>1, TypesOnly DEF stumpless_target_is_open, Becomes
<1> QED
  BY <1>1, <1>2, MovePlace DEF stumpless_target_is_open, Outside

LEMMA PlaceFilter ==
  ASSUME PlaceInv, NEW t \in Threads, Filter(t)
  PROVE  PlaceInv'
<1>1. PICK f \in Frames : Becomes(t, f) /\ Alike(f, frame[t]) /\ f.step \in {"mask", "send"}
  BY FilterStep
<1>2. TypeOK'
  BY <1>1, TypesOnly DEF Filter, Becomes
<1> QED
  BY <1>1, <1>2, MovePlace DEF Filter, Outside

LEMMA PlaceMask ==
  ASSUME PlaceInv, NEW t \in Threads, stumpless_mask_filter(t)
  PROVE  PlaceInv'
<1>1. PICK f \in Frames : Becomes(t, f) /\ Alike(f, frame[t]) /\ f.step \in {"send", "done"}
  BY MaskStep
<1>2. TypeOK'
  BY <1>1, TypesOnly DEF stumpless_mask_filter, Becomes
<1> QED
  BY <1>1, <1>2, MovePlace DEF stumpless_mask_filter, Outside

LEMMA PlaceFormat ==
  ASSUME PlaceInv, NEW t \in Threads, FormatFails(t)
  PROVE  PlaceInv'
<1>1. PICK f \in Frames : Becomes(t, f) /\ Alike(f, frame[t]) /\ f.step = "done"
  BY RefusedStep DEF FormatFails
<1>2. TypeOK'
  BY <1>1, TypesOnly DEF FormatFails, Becomes
<1> QED
  BY <1>1, <1>2, MovePlace DEF FormatFails, Outside

LEMMA PlaceFunction ==
  ASSUME PlaceInv, NEW t \in Threads, send_entry_to_function_target(t)
  PROVE  PlaceInv'
<1>1. PICK f \in Frames : Becomes(t, f) /\ Alike(f, frame[t]) /\ f.step = "done"
  BY FunctionStep
<1>2. out' \in Seq(Written)
  BY TextWritten, WrittenOut DEF send_entry_to_function_target
<1>3. TypeOK'
  BY <1>1, <1>2, SameTypes, TypesOut DEF send_entry_to_function_target, Becomes
<1> QED
  BY <1>1, <1>3, MovePlace DEF send_entry_to_function_target, Outside

LEMMA PlaceFile ==
  ASSUME PlaceInv, NEW t \in Threads, sendto_file_target(t)
  PROVE  PlaceInv'
<1>1. PICK f \in Frames :
           /\ Becomes(t, f)
           /\ \/ /\ target.stream = NULL /\ out' = out
                 /\ f.step = "crashed" /\ f.call = 0 /\ f.own = "none" /\ f.kept = FALSE /\ f.trace = 0
              \/ Alike(f, frame[t]) /\ f.step = "done" /\ f.result = "sent" /\ out' = Append(out, Text(t))
              \/ Alike(f, frame[t]) /\ f.step = "cons" /\ out' = out
  BY FileStep
<1>2. out' \in Seq(Written)
  BY <1>1, SameTypes, TextWritten, WrittenOut
<1>3. TypeOK'
  BY <1>1, <1>2, SameTypes, TypesOut DEF sendto_file_target, Becomes
<1>4. CASE f.step = "crashed" /\ f.own = "none"
  <2>1. target \in Targets /\ target.ready
    BY InCall DEF sendto_file_target, Outside
  <2>2. (\A u \in Threads : Placed(u, frame[u])') /\ NewAlone'
    BY <1>1, <1>4, <2>1, PlaceStep DEF sendto_file_target, Outside
  <2> QED
    BY <1>3, <2>2 DEF PlaceInv
<1>5. CASE Alike(f, frame[t]) /\ f.step \in {"done", "cons"}
  BY <1>1, <1>3, <1>5, MovePlace DEF sendto_file_target, Outside
<1> QED
  BY <1>1, <1>4, <1>5

LEMMA PlaceSocket ==
  ASSUME PlaceInv, NEW t \in Threads, sendto_socket_target(t)
  PROVE  PlaceInv'
<1>1. PICK f \in Frames :
           /\ Becomes(t, f) /\ Alike(f, frame[t]) /\ f.step \in {"done", "cons"}
           /\ out' = out \/ out' = Append(out, Text(t))
  BY SocketStep
<1>2. out' \in Seq(Written)
  BY <1>1, SameTypes, TextWritten, WrittenOut
<1>3. TypeOK'
  BY <1>1, <1>2, SameTypes, TypesOut DEF sendto_socket_target, Becomes
<1> QED
  BY <1>1, <1>3, MovePlace DEF sendto_socket_target, Outside

LEMMA PlaceStream ==
  ASSUME PlaceInv, NEW t \in Threads, sendto_stream_target(t)
  PROVE  PlaceInv'
<1>1. PICK f \in Frames :
        Becomes(t, f) /\ f.step = "code" /\ f.severity = frame[t].severity /\ f.own = frame[t].own
  BY StreamStep
<1>2. TypeOK'
  BY <1>1, TypesOnly DEF sendto_stream_target, Becomes
<1>3. target \in Targets /\ target.ready /\ Placed(t, frame[t]) /\ frame[t].step = "send" /\ target.type = "stream"
  BY HasFrame, InCall DEF sendto_stream_target, Outside
<1>4. f.severity \in Severities /\ (f.own # "none" => cached[t][f.own] # NULL)
  BY <1>1, <1>3 DEF Placed, Outside
<1>5. (\A u \in Threads : Placed(u, frame[u])') /\ NewAlone'
  BY <1>1, <1>3, <1>4, PlaceStep DEF sendto_stream_target
<1> QED
  BY <1>2, <1>5 DEF PlaceInv

LEMMA PlaceWriteCode ==
  ASSUME PlaceInv, NEW t \in Threads, WriteCode(t)
  PROVE  PlaceInv'
<1>1. PICK f \in Frames : Becomes(t, f) /\ Alike(f, frame[t]) /\ f.step = "text"
  BY WriteCodeStep
<1>2. frame[t].step = "code" /\ Placed(t, frame[t]) /\ frame[t] \in Frames
  BY HasFrame DEF WriteCode
<1>3. out' \in Seq(Written)
  <2>1. CASE frame[t].code = NULL
    BY <2>1, SameTypes DEF WriteCode
  <2>2. CASE frame[t].code # NULL
    <3>1. << "code", frame[t].code >> \in Written
      BY <1>2, <2>2, FrameFields DEF Written
    <3> QED
      BY <2>2, <3>1, WrittenOut DEF WriteCode
  <2> QED
    BY <2>1, <2>2
<1>4. holder' \in [{"target", "stream"} -> Threads \cup {NULL}]
  BY HeldType DEF WriteCode
<1>5. TypeOK'
  BY <1>1, <1>3, <1>4, TypesOut DEF WriteCode, Becomes
<1>6. target.type = "stream"
  BY <1>2 DEF Placed
<1> QED
  BY <1>1, <1>2, <1>5, <1>6, MovePlace DEF WriteCode, Outside

LEMMA PlaceWriteText ==
  ASSUME PlaceInv, NEW t \in Threads, WriteText(t)
  PROVE  PlaceInv'
<1>1. PICK f \in Frames : Becomes(t, f) /\ Alike(f, frame[t]) /\ f.step = "reset"
  BY WriteTextStep
<1>2. frame[t].step = "text" /\ Placed(t, frame[t])
  BY HasFrame DEF WriteText
<1>3. out' \in Seq(Written)
  BY TextWritten, WrittenOut DEF WriteText
<1>4. TypeOK'
  BY <1>1, <1>3, SameTypes, TypesOut DEF WriteText, Becomes
<1>5. target.type = "stream"
  BY <1>2 DEF Placed
<1> QED
  BY <1>1, <1>2, <1>4, <1>5, MovePlace DEF WriteText, Outside

LEMMA PlaceWriteReset ==
  ASSUME PlaceInv, NEW t \in Threads, WriteReset(t)
  PROVE  PlaceInv'
<1>1. PICK f \in Frames : Becomes(t, f) /\ Alike(f, frame[t]) /\ f.step = "done"
  BY SentStep DEF WriteReset
<1>2. out' \in Seq(Written)
  <2>1. << "reset", 0 >> \in Written
    BY DEF Written
  <2> QED
    BY <2>1, SameTypes, WrittenOut DEF WriteReset
<1>3. holder' \in [{"target", "stream"} -> Threads \cup {NULL}]
  BY HeldType DEF WriteReset
<1>4. TypeOK'
  BY <1>1, <1>2, <1>3, TypesOut DEF WriteReset, Becomes
<1> QED
  BY <1>1, <1>4, MovePlace DEF WriteReset, Outside

LEMMA PlaceWriteFails ==
  ASSUME PlaceInv, NEW t \in Threads, WriteFails(t)
  PROVE  PlaceInv'
<1>1. PICK f \in Frames : Becomes(t, f) /\ Alike(f, frame[t]) /\ f.step = "cons"
  BY ConsStep DEF WriteFails
<1>2. holder' \in [{"target", "stream"} -> Threads \cup {NULL}]
  BY HeldType DEF WriteFails
<1>3. TypeOK'
  BY <1>1, <1>2, SameTypes, TypesOut DEF WriteFails, Becomes
<1>4. frame[t].step \notin Outside \cup {"done"}
  BY DEF WriteFails, Outside
<1> QED
  BY <1>1, <1>3, <1>4, MovePlace DEF WriteFails

LEMMA PlaceDone ==
  ASSUME PlaceInv, NEW t \in Threads, Done(t)
  PROVE  PlaceInv'
<1>1. Becomes(t, Idle) /\ Idle \in Frames /\ Idle.step = "idle" /\ Idle.own = "none"
  BY DoneStep, IdleFrame
<1>2. TypeOK'
  BY <1>1, TypesOnly DEF Done, Becomes
<1>3. target \in Targets /\ target.ready
  BY InCall DEF Done, Outside
<1>4. (\A u \in Threads : Placed(u, frame[u])') /\ NewAlone'
  BY <1>1, <1>3, PlaceStep DEF Done, Outside
<1> QED
  BY <1>2, <1>4 DEF PlaceInv

LEMMA PlaceConsole ==
  ASSUME PlaceInv, NEW t \in Threads, Console(t), Told(frame[t])
  PROVE  PlaceInv'
<1>1. PICK f \in Frames : Becomes(t, f) /\ Alike(f, frame[t]) /\ f.step = "done"
  BY ConsoleStep
<1>2. frame[t].step = "cons" /\ frame[t] \in Frames
  BY HasFrame DEF Console
<1>3. frame[t].call \in 1..calls
  <2>1. frame[t].call \in Nat /\ calls \in Nat /\ frame[t].call <= calls /\ frame[t].call # 0
    BY <1>2, FrameFields DEF PlaceInv, TypeOK, Told
  <2> QED
    BY <2>1
<1>4. cons' \subseteq 1..calls'
  BY <1>3 DEF Console, PlaceInv, TypeOK
<1>5. TypeOK'
  BY <1>1, <1>4 DEF Console, Becomes, PlaceInv, TypeOK
<1> QED
  BY <1>1, <1>2, <1>5, MovePlace DEF Console, Outside

LEMMA CallsUp ==
  ASSUME PlaceInv, NEW t \in Threads, Call(t), cons' = cons
  PROVE  calls' \in Nat /\ cons' \subseteq 1..calls'
<1>1. calls \in Nat /\ calls' = calls + 1 /\ cons \subseteq 1..calls
  BY IdleCall DEF PlaceInv, TypeOK
<1> QED
  BY <1>1

LEMMA OpenTargetStep ==
  ASSUME PlaceInv, NEW t \in Threads, stumpless_open_target(t)
  PROVE  \E f \in Frames, h \in Handles \cup {NULL} :
           /\ Becomes(t, f) /\ Alike(f, frame[t])
           /\ target' = [target EXCEPT !.stream = h]
           /\ target.stream # NULL => "raced" \in seen'
           /\ seen \subseteq seen' /\ seen' \subseteq seen \cup {"unbound", "raced"}
           /\ \/ h \in Handles /\ opened' = opened \cup {h} /\ f.step = "filter"
              \/ /\ h \in Handles /\ opened' = opened /\ "unbound" \in seen'
                 /\ f.step = "done" /\ f.result = "refused"
              \/ h = NULL /\ opened' = opened /\ f.step = "done" /\ f.result = "refused"
<1>1. frame \in [Threads -> Frames] /\ "filter" \in Steps
  BY HasFrame DEF Steps
<1>2. CASE \E h \in Handles :
             /\ opened' = opened \cup {h} /\ target' = [target EXCEPT !.stream = h]
             /\ seen' = IF target.stream = NULL THEN seen ELSE seen \cup {"raced"}
             /\ Goto(t, "filter")
  <2>1. PICK f \in Frames : Becomes(t, f) /\ Alike(f, frame[t]) /\ f.step = "filter"
    BY <1>1, <1>2, GotoFrame
  <2> QED
    BY <1>2, <2>1
<1>3. CASE \E h \in Handles :
             /\ target' = [target EXCEPT !.stream = h] /\ UNCHANGED opened
             /\ seen' = seen \cup {"unbound"} \cup (IF target.stream = NULL THEN {} ELSE {"raced"})
             /\ Return(t, "refused")
  <2>1. PICK f \in Frames : Becomes(t, f) /\ Alike(f, frame[t]) /\ f.step = "done" /\ f.result = "refused"
    BY <1>3, RefusedStep
  <2> QED
    BY <1>3, <2>1
<1>4. CASE /\ target' = [target EXCEPT !.stream = NULL] /\ UNCHANGED opened
           /\ seen' = IF target.stream = NULL THEN seen ELSE seen \cup {"raced"}
           /\ Return(t, "refused")
  <2>1. PICK f \in Frames : Becomes(t, f) /\ Alike(f, frame[t]) /\ f.step = "done" /\ f.result = "refused"
    BY <1>4, RefusedStep
  <2> QED
    BY <1>4, <2>1
<1> QED
  BY <1>2, <1>3, <1>4 DEF stumpless_open_target

LEMMA PlaceOpenTarget ==
  ASSUME PlaceInv, NEW t \in Threads, stumpless_open_target(t)
  PROVE  PlaceInv'
<1>1. PICK f \in Frames, h \in Handles \cup {NULL} :
        /\ Becomes(t, f) /\ Alike(f, frame[t]) /\ target' = [target EXCEPT !.stream = h]
        /\ opened' \subseteq opened \cup (Handles \cap {h}) /\ f.step \in {"filter", "done"}
  BY OpenTargetStep
<1>2. frame[t].step = "open" /\ Placed(t, frame[t]) /\ target \in Targets /\ target.ready
  BY HasFrame, InCall DEF stumpless_open_target, Outside
<1>3. target' \in Targets /\ target'.ready /\ target'.type = target.type
  BY <1>1, <1>2, StreamTarget
<1>4. TypeOK'
  BY <1>1, <1>3 DEF stumpless_open_target, Becomes, PlaceInv, TypeOK
<1>5. f.severity \in Severities /\ (f.own # "none" => cached[t][f.own] # NULL)
  BY <1>1, <1>2 DEF Placed, Outside, Alike
<1>6. (\A u \in Threads : Placed(u, frame[u])') /\ NewAlone'
  BY <1>1, <1>2, <1>3, <1>5, PlaceStep DEF stumpless_open_target
<1> QED
  BY <1>4, <1>6 DEF PlaceInv

LEMMA PlaceAddEntry ==
  ASSUME PlaceInv, NEW t \in Threads, stumpless_add_entry(t)
  PROVE  PlaceInv'
<1>1. PICK f \in Frames, s \in Severities : Becomes(t, f) /\ Entered(f, calls + 1, s, "none", frame[t])
  BY AddEntryStep
<1>2. /\ Call(t) /\ target # NULL /\ target.ready
      /\ UNCHANGED << target, default, opened, holder, cached, trace, out, cons >>
  BY DEF stumpless_add_entry
<1>3. TypeOK'
  BY <1>1, <1>2, CallsUp DEF Becomes, PlaceInv, TypeOK
<1>4. f.step \in {"is_open", "filter"} /\ f.severity = s /\ f.own = "none"
  BY <1>1 DEF Entered
<1>5. (\A u \in Threads : Placed(u, frame[u])') /\ NewAlone'
  BY <1>1, <1>2, <1>4, HasTarget, PlaceStep
<1> QED
  BY <1>3, <1>5 DEF PlaceInv

LEMMA PlaceLoad ==
  ASSUME PlaceInv, NEW t \in Threads, NEW s \in Severities, NEW k \in Kinds,
         Call(t), target # NULL, target.ready, Load(t, s, k),
         UNCHANGED << target, default, opened, holder, trace, out, cons >>
  PROVE  PlaceInv'
<1>1. PICK f \in Frames :
           /\ Becomes(t, f)
           /\ \/ f.step = "done" /\ f.own = "none" /\ cached' = cached
              \/ /\ f.step = "name" /\ f.severity = s /\ f.own = k
                 /\ \E e \in Entries : CachedBecomes(t, k, e)
  <2>1. PICK f \in Frames : Loads(t, f, s, k)
    BY LoadStep
  <2>2. CASE f.step = "done" /\ f.own = "none" /\ cached' = cached
    BY <2>1, <2>2 DEF Loads
  <2>3. CASE f.step = "name" /\ f.severity = s /\ f.own = k /\ \E e \in Entries : CachedBecomes(t, k, e)
    BY <2>1, <2>3 DEF Loads
  <2> QED
    BY <2>1, <2>2, <2>3 DEF Loads
<1>2. target \in Targets /\ cached \in [Threads -> [Kinds -> Entries \cup {NULL}]]
  BY HasTarget DEF PlaceInv, TypeOK
<1>3. CASE f.step = "done" /\ f.own = "none" /\ cached' = cached
  <2>1. TypeOK'
    BY <1>1, <1>3, CallsUp DEF Becomes, PlaceInv, TypeOK
  <2>2. (\A u \in Threads : Placed(u, frame[u])') /\ NewAlone'
    BY <1>1, <1>2, <1>3, PlaceStep
  <2> QED
    BY <2>1, <2>2 DEF PlaceInv
<1>4. CASE /\ f.step = "name" /\ f.severity = s /\ f.own = k
           /\ \E e \in Entries : CachedBecomes(t, k, e)
  <2>1. PICK e \in Entries : CachedBecomes(t, k, e)
    BY <1>4
  <2>2. /\ cached' \in [Threads -> [Kinds -> Entries \cup {NULL}]]
        /\ cached'[t][k] # NULL
        /\ \A u \in Threads, j \in Kinds : cached[u][j] # NULL => cached'[u][j] # NULL
    BY <2>1, EntryFields DEF CachedBecomes
  <2>3. TypeOK'
    BY <1>1, <2>2, CallsUp DEF Becomes, PlaceInv, TypeOK
  <2>4. (\A u \in Threads : Placed(u, frame[u])') /\ NewAlone'
    <3>1. f.own # "none" => cached'[t][f.own] # NULL
      BY <1>4, <2>2
    <3>2. f.step \notin {"code", "text", "reset"} /\ f.step # "new" /\ f.step # "trace" /\ f.own # "none"
      BY <1>4 DEF Kinds
    <3> QED
      BY <1>1, <1>2, <1>4, <2>2, <3>1, <3>2, PlaceStep
  <2> QED
    BY <2>3, <2>4 DEF PlaceInv
<1> QED
  BY <1>1, <1>3, <1>4

LEMMA PlaceAddLog ==
  ASSUME PlaceInv, NEW t \in Threads, stumpless_add_log(t) \/ vstumpless_trace_log(t)
  PROVE  PlaceInv'
<1>1. "entry" \in Kinds /\ "trace" \in Kinds
  BY DEF Kinds
<1>2. CASE stumpless_add_log(t)
  BY <1>1, <1>2, PlaceLoad DEF stumpless_add_log
<1>3. CASE vstumpless_trace_log(t)
  BY <1>1, <1>3, PlaceLoad DEF vstumpless_trace_log
<1> QED
  BY <1>2, <1>3

LEMMA OwnEntry ==
  ASSUME PlaceInv, NEW t \in Threads, frame[t].step \in {"name", "length"}
  PROVE  /\ frame[t].own \in Kinds /\ cached[t][frame[t].own] # NULL
         /\ cached \in [Threads -> [Kinds -> Entries \cup {NULL}]]
         /\ target \in Targets /\ target.ready
         /\ frame[t].severity \in Severities
<1>1. frame[t] \in Frames /\ Placed(t, frame[t])
  BY HasFrame
<1>2. frame[t].own \in {"none"} \cup Kinds
  BY <1>1, FrameFields
<1>3. target \in Targets /\ target.ready
  BY InCall DEF Outside
<1> QED
  BY <1>1, <1>2, <1>3 DEF Placed, Outside, PlaceInv, TypeOK

LEMMA CopyNameCached ==
  ASSUME PlaceInv, NEW t \in Threads, CopyName(t)
  PROVE  \E e \in Entries :
           /\ CachedBecomes(t, frame[t].own, e)
           /\ e.length = cached[t][frame[t].own].length
           /\ \A i \in 1..3 : /\ i <= target.length => e.name[i] = target.name[i]
                              /\ target.length < i => e.name[i] = cached[t][frame[t].own].name[i]
<1>1. /\ frame[t].own \in Kinds /\ cached[t][frame[t].own] # NULL /\ target \in Targets
      /\ cached \in [Threads -> [Kinds -> Entries \cup {NULL}]]
  BY OwnEntry DEF CopyName
<1>2. PICK a \in [1..2 -> Nat], l \in 1..2 : a = target.name /\ l = target.length
  BY <1>1, TargetFields
<1>3. PICK n \in Seq(Nat) : n = SubSeq(a, 1, l)
  BY CopiedName
<1>4. Len(n) = l /\ \A i \in 1..l : n[i] = a[i]
  BY <1>3, CopiedName
<1>5. PICK k \in Kinds : k = frame[t].own
  BY <1>1
<1>6. cached' = [cached EXCEPT ![t][k].name = Overlaid(@, n)]
  BY <1>2, <1>3, <1>5 DEF CopyName
<1>7. PICK e \in Entries :
           /\ CachedBecomes(t, k, e)
           /\ e.length = cached[t][k].length
           /\ \A i \in 1..3 : (i <= Len(n) => e.name[i] = n[i]) /\ (Len(n) < i => e.name[i] = cached[t][k].name[i])
  BY <1>1, <1>5, <1>6, NameEntry
<1>8. \A i \in 1..3 : (i <= l => e.name[i] = a[i]) /\ (l < i => e.name[i] = cached[t][k].name[i])
  BY <1>4, <1>7
<1> QED
  BY <1>2, <1>5, <1>7, <1>8

LEMMA PlaceCopyName ==
  ASSUME PlaceInv, NEW t \in Threads, CopyName(t)
  PROVE  PlaceInv'
<1>1. PICK f \in Frames : Becomes(t, f) /\ Alike(f, frame[t]) /\ f.step = "length"
  BY CopyNameStep
<1>2. PICK e \in Entries : CachedBecomes(t, frame[t].own, e)
  BY CopyNameCached
<1>3. /\ frame[t].own \in Kinds /\ cached[t][frame[t].own] # NULL /\ target \in Targets /\ target.ready
      /\ frame[t].severity \in Severities
  BY OwnEntry DEF CopyName
<1>4. /\ cached' \in [Threads -> [Kinds -> Entries \cup {NULL}]]
      /\ cached'[t][frame[t].own] # NULL
      /\ \A u \in Threads, j \in Kinds : cached[u][j] # NULL => cached'[u][j] # NULL
  BY <1>2, <1>3, EntryFields DEF CachedBecomes
<1>5. TypeOK'
  BY <1>1, <1>4 DEF CopyName, Becomes, PlaceInv, TypeOK
<1>6. (\A u \in Threads : Placed(u, frame[u])') /\ NewAlone'
  <2>1. f.own = frame[t].own /\ f.own # "none" /\ f.severity \in Severities
    BY <1>1, <1>3 DEF Alike, Kinds
  <2>2. target' \in Targets /\ target'.ready /\ target'.type = target.type
    BY <1>3 DEF CopyName
  <2> QED
    BY <1>1, <1>3, <1>4, <2>1, <2>2, PlaceStep
<1> QED
  BY <1>5, <1>6 DEF PlaceInv

LEMMA CopyLengthCached ==
  ASSUME PlaceInv, NEW t \in Threads, CopyLength(t)
  PROVE  \E e \in Entries :
           /\ CachedBecomes(t, frame[t].own, e)
           /\ e.length = target.length /\ e.name = cached[t][frame[t].own].name
<1>1. /\ frame[t].own \in Kinds /\ cached[t][frame[t].own] # NULL /\ target \in Targets
      /\ cached \in [Threads -> [Kinds -> Entries \cup {NULL}]]
  BY OwnEntry DEF CopyLength
<1>2. PICK l \in 1..2, k \in Kinds : l = target.length /\ k = frame[t].own
  BY <1>1, TargetFields
<1>3. cached' = [cached EXCEPT ![t][k].length = l]
  BY <1>2 DEF CopyLength
<1>4. \E e \in Entries : CachedBecomes(t, k, e) /\ e.length = l /\ e.name = cached[t][k].name
  <2>1. PICK x \in Entries : x = cached[t][k]
    BY <1>1, <1>2
  <2> DEFINE e == [x EXCEPT !.length = l]
  <2>2. e \in Entries /\ e.name = x.name /\ e.length = l
    BY DEF Entries
  <2>3. cached' = [cached EXCEPT ![t][k] = e]
    BY <1>3, <2>1
  <2>4. CachedBecomes(t, k, e)
    BY <1>1, <2>2, <2>3, CachedIt
  <2> QED
    BY <2>1, <2>2, <2>4
<1> QED
  BY <1>2, <1>4

LEMMA PlaceCopyLength ==
  ASSUME PlaceInv, NEW t \in Threads, CopyLength(t)
  PROVE  PlaceInv'
<1>1. PICK f \in Frames :
           /\ Becomes(t, f) /\ f.severity = frame[t].severity /\ f.own = frame[t].own
           /\ f.step \in {"is_open", "filter"} \/ (f.step = "trace" /\ f.trace # 0)
  BY CopyLengthStep DEF Entered
<1>2. PICK e \in Entries : CachedBecomes(t, frame[t].own, e)
  BY CopyLengthCached
<1>3. /\ frame[t].own \in Kinds /\ cached[t][frame[t].own] # NULL /\ target \in Targets /\ target.ready
      /\ frame[t].severity \in Severities
  BY OwnEntry DEF CopyLength
<1>4. /\ cached' \in [Threads -> [Kinds -> Entries \cup {NULL}]]
      /\ cached'[t][frame[t].own] # NULL
      /\ \A u \in Threads, j \in Kinds : cached[u][j] # NULL => cached'[u][j] # NULL
  BY <1>2, <1>3, EntryFields DEF CachedBecomes
<1>5. TypeOK'
  BY <1>1, <1>4 DEF CopyLength, Becomes, PlaceInv, TypeOK
<1>6. (\A u \in Threads : Placed(u, frame[u])') /\ NewAlone'
  <2>1. target' \in Targets /\ target'.ready /\ target'.type = target.type
    BY <1>3 DEF CopyLength
  <2>2. /\ f.step \notin {"code", "text", "reset"} /\ f.step # "new" /\ f.step \notin {"name", "length"}
        /\ f.step = "trace" => f.trace # 0
    BY <1>1
  <2> QED
    BY <1>1, <1>3, <1>4, <2>1, <2>2, PlaceStep
<1> QED
  BY <1>5, <1>6 DEF PlaceInv

LEMMA PlaceFreeThread ==
  ASSUME PlaceInv, NEW t \in Threads, target_free_thread(t)
  PROVE  PlaceInv'
<1>1. /\ \A u \in Threads : u # t => cached'[u] = cached[u]
      /\ cached' \in [Threads -> [Kinds -> Entries \cup {NULL}]]
  BY DEF target_free_thread, PlaceInv, TypeOK
<1>2. TypeOK'
  BY <1>1 DEF target_free_thread, PlaceInv, TypeOK
<1>3. frame' = frame /\ target' = target /\ frame[t].own = "none"
  BY IdleFrame DEF target_free_thread
<1>4. ASSUME NEW u \in Threads PROVE Placed(u, frame[u])'
  <2>1. Placed(u, frame[u])
    BY HasFrame
  <2>2. CASE u = t
    BY <1>3, <2>1, <2>2 DEF Placed
  <2>3. CASE u # t
    BY <1>1, <1>3, <2>1, <2>3 DEF Placed
  <2> QED
    BY <2>2, <2>3
<1>5. NewAlone'
  BY <1>3 DEF NewAlone, PlaceInv
<1> QED
  BY <1>2, <1>4, <1>5 DEF PlaceInv

LEMMA PlaceTraceEntry ==
  ASSUME PlaceInv, NEW t \in Threads, stumpless_trace_entry(t)
  PROVE  PlaceInv'
<1>1. PICK f \in Frames, s \in Severities :
        /\ Becomes(t, f) /\ f.step = "trace" /\ f.trace = 1 /\ f.severity = s /\ f.own = frame[t].own
  BY TraceEntryStep
<1>2. /\ Call(t) /\ target # NULL /\ target.ready
      /\ UNCHANGED << target, default, opened, holder, cached, trace, out, cons >>
  BY DEF stumpless_trace_entry
<1>3. TypeOK'
  BY <1>1, <1>2, CallsUp DEF Becomes, PlaceInv, TypeOK
<1>4. f.own = "none" /\ f.trace # 0
  <2>1. f.trace \in 0..3 /\ f.trace = 1
    BY <1>1, FrameFields
  <2>2. f.trace # 0
    BY <2>1
  <2> QED
    BY <1>1, <1>2, <2>2, IdleCall
<1>5. (\A u \in Threads : Placed(u, frame[u])') /\ NewAlone'
  BY <1>1, <1>2, <1>4, HasTarget, PlaceStep
<1> QED
  BY <1>3, <1>5 DEF PlaceInv

\* A param of the trace is set.
LEMMA TraceSet ==
  ASSUME PlaceInv, NEW t \in Threads, frame[t].step = "trace",
         trace' = [trace EXCEPT ![Traced(t)][frame[t].trace] = frame[t].call]
  PROVE  /\ trace' \in [Threads \cup {"shared"} -> [1..3 -> Nat]]
         /\ \A k \in Threads \cup {"shared"} : k # Traced(t) => trace'[k] = trace[k]
         /\ \A i \in 1..3 : trace'[Traced(t)][i] = IF i = frame[t].trace THEN frame[t].call ELSE trace[Traced(t)][i]
<1>1. frame[t] \in Frames /\ Placed(t, frame[t])
  BY HasFrame
<1>2. frame[t].trace \in 1..3 /\ frame[t].call \in Nat
  <2>1. frame[t].trace \in 0..3 /\ frame[t].trace # 0 /\ frame[t].call \in Nat
    BY <1>1, FrameFields DEF Placed
  <2> QED
    BY <2>1
<1>3. PICK n \in 1..3, c \in Nat, k \in Threads \cup {"shared"} :
        n = frame[t].trace /\ c = frame[t].call /\ k = Traced(t)
  BY <1>2 DEF Traced
<1>4. trace \in [Threads \cup {"shared"} -> [1..3 -> Nat]]
  BY DEF PlaceInv, TypeOK
<1>5. trace' = [trace EXCEPT ![k][n] = c]
  BY <1>3
<1> HIDE DEF Traced
<1>6. /\ trace' \in [Threads \cup {"shared"} -> [1..3 -> Nat]]
      /\ \A j \in Threads \cup {"shared"} : j # k => trace'[j] = trace[j]
      /\ \A i \in 1..3 : trace'[k][i] = IF i = n THEN c ELSE trace[k][i]
  <2>1. PICK row \in [1..3 -> Nat] : row = [trace[k] EXCEPT ![n] = c]
    BY <1>4
  <2>2. \A i \in 1..3 : row[i] = IF i = n THEN c ELSE trace[k][i]
    BY <1>4, <2>1
  <2>3. trace' = [trace EXCEPT ![k] = row]
    BY <1>4, <1>5, <2>1
  <2>4. /\ trace' \in [Threads \cup {"shared"} -> [1..3 -> Nat]]
        /\ \A j \in Threads \cup {"shared"} : j # k => trace'[j] = trace[j]
        /\ trace'[k] = row
    BY <1>4, <2>3
  <2> QED
    BY <2>2, <2>4
<1> QED
  BY <1>3, <1>6

LEMMA PlaceSetTrace ==
  ASSUME PlaceInv, NEW t \in Threads, SetTrace(t)
  PROVE  PlaceInv'
<1>1. PICK f \in Frames :
           /\ Becomes(t, f)
           /\ \/ Alike(f, frame[t]) /\ f.step = "done" /\ f.result = "refused" /\ trace' = trace
              \/ /\ trace' = [trace EXCEPT ![Traced(t)][frame[t].trace] = frame[t].call]
                 /\ frame[t].trace < 3
                 /\ f.step = "trace" /\ f.trace = frame[t].trace + 1
                 /\ f.call = frame[t].call /\ f.severity = frame[t].severity /\ f.own = frame[t].own
                 /\ f.code = frame[t].code /\ f.kept = frame[t].kept
              \/ /\ trace' = [trace EXCEPT ![Traced(t)][frame[t].trace] = frame[t].call]
                 /\ frame[t].trace = 3
                 /\ Entered(f, frame[t].call, frame[t].severity, frame[t].own, frame[t])
  BY SetTraceStep
<1>2. frame[t].step = "trace" /\ frame[t] \in Frames /\ Placed(t, frame[t]) /\ target \in Targets /\ target.ready
  BY HasFrame, InCall DEF SetTrace, Outside
<1>3. trace' \in [Threads \cup {"shared"} -> [1..3 -> Nat]]
  BY <1>1, <1>2, TraceSet DEF PlaceInv, TypeOK
<1>4. TypeOK'
  BY <1>1, <1>3 DEF SetTrace, Becomes, PlaceInv, TypeOK
<1>5. /\ f.severity = frame[t].severity /\ f.own = frame[t].own
      /\ f.step \in {"done", "trace", "is_open", "filter"}
  BY <1>1 DEF Alike, Entered
<1>6. f.severity \in Severities /\ (f.own # "none" => cached[t][f.own] # NULL)
  BY <1>2, <1>5 DEF Placed, Outside
<1>7. f.step = "trace" => f.trace # 0
  <2>1. CASE f.step = "trace"
    <3>1. f.trace = frame[t].trace + 1 /\ frame[t].trace \in 0..3
      BY <1>1, <1>2, <2>1, FrameFields DEF Entered
    <3> QED
      BY <3>1
  <2> QED
    BY <2>1
<1>8. (\A u \in Threads : Placed(u, frame[u])') /\ NewAlone'
  BY <1>1, <1>2, <1>5, <1>6, <1>7, PlaceStep DEF SetTrace
<1> QED
  BY <1>4, <1>8 DEF PlaceInv

\* A setter: the calls stay where they are.
LEMMA PlaceSetter ==
  ASSUME PlaceInv, NEW t \in Threads, NEW new, SetTarget(t, new), new \in Targets, new.ready,
         new.type = target.type, frame' \in [Threads -> Frames], \A u \in Threads : Meanwhile(frame'[u], frame[u])
  PROVE  PlaceInv'
<1>1. TypeOK'
  BY CallsUp DEF SetTarget, PlaceInv, TypeOK
<1>2. (\A u \in Threads : Placed(u, frame[u])') /\ NewAlone'
  BY PlaceSet DEF SetTarget
<1> QED
  BY <1>1, <1>2 DEF PlaceInv

LEMMA SameFrames ==
  ASSUME PlaceInv, frame' = frame
  PROVE  frame' \in [Threads -> Frames] /\ \A u \in Threads : Meanwhile(frame'[u], frame[u])
BY DEF PlaceInv, TypeOK, Meanwhile

LEMMA SetOptionStep ==
  ASSUME PlaceInv, NEW t \in Threads, stumpless_set_option(t)
  PROVE  /\ SetTarget(t, target') /\ target \in Targets /\ target.ready /\ target' \in Targets /\ target'.ready
         /\ target'.type = target.type /\ target'.stream = target.stream /\ target'.filter = target.filter
         /\ target'.mask = target.mask /\ target'.name = target.name /\ target'.length = target.length
         /\ target.options \subseteq target'.options
         /\ frame' = frame /\ seen' = seen
<1>1. PICK o \in Options : SetTarget(t, [target EXCEPT !.options = @ \cup {o}]) /\ UNCHANGED << frame, seen >>
  BY DEF stumpless_set_option
<1>2. target \in Targets /\ target.ready /\ target' = [target EXCEPT !.options = @ \cup {o}]
  BY <1>1, HasTarget DEF SetTarget
<1>3. PICK p \in SUBSET Options : p = target.options \cup {o}
  BY <1>2, TargetFields
<1>4. target' = [target EXCEPT !.options = p]
  BY <1>2, <1>3
<1>5. SetTarget(t, target')
  BY <1>1 DEF SetTarget
<1> QED
  BY <1>1, <1>2, <1>3, <1>4, <1>5, OptionsTarget

LEMMA UnsetOptionStep ==
  ASSUME PlaceInv, NEW t \in Threads, stumpless_unset_option(t)
  PROVE  /\ SetTarget(t, target') /\ target \in Targets /\ target.ready /\ target' \in Targets /\ target'.ready
         /\ target'.type = target.type /\ target'.stream = target.stream /\ target'.filter = target.filter
         /\ target'.mask = target.mask /\ target'.name = target.name /\ target'.length = target.length
         /\ frame' \in [Threads -> Frames]
         /\ \A u \in Threads : Meanwhile(frame'[u], frame[u]) /\ frame'[u].masks = frame[u].masks
         /\ seen \subseteq seen' /\ seen' \subseteq seen \cup {"undelayed"}
         /\ \/ "CONS" \in target'.options \/ "CONS" \notin target.options
            \/ \A u \in Threads : frame'[u].kept = FALSE
         /\ \/ "ODELAY" \in target.options => "ODELAY" \in target'.options
            \/ target.stream # NULL \/ target.type \notin {"file", "socket"}
            \/ "undelayed" \in seen'
<1>1. PICK o \in Options :
        /\ SetTarget(t, [target EXCEPT !.options = @ \ {o}])
        /\ frame' = IF o = "CONS" THEN [u \in Threads |-> [frame[u] EXCEPT !.kept = FALSE]] ELSE frame
        /\ seen' = IF o = "ODELAY" /\ target.stream = NULL /\ target.type \in {"file", "socket"}
                   THEN seen \cup {"undelayed"} ELSE seen
  BY DEF stumpless_unset_option
<1>2. target \in Targets /\ target.ready /\ target' = [target EXCEPT !.options = @ \ {o}]
  BY <1>1, HasTarget DEF SetTarget
<1>3. PICK p \in SUBSET Options : p = target.options \ {o}
  BY <1>2, TargetFields
<1>4. target' = [target EXCEPT !.options = p]
  BY <1>2, <1>3
<1>5. SetTarget(t, target')
  BY <1>1 DEF SetTarget
<1>6. /\ target' \in Targets /\ target'.ready /\ target'.options = p
      /\ target'.type = target.type /\ target'.stream = target.stream /\ target'.filter = target.filter
      /\ target'.mask = target.mask /\ target'.name = target.name /\ target'.length = target.length
  BY <1>2, <1>4 DEF Targets
<1>7. seen \subseteq seen' /\ seen' \subseteq seen \cup {"undelayed"}
  BY <1>1
<1>8. \/ "ODELAY" \in target.options => "ODELAY" \in target'.options
      \/ target.stream # NULL \/ target.type \notin {"file", "socket"}
      \/ "undelayed" \in seen'
  BY <1>1, <1>3, <1>6
<1>9. /\ frame' \in [Threads -> Frames]
      /\ \A u \in Threads : Meanwhile(frame'[u], frame[u]) /\ frame'[u].masks = frame[u].masks
      /\ o = "CONS" => \A u \in Threads : frame'[u].kept = FALSE
  <2>1. CASE o = "CONS"
    <3>1. frame \in [Threads -> Frames] /\ frame' = [u \in Threads |-> [frame[u] EXCEPT !.kept = FALSE]]
      BY <1>1, <2>1 DEF PlaceInv, TypeOK
    <3>2. /\ frame' \in [Threads -> Frames]
          /\ \A u \in Threads : Meanwhile(frame'[u], frame[u]) /\ frame'[u].kept = FALSE
      BY <3>1, KeptFrames
    <3>3. ASSUME NEW g \in Frames PROVE [g EXCEPT !.kept = FALSE].masks = g.masks
      BY DEF Frames
    <3>4. \A u \in Threads : frame'[u].masks = frame[u].masks
      BY <3>1, <3>3
    <3> QED
      BY <3>2, <3>4
  <2>2. CASE o # "CONS"
    BY <1>1, <2>2, SameFrames
  <2> QED
    BY <2>1, <2>2
<1>10. \/ "CONS" \in target'.options \/ "CONS" \notin target.options
       \/ \A u \in Threads : frame'[u].kept = FALSE
  BY <1>3, <1>6, <1>9
<1> QED
  BY <1>2, <1>5, <1>6, <1>7, <1>8, <1>9, <1>10

LEMMA SetMaskStep ==
  ASSUME PlaceInv, NEW t \in Threads, stumpless_set_target_mask(t)
  PROVE  /\ SetTarget(t, target') /\ target \in Targets /\ target.ready /\ target' \in Targets /\ target'.ready
         /\ target'.type = target.type /\ target'.stream = target.stream /\ target'.filter = target.filter
         /\ target'.options = target.options /\ target'.name = target.name /\ target'.length = target.length
         /\ frame' \in [Threads -> Frames]
         /\ \A u \in Threads :
              /\ Meanwhile(frame'[u], frame[u])
              /\ frame[u].step # "idle" => target'.mask \subseteq frame'[u].masks
         /\ seen' = seen
<1>1. PICK m \in Masks :
        /\ SetTarget(t, [target EXCEPT !.mask = m])
        /\ frame' = [u \in Threads |-> IF frame[u] = Idle THEN Idle ELSE [frame[u] EXCEPT !.masks = @ \cup m]]
        /\ UNCHANGED seen
  BY DEF stumpless_set_target_mask
<1>2. m \in SUBSET Severities
  BY DeliveryAssumption
<1>3. target \in Targets /\ target.ready /\ target' = [target EXCEPT !.mask = m]
  BY <1>1, HasTarget DEF SetTarget
<1>4. SetTarget(t, target')
  BY <1>1 DEF SetTarget
<1>5. /\ target' \in Targets /\ target'.ready /\ target'.options = target.options
      /\ target'.type = target.type /\ target'.stream = target.stream /\ target'.filter = target.filter
      /\ target'.mask = m /\ target'.name = target.name /\ target'.length = target.length
  BY <1>2, <1>3, MaskTarget
<1>6. frame \in [Threads -> Frames]
  BY DEF PlaceInv, TypeOK
<1>7. /\ frame' \in [Threads -> Frames]
      /\ \A u \in Threads :
           /\ Meanwhile(frame'[u], frame[u])
           /\ frame[u].step # "idle" => m \subseteq frame'[u].masks
  BY <1>1, <1>2, <1>6, MaskFrames
<1> QED
  BY <1>1, <1>3, <1>4, <1>5, <1>7

LEMMA SetFilterStep ==
  ASSUME PlaceInv, NEW t \in Threads, stumpless_set_target_filter(t)
  PROVE  /\ SetTarget(t, target') /\ target \in Targets /\ target.ready /\ target' \in Targets /\ target'.ready
         /\ target'.type = target.type /\ target'.stream = target.stream /\ target'.mask = target.mask
         /\ target'.options = target.options /\ target'.name = target.name /\ target'.length = target.length
         /\ frame' \in [Threads -> Frames]
         /\ \A u \in Threads :
              /\ Meanwhile(frame'[u], frame[u])
              /\ frame[u].step # "idle" /\ ~target'.filter => frame'[u].masks = Severities
         /\ seen' = seen
<1>1. PICK on \in BOOLEAN :
        /\ SetTarget(t, [target EXCEPT !.filter = on])
        /\ frame' = [u \in Threads |->
                      IF frame[u] = Idle \/ on THEN frame[u] ELSE [frame[u] EXCEPT !.masks = Severities]]
        /\ UNCHANGED seen
  BY DEF stumpless_set_target_filter
<1>3. target \in Targets /\ target.ready /\ target' = [target EXCEPT !.filter = on]
  BY <1>1, HasTarget DEF SetTarget
<1>4. SetTarget(t, target')
  BY <1>1 DEF SetTarget
<1>5. /\ target' \in Targets /\ target'.ready /\ target'.options = target.options
      /\ target'.type = target.type /\ target'.stream = target.stream /\ (target'.filter <=> on)
      /\ target'.mask = target.mask /\ target'.name = target.name /\ target'.length = target.length
  BY <1>3, FilterTarget
<1>6. frame \in [Threads -> Frames]
  BY DEF PlaceInv, TypeOK
<1>7. /\ frame' \in [Threads -> Frames]
      /\ \A u \in Threads :
           /\ Meanwhile(frame'[u], frame[u])
           /\ frame[u].step # "idle" /\ ~on => frame'[u].masks = Severities
  BY <1>1, <1>6, FilterFrames
<1> QED
  BY <1>1, <1>3, <1>4, <1>5, <1>7

LEMMA SetNameStep ==
  ASSUME PlaceInv, NEW t \in Threads, stumpless_set_target_default_app_name(t)
  PROVE  /\ SetTarget(t, target') /\ target \in Targets /\ target.ready /\ target' \in Targets /\ target'.ready
         /\ target'.type = target.type /\ target'.stream = target.stream /\ target'.mask = target.mask
         /\ target'.filter = target.filter /\ target'.options = target.options
         /\ \E n \in Names : target'.length = Len(n) /\ \A i \in 1..Len(n) : target'.name[i] = n[i]
         /\ frame' = frame
         /\ seen \subseteq seen' /\ seen' \subseteq seen \cup {"renamed"}
         /\ (\E u \in Threads : frame[u].step = "length") => "renamed" \in seen'
<1>1. PICK n \in Names :
        /\ SetTarget(t, [target EXCEPT !.name = Overlaid(@, n), !.length = Len(n)])
        /\ seen' = IF \E u \in Threads : frame[u].step = "length" THEN seen \cup {"renamed"} ELSE seen
        /\ UNCHANGED frame
  BY DEF stumpless_set_target_default_app_name
<1>2. n \in Seq(Nat) /\ Len(n) \in 1..2
  BY NameTypes
<1>3. target \in Targets /\ target.ready /\ target' = [target EXCEPT !.name = Overlaid(@, n), !.length = Len(n)]
  BY <1>1, HasTarget DEF SetTarget
<1>4. PICK a \in [1..2 -> Nat] : a = target.name
  BY <1>3, TargetFields
<1>5. /\ Overlaid(a, n) \in [1..2 -> Nat]
      /\ \A i \in 1..2 : (i <= Len(n) => Overlaid(a, n)[i] = n[i]) /\ (Len(n) < i => Overlaid(a, n)[i] = a[i])
  <2>1. PICK two \in Nat : two = 2
    OBVIOUS
  <2>2. a \in [1..two -> Nat]
    BY <2>1
  <2>3. /\ Overlaid(a, n) \in [1..two -> Nat]
        /\ \A i \in 1..two : (i <= Len(n) => Overlaid(a, n)[i] = n[i]) /\ (Len(n) < i => Overlaid(a, n)[i] = a[i])
    BY ONLY <1>2, <2>2, two \in Nat, OverlaidName
  <2> QED
    BY <2>1, <2>3
<1>6. PICK b \in [1..2 -> Nat], l \in 1..2 : b = Overlaid(a, n) /\ l = Len(n)
  BY <1>2, <1>5
<1>7. target' = [target EXCEPT !.name = b, !.length = l]
  BY <1>3, <1>4, <1>6
<1>8. /\ target' \in Targets /\ target'.ready /\ target'.options = target.options
      /\ target'.type = target.type /\ target'.stream = target.stream /\ target'.filter = target.filter
      /\ target'.mask = target.mask /\ target'.name = b /\ target'.length = l
  BY <1>3, <1>7 DEF Targets
<1>9. \A i \in 1..Len(n) : b[i] = n[i]
  BY <1>2, <1>5, <1>6
<1>10. SetTarget(t, target')
  BY <1>1 DEF SetTarget
<1>11. /\ seen \subseteq seen' /\ seen' \subseteq seen \cup {"renamed"}
       /\ (\E u \in Threads : frame[u].step = "length") => "renamed" \in seen'
  BY <1>1
<1> QED
  BY <1>1, <1>3, <1>6, <1>8, <1>9, <1>10, <1>11

LEMMA PlaceSetters ==
  ASSUME PlaceInv, NEW t \in Threads,
         \/ stumpless_set_option(t) \/ stumpless_unset_option(t) \/ stumpless_set_target_mask(t)
         \/ stumpless_set_target_filter(t) \/ stumpless_set_target_default_app_name(t)
  PROVE  PlaceInv'
<1>1. CASE stumpless_set_option(t)
  BY <1>1, SetOptionStep, SameFrames, PlaceSetter
<1>2. CASE stumpless_unset_option(t)
  BY <1>2, UnsetOptionStep, PlaceSetter
<1>3. CASE stumpless_set_target_mask(t)
  BY <1>3, SetMaskStep, PlaceSetter
<1>4. CASE stumpless_set_target_filter(t)
  BY <1>4, SetFilterStep, PlaceSetter
<1>5. CASE stumpless_set_target_default_app_name(t)
  BY <1>5, SetNameStep, SameFrames, PlaceSetter
<1> QED
  BY <1>1, <1>2, <1>3, <1>4, <1>5

LEMMA ColorStep ==
  ASSUME PlaceInv, NEW t \in Threads, stumpless_set_severity_color(t)
  PROVE  /\ Call(t) /\ target \in Targets /\ target.ready /\ target' \in Targets /\ target'.ready
         /\ target'.type = target.type /\ target'.stream = target.stream /\ target'.mask = target.mask
         /\ (target'.filter <=> target.filter) /\ target'.options = target.options
         /\ target'.name = target.name /\ target'.length = target.length
         /\ UNCHANGED << default, opened, cached, trace, out, cons, frame >>
         /\ \/ holder' = holder /\ seen' = seen
            \/ holder' = [holder EXCEPT !["target"] = t] /\ seen' = seen \cup {"color"}
<1>1. PICK s \in Severities, c \in Codes :
        /\ Call(t) /\ target # NULL /\ target.ready
        /\ IF target.type = "stream"
           THEN target' = [target EXCEPT !.codes[s] = c] /\ UNCHANGED << holder, seen >>
           ELSE holder' = [holder EXCEPT !["target"] = t] /\ seen' = seen \cup {"color"} /\ UNCHANGED target
        /\ UNCHANGED << default, opened, cached, trace, out, cons, frame >>
  BY DEF stumpless_set_severity_color
<1>2. target \in Targets
  BY <1>1, HasTarget
<1>3. CASE target.type = "stream"
  <2>1. target' = [target EXCEPT !.codes[s] = c]
    BY <1>1, <1>3
  <2>2. PICK y : y = [target EXCEPT !.codes[s] = c]
    OBVIOUS
  <2>3. /\ y \in Targets /\ (y.ready <=> target.ready)
        /\ y.type = target.type /\ y.stream = target.stream /\ y.options = target.options
        /\ y.filter = target.filter /\ y.mask = target.mask /\ y.name = target.name /\ y.length = target.length
    BY <1>2, <2>2, CodesTarget
  <2>4. target' = y
    BY <2>1, <2>2
  <2> QED
    BY <1>1, <1>2, <1>3, <2>3, <2>4
<1>4. CASE target.type # "stream"
  BY <1>1, <1>2, <1>4
<1> QED
  BY <1>3, <1>4

LEMMA PlaceColor ==
  ASSUME PlaceInv, NEW t \in Threads, stumpless_set_severity_color(t)
  PROVE  PlaceInv'
<1>1. holder' \in [{"target", "stream"} -> Threads \cup {NULL}]
  BY ColorStep, SameTypes, HeldType
<1>2. TypeOK'
  BY <1>1, ColorStep, CallsUp DEF PlaceInv, TypeOK
<1>3. frame' \in [Threads -> Frames] /\ \A u \in Threads : Meanwhile(frame'[u], frame[u])
  BY ColorStep, SameFrames
<1>4. (\A u \in Threads : Placed(u, frame[u])') /\ NewAlone'
  BY <1>3, ColorStep, PlaceSet
<1> QED
  BY <1>2, <1>4 DEF PlaceInv

LEMMA PlaceDefault ==
  ASSUME PlaceInv, NEW t \in Threads, stumpless_set_default_options(t)
  PROVE  PlaceInv'
<1>1. /\ Call(t) /\ default' \in {{}, {"ODELAY"}}
      /\ UNCHANGED << target, opened, holder, cached, trace, out, cons, frame, seen >>
  BY DEF stumpless_set_default_options, Call
<1>2. TypeOK'
  BY <1>1, CallsUp DEF PlaceInv, TypeOK, Options
<1>3. (\A u \in Threads : Placed(u, frame[u])') /\ NewAlone'
  BY <1>1 DEF PlaceInv, Placed, NewAlone
<1> QED
  BY <1>2, <1>3 DEF PlaceInv

\* While all threads are idle, one step leaves the others idle.
LEMMA NewTargetStep ==
  ASSUME PlaceInv, NEW t \in Threads, new_target(t)
  PROVE  /\ target = NULL /\ target' \in Targets /\ target'.stream = NULL /\ ~target'.ready
         /\ target'.name = << 45, 0 >> /\ target'.length = 1
         /\ \A u \in Threads : frame[u] = Idle
         /\ \E f \in Frames : Becomes(t, f) /\ Alike(f, Idle) /\ f.step = "new"
<1>1. PICK type \in Types :
        /\ Call(t) /\ target = NULL /\ AllIdle
        /\ target' = [type |-> type, stream |-> NULL, options |-> default, filter |-> TRUE, mask |-> Severities,
                      name |-> << 45, 0 >>, length |-> 1, codes |-> [s \in Severities |-> NULL], ready |-> FALSE]
        /\ Goto(t, "new")
  BY DEF new_target
<1>2. default \in SUBSET Options /\ frame \in [Threads -> Frames] /\ "new" \in Steps
  BY DEF PlaceInv, TypeOK, Steps
<1>3. \A u \in Threads : frame[u] = Idle
  BY <1>1 DEF AllIdle
<1>4. \E f \in Frames : Becomes(t, f) /\ Alike(f, Idle) /\ f.step = "new"
  BY <1>1, <1>2, <1>3, GotoFrame
<1>5. PICK y : y = [type |-> type, stream |-> NULL, options |-> default, filter |-> TRUE, mask |-> Severities,
                    name |-> << 45, 0 >>, length |-> 1, codes |-> [s \in Severities |-> NULL], ready |-> FALSE]
  OBVIOUS
<1>6. PICK o \in SUBSET Options : o = default
  BY <1>2
<1>7. /\ y \in Targets /\ y.stream = NULL /\ ~y.ready
      /\ y.name = << 45, 0 >> /\ y.length = 1
  BY <1>5, <1>6, NewTarget
<1>8. target' = y
  BY <1>1, <1>5
<1> QED
  BY <1>1, <1>3, <1>4, <1>7, <1>8

LEMMA PlaceNewTarget ==
  ASSUME PlaceInv, NEW t \in Threads, new_target(t)
  PROVE  PlaceInv'
<1>1. PICK f \in Frames : Becomes(t, f) /\ Alike(f, Idle) /\ f.step = "new"
  BY NewTargetStep
<1>2. /\ target' \in Targets /\ target'.stream = NULL /\ ~target'.ready /\ target' # NULL
      /\ \A u \in Threads : frame[u] = Idle
  BY NewTargetStep, NullApart
<1>3. Call(t) /\ UNCHANGED << default, opened, holder, cached, trace, out, cons, seen >>
  BY DEF new_target
<1>4. TypeOK'
  BY <1>1, <1>2, <1>3, CallsUp DEF Becomes, PlaceInv, TypeOK
<1>5. \A u \in Threads : u # t => frame'[u].step = "idle" /\ frame'[u].own = "none"
  BY <1>1, <1>2, IdleFrame DEF Becomes
<1>6. frame'[t].step = "new" /\ frame'[t].own = "none"
  BY <1>1, IdleFrame DEF Becomes, Alike
<1>7. ASSUME NEW u \in Threads PROVE Placed(u, frame[u])'
  <2>1. CASE u = t
    BY <1>2, <1>6, <2>1 DEF Placed, Outside
  <2>2. CASE u # t
    BY <1>5, <2>2 DEF Placed, Outside
  <2> QED
    BY <2>1, <2>2
<1>8. NewAlone'
  BY <1>5, <1>6 DEF NewAlone
<1> QED
  BY <1>4, <1>7, <1>8 DEF PlaceInv

LEMMA NewFileStep ==
  ASSUME PlaceInv, NEW t \in Threads, new_file_target(t)
  PROVE  /\ target \in Targets /\ target.stream = NULL /\ target' \in Targets /\ target'.ready
         /\ target'.type = target.type /\ target'.options = target.options
         /\ target'.name = target.name /\ target'.length = target.length
         /\ \A u \in Threads : u # t => frame[u].step = "idle"
         /\ \E f \in Frames : Becomes(t, f) /\ Alike(f, frame[t]) /\ f.step = "idle"
         /\ \/ /\ opened' = opened /\ target'.stream = NULL
               /\ seen' = seen \/ seen' = seen \cup {"undelayed"}
               /\ target.type \in {"file", "socket"} /\ "ODELAY" \notin target.options => "undelayed" \in seen'
            \/ target'.stream \in Handles /\ opened' = opened \cup {target'.stream} /\ seen' = seen
<1>1. frame[t].step = "new" /\ Placed(t, frame[t]) /\ frame \in [Threads -> Frames] /\ "idle" \in Steps
  BY HasFrame DEF new_file_target, Steps
<1>2. target \in Targets /\ target.stream = NULL
  BY <1>1, HasTarget DEF Placed
<1>3. \A u \in Threads : u # t => frame[u].step = "idle"
  BY <1>1 DEF PlaceInv, NewAlone
<1>4. \E f \in Frames : Becomes(t, f) /\ Alike(f, frame[t]) /\ f.step = "idle"
  BY <1>1, GotoFrame DEF new_file_target
<1>5. CASE /\ target' = [target EXCEPT !.ready = TRUE] /\ UNCHANGED opened
           /\ seen' = IF "ODELAY" \in target.options THEN seen ELSE seen \cup {"undelayed"}
  <2>1. PICK y : y = [target EXCEPT !.ready = TRUE]
    OBVIOUS
  <2>2. /\ y \in Targets /\ y.ready
        /\ y.type = target.type /\ y.stream = target.stream /\ y.options = target.options
        /\ y.name = target.name /\ y.length = target.length
    BY <1>2, <2>1, ReadyTarget
  <2>3. target' = y
    BY <1>5, <2>1
  <2>4. /\ seen' = seen \/ seen' = seen \cup {"undelayed"}
        /\ "ODELAY" \notin target.options => "undelayed" \in seen'
    BY <1>5
  <2> QED
    BY <1>2, <1>3, <1>4, <1>5, <2>2, <2>3, <2>4
<1>6. CASE \E h \in Handles :
             opened' = opened \cup {h} /\ target' = [target EXCEPT !.stream = h, !.ready = TRUE] /\ seen' = seen
  <2>1. PICK h \in Handles :
             opened' = opened \cup {h} /\ target' = [target EXCEPT !.stream = h, !.ready = TRUE] /\ seen' = seen
    BY <1>6
  <2>2. PICK y : y = [target EXCEPT !.stream = h, !.ready = TRUE]
    OBVIOUS
  <2>3. /\ y \in Targets /\ y.ready
        /\ y.type = target.type /\ y.stream = h /\ y.options = target.options
        /\ y.name = target.name /\ y.length = target.length
    BY <1>2, <2>2 DEF Targets
  <2>4. target' = y
    BY <2>1, <2>2
  <2> QED
    BY <1>2, <1>3, <1>4, <2>1, <2>3, <2>4
<1>7. CASE /\ target.type \in {"stream", "function"} /\ target' = [target EXCEPT !.ready = TRUE]
           /\ UNCHANGED << opened, seen >>
  <2>1. PICK y : y = [target EXCEPT !.ready = TRUE]
    OBVIOUS
  <2>2. /\ y \in Targets /\ y.ready
        /\ y.type = target.type /\ y.stream = target.stream /\ y.options = target.options
        /\ y.name = target.name /\ y.length = target.length
    BY <1>2, <2>1, ReadyTarget
  <2>3. target' = y
    BY <1>7, <2>1
  <2> QED
    BY <1>2, <1>3, <1>4, <1>7, <2>2, <2>3
<1> QED
  BY <1>5, <1>6, <1>7 DEF new_file_target

LEMMA PlaceNewFile ==
  ASSUME PlaceInv, NEW t \in Threads, new_file_target(t)
  PROVE  PlaceInv'
<1>1. PICK f \in Frames : Becomes(t, f) /\ Alike(f, frame[t]) /\ f.step = "idle"
  BY NewFileStep
<1>2. target' \in Targets /\ opened' \subseteq Handles
  BY NewFileStep DEF PlaceInv, TypeOK
<1>3. UNCHANGED << default, holder, cached, trace, out, cons, calls >>
  BY DEF new_file_target
<1>4. TypeOK'
  BY <1>1, <1>2, <1>3 DEF Becomes, PlaceInv, TypeOK
<1>5. ASSUME NEW u \in Threads
      PROVE  frame'[u].step = "idle" /\ frame'[u].own = frame[u].own /\ Placed(u, frame[u])
  BY <1>1, HasFrame, NewFileStep DEF Becomes, Alike
<1>6. \A u \in Threads : Placed(u, frame[u])'
  BY <1>3, <1>5 DEF Placed, Outside
<1>7. NewAlone'
  BY <1>5 DEF NewAlone
<1> QED
  BY <1>4, <1>6, <1>7 DEF PlaceInv

LEMMA NewFailsStep ==
  ASSUME PlaceInv, NEW t \in Threads, NewFails(t)
  PROVE  /\ target \in Targets /\ target.stream = NULL /\ ~target.ready /\ target' = NULL
         /\ \A u \in Threads : u # t => frame[u].step = "idle"
         /\ \E f \in Frames : Becomes(t, f) /\ Alike(f, frame[t]) /\ f.step = "idle"
<1>1. frame[t].step = "new" /\ Placed(t, frame[t]) /\ frame \in [Threads -> Frames] /\ "idle" \in Steps
  BY HasFrame DEF NewFails, Steps
<1>2. target \in Targets /\ target.stream = NULL /\ ~target.ready
  BY <1>1, HasTarget DEF Placed
<1>3. \A u \in Threads : u # t => frame[u].step = "idle"
  BY <1>1 DEF PlaceInv, NewAlone
<1>4. \E f \in Frames : Becomes(t, f) /\ Alike(f, frame[t]) /\ f.step = "idle"
  BY <1>1, GotoFrame DEF NewFails
<1> QED
  BY <1>2, <1>3, <1>4 DEF NewFails

LEMMA PlaceNewFails ==
  ASSUME PlaceInv, NEW t \in Threads, NewFails(t)
  PROVE  PlaceInv'
<1>1. PICK f \in Frames : Becomes(t, f) /\ Alike(f, frame[t]) /\ f.step = "idle"
  BY NewFailsStep
<1>2. target' = NULL /\ UNCHANGED << default, opened, holder, cached, trace, out, cons, calls >>
  BY DEF NewFails
<1>3. TypeOK'
  BY <1>1, <1>2 DEF Becomes, PlaceInv, TypeOK
<1>4. ASSUME NEW u \in Threads
      PROVE  frame'[u].step = "idle" /\ frame'[u].own = frame[u].own /\ Placed(u, frame[u])
  BY <1>1, HasFrame, NewFailsStep DEF Becomes, Alike
<1>5. \A u \in Threads : Placed(u, frame[u])'
  BY <1>2, <1>4 DEF Placed, Outside
<1>6. NewAlone'
  BY <1>4 DEF NewAlone
<1> QED
  BY <1>3, <1>5, <1>6 DEF PlaceInv

LEMMA CloseStep ==
  ASSUME PlaceInv, NEW t \in Threads, stumpless_close_target(t)
  PROVE  /\ Call(t) /\ target \in Targets
         /\ \A u \in Threads : frame[u] = Idle
         /\ holder' = [holder EXCEPT !["target"] = NULL]
         /\ UNCHANGED << default, cached, trace, out, cons >>
         /\ \E f \in Frames :
              /\ Becomes(t, f)
              /\ f.call = 0 /\ f.own = "none" /\ f.kept = FALSE /\ f.trace = 0
              /\ \/ f.step = "crashed" /\ seen' = seen \cup {"unopened"} /\ target' = target /\ opened' = opened
                 \/ /\ f.step = "idle" /\ seen' = seen \ {"unbound", "undelayed"}
                    /\ target' = NULL /\ opened' = opened \ {target.stream}
<1>1. frame \in [Threads -> Frames] /\ "idle" \in Steps
  BY HasFrame DEF Steps
<1>2. Call(t) /\ target \in Targets /\ \A u \in Threads : frame[u] = Idle
  BY HasTarget DEF stumpless_close_target, AllIdle
<1>3. CASE Crash(t) /\ seen' = seen \cup {"unopened"} /\ UNCHANGED << target, opened >>
  <2>1. PICK f \in Frames :
           /\ Becomes(t, f)
           /\ f.step = "crashed" /\ f.call = 0 /\ f.own = "none" /\ f.kept = FALSE /\ f.trace = 0
    BY <1>1, <1>3, CrashFrame
  <2> QED
    BY <1>2, <1>3, <2>1 DEF stumpless_close_target
<1>4. CASE /\ Goto(t, "idle") /\ opened' = opened \ {target.stream} /\ target' = NULL
           /\ seen' = seen \ {"unbound", "undelayed"}
  <2>1. PICK f \in Frames : Becomes(t, f) /\ f.step = "idle" /\ Alike(f, frame[t])
    BY <1>1, <1>4, GotoFrame
  <2>2. f.call = 0 /\ f.own = "none" /\ f.kept = FALSE /\ f.trace = 0
    BY <1>2, <2>1, IdleCall DEF Alike
  <2> QED
    BY <1>2, <1>4, <2>1, <2>2 DEF stumpless_close_target
<1> QED
  BY <1>3, <1>4 DEF stumpless_close_target

LEMMA PlaceClose ==
  ASSUME PlaceInv, NEW t \in Threads, stumpless_close_target(t)
  PROVE  PlaceInv'
<1>1. PICK f \in Frames :
        /\ Becomes(t, f) /\ f.own = "none"
        /\ \/ f.step = "crashed" /\ target' = target /\ opened' = opened
           \/ f.step = "idle" /\ target' = NULL /\ opened' = opened \ {target.stream}
  BY CloseStep
<1>2. /\ Call(t) /\ target \in Targets /\ \A u \in Threads : frame[u] = Idle
      /\ holder' = [holder EXCEPT !["target"] = NULL]
      /\ UNCHANGED << default, cached, trace, out, cons >>
  BY CloseStep
<1>3. holder' \in [{"target", "stream"} -> Threads \cup {NULL}]
  BY <1>2, HeldType
<1>4. TypeOK'
  BY <1>1, <1>2, <1>3, CallsUp DEF Becomes, PlaceInv, TypeOK
<1>5. ASSUME NEW u \in Threads
      PROVE  /\ frame'[u].own = "none" /\ frame'[u].step \in {"idle", "crashed"}
             /\ frame'[u].step = "crashed" => target' # NULL
  BY <1>1, <1>2, IdleFrame, TargetFields DEF Becomes
<1>6. \A u \in Threads : Placed(u, frame[u])'
  BY <1>5 DEF Placed, Outside
<1>7. NewAlone'
  BY <1>5 DEF NewAlone
<1> QED
  BY <1>4, <1>6, <1>7 DEF PlaceInv

Step(t) ==
  \/ new_target(t) \/ new_file_target(t) \/ NewFails(t) \/ stumpless_close_target(t)
  \/ stumpless_set_default_options(t) \/ stumpless_set_option(t) \/ stumpless_unset_option(t)
  \/ stumpless_set_target_mask(t) \/ stumpless_set_target_filter(t)
  \/ stumpless_set_target_default_app_name(t) \/ stumpless_set_severity_color(t)
  \/ stumpless_add_entry(t) \/ stumpless_target_is_open(t) \/ stumpless_open_target(t)
  \/ Filter(t) \/ stumpless_mask_filter(t) \/ FormatFails(t)
  \/ send_entry_to_function_target(t) \/ sendto_file_target(t) \/ sendto_socket_target(t)
  \/ sendto_stream_target(t) \/ WriteCode(t) \/ WriteText(t) \/ WriteReset(t) \/ WriteFails(t)
  \/ Console(t) \/ Done(t)
  \/ stumpless_add_log(t) \/ vstumpless_trace_log(t)
  \/ CopyName(t) \/ CopyLength(t) \/ target_free_thread(t)
  \/ stumpless_trace_entry(t) \/ SetTrace(t)

LEMMA NextStep ==
  ASSUME Next
  PROVE  \E t \in Threads : Step(t)
BY DEF Next, Step, stump

LEMMA PlaceNext ==
  ASSUME PlaceInv, ToldInv, [Next]_vars
  PROVE  PlaceInv'
<1>1. CASE UNCHANGED vars
  BY <1>1 DEF vars, PlaceInv, TypeOK, Placed, NewAlone
<1>2. CASE Next
  <2>1. PICK t \in Threads : Step(t)
    BY <1>2, NextStep
  <2>2. Told(frame[t])
    BY DEF ToldInv
  <2> QED
    BY <2>1, <2>2, PlaceNewTarget, PlaceNewFile, PlaceNewFails, PlaceClose, PlaceDefault, PlaceSetters, PlaceColor,
       PlaceAddEntry, PlaceIsOpen, PlaceOpenTarget, PlaceFilter, PlaceMask, PlaceFormat, PlaceFunction, PlaceFile,
       PlaceSocket, PlaceStream, PlaceWriteCode, PlaceWriteText, PlaceWriteReset, PlaceWriteFails, PlaceConsole,
       PlaceDone, PlaceAddLog, PlaceCopyName, PlaceCopyLength, PlaceFreeThread, PlaceTraceEntry, PlaceSetTrace
       DEF Step
<1> QED
  BY <1>1, <1>2

-----------------------------------------------------------------------------
(***************************************************************************)
(* HandleInv is inductive.                                                 *)
(***************************************************************************)

LEMMA HandleInit ==
  Init => HandleInv
<1> SUFFICES ASSUME Init PROVE HandleInv
  OBVIOUS
<1>1. \A t \in Threads : frame[t].step = "idle"
  BY IdleFrame DEF Init
<1>2. holder["stream"] = NULL /\ holder["target"] = NULL /\ target = NULL /\ opened = {}
  BY DEF Init
<1>3. HandlesOwned /\ SendsOpen /\ Delayed /\ \A t \in Threads : FoundOpen(frame[t])
  BY <1>1, <1>2 DEF HandlesOwned, SendsOpen, Delayed, FoundOpen
<1>4. StreamHeld
  BY <1>1, <1>2, NullApart DEF StreamHeld
<1> QED
  BY <1>2, <1>3, <1>4 DEF HandleInv

\* What HandleInv knows of the history stays the same.
SameHistory ==
  \A x \in {"raced", "unbound", "undelayed", "unopened", "color"} : x \in seen' <=> x \in seen

LEMMA ExcusedSame ==
  ASSUME SameHistory
  PROVE  /\ Excused <=> Excused'
         /\ seen' \cap {"undelayed", "unopened", "raced"} = {} <=> seen \cap {"undelayed", "unopened", "raced"} = {}
BY DEF SameHistory, Excused

LEMMA HandleMove ==
  ASSUME PlaceInv, HandleInv, NEW t \in Threads, NEW f \in Frames, Becomes(t, f), SameHistory,
         UNCHANGED << target, opened, holder >>,
         frame[t].step \notin {"text", "reset"}, f.step \notin {"text", "reset"},
         f.step = "crashed" => Excused, FoundOpen(f)
  PROVE  HandleInv'
<1>1. HandlesOwned'
  BY DEF HandleInv, HandlesOwned, SameHistory
<1>2. SendsOpen'
  BY ExcusedSame DEF HandleInv, SendsOpen, Becomes, Excused
<1>3. StreamHeld'
  BY DEF HandleInv, StreamHeld, Becomes
<1>4. holder'["target"] # NULL => "color" \in seen'
  BY DEF HandleInv, SameHistory
<1>5. Delayed'
  BY ExcusedSame DEF HandleInv, Delayed
<1>6. \A u \in Threads : FoundOpen(frame[u])'
  BY ExcusedSame DEF HandleInv, FoundOpen, Becomes
<1> QED
  BY <1>1, <1>2, <1>3, <1>4, <1>5, <1>6 DEF HandleInv

\* While a setter leaves the calls where they are.
LEMMA HandleSet ==
  ASSUME PlaceInv, HandleInv, target \in Targets, target' \in Targets, target.ready,
         target'.type = target.type, target'.stream = target.stream,
         \A u \in Threads : frame'[u].step = frame[u].step,
         seen \subseteq seen', \A x \in {"raced", "unbound"} : x \in seen' => x \in seen,
         opened' = opened, holder'["stream"] = holder["stream"],
         holder'["target"] # NULL => holder["target"] # NULL \/ "color" \in seen',
         \/ "ODELAY" \in target.options => "ODELAY" \in target'.options
         \/ target.stream # NULL \/ target.type \notin {"file", "socket"}
         \/ "undelayed" \in seen'
  PROVE  HandleInv'
<1>1. Excused => Excused'
  BY DEF Excused
<1>2. target # NULL /\ target' # NULL
  BY NullApart
<1>3. HandlesOwned'
  BY <1>2 DEF HandleInv, HandlesOwned
<1>4. SendsOpen'
  BY DEF HandleInv, SendsOpen
<1>5. StreamHeld'
  BY DEF HandleInv, StreamHeld
<1>6. holder'["target"] # NULL => "color" \in seen'
  BY DEF HandleInv
<1>7. Delayed'
  <2>1. SUFFICES ASSUME target'.ready, target'.type \in {"file", "socket"}, target'.stream = NULL,
                        "ODELAY" \notin target'.options
                 PROVE  Excused'
    BY DEF Delayed
  <2>2. CASE "undelayed" \in seen'
    BY <2>2 DEF Excused
  <2>3. CASE "undelayed" \notin seen'
    <3>1. "ODELAY" \notin target.options
      BY <2>1, <2>3
    <3>2. Excused
      BY <1>2, <2>1, <3>1 DEF HandleInv, Delayed
    <3> QED
      BY <1>1, <3>2
  <2> QED
    BY <2>2, <2>3
<1>8. \A u \in Threads : FoundOpen(frame[u])'
  BY <1>1 DEF HandleInv, FoundOpen
<1> QED
  BY <1>3, <1>4, <1>5, <1>6, <1>7, <1>8 DEF HandleInv

LEMMA HandleSetters ==
  ASSUME PlaceInv, HandleInv, NEW t \in Threads,
         \/ stumpless_set_option(t) \/ stumpless_unset_option(t) \/ stumpless_set_target_mask(t)
         \/ stumpless_set_target_filter(t) \/ stumpless_set_target_default_app_name(t)
  PROVE  HandleInv'
<1>1. CASE stumpless_set_option(t)
  BY <1>1, SetOptionStep, HandleSet DEF SetTarget
<1>2. CASE stumpless_unset_option(t)
  BY <1>2, UnsetOptionStep, HandleSet DEF SetTarget, Meanwhile
<1>3. CASE stumpless_set_target_mask(t)
  BY <1>3, SetMaskStep, HandleSet DEF SetTarget, Meanwhile
<1>4. CASE stumpless_set_target_filter(t)
  BY <1>4, SetFilterStep, HandleSet DEF SetTarget, Meanwhile
<1>5. CASE stumpless_set_target_default_app_name(t)
  BY <1>5, SetNameStep, HandleSet DEF SetTarget
<1> QED
  BY <1>1, <1>2, <1>3, <1>4, <1>5

LEMMA HandleColor ==
  ASSUME PlaceInv, HandleInv, NEW t \in Threads, stumpless_set_severity_color(t)
  PROVE  HandleInv'
<1>1. /\ holder'["stream"] = holder["stream"]
      /\ holder'["target"] # NULL => holder["target"] # NULL \/ "color" \in seen'
      /\ seen \subseteq seen' /\ \A x \in {"raced", "unbound"} : x \in seen' => x \in seen
  <2>1. CASE holder' = holder /\ seen' = seen
    BY <2>1
  <2>2. CASE holder' = [holder EXCEPT !["target"] = t] /\ seen' = seen \cup {"color"}
    BY <2>2, HeldType
  <2> QED
    BY <2>1, <2>2, ColorStep
<1> QED
  BY <1>1, ColorStep, HandleSet

LEMMA HandleDefault ==
  ASSUME PlaceInv, HandleInv, UNCHANGED << target, opened, holder, frame, seen >>
  PROVE  HandleInv'
BY DEF HandleInv, HandlesOwned, SendsOpen, StreamHeld, Delayed, FoundOpen, Excused

LEMMA HandleCalls ==
  ASSUME PlaceInv, HandleInv, NEW t \in Threads,
         \/ stumpless_target_is_open(t) \/ Filter(t) \/ stumpless_mask_filter(t) \/ FormatFails(t)
         \/ send_entry_to_function_target(t) \/ sendto_file_target(t) \/ sendto_socket_target(t)
         \/ sendto_stream_target(t) \/ Console(t) \/ Done(t)
  PROVE  HandleInv'
<1>1. seen' = seen => SameHistory
  BY DEF SameHistory
<1>2. FoundOpen(frame[t])
  BY DEF HandleInv
<1>3. CASE stumpless_target_is_open(t)
  <2>1. PICK f \in Frames :
           /\ Becomes(t, f) /\ f.step \in {"open", "filter"}
           /\ f.step = "filter" => ~(target.type \in {"file", "socket"} /\ target.stream = NULL)
    BY <1>3, IsOpenStep
  <2>2. FoundOpen(f)
    BY <2>1 DEF FoundOpen
  <2> QED
    BY <1>1, <1>3, <2>1, <2>2, HandleMove DEF stumpless_target_is_open
<1>4. CASE Filter(t)
  <2>1. PICK f \in Frames : Becomes(t, f) /\ f.step \in {"mask", "send"}
    BY <1>4, FilterStep
  <2>2. FoundOpen(f)
    BY <1>2, <1>4, <2>1 DEF FoundOpen, Filter
  <2> QED
    BY <1>1, <1>4, <2>1, <2>2, HandleMove DEF Filter
<1>5. CASE stumpless_mask_filter(t)
  <2>1. PICK f \in Frames : Becomes(t, f) /\ f.step \in {"send", "done"}
    BY <1>5, MaskStep
  <2>2. FoundOpen(f)
    BY <1>2, <1>5, <2>1 DEF FoundOpen, stumpless_mask_filter
  <2> QED
    BY <1>1, <1>5, <2>1, <2>2, HandleMove DEF stumpless_mask_filter
<1>6. CASE FormatFails(t)
  <2>1. PICK f \in Frames : Becomes(t, f) /\ f.step = "done"
    BY <1>6, RefusedStep DEF FormatFails
  <2>2. FoundOpen(f)
    BY <2>1 DEF FoundOpen
  <2> QED
    BY <1>1, <1>6, <2>1, <2>2, HandleMove DEF FormatFails
<1>7. CASE send_entry_to_function_target(t)
  <2>1. PICK f \in Frames : Becomes(t, f) /\ f.step = "done"
    BY <1>7, FunctionStep
  <2>2. FoundOpen(f)
    BY <2>1 DEF FoundOpen
  <2> QED
    BY <1>1, <1>7, <2>1, <2>2, HandleMove DEF send_entry_to_function_target
<1>8. CASE sendto_file_target(t)
  <2>1. PICK f \in Frames :
           Becomes(t, f) /\ f.step \in {"crashed", "done", "cons"} /\ (f.step = "crashed" => target.stream = NULL)
    BY <1>8, FileStep
  <2>2. FoundOpen(f)
    BY <2>1 DEF FoundOpen
  <2>3. f.step = "crashed" => Excused
    BY <1>2, <1>8, <2>1 DEF FoundOpen, sendto_file_target
  <2> QED
    BY <1>1, <1>8, <2>1, <2>2, <2>3, HandleMove DEF sendto_file_target
<1>9. CASE sendto_socket_target(t)
  <2>1. PICK f \in Frames : Becomes(t, f) /\ f.step \in {"done", "cons"}
    BY <1>9, SocketStep
  <2>2. FoundOpen(f)
    BY <2>1 DEF FoundOpen
  <2> QED
    BY <1>1, <1>9, <2>1, <2>2, HandleMove DEF sendto_socket_target
<1>10. CASE sendto_stream_target(t)
  <2>1. PICK f \in Frames : Becomes(t, f) /\ f.step = "code"
    BY <1>10, StreamStep
  <2>2. FoundOpen(f)
    BY <2>1 DEF FoundOpen
  <2> QED
    BY <1>1, <1>10, <2>1, <2>2, HandleMove DEF sendto_stream_target
<1>11. CASE Console(t)
  <2>1. PICK f \in Frames : Becomes(t, f) /\ f.step = "done"
    BY <1>11, ConsoleStep
  <2>2. FoundOpen(f)
    BY <2>1 DEF FoundOpen
  <2> QED
    BY <1>1, <1>11, <2>1, <2>2, HandleMove DEF Console
<1>12. CASE Done(t)
  <2>1. Becomes(t, Idle) /\ Idle \in Frames /\ Idle.step = "idle"
    BY <1>12, DoneStep, IdleFrame
  <2>2. FoundOpen(Idle)
    BY <2>1 DEF FoundOpen
  <2> QED
    BY <1>1, <1>12, <2>1, <2>2, HandleMove DEF Done
<1> QED
  BY <1>3, <1>4, <1>5, <1>6, <1>7, <1>8, <1>9, <1>10, <1>11, <1>12

\* A call enters with ODELAY, or the target was opened with it.
LEMMA EnteredOpen ==
  ASSUME PlaceInv, HandleInv, target \in Targets, target.ready, NEW f, NEW c, NEW s, NEW o, NEW old,
         Entered(f, c, s, o, old)
  PROVE  FoundOpen(f) /\ f.step \in {"is_open", "filter"}
<1>1. target # NULL
  BY NullApart
<1> QED
  BY <1>1 DEF Entered, FoundOpen, HandleInv, Delayed

LEMMA HandleEnters ==
  ASSUME PlaceInv, HandleInv, NEW t \in Threads,
         \/ stumpless_add_entry(t) \/ stumpless_add_log(t) \/ vstumpless_trace_log(t)
         \/ CopyName(t) \/ CopyLength(t) \/ target_free_thread(t) \/ stumpless_trace_entry(t) \/ SetTrace(t)
  PROVE  HandleInv'
<1>1. seen' = seen => SameHistory
  BY DEF SameHistory
<1>2. CASE stumpless_add_entry(t)
  <2>1. PICK f \in Frames, s \in Severities : Becomes(t, f) /\ Entered(f, calls + 1, s, "none", frame[t])
    BY <1>2, AddEntryStep
  <2>2. target \in Targets /\ target.ready /\ frame[t].step = "idle"
    BY <1>2, HasTarget, IdleCall DEF stumpless_add_entry
  <2>3. FoundOpen(f) /\ f.step \in {"is_open", "filter"}
    BY <2>1, <2>2, EnteredOpen
  <2> QED
    BY <1>1, <1>2, <2>1, <2>2, <2>3, HandleMove DEF stumpless_add_entry
<1>3. ASSUME NEW s \in Severities, NEW k \in Kinds, Call(t), Load(t, s, k),
             UNCHANGED << target, opened, holder, seen >>
      PROVE  HandleInv'
  <2>0. PICK f \in Frames : Loads(t, f, s, k)
    BY <1>3, LoadStep
  <2>1. Becomes(t, f) /\ f.step \in {"done", "name"}
    BY <2>0 DEF Loads
  <2>2. FoundOpen(f) /\ frame[t].step = "idle"
    BY <1>3, <2>1, IdleCall DEF FoundOpen
  <2> QED
    BY <1>1, <1>3, <2>1, <2>2, HandleMove
<1>4. CASE stumpless_add_log(t) \/ vstumpless_trace_log(t)
  <2>1. "entry" \in Kinds /\ "trace" \in Kinds
    BY DEF Kinds
  <2> QED
    BY <1>3, <1>4, <2>1 DEF stumpless_add_log, vstumpless_trace_log
<1>5. CASE CopyName(t)
  <2>1. PICK f \in Frames : Becomes(t, f) /\ f.step = "length"
    BY <1>5, CopyNameStep
  <2>2. FoundOpen(f)
    BY <2>1 DEF FoundOpen
  <2>3. SameHistory
    BY <1>5 DEF CopyName, SameHistory
  <2> QED
    BY <1>5, <2>1, <2>2, <2>3, HandleMove DEF CopyName
<1>6. CASE CopyLength(t)
  <2>1. PICK f \in Frames :
           /\ Becomes(t, f)
           /\ Entered(f, frame[t].call, frame[t].severity, frame[t].own, frame[t]) \/ f.step = "trace"
    BY <1>6, CopyLengthStep
  <2>2. target \in Targets /\ target.ready
    BY <1>6, OwnEntry DEF CopyLength
  <2>3. FoundOpen(f) /\ f.step \in {"is_open", "filter", "trace"}
    <3>1. CASE f.step = "trace"
      BY <3>1 DEF FoundOpen
    <3>2. CASE Entered(f, frame[t].call, frame[t].severity, frame[t].own, frame[t])
      BY <2>2, <3>2, EnteredOpen
    <3> QED
      BY <2>1, <3>1, <3>2
  <2> QED
    BY <1>1, <1>6, <2>1, <2>3, HandleMove DEF CopyLength
<1>7. CASE target_free_thread(t)
  BY <1>7, HandleDefault DEF target_free_thread
<1>8. CASE stumpless_trace_entry(t)
  <2>1. PICK f \in Frames, s \in Severities : Becomes(t, f) /\ f.step = "trace"
    BY <1>8, TraceEntryStep
  <2>2. FoundOpen(f) /\ frame[t].step = "idle"
    BY <1>8, <2>1, IdleCall DEF FoundOpen, stumpless_trace_entry
  <2>3. SameHistory
    BY <1>8 DEF stumpless_trace_entry, SameHistory
  <2> QED
    BY <1>8, <2>1, <2>2, <2>3, HandleMove DEF stumpless_trace_entry
<1>9. CASE SetTrace(t)
  <2>1. PICK f \in Frames :
           /\ Becomes(t, f)
           /\ \/ Entered(f, frame[t].call, frame[t].severity, frame[t].own, frame[t])
              \/ f.step \in {"trace", "done"}
    BY <1>9, SetTraceStep
  <2>2. target \in Targets /\ target.ready
    BY <1>9, InCall DEF SetTrace, Outside
  <2>3. FoundOpen(f) /\ f.step \in {"is_open", "filter", "trace", "done"}
    <3>1. CASE f.step \in {"trace", "done"}
      BY <3>1 DEF FoundOpen
    <3>2. CASE Entered(f, frame[t].call, frame[t].severity, frame[t].own, frame[t])
      BY <2>2, <3>2, EnteredOpen
    <3> QED
      BY <2>1, <3>1, <3>2
  <2> QED
    BY <1>1, <1>9, <2>1, <2>3, HandleMove DEF SetTrace
<1> QED
  BY <1>2, <1>4, <1>5, <1>6, <1>7, <1>8, <1>9

\* While the mutex of the stream is free, nobody writes.
LEMMA NobodyWrites ==
  ASSUME HandleInv, holder["stream"] = NULL
  PROVE  \A u \in Threads : frame[u].step \notin {"text", "reset"}
BY NullApart DEF HandleInv, StreamHeld

LEMMA HandleWrite ==
  ASSUME PlaceInv, HandleInv, NEW t \in Threads, NEW f \in Frames, Becomes(t, f), SameHistory,
         UNCHANGED << target, opened >>, holder'["target"] = holder["target"],
         holder["stream"] \in {NULL, t}, holder'["stream"] \in {NULL, t},
         holder'["stream"] = t <=> f.step \in {"text", "reset"},
         f.step \in {"text", "reset", "done", "cons"}
  PROVE  HandleInv'
<1>1. HandlesOwned'
  BY DEF HandleInv, HandlesOwned, SameHistory
<1>2. SendsOpen'
  BY ExcusedSame DEF HandleInv, SendsOpen, Becomes, Excused
<1>3. StreamHeld'
  BY NullApart DEF HandleInv, StreamHeld, Becomes
<1>4. holder'["target"] # NULL => "color" \in seen'
  BY DEF HandleInv, SameHistory
<1>5. Delayed'
  BY ExcusedSame DEF HandleInv, Delayed
<1>6. \A u \in Threads : FoundOpen(frame[u])'
  BY ExcusedSame DEF HandleInv, FoundOpen, Becomes
<1> QED
  BY <1>1, <1>2, <1>3, <1>4, <1>5, <1>6 DEF HandleInv

LEMMA HandleWrites ==
  ASSUME PlaceInv, HandleInv, NEW t \in Threads,
         WriteCode(t) \/ WriteText(t) \/ WriteReset(t) \/ WriteFails(t)
  PROVE  HandleInv'
<1>1. seen' = seen => SameHistory
  BY DEF SameHistory
<1>2. frame[t].step \in {"text", "reset"} <=> holder["stream"] = t
  BY DEF HandleInv, StreamHeld
<1>3. t # NULL
  BY NullApart
<1>4. CASE WriteCode(t)
  <2>1. PICK f \in Frames : Becomes(t, f) /\ f.step = "text"
    BY <1>4, WriteCodeStep
  <2>2. holder'["stream"] = t /\ holder'["target"] = holder["target"]
    BY <1>4, HeldType DEF WriteCode
  <2> QED
    BY <1>1, <1>4, <2>1, <2>2, HandleWrite DEF WriteCode, Free
<1>5. CASE WriteText(t)
  <2>1. PICK f \in Frames : Becomes(t, f) /\ f.step = "reset"
    BY <1>5, WriteTextStep
  <2> QED
    BY <1>1, <1>2, <1>5, <2>1, HandleWrite DEF WriteText
<1>6. CASE WriteReset(t)
  <2>1. PICK f \in Frames : Becomes(t, f) /\ f.step = "done"
    BY <1>6, SentStep DEF WriteReset
  <2>2. holder'["stream"] = NULL /\ holder'["target"] = holder["target"]
    BY <1>6, HeldType DEF WriteReset
  <2> QED
    BY <1>1, <1>2, <1>3, <1>6, <2>1, <2>2, HandleWrite DEF WriteReset
<1>7. CASE WriteFails(t)
  <2>1. PICK f \in Frames : Becomes(t, f) /\ f.step = "cons"
    BY <1>7, ConsStep DEF WriteFails
  <2>2. holder'["stream"] = NULL /\ holder'["target"] = holder["target"]
    BY <1>7, HeldType DEF WriteFails
  <2>3. holder["stream"] \in {NULL, t}
    BY <1>2, <1>7 DEF WriteFails, Free
  <2>4. SameHistory /\ UNCHANGED << target, opened >>
    BY <1>7 DEF WriteFails, SameHistory
  <2> QED
    BY <1>3, <2>1, <2>2, <2>3, <2>4, HandleWrite
<1> QED
  BY <1>4, <1>5, <1>6, <1>7

LEMMA HandleOpen ==
  ASSUME PlaceInv, HandleInv, NEW t \in Threads, stumpless_open_target(t)
  PROVE  HandleInv'
<1>1. PICK f \in Frames, h \in Handles \cup {NULL} :
           /\ Becomes(t, f)
           /\ target' = [target EXCEPT !.stream = h]
           /\ target.stream # NULL => "raced" \in seen'
           /\ seen \subseteq seen' /\ seen' \subseteq seen \cup {"unbound", "raced"}
           /\ \/ h \in Handles /\ opened' = opened \cup {h} /\ f.step = "filter"
              \/ h \in Handles /\ opened' = opened /\ "unbound" \in seen' /\ f.step = "done"
              \/ h = NULL /\ opened' = opened /\ f.step = "done"
  BY OpenTargetStep
<1>2. frame[t].step = "open" /\ target \in Targets /\ target.ready /\ holder' = holder /\ target # NULL
  BY InCall, NullApart DEF stumpless_open_target, Outside
<1>3. PICK y : y = [target EXCEPT !.stream = h]
  OBVIOUS
<1>4. /\ y \in Targets /\ y.ready /\ y.type = target.type /\ y.stream = h /\ y.options = target.options
  BY <1>2, <1>3, StreamTarget
<1>5. /\ target' \in Targets /\ target'.ready /\ target'.type = target.type /\ target'.stream = h
      /\ target'.options = target.options /\ target' # NULL
  BY <1>1, <1>3, <1>4, NullApart
<1>6. opened \subseteq Handles /\ NULL \notin Handles
  BY NullApart DEF PlaceInv, TypeOK
<1>7. HandlesOwned'
  <2>1. ASSUME "raced" \notin seen' PROVE opened' \subseteq {h}
    <3>1. target.stream = NULL /\ "raced" \notin seen
      BY <1>1, <2>1
    <3>2. opened = {}
      BY <1>2, <1>6, <3>1 DEF HandleInv, HandlesOwned
    <3> QED
      BY <1>1, <3>2
  <2>2. ASSUME h # NULL, "raced" \notin seen', "unbound" \notin seen' PROVE h \in opened'
    BY <1>1, <2>2
  <2> QED
    BY <1>5, <2>1, <2>2 DEF HandlesOwned
<1>8. SendsOpen'
  BY <1>1 DEF HandleInv, SendsOpen, Becomes
<1>9. StreamHeld'
  BY <1>1, <1>2 DEF HandleInv, StreamHeld, Becomes
<1>10. holder'["target"] # NULL => "color" \in seen'
  BY <1>1, <1>2 DEF HandleInv
<1>11. (Excused => Excused') /\ (target.stream # NULL => Excused')
  BY <1>1 DEF Excused
<1>12. Delayed'
  BY <1>2, <1>5, <1>11 DEF HandleInv, Delayed
<1>13. ASSUME NEW u \in Threads PROVE FoundOpen(frame[u])'
  <2>1. CASE u = t
    <3>1. f.step = "filter" => h # NULL
      BY <1>1, <1>6
    <3> QED
      BY <1>1, <1>5, <2>1, <3>1 DEF FoundOpen, Becomes
  <2>2. CASE u # t
    BY <1>1, <1>5, <1>11, <2>2 DEF HandleInv, FoundOpen, Becomes
  <2> QED
    BY <2>1, <2>2
<1> QED
  BY <1>7, <1>8, <1>9, <1>10, <1>12, <1>13 DEF HandleInv

\* Steps after which no thread is in a call of the target.
LEMMA HandleApart ==
  ASSUME PlaceInv, HandleInv, \A u \in Threads : frame[u].step \in {"idle", "new"},
         \A u \in Threads : frame'[u].step \in {"idle", "new", "crashed"},
         (\E u \in Threads : frame'[u].step = "crashed") => "unopened" \in seen',
         holder'["stream"] = holder["stream"],
         holder'["target"] # NULL => holder["target"] # NULL /\ "color" \in seen',
         HandlesOwned', Delayed'
  PROVE  HandleInv'
<1>1. SendsOpen'
  BY DEF SendsOpen
<1>2. StreamHeld'
  BY DEF HandleInv, StreamHeld
<1>3. \A u \in Threads : FoundOpen(frame[u])'
  BY DEF FoundOpen
<1> QED
  BY <1>1, <1>2, <1>3 DEF HandleInv

LEMMA HandleNew ==
  ASSUME PlaceInv, HandleInv, NEW t \in Threads, new_target(t)
  PROVE  HandleInv'
<1>1. PICK f \in Frames : Becomes(t, f) /\ f.step = "new"
  BY NewTargetStep
<1>2. /\ target = NULL /\ target' \in Targets /\ target'.stream = NULL /\ ~target'.ready
      /\ \A u \in Threads : frame[u].step = "idle"
  BY NewTargetStep, IdleFrame
<1>3. UNCHANGED << opened, holder, seen >>
  BY DEF new_target
<1>4. \A u \in Threads : frame'[u].step \in {"idle", "new"}
  BY <1>1, <1>2 DEF Becomes
<1>5. HandlesOwned'
  BY <1>2, <1>3 DEF HandleInv, HandlesOwned
<1>6. Delayed'
  BY <1>2 DEF Delayed
<1>7. holder["target"] # NULL => "color" \in seen
  BY DEF HandleInv
<1> QED
  BY <1>2, <1>3, <1>4, <1>5, <1>6, <1>7, HandleApart

LEMMA HandleNewFile ==
  ASSUME PlaceInv, HandleInv, NEW t \in Threads, new_file_target(t)
  PROVE  HandleInv'
<1>1. PICK f \in Frames : Becomes(t, f) /\ f.step = "idle"
  BY NewFileStep
<1>2. /\ target \in Targets /\ target.stream = NULL /\ target' \in Targets /\ target'.ready /\ target # NULL
      /\ target'.type = target.type /\ target'.options = target.options /\ target' # NULL
      /\ \A u \in Threads : u # t => frame[u].step = "idle"
      /\ frame[t].step = "new" /\ holder' = holder
  BY NewFileStep, NullApart DEF new_file_target
<1>3. \/ /\ opened' = opened /\ target'.stream = NULL
         /\ seen' = seen \/ seen' = seen \cup {"undelayed"}
         /\ target.type \in {"file", "socket"} /\ "ODELAY" \notin target.options => "undelayed" \in seen'
      \/ target'.stream \in Handles /\ opened' = opened \cup {target'.stream} /\ seen' = seen
  BY NewFileStep
<1>4. \A u \in Threads : frame'[u].step = "idle"
  BY <1>1, <1>2 DEF Becomes
<1>5. opened \subseteq Handles /\ NULL \notin Handles
  BY NullApart DEF PlaceInv, TypeOK
<1>6. seen \subseteq seen' /\ ("raced" \in seen' => "raced" \in seen)
  BY <1>3
<1>7. HandlesOwned'
  <2>1. "raced" \notin seen' => opened = {}
    BY <1>2, <1>5, <1>6 DEF HandleInv, HandlesOwned
  <2> QED
    BY <1>2, <1>3, <2>1 DEF HandlesOwned
<1>8. Delayed'
  BY <1>2, <1>3, <1>5 DEF Delayed, Excused
<1>9. holder["target"] # NULL => "color" \in seen'
  BY <1>6 DEF HandleInv
<1> QED
  BY <1>2, <1>4, <1>7, <1>8, <1>9, HandleApart

LEMMA HandleNewFails ==
  ASSUME PlaceInv, HandleInv, NEW t \in Threads, NewFails(t)
  PROVE  HandleInv'
<1>1. PICK f \in Frames : Becomes(t, f) /\ f.step = "idle"
  BY NewFailsStep
<1>2. /\ target \in Targets /\ target.stream = NULL /\ target' = NULL /\ target # NULL
      /\ \A u \in Threads : u # t => frame[u].step = "idle"
      /\ frame[t].step = "new" /\ UNCHANGED << opened, holder, seen >>
  BY NewFailsStep, NullApart DEF NewFails
<1>3. \A u \in Threads : frame'[u].step = "idle"
  BY <1>1, <1>2 DEF Becomes
<1>4. opened \subseteq Handles /\ NULL \notin Handles
  BY NullApart DEF PlaceInv, TypeOK
<1>5. HandlesOwned'
  BY <1>2, <1>4 DEF HandleInv, HandlesOwned
<1>6. Delayed'
  BY <1>2 DEF Delayed
<1>7. holder["target"] # NULL => "color" \in seen
  BY DEF HandleInv
<1> QED
  BY <1>2, <1>3, <1>5, <1>6, <1>7, HandleApart

LEMMA HandleClose ==
  ASSUME PlaceInv, HandleInv, NEW t \in Threads, stumpless_close_target(t)
  PROVE  HandleInv'
<1>1. PICK f \in Frames :
        /\ Becomes(t, f)
        /\ \/ f.step = "crashed" /\ seen' = seen \cup {"unopened"} /\ target' = target /\ opened' = opened
           \/ /\ f.step = "idle" /\ seen' = seen \ {"unbound", "undelayed"}
              /\ target' = NULL /\ opened' = opened \ {target.stream}
  BY CloseStep
<1>2. /\ target \in Targets /\ target # NULL /\ \A u \in Threads : frame[u].step = "idle"
      /\ holder'["target"] = NULL /\ holder'["stream"] = holder["stream"]
  BY CloseStep, HeldType, IdleFrame, NullApart
<1>3. \A u \in Threads : frame'[u].step \in {"idle", "new", "crashed"}
  BY <1>1, <1>2 DEF Becomes
<1>4. (\E u \in Threads : frame'[u].step = "crashed") => "unopened" \in seen'
  BY <1>1, <1>2 DEF Becomes
<1>5. HandlesOwned'
  BY <1>1, <1>2 DEF HandleInv, HandlesOwned
<1>6. Delayed'
  BY <1>1, <1>2 DEF HandleInv, Delayed, Excused
<1> QED
  BY <1>2, <1>3, <1>4, <1>5, <1>6, HandleApart

LEMMA HandleNext ==
  ASSUME PlaceInv, HandleInv, [Next]_vars
  PROVE  HandleInv'
<1>1. CASE UNCHANGED vars
  BY <1>1, HandleDefault DEF vars
<1>2. CASE Next
  <2>1. PICK t \in Threads : Step(t)
    BY <1>2, NextStep
  <2>2. CASE stumpless_set_default_options(t)
    BY <2>2, HandleDefault DEF stumpless_set_default_options
  <2> QED
    BY <2>1, <2>2, HandleNew, HandleNewFile, HandleNewFails, HandleClose, HandleSetters, HandleColor, HandleOpen,
       HandleCalls, HandleWrites, HandleEnters
       DEF Step
<1> QED
  BY <1>1, <1>2

-----------------------------------------------------------------------------
(***************************************************************************)
(* ToldInv is inductive.                                                   *)
(***************************************************************************)

LEMMA ToldInit ==
  Init => ToldInv
<1> SUFFICES ASSUME Init PROVE ToldInv
  OBVIOUS
<1>1. /\ \A t \in Threads : frame[t] = Idle
      /\ Idle.step = "idle" /\ Idle.call = 0 /\ Idle.kept = FALSE
  BY IdleFrame DEF Init
<1>2. calls = 0 /\ DOMAIN out = {}
  BY DEF Init
<1>3. Told(Idle)
  <2>1. Idle.call <= calls
    BY <1>1, <1>2
  <2>2. Idle.step \in Outside => Idle.call = 0 /\ ~Idle.kept
    BY <1>1
  <2>3. Idle.step \notin Before /\ Idle.step \notin {"reset", "cons", "done"} /\ ~Idle.kept
    BY <1>1 DEF Before
  <2> QED
    BY <2>1, <2>2, <2>3 DEF Told
<1> QED
  BY <1>1, <1>2, <1>3 DEF ToldInv

\* What is written keeps what became of other messages.
LEMMA OutSame ==
  ASSUME out' = out
  PROVE  \A c : (Absent(c)' <=> Absent(c)) /\ (Once(c)' <=> Once(c))
BY DEF Absent, Once, IsText

LEMMA OutAppend ==
  ASSUME PlaceInv, NEW x \in Written, out' = Append(out, x)
  PROVE  /\ \A c \in Nat : x # << "text", c >> /\ Absent(c) => Absent(c)'
         /\ \A c \in Nat : x # << "text", c >> /\ Once(c) => Once(c)'
         /\ \A c \in Nat : x = << "text", c >> /\ Absent(c) => Once(c)'
<1>1. /\ out \in Seq(Written) /\ out' \in Seq(Written) /\ Len(out) \in Nat
      /\ DOMAIN out = 1..Len(out) /\ DOMAIN out' = 1..(Len(out) + 1)
      /\ \A i \in 1..Len(out) : out'[i] = out[i]
      /\ out'[Len(out) + 1] = x
  BY SameTypes, WrittenOut
<1>2. PICK n \in Nat : n = Len(out)
  BY <1>1
<1>3. /\ DOMAIN out = 1..n /\ DOMAIN out' = 1..(n + 1) /\ out'[n + 1] = x
      /\ \A i \in 1..n : out'[i] = out[i]
  BY <1>1, <1>2
<1>0. \A j \in 1..(n + 1) : j \in 1..n \/ j = n + 1
  OBVIOUS
<1>4. ASSUME NEW c \in Nat, x # << "text", c >>, Absent(c) PROVE Absent(c)'
  <2>1. ASSUME NEW j \in DOMAIN out' PROVE ~IsText(j, c)'
    <3>1. CASE j = n + 1
      BY <1>3, <1>4, <3>1 DEF IsText
    <3>2. CASE j \in 1..n
      BY <1>3, <1>4, <3>2 DEF IsText, Absent
    <3> QED
      BY <1>0, <1>3, <2>1, <3>1, <3>2
  <2> QED
    BY <2>1 DEF Absent
<1>5. ASSUME NEW c \in Nat, x # << "text", c >>, Once(c) PROVE Once(c)'
  <2>1. PICK i \in 1..n : IsText(i, c) /\ \A j \in 1..n : IsText(j, c) => j = i
    BY <1>3, <1>5 DEF Once
  <2>2. i \in DOMAIN out' /\ IsText(i, c)'
    BY <1>3, <2>1 DEF IsText
  <2>3. \A j \in DOMAIN out' : IsText(j, c)' => j = i
    <3>1. ASSUME NEW j \in DOMAIN out', IsText(j, c)' PROVE j = i
      <4>1. j # n + 1
        BY <1>3, <1>5, <3>1 DEF IsText
      <4>2. j \in 1..n
        BY <1>0, <1>3, <4>1
      <4> QED
        BY <1>3, <2>1, <3>1, <4>2 DEF IsText
    <3> QED
      BY <3>1
  <2> QED
    BY <2>2, <2>3 DEF Once
<1>6. ASSUME NEW c \in Nat, x = << "text", c >>, Absent(c) PROVE Once(c)'
  <2>1. n + 1 \in DOMAIN out' /\ IsText(n + 1, c)'
    BY <1>3, <1>6 DEF IsText
  <2>2. \A j \in DOMAIN out' : IsText(j, c)' => j = n + 1
    BY <1>3, <1>6 DEF IsText, Absent
  <2> QED
    BY <2>1, <2>2 DEF Once
<1> QED
  BY <1>4, <1>5, <1>6

LEMMA TextsKnown ==
  ASSUME PlaceInv, ToldInv, NEW c \in Nat, c \notin 1..calls
  PROVE  Absent(c) /\ c \notin cons
<1>1. ASSUME NEW i \in DOMAIN out, IsText(i, c) PROVE FALSE
  <2>1. out[i][1] = "text" /\ out[i][2] = c
    BY <1>1 DEF IsText
  <2> QED
    BY <2>1 DEF ToldInv
<1>2. c \notin cons
  BY DEF PlaceInv, TypeOK
<1> QED
  BY <1>1, <1>2 DEF Absent

\* A step of t, which tells the truth of its message and leaves the others.
LEMMA ToldStep ==
  ASSUME PlaceInv, ToldInv, NEW t \in Threads, NEW f \in Frames, Becomes(t, f), Told(f)',
         calls' \in Nat, calls <= calls',
         f.call = frame[t].call \/ f.call = 0 \/ f.call = calls + 1,
         \A i \in DOMAIN out' : out'[i][1] = "text" => out'[i][2] \in 1..calls',
         \A c \in Nat : c = 0 \/ c # frame[t].call =>
            /\ Absent(c) => Absent(c)'
            /\ Once(c) => Once(c)'
            /\ c \in cons' <=> c \in cons,
         \A u \in Threads : u # t /\ frame[u].kept /\ frame[u].step # "done" => "CONS" \in target'.options
  PROVE  ToldInv'
<1>1. calls \in Nat
  BY DEF PlaceInv, TypeOK
<1>2. ASSUME NEW u \in Threads
      PROVE  /\ frame[u] \in Frames /\ frame[u].call \in Nat /\ Told(frame[u])
             /\ u # t => frame'[u] = frame[u]
             /\ frame'[t] = f
  BY HasFrame, FrameFields DEF ToldInv, Becomes
<1>3. ASSUME NEW u \in Threads, u # t
      PROVE  Told(frame[u])'
  <2>1. frame[u].call <= calls'
    <3>1. frame[u].call <= calls /\ frame[u].call \in Nat
      BY <1>2 DEF Told
    <3> QED
      BY <1>1, <3>1
  <2>2. frame'[u] = frame[u] /\ Told(frame[u])
    BY <1>2, <1>3
  <2>3. PICK c \in Nat : c = frame[u].call
    BY <1>2
  <2>4. c = 0 \/ c # frame[t].call
    BY <1>3, <2>3 DEF ToldInv
  <2>5. (Absent(c) => Absent(c)') /\ (Once(c) => Once(c)') /\ (c \in cons' <=> c \in cons)
    BY <2>4
  <2> QED
    BY <1>3, <2>1, <2>2, <2>3, <2>5 DEF Told
<1>4. \A u \in Threads : Told(frame[u])'
  <2>1. Told(frame[t])'
    BY <1>2
  <2> QED
    BY <1>3, <2>1
<1>5. ASSUME NEW u \in Threads, NEW v \in Threads, u # v, frame'[u].call = frame'[v].call
      PROVE  frame'[u].call = 0
  <2>1. \A w \in Threads : frame[w].call \in Nat /\ frame[w].call <= calls
    BY <1>2 DEF Told
  <2>2. \A w \in Threads : w # t => frame[w].call # calls + 1
    BY <1>1, <2>1
  <2>3. \A w, z \in Threads : w # z /\ frame[w].call = frame[z].call => frame[w].call = 0
    BY DEF ToldInv
  <2>4. CASE u # t /\ v # t
    BY <1>2, <1>5, <2>3, <2>4
  <2>5. CASE u = t
    BY <1>2, <1>5, <2>2, <2>3, <2>5
  <2>6. CASE v = t
    BY <1>2, <1>5, <2>2, <2>3, <2>6
  <2> QED
    BY <2>4, <2>5, <2>6
<1> QED
  BY <1>4, <1>5 DEF ToldInv

\* A step that writes nothing.
LEMMA ToldMove ==
  ASSUME PlaceInv, ToldInv, NEW t \in Threads, NEW f \in Frames, Becomes(t, f), Told(f),
         f.call = frame[t].call \/ f.call = 0,
         UNCHANGED << out, cons, calls >>,
         target' = target \/ target'.options = target.options
  PROVE  ToldInv'
<1>1. calls' \in Nat /\ calls <= calls'
  BY DEF PlaceInv, TypeOK
<1>2. "CONS" \in target'.options <=> "CONS" \in target.options
  OBVIOUS
<1>3. Told(f)'
  BY <1>2, OutSame DEF Told
<1>4. \A i \in DOMAIN out' : out'[i][1] = "text" => out'[i][2] \in 1..calls'
  BY DEF ToldInv
<1>5. ASSUME NEW u \in Threads, frame[u].kept, frame[u].step # "done"
      PROVE  "CONS" \in target'.options
  BY <1>2, <1>5 DEF ToldInv, Told
<1>6. \A c \in Nat : (Absent(c) => Absent(c)') /\ (Once(c) => Once(c)') /\ (c \in cons' <=> c \in cons)
  BY OutSame
<1> QED
  BY <1>1, <1>3, <1>4, <1>5, <1>6, ToldStep

\* A call that has not written yet may go on, or give up.
LEMMA ToldBefore ==
  ASSUME NEW f \in Frames, NEW g \in Frames, Told(g), g.step \in Before, f.call = g.call,
         f.kept => g.kept \/ "CONS" \in target.options,
         f.step \in Before \cup {"cons"} \/ (f.step = "done" /\ f.result \in {"filtered", "refused"})
  PROVE  Told(f)
<1>1. /\ f.call <= calls /\ f.call # 0 /\ Absent(f.call) /\ f.call \notin cons
      /\ g.kept => "CONS" \in target.options
  BY DEF Told, Before
<1>2. f.step \notin Outside /\ f.step # "reset"
  BY DEF Outside, Before
<1>3. f.step = "done" => f.result \in {"filtered", "refused"}
  BY DEF Before
<1> QED
  BY <1>1, <1>2, <1>3 DEF Told

LEMMA ToldOutside ==
  ASSUME PlaceInv, NEW f \in Frames, f.step \in Outside, f.call = 0, ~f.kept
  PROVE  Told(f)
<1>1. 0 <= calls
  BY DEF PlaceInv, TypeOK
<1>2. f.step \notin Before /\ f.step \notin {"reset", "cons", "done"}
  BY DEF Outside, Before
<1> QED
  BY <1>1, <1>2 DEF Told

LEMMA ToldQuiet ==
  ASSUME PlaceInv, ToldInv, NEW t \in Threads,
         \/ stumpless_target_is_open(t) \/ Filter(t) \/ stumpless_mask_filter(t) \/ FormatFails(t)
         \/ sendto_stream_target(t) \/ CopyName(t) \/ CopyLength(t) \/ SetTrace(t) \/ Done(t)
  PROVE  ToldInv'
<1>1. frame[t] \in Frames /\ Told(frame[t])
  BY HasFrame DEF ToldInv
<1>2. ASSUME NEW f \in Frames, Becomes(t, f), f.call = frame[t].call, frame[t].step \in Before,
             f.kept => frame[t].kept \/ "CONS" \in target.options,
             f.step \in Before \cup {"cons"} \/ (f.step = "done" /\ f.result \in {"filtered", "refused"}),
             UNCHANGED << target, out, cons, calls >>
      PROVE  ToldInv'
  <2>1. Told(f)
    BY <1>1, <1>2, ToldBefore
  <2> QED
    BY <1>2, <2>1, ToldMove
<1>3. CASE stumpless_target_is_open(t)
  <2>1. PICK f \in Frames : Becomes(t, f) /\ Alike(f, frame[t]) /\ f.step \in {"open", "filter"}
    BY <1>3, IsOpenStep
  <2> QED
    BY <1>2, <1>3, <2>1 DEF stumpless_target_is_open, Alike, Before
<1>4. CASE Filter(t)
  <2>1. PICK f \in Frames : Becomes(t, f) /\ Alike(f, frame[t]) /\ f.step \in {"mask", "send"}
    BY <1>4, FilterStep
  <2> QED
    BY <1>2, <1>4, <2>1 DEF Filter, Alike, Before
<1>5. CASE stumpless_mask_filter(t)
  <2>1. PICK f \in Frames :
          /\ Becomes(t, f) /\ Alike(f, frame[t])
          /\ f.step = "send" \/ (f.step = "done" /\ f.result = "filtered")
    BY <1>5, MaskStep
  <2> QED
    BY <1>2, <1>5, <2>1 DEF stumpless_mask_filter, Alike, Before
<1>6. CASE FormatFails(t)
  <2>1. PICK f \in Frames : Becomes(t, f) /\ Alike(f, frame[t]) /\ f.step = "done" /\ f.result = "refused"
    BY <1>6, RefusedStep DEF FormatFails
  <2> QED
    BY <1>2, <1>6, <2>1 DEF FormatFails, Alike, Before
<1>7. CASE sendto_stream_target(t)
  <2>1. PICK f \in Frames : Becomes(t, f) /\ f.step = "code" /\ f.call = frame[t].call /\ f.kept = frame[t].kept
    BY <1>7, StreamStep
  <2> QED
    BY <1>2, <1>7, <2>1 DEF sendto_stream_target, Before
<1>8. CASE CopyName(t)
  <2>1. PICK f \in Frames : Becomes(t, f) /\ Alike(f, frame[t]) /\ f.step = "length"
    BY <1>8, CopyNameStep
  <2> QED
    BY <1>2, <1>8, <2>1 DEF CopyName, Alike, Before
<1>9. CASE CopyLength(t)
  <2>1. PICK f \in Frames :
           /\ Becomes(t, f) /\ f.call = frame[t].call /\ f.step \in {"is_open", "filter", "trace"}
           /\ f.kept => frame[t].kept \/ "CONS" \in target.options
    BY <1>9, CopyLengthStep DEF Entered
  <2> QED
    BY <1>2, <1>9, <2>1 DEF CopyLength, Before
<1>10. CASE SetTrace(t)
  <2>1. PICK f \in Frames :
           /\ Becomes(t, f) /\ f.call = frame[t].call
           /\ f.step \in {"is_open", "filter", "trace"} \/ (f.step = "done" /\ f.result = "refused")
           /\ f.kept => frame[t].kept \/ "CONS" \in target.options
    BY <1>10, SetTraceStep DEF Entered, Alike
  <2> QED
    BY <1>2, <1>10, <2>1 DEF SetTrace, Before
<1>11. CASE Done(t)
  <2>1. Becomes(t, Idle) /\ Idle \in Frames /\ Idle.step = "idle" /\ Idle.call = 0 /\ Idle.kept = FALSE
    BY <1>11, DoneStep, IdleFrame
  <2>2. Told(Idle)
    BY <2>1, ToldOutside DEF Outside
  <2> QED
    BY <1>11, <2>1, <2>2, ToldMove DEF Done
<1> QED
  BY <1>3, <1>4, <1>5, <1>6, <1>7, <1>8, <1>9, <1>10, <1>11

LEMMA ToldOpen ==
  ASSUME PlaceInv, ToldInv, NEW t \in Threads, stumpless_open_target(t)
  PROVE  ToldInv'
<1>1. PICK f \in Frames, h \in Handles \cup {NULL} :
           /\ Becomes(t, f) /\ Alike(f, frame[t]) /\ target' = [target EXCEPT !.stream = h]
           /\ f.step = "filter" \/ (f.step = "done" /\ f.result = "refused")
  BY OpenTargetStep
<1>2. frame[t] \in Frames /\ Told(frame[t]) /\ frame[t].step = "open" /\ target \in Targets
  BY HasFrame, InCall DEF ToldInv, stumpless_open_target, Outside
<1>3. target'.options = target.options
  BY <1>1, <1>2, StreamTarget
<1>4. Told(f)
  BY <1>1, <1>2, ToldBefore DEF Before, Alike
<1>5. UNCHANGED << out, cons, calls >>
  BY DEF stumpless_open_target
<1> QED
  BY <1>1, <1>3, <1>4, <1>5, ToldMove DEF Alike

\* A call begins: its number is new.
LEMMA ToldCall ==
  ASSUME PlaceInv, ToldInv, NEW t \in Threads, NEW f \in Frames, Becomes(t, f), Call(t),
         UNCHANGED << out, cons >>,
         \/ f.step \in Before /\ f.call = calls + 1 /\ (f.kept => "CONS" \in target'.options)
         \/ f.step = "done" /\ f.result = "refused" /\ f.call = 0 /\ ~f.kept
         \/ f.step \in Outside /\ f.call = 0 /\ ~f.kept,
         target' = target \/ \A u \in Threads : frame[u] = Idle
  PROVE  ToldInv'
<1>1. calls \in Nat /\ calls' = calls + 1 /\ calls' \in Nat /\ calls <= calls'
  <2>1. calls \in Nat /\ calls' = calls + 1
    BY IdleCall
  <2> QED
    BY <2>1
<1>2. \A i \in DOMAIN out' : out'[i][1] = "text" => out'[i][2] \in 1..calls'
  <2>1. 1..calls \subseteq 1..calls'
    BY <1>1
  <2> QED
    BY <2>1 DEF ToldInv
<1>3. \A c \in Nat : (Absent(c) => Absent(c)') /\ (Once(c) => Once(c)') /\ (c \in cons' <=> c \in cons)
  BY OutSame
<1>4. ASSUME NEW u \in Threads, frame[u].kept, frame[u].step # "done"
      PROVE  "CONS" \in target'.options
  <2>1. frame[u] # Idle
    BY <1>4, IdleFrame
  <2>2. target' = target
    BY <2>1
  <2> QED
    BY <1>4, <2>2 DEF ToldInv, Told
<1>5. Told(f)'
  <2>1. CASE f.step \in Before /\ f.call = calls + 1 /\ (f.kept => "CONS" \in target'.options)
    <3>1. PICK c \in Nat : c = calls + 1
      BY <1>1
    <3>2. c \notin 1..calls /\ c <= calls' /\ c # 0
      BY <1>1, <3>1
    <3>3. Absent(c) /\ c \notin cons
      BY <3>2, TextsKnown
    <3>4. Absent(c)' /\ c \notin cons'
      BY <1>3, <3>3
    <3>5. f.call = c /\ f.step \notin Outside /\ f.step \notin {"reset", "cons", "done"}
      BY <2>1, <3>1 DEF Before, Outside
    <3> QED
      BY <2>1, <3>2, <3>4, <3>5 DEF Told
  <2>2. CASE f.step = "done" /\ f.result = "refused" /\ f.call = 0 /\ ~f.kept
    <3>1. PICK c \in Nat : c = 0
      OBVIOUS
    <3>2. c \notin 1..calls /\ c <= calls'
      BY <1>1, <3>1
    <3>3. Absent(c)' /\ c \notin cons'
      BY <1>3, <3>2, TextsKnown
    <3>4. f.step \notin Outside /\ f.step \notin Before /\ f.step \notin {"reset", "cons"} /\ f.call = c
      BY <2>2, <3>1 DEF Outside, Before
    <3> QED
      BY <2>2, <3>2, <3>3, <3>4 DEF Told
  <2>3. CASE f.step \in Outside /\ f.call = 0 /\ ~f.kept
    <3>1. f.step \notin Before /\ f.step \notin {"reset", "cons", "done"}
      BY <2>3 DEF Outside, Before
    <3>2. f.call <= calls'
      BY <1>1, <2>3
    <3> QED
      BY <2>3, <3>1, <3>2 DEF Told
  <2> QED
    BY <2>1, <2>2, <2>3
<1>6. f.call = frame[t].call \/ f.call = 0 \/ f.call = calls + 1
  OBVIOUS
<1> QED
  BY <1>1, <1>2, <1>3, <1>4, <1>5, <1>6, ToldStep

LEMMA ToldCalls ==
  ASSUME PlaceInv, ToldInv, NEW t \in Threads,
         \/ stumpless_add_entry(t) \/ stumpless_add_log(t) \/ vstumpless_trace_log(t) \/ stumpless_trace_entry(t)
         \/ new_target(t) \/ stumpless_close_target(t)
  PROVE  ToldInv'
<1>1. CASE stumpless_add_entry(t)
  <2>1. PICK f \in Frames, s \in Severities : Becomes(t, f) /\ Entered(f, calls + 1, s, "none", frame[t])
    BY <1>1, AddEntryStep
  <2>2. Call(t) /\ UNCHANGED << out, cons, target >>
    BY <1>1 DEF stumpless_add_entry
  <2>3. f.step \in Before /\ f.call = calls + 1 /\ (f.kept => "CONS" \in target'.options)
    BY <2>1, <2>2 DEF Entered, Before
  <2> QED
    BY <2>1, <2>2, <2>3, ToldCall
<1>2. ASSUME NEW s \in Severities, NEW k \in Kinds, Call(t), Load(t, s, k), UNCHANGED << target, out, cons >>
      PROVE  ToldInv'
  <2>1. PICK f \in Frames : Loads(t, f, s, k)
    BY <1>2, LoadStep
  <2>2. /\ Becomes(t, f) /\ f.kept = FALSE
        /\ (f.step = "done" /\ f.result = "refused" /\ f.call = 0) \/ (f.step \in Before /\ f.call = calls + 1)
    BY <2>1 DEF Loads, Before
  <2> QED
    BY <1>2, <2>2, ToldCall
<1>3. CASE stumpless_add_log(t) \/ vstumpless_trace_log(t)
  <2>1. "entry" \in Kinds /\ "trace" \in Kinds
    BY DEF Kinds
  <2> QED
    BY <1>2, <1>3, <2>1 DEF stumpless_add_log, vstumpless_trace_log
<1>4. CASE stumpless_trace_entry(t)
  <2>1. PICK f \in Frames, s \in Severities :
          Becomes(t, f) /\ f.step = "trace" /\ f.call = calls + 1 /\ f.kept = frame[t].kept
    BY <1>4, TraceEntryStep
  <2>2. Call(t) /\ UNCHANGED << out, cons, target >>
    BY <1>4 DEF stumpless_trace_entry
  <2>3. ~f.kept /\ f.step \in Before
    BY <2>1, <2>2, IdleCall DEF Before
  <2> QED
    BY <2>1, <2>2, <2>3, ToldCall
<1>5. CASE new_target(t)
  <2>1. PICK f \in Frames : Becomes(t, f) /\ Alike(f, Idle) /\ f.step = "new"
    BY <1>5, NewTargetStep
  <2>2. Call(t) /\ UNCHANGED << out, cons >> /\ \A u \in Threads : frame[u] = Idle
    BY <1>5, NewTargetStep DEF new_target
  <2>3. f.step \in Outside /\ f.call = 0 /\ ~f.kept
    BY <2>1, IdleFrame DEF Outside, Alike
  <2> QED
    BY <2>1, <2>2, <2>3, ToldCall
<1>6. CASE stumpless_close_target(t)
  <2>1. PICK f \in Frames : Becomes(t, f) /\ f.call = 0 /\ f.kept = FALSE /\ f.step \in Outside
    BY <1>6, CloseStep DEF Outside
  <2>2. Call(t) /\ UNCHANGED << out, cons >> /\ \A u \in Threads : frame[u] = Idle
    BY <1>6, CloseStep
  <2> QED
    BY <2>1, <2>2, ToldCall
<1> QED
  BY <1>1, <1>3, <1>4, <1>5, <1>6

LEMMA ToldNew ==
  ASSUME PlaceInv, ToldInv, NEW t \in Threads, new_file_target(t) \/ NewFails(t)
  PROVE  ToldInv'
<1>1. frame[t].step = "new" /\ frame[t] \in Frames /\ Told(frame[t])
  BY HasFrame DEF ToldInv, new_file_target, NewFails
<1>2. PICK f \in Frames : Becomes(t, f) /\ Alike(f, frame[t]) /\ f.step = "idle"
  BY NewFileStep, NewFailsStep
<1>3. UNCHANGED << out, cons, calls >> /\ \A u \in Threads : u # t => frame[u].step = "idle"
  BY NewFileStep, NewFailsStep DEF new_file_target, NewFails
<1>4. f.call = 0 /\ ~f.kept
  BY <1>1, <1>2 DEF Told, Outside, Alike
<1>5. \A u \in Threads : u # t => ~frame[u].kept
  BY <1>3 DEF ToldInv, Told, Outside
<1>6. Told(f)'
  <2>1. f.step \notin Before /\ f.step \notin {"reset", "cons", "done"} /\ f.step \in Outside
    BY <1>2 DEF Outside, Before
  <2>2. f.call <= calls'
    BY <1>3, <1>4 DEF PlaceInv, TypeOK
  <2> QED
    BY <1>4, <2>1, <2>2 DEF Told
<1>7. calls' \in Nat /\ calls <= calls'
  BY <1>3 DEF PlaceInv, TypeOK
<1>8. \A i \in DOMAIN out' : out'[i][1] = "text" => out'[i][2] \in 1..calls'
  BY <1>3 DEF ToldInv
<1>9. \A c \in Nat : (Absent(c) => Absent(c)') /\ (Once(c) => Once(c)') /\ (c \in cons' <=> c \in cons)
  BY <1>3, OutSame
<1> QED
  BY <1>2, <1>4, <1>5, <1>6, <1>7, <1>8, <1>9, ToldStep

\* The message of t is written.
LEMMA ToldText ==
  ASSUME PlaceInv, ToldInv, NEW t \in Threads, NEW f \in Frames, Becomes(t, f), Alike(f, frame[t]),
         frame[t].step \in {"send", "text"}, out' = Append(out, Text(t)),
         f.step = "reset" \/ (f.step = "done" /\ f.result \in {"sent", "rejected"}),
         UNCHANGED << cons, calls, target >>
  PROVE  ToldInv'
<1>1. frame[t] \in Frames /\ Told(frame[t]) /\ calls \in Nat
  BY HasFrame DEF ToldInv, PlaceInv, TypeOK
<1>2. PICK m \in Nat : m = frame[t].call
  BY <1>1, FrameFields
<1>3. /\ m <= calls /\ m # 0 /\ Absent(m) /\ m \notin cons
      /\ frame[t].kept => "CONS" \in target.options
  BY <1>1, <1>2 DEF Told, Before
<1>4. Text(t) = << "text", m >> /\ Text(t) \in Written
  BY <1>2, TextWritten DEF Text
<1>5. Once(m)'
  BY <1>3, <1>4, OutAppend
<1>6. ASSUME NEW c \in Nat, c = 0 \/ c # frame[t].call
      PROVE  (Absent(c) => Absent(c)') /\ (Once(c) => Once(c)') /\ (c \in cons' <=> c \in cons)
  <2>1. c # m
    BY <1>2, <1>3, <1>6
  <2>2. Text(t) # << "text", c >>
    BY <1>4, <2>1
  <2> QED
    BY <1>4, <2>2, OutAppend
<1>7. \A i \in DOMAIN out' : out'[i][1] = "text" => out'[i][2] \in 1..calls'
  <2>1. /\ out \in Seq(Written) /\ DOMAIN out = 1..Len(out) /\ DOMAIN out' = 1..(Len(out) + 1) /\ Len(out) \in Nat
        /\ \A i \in 1..Len(out) : out'[i] = out[i]
        /\ out'[Len(out) + 1] = << "text", m >>
    BY <1>4, SameTypes, WrittenOut
  <2>2. m \in 1..calls
    BY <1>1, <1>3
  <2>3. ASSUME NEW i \in DOMAIN out', out'[i][1] = "text" PROVE out'[i][2] \in 1..calls'
    <3>1. CASE i = Len(out) + 1
      BY <2>1, <2>2, <3>1
    <3>2. CASE i \in 1..Len(out)
      BY <2>1, <2>3, <3>2 DEF ToldInv
    <3> QED
      BY <2>1, <2>3, <3>1, <3>2
  <2> QED
    BY <2>3
<1>8. Told(f)'
  <2>1. f.call = m /\ (f.kept => "CONS" \in target'.options)
    BY <1>2, <1>3 DEF Alike
  <2>2. f.step \notin Outside /\ f.step \notin Before /\ f.step # "cons"
    BY DEF Outside, Before
  <2>3. m <= calls' /\ m \notin cons'
    BY <1>3
  <2>4. f.step = "done" => f.result \notin {"filtered", "refused", "failed"}
    OBVIOUS
  <2> QED
    BY <1>3, <1>5, <2>1, <2>2, <2>3, <2>4 DEF Told
<1>9. ASSUME NEW u \in Threads, frame[u].kept, frame[u].step # "done"
      PROVE  "CONS" \in target'.options
  BY <1>9 DEF ToldInv, Told
<1>10. f.call = frame[t].call /\ calls' \in Nat /\ calls <= calls'
  BY <1>1 DEF Alike
<1> QED
  BY <1>6, <1>7, <1>8, <1>9, <1>10, ToldStep

\* A step of t that writes nothing, or a code or a reset.
LEMMA ToldCode ==
  ASSUME PlaceInv, ToldInv, NEW t \in Threads, NEW f \in Frames, Becomes(t, f), f.call = frame[t].call,
         NEW x \in Written, x[1] # "text", out' = Append(out, x), Told(f), UNCHANGED << cons, calls, target >>
  PROVE  ToldInv'
<1>1. \A c \in Nat : x # << "text", c >>
  OBVIOUS
<1>2. \A c \in Nat : (Absent(c) => Absent(c)') /\ (Once(c) => Once(c)') /\ (c \in cons' <=> c \in cons)
  BY <1>1, OutAppend
<1>3. \A i \in DOMAIN out' : out'[i][1] = "text" => out'[i][2] \in 1..calls'
  <2>1. /\ out \in Seq(Written) /\ DOMAIN out = 1..Len(out) /\ DOMAIN out' = 1..(Len(out) + 1) /\ Len(out) \in Nat
        /\ \A i \in 1..Len(out) : out'[i] = out[i]
        /\ out'[Len(out) + 1] = x
    BY SameTypes, WrittenOut
  <2>2. ASSUME NEW i \in DOMAIN out', out'[i][1] = "text" PROVE out'[i][2] \in 1..calls'
    <3>1. i # Len(out) + 1
      BY <2>1, <2>2
    <3>2. i \in 1..Len(out)
      BY <2>1, <2>2, <3>1
    <3> QED
      BY <2>1, <2>2, <3>2 DEF ToldInv
  <2> QED
    BY <2>2
<1>4. Told(f)'
  <2>1. f.call \in Nat
    BY FrameFields
  <2> QED
    BY <1>2, <2>1 DEF Told
<1>5. ASSUME NEW u \in Threads, frame[u].kept, frame[u].step # "done"
      PROVE  "CONS" \in target'.options
  BY <1>5 DEF ToldInv, Told
<1>6. calls' \in Nat /\ calls <= calls'
  BY DEF PlaceInv, TypeOK
<1> QED
  BY <1>2, <1>3, <1>4, <1>5, <1>6, ToldStep

LEMMA ToldCons ==
  ASSUME PlaceInv, ToldInv, NEW t \in Threads, Console(t)
  PROVE  ToldInv'
<1>1. PICK f \in Frames : Becomes(t, f) /\ Alike(f, frame[t]) /\ f.step = "done" /\ f.result = "failed"
  BY ConsoleStep
<1>2. /\ frame[t] \in Frames /\ Told(frame[t]) /\ frame[t].step = "cons" /\ calls \in Nat
      /\ UNCHANGED << out, calls, target >>
      /\ cons' = IF "CONS" \in target.options THEN cons \cup {frame[t].call} ELSE cons
  BY HasFrame DEF ToldInv, Console, PlaceInv, TypeOK
<1>3. PICK m \in Nat : m = frame[t].call
  BY <1>2, FrameFields
<1>4. m <= calls /\ m # 0 /\ (Absent(m) \/ Once(m)) /\ (frame[t].kept => "CONS" \in target.options)
  BY <1>2, <1>3 DEF Told
<1>5. \A c \in Nat : (Absent(c) => Absent(c)') /\ (Once(c) => Once(c)')
  BY <1>2, OutSame
<1>6. \A c \in Nat : c = 0 \/ c # frame[t].call => (c \in cons' <=> c \in cons)
  BY <1>2, <1>3, <1>4
<1>7. Told(f)'
  <2>1. f.call = m /\ f.kept = frame[t].kept
    BY <1>1, <1>3 DEF Alike
  <2>2. f.kept => m \in cons'
    BY <1>2, <1>3, <1>4, <2>1
  <2>3. f.step \notin Outside /\ f.step \notin Before
    BY <1>1 DEF Outside, Before
  <2>4. Absent(m)' \/ Once(m)'
    BY <1>4, <1>5
  <2> QED
    BY <1>1, <1>2, <1>4, <2>1, <2>2, <2>3, <2>4 DEF Told
<1>8. \A i \in DOMAIN out' : out'[i][1] = "text" => out'[i][2] \in 1..calls'
  BY <1>2 DEF ToldInv
<1>9. ASSUME NEW u \in Threads, frame[u].kept, frame[u].step # "done"
      PROVE  "CONS" \in target'.options
  BY <1>2, <1>9 DEF ToldInv, Told
<1>10. f.call = frame[t].call /\ calls' \in Nat /\ calls <= calls'
  BY <1>1, <1>2 DEF Alike
<1> QED
  BY <1>1, <1>5, <1>6, <1>7, <1>8, <1>9, <1>10, ToldStep

LEMMA ToldWrites ==
  ASSUME PlaceInv, ToldInv, NEW t \in Threads,
         \/ send_entry_to_function_target(t) \/ sendto_file_target(t) \/ sendto_socket_target(t)
         \/ WriteCode(t) \/ WriteText(t) \/ WriteReset(t) \/ WriteFails(t)
  PROVE  ToldInv'
<1>1. frame[t] \in Frames /\ Told(frame[t])
  BY HasFrame DEF ToldInv
<1>2. CASE send_entry_to_function_target(t)
  <2>1. PICK f \in Frames :
          Becomes(t, f) /\ Alike(f, frame[t]) /\ f.step = "done" /\ f.result \in {"sent", "rejected"}
    BY <1>2, FunctionStep
  <2> QED
    BY <1>2, <2>1, ToldText DEF send_entry_to_function_target
<1>3. ASSUME NEW f \in Frames, Becomes(t, f), Alike(f, frame[t]), frame[t].step \in Before, f.step = "cons",
             UNCHANGED << out, cons, calls, target >>
      PROVE  ToldInv'
  <2>1. Told(f)
    BY <1>1, <1>3, ToldBefore DEF Alike
  <2> QED
    BY <1>3, <2>1, ToldMove DEF Alike
<1>4. CASE sendto_file_target(t)
  <2>1. PICK f \in Frames :
           /\ Becomes(t, f)
           /\ \/ /\ target.stream = NULL /\ out' = out
                 /\ f.step = "crashed" /\ f.call = 0 /\ f.own = "none" /\ f.kept = FALSE /\ f.trace = 0
              \/ Alike(f, frame[t]) /\ f.step = "done" /\ f.result = "sent" /\ out' = Append(out, Text(t))
              \/ Alike(f, frame[t]) /\ f.step = "cons" /\ out' = out
    BY <1>4, FileStep
  <2>2. frame[t].step = "send" /\ UNCHANGED << cons, calls, target >>
    BY <1>4 DEF sendto_file_target
  <2>3. CASE f.step = "crashed" /\ f.call = 0 /\ f.kept = FALSE /\ out' = out
    <3>1. Told(f)
      BY <2>3, ToldOutside DEF Outside
    <3> QED
      BY <2>1, <2>2, <2>3, <3>1, ToldMove
  <2>4. CASE Alike(f, frame[t]) /\ f.step = "done" /\ f.result = "sent" /\ out' = Append(out, Text(t))
    BY <2>1, <2>2, <2>4, ToldText
  <2>5. CASE Alike(f, frame[t]) /\ f.step = "cons" /\ out' = out
    BY <1>3, <2>1, <2>2, <2>5 DEF Before
  <2> QED
    BY <2>1, <2>3, <2>4, <2>5
<1>5. CASE sendto_socket_target(t)
  <2>1. PICK f \in Frames :
           /\ Becomes(t, f) /\ Alike(f, frame[t])
           /\ \/ f.step = "done" /\ f.result = "sent" /\ out' = Append(out, Text(t))
              \/ f.step = "cons" /\ out' = out
    BY <1>5, SocketStep
  <2>2. frame[t].step = "send" /\ UNCHANGED << cons, calls, target >>
    BY <1>5 DEF sendto_socket_target
  <2>3. CASE f.step = "done" /\ f.result = "sent" /\ out' = Append(out, Text(t))
    BY <2>1, <2>2, <2>3, ToldText
  <2>4. CASE f.step = "cons" /\ out' = out
    BY <1>3, <2>1, <2>2, <2>4 DEF Before
  <2> QED
    BY <2>1, <2>3, <2>4
<1>6. CASE WriteCode(t)
  <2>1. PICK f \in Frames : Becomes(t, f) /\ Alike(f, frame[t]) /\ f.step = "text"
    BY <1>6, WriteCodeStep
  <2>2. Told(f) /\ f.call = frame[t].call /\ UNCHANGED << cons, calls, target >>
    BY <1>1, <1>6, <2>1, ToldBefore DEF WriteCode, Before, Alike
  <2>3. CASE frame[t].code = NULL
    BY <1>6, <2>1, <2>2, <2>3, ToldMove DEF WriteCode
  <2>4. CASE frame[t].code # NULL
    <3>1. PICK x \in Written : x[1] # "text" /\ out' = Append(out, x)
      <4>1. << "code", frame[t].code >> \in Written
        BY <1>1, <2>4, FrameFields DEF Written
      <4> QED
        BY <1>6, <2>4, <4>1 DEF WriteCode
    <3> QED
      BY <2>1, <2>2, <3>1, ToldCode
  <2> QED
    BY <2>3, <2>4
<1>7. CASE WriteText(t)
  <2>1. PICK f \in Frames : Becomes(t, f) /\ Alike(f, frame[t]) /\ f.step = "reset"
    BY <1>7, WriteTextStep
  <2> QED
    BY <1>7, <2>1, ToldText DEF WriteText
<1>8. CASE WriteReset(t)
  <2>1. PICK f \in Frames : Becomes(t, f) /\ Alike(f, frame[t]) /\ f.step = "done" /\ f.result = "sent"
    BY <1>8, SentStep DEF WriteReset
  <2>2. frame[t].step = "reset" /\ UNCHANGED << cons, calls, target >>
    BY <1>8 DEF WriteReset
  <2>3. Told(f) /\ f.call = frame[t].call
    BY <1>1, <2>1, <2>2 DEF Told, Alike, Outside, Before
  <2>4. CASE frame[t].code = NULL
    BY <1>8, <2>1, <2>2, <2>3, <2>4, ToldMove DEF WriteReset
  <2>5. CASE frame[t].code # NULL
    <3>1. PICK x \in Written : x[1] # "text" /\ out' = Append(out, x)
      <4>1. << "reset", 0 >> \in Written
        BY DEF Written
      <4> QED
        BY <1>8, <2>5, <4>1 DEF WriteReset
    <3> QED
      BY <2>1, <2>2, <2>3, <3>1, ToldCode
  <2> QED
    BY <2>4, <2>5
<1>9. CASE WriteFails(t)
  <2>1. PICK f \in Frames : Becomes(t, f) /\ Alike(f, frame[t]) /\ f.step = "cons"
    BY <1>9, ConsStep DEF WriteFails
  <2>2. UNCHANGED << out, cons, calls, target >> /\ frame[t].step \in {"text", "reset", "code"}
    BY <1>9 DEF WriteFails
  <2>3. CASE frame[t].step \in {"text", "code"}
    BY <1>3, <2>1, <2>2, <2>3 DEF Before
  <2>4. CASE frame[t].step = "reset"
    <3>1. Told(f) /\ f.call = frame[t].call
      BY <1>1, <2>1, <2>4 DEF Told, Alike, Outside, Before
    <3> QED
      BY <2>1, <2>2, <3>1, ToldMove
  <2> QED
    BY <2>2, <2>3, <2>4
<1> QED
  BY <1>2, <1>4, <1>5, <1>6, <1>7, <1>8, <1>9

LEMMA ToldSet ==
  ASSUME PlaceInv, ToldInv, NEW t \in Threads, Call(t), UNCHANGED << out, cons >>,
         \A u \in Threads : Meanwhile(frame'[u], frame[u]),
         \/ target' = target \/ target.options \subseteq target'.options
         \/ "CONS" \in target'.options \/ "CONS" \notin target.options
         \/ \A u \in Threads : frame'[u].kept = FALSE
  PROVE  ToldInv'
<1>1. calls \in Nat /\ calls' = calls + 1
  BY IdleCall
<1>2. \A i \in DOMAIN out' : out'[i][1] = "text" => out'[i][2] \in 1..calls'
  <2>1. 1..calls \subseteq 1..calls'
    BY <1>1
  <2> QED
    BY <2>1 DEF ToldInv
<1>3. ASSUME NEW u \in Threads
      PROVE  Told(frame[u])'
  <2>1. frame[u] \in Frames /\ Told(frame[u]) /\ Meanwhile(frame'[u], frame[u])
    BY HasFrame DEF ToldInv
  <2>2. PICK m \in Nat : m = frame[u].call
    BY <2>1, FrameFields
  <2>3. /\ frame'[u].call = m /\ frame'[u].step = frame[u].step /\ frame'[u].result = frame[u].result
        /\ frame'[u].kept => frame[u].kept
    BY <2>1, <2>2 DEF Meanwhile
  <2>4. m <= calls'
    <3>1. m <= calls
      BY <2>1, <2>2 DEF Told
    <3> QED
      BY <1>1, <3>1
  <2>5. frame'[u].kept /\ frame'[u].step # "done" => "CONS" \in target'.options
    BY <2>1, <2>3 DEF Told
  <2>6. (Absent(m)' <=> Absent(m)) /\ (Once(m)' <=> Once(m)) /\ (m \in cons' <=> m \in cons)
    BY OutSame
  <2> QED
    BY <2>1, <2>2, <2>3, <2>4, <2>5, <2>6 DEF Told
<1>4. \A u, v \in Threads : u # v /\ frame'[u].call = frame'[v].call => frame'[u].call = 0
  BY DEF ToldInv, Meanwhile
<1> QED
  BY <1>2, <1>3, <1>4 DEF ToldInv

LEMMA ToldSetters ==
  ASSUME PlaceInv, ToldInv, NEW t \in Threads,
         \/ stumpless_set_option(t) \/ stumpless_unset_option(t) \/ stumpless_set_target_mask(t)
         \/ stumpless_set_target_filter(t) \/ stumpless_set_target_default_app_name(t)
         \/ stumpless_set_severity_color(t) \/ stumpless_set_default_options(t)
  PROVE  ToldInv'
<1>1. CASE stumpless_set_option(t)
  <2>1. /\ Call(t) /\ UNCHANGED << out, cons >> /\ target.options \subseteq target'.options
        /\ \A u \in Threads : Meanwhile(frame'[u], frame[u])
    BY <1>1, SetOptionStep, SameFrames DEF SetTarget
  <2> QED
    BY <2>1, ToldSet
<1>2. CASE stumpless_unset_option(t)
  <2>1. /\ Call(t) /\ UNCHANGED << out, cons >>
        /\ \A u \in Threads : Meanwhile(frame'[u], frame[u])
        /\ \/ "CONS" \in target'.options \/ "CONS" \notin target.options
           \/ \A u \in Threads : frame'[u].kept = FALSE
    BY <1>2, UnsetOptionStep DEF SetTarget
  <2> QED
    BY <2>1, ToldSet
<1>3. CASE stumpless_set_target_mask(t)
  <2>1. /\ Call(t) /\ UNCHANGED << out, cons >> /\ target.options \subseteq target'.options
        /\ \A u \in Threads : Meanwhile(frame'[u], frame[u])
    BY <1>3, SetMaskStep DEF SetTarget
  <2> QED
    BY <2>1, ToldSet
<1>4. CASE stumpless_set_target_filter(t)
  <2>1. /\ Call(t) /\ UNCHANGED << out, cons >> /\ target.options \subseteq target'.options
        /\ \A u \in Threads : Meanwhile(frame'[u], frame[u])
    BY <1>4, SetFilterStep DEF SetTarget
  <2> QED
    BY <2>1, ToldSet
<1>5. CASE stumpless_set_target_default_app_name(t)
  <2>1. /\ Call(t) /\ UNCHANGED << out, cons >> /\ target.options \subseteq target'.options
        /\ \A u \in Threads : Meanwhile(frame'[u], frame[u])
    BY <1>5, SetNameStep, SameFrames DEF SetTarget
  <2> QED
    BY <2>1, ToldSet
<1>6. CASE stumpless_set_severity_color(t)
  <2>1. /\ Call(t) /\ UNCHANGED << out, cons >> /\ target.options \subseteq target'.options
        /\ \A u \in Threads : Meanwhile(frame'[u], frame[u])
    BY <1>6, ColorStep, SameFrames
  <2> QED
    BY <2>1, ToldSet
<1>7. CASE stumpless_set_default_options(t)
  <2>1. Call(t) /\ UNCHANGED << out, cons, target, frame >>
    BY <1>7 DEF stumpless_set_default_options, Call
  <2>2. \A u \in Threads : Meanwhile(frame'[u], frame[u])
    BY <2>1, SameFrames
  <2> QED
    BY <2>1, <2>2, ToldSet
<1> QED
  BY <1>1, <1>2, <1>3, <1>4, <1>5, <1>6, <1>7

LEMMA ToldSame ==
  ASSUME PlaceInv, ToldInv, UNCHANGED << out, cons, calls, target, frame >>
  PROVE  ToldInv'
<1>1. \A c : (Absent(c)' <=> Absent(c)) /\ (Once(c)' <=> Once(c))
  BY OutSame
<1>2. ASSUME NEW u \in Threads PROVE Told(frame[u])'
  <2>1. Told(frame[u]) /\ frame'[u] = frame[u]
    BY DEF ToldInv
  <2>2. PICK m : m = frame[u].call
    OBVIOUS
  <2> QED
    BY <1>1, <2>1, <2>2 DEF Told
<1> QED
  BY <1>2 DEF ToldInv

LEMMA ToldNext ==
  ASSUME PlaceInv, ToldInv, [Next]_vars
  PROVE  ToldInv'
<1>1. CASE UNCHANGED vars
  BY <1>1, ToldSame DEF vars
<1>2. CASE Next
  <2>1. PICK t \in Threads : Step(t)
    BY <1>2, NextStep
  <2>2. CASE target_free_thread(t)
    BY <2>2, ToldSame DEF target_free_thread
  <2> QED
    BY <2>1, <2>2, ToldQuiet, ToldOpen, ToldCalls, ToldNew, ToldCons, ToldWrites, ToldSetters DEF Step
<1> QED
  BY <1>1, <1>2

-----------------------------------------------------------------------------
(***************************************************************************)
(* What the invariants say of handles, mutexes and outcomes.               *)
(***************************************************************************)

LEMMA Inductive ==
  Spec => [](PlaceInv /\ HandleInv /\ ToldInv)
<1>1. Init => PlaceInv /\ HandleInv /\ ToldInv
  BY PlaceInit, HandleInit, ToldInit
<1>2. PlaceInv /\ HandleInv /\ ToldInv /\ [Next]_vars => (PlaceInv /\ HandleInv /\ ToldInv)'
  BY PlaceNext, HandleNext, ToldNext
<1> QED
  BY <1>1, <1>2, PTL DEF Spec

LEMMA Returned ==
  PlaceInv /\ HandleInv => MutexesReturned
<1> SUFFICES ASSUME PlaceInv, HandleInv, NEW m \in DOMAIN holder, NEW t \in Threads,
                    holder[m] = t, frame[t].step \in {"idle", "cons", "done"}
             PROVE  m = "target" /\ "color" \in seen
  BY DEF MutexesReturned
<1>1. m \in {"target", "stream"} /\ t # NULL
  BY DeliveryAssumption DEF PlaceInv, TypeOK
<1>2. m # "stream"
  BY DEF HandleInv, StreamHeld
<1> QED
  BY <1>1, <1>2 DEF HandleInv

(***************************************************************************)
(* No stream, socket or mutex is lost by stumpless_add_entry, by opening   *)
(* and closing targets or by setting what they have, and none is used that *)
(* is not open, whatever the threads do meanwhile: with the exceptions     *)
(* that HandlesOwned, SendsOpen and MutexesReturned name.                  *)
(***************************************************************************)
THEOREM HandlesAreSafe ==
  Spec => []HandlesSafe
<1>1. PlaceInv /\ HandleInv /\ ToldInv => HandlesSafe
  BY Returned DEF HandlesSafe, PlaceInv, HandleInv
<1> QED
  BY <1>1, Inductive, PTL

LEMMA AbsentCount ==
  ASSUME NEW c, Absent(c)
  PROVE  Cardinality({i \in DOMAIN out : out[i] = << "text", c >>}) = 0
<1>1. {i \in DOMAIN out : out[i] = << "text", c >>} = {}
  BY DEF Absent, IsText
<1> QED
  BY <1>1, FS_EmptySet

LEMMA OnceCount ==
  ASSUME NEW c, Once(c)
  PROVE  Cardinality({i \in DOMAIN out : out[i] = << "text", c >>}) = 1
<1>1. PICK i \in DOMAIN out : IsText(i, c) /\ \A j \in DOMAIN out : IsText(j, c) => j = i
  BY DEF Once
<1>2. {j \in DOMAIN out : out[j] = << "text", c >>} = {i}
  BY <1>1 DEF IsText
<1> QED
  BY <1>2, FS_Singleton

(***************************************************************************)
(* What stumpless_add_entry and the calls of log.c return tells what       *)
(* became of the message, whatever other threads do with the target: sent  *)
(* is written once, filtered and refused not at all, and failed is on the  *)
(* console if CONS was set.                                                *)
(***************************************************************************)
THEOREM OutcomesAreTold ==
  Spec => []OutcomeTold
<1>1. PlaceInv /\ HandleInv /\ ToldInv => OutcomeTold
  <2> SUFFICES ASSUME ToldInv, NEW t \in Threads, frame[t].step = "done"
               PROVE  LET n == Cardinality({i \in DOMAIN out : out[i] = Text(t)})
                          c == frame[t].call \in cons
                          r == frame[t].result
                      IN  /\ r = "sent" => n = 1 /\ ~c
                          /\ r \in {"filtered", "refused"} => n = 0 /\ ~c
                          /\ r = "rejected" => ~c
                          /\ r = "failed" => n <= 1 /\ (frame[t].kept => c)
    BY DEF OutcomeTold
  <2>1. Told(frame[t])
    BY DEF ToldInv
  <2>2. PICK m : m = frame[t].call
    OBVIOUS
  <2> DEFINE n == Cardinality({i \in DOMAIN out : out[i] = Text(t)})
  <2>3. (Absent(m) => n = 0) /\ (Once(m) => n = 1)
    BY <2>2, AbsentCount, OnceCount DEF Text
  <2> HIDE DEF n
  <2>4. /\ frame[t].result = "sent" => n = 1 /\ frame[t].call \notin cons
        /\ frame[t].result \in {"filtered", "refused"} => n = 0 /\ frame[t].call \notin cons
        /\ frame[t].result = "rejected" => frame[t].call \notin cons
        /\ frame[t].result = "failed" => (n = 0 \/ n = 1) /\ (frame[t].kept => frame[t].call \in cons)
    BY <2>1, <2>2, <2>3 DEF Told
  <2>5. n = 0 \/ n = 1 => n <= 1
    OBVIOUS
  <2> QED
    BY <2>4, <2>5 DEF n
<1> QED
  BY <1>1, Inductive, PTL

-----------------------------------------------------------------------------
(***************************************************************************)
(* MaskInv is inductive.                                                   *)
(***************************************************************************)

LEMMA MaskInit ==
  Init => MaskInv
<1> SUFFICES ASSUME Init, NEW t \in Threads PROVE Met(frame[t])
  BY DEF MaskInv
<1>1. frame[t].step = "idle"
  BY IdleFrame DEF Init
<1> QED
  BY <1>1 DEF Met, Inside

Sending == {"send", "code", "text", "reset", "cons"}

LEMMA MaskMove ==
  ASSUME PlaceInv, MaskInv, NEW t \in Threads, NEW f \in Frames, Becomes(t, f), Met(f),
         target'.mask = target.mask, target'.filter <=> target.filter
  PROVE  MaskInv'
<1> SUFFICES ASSUME NEW u \in Threads PROVE Met(frame[u])'
  BY DEF MaskInv
<1>1. Met(frame[u])
  BY DEF MaskInv
<1>2. CASE u = t
  BY <1>2 DEF Met, Becomes
<1>3. CASE u # t
  BY <1>1, <1>3 DEF Met, Becomes
<1> QED
  BY <1>2, <1>3

\* A step that leaves the masks alone.
LEMMA MetAlike ==
  ASSUME MaskInv, NEW t \in Threads, NEW f, f.masks = frame[t].masks, f.severity = frame[t].severity,
         f.step \in Inside => frame[t].step \in Inside,
         f.step \in Sending => frame[t].step \in Sending \/ f.severity \in f.masks
  PROVE  Met(f)
<1>1. Met(frame[t])
  BY DEF MaskInv
<1> QED
  BY <1>1 DEF Met, Sending

LEMMA MetOutside ==
  ASSUME NEW f, f.step \in Outside \cup {"name", "length", "trace", "done"}
  PROVE  Met(f)
BY DEF Met, Outside, Inside

LEMMA MetEntered ==
  ASSUME PlaceInv, target \in Targets, NEW f, NEW c, NEW s, NEW o, NEW old, Entered(f, c, s, o, old)
  PROVE  Met(f)
<1>1. /\ f.step \in {"is_open", "filter"}
      /\ f.masks = IF target.filter THEN target.mask ELSE Severities
  BY DEF Entered
<1>2. target.mask \in SUBSET Severities
  BY TargetFields
<1> QED
  BY <1>1, <1>2 DEF Met

LEMMA MaskCalls ==
  ASSUME PlaceInv, MaskInv, NEW t \in Threads,
         \/ stumpless_target_is_open(t) \/ Filter(t) \/ stumpless_mask_filter(t) \/ FormatFails(t)
         \/ Console(t) \/ Done(t)
  PROVE  MaskInv'
<1>1. Met(frame[t]) /\ Placed(t, frame[t])
  BY HasFrame DEF MaskInv
<1>2. CASE stumpless_target_is_open(t)
  <2>1. PICK f \in Frames : Becomes(t, f) /\ Alike(f, frame[t]) /\ f.step \in {"open", "filter"}
    BY <1>2, IsOpenStep
  <2>2. Met(f)
    BY <1>2, <2>1, MetAlike DEF Alike, Inside, Sending, stumpless_target_is_open
  <2> QED
    BY <1>2, <2>1, <2>2, MaskMove DEF stumpless_target_is_open
<1>3. CASE Filter(t)
  <2>1. PICK f \in Frames :
          Becomes(t, f) /\ Alike(f, frame[t]) /\ f.step \in {"mask", "send"} /\ (f.step = "send" => ~target.filter)
    BY <1>3, FilterStep
  <2>2. frame[t].severity \in Severities /\ frame[t].step = "filter"
    BY <1>1, <1>3 DEF Filter, Placed, Outside
  <2>3. f.step = "send" => f.severity \in f.masks
    BY <1>1, <2>1, <2>2 DEF Met, Inside, Alike
  <2>4. Met(f)
    BY <2>1, <2>2, <2>3, MetAlike DEF Alike, Inside, Sending
  <2> QED
    BY <1>3, <2>1, <2>4, MaskMove DEF Filter
<1>4. CASE stumpless_mask_filter(t)
  <2>1. PICK f \in Frames :
           /\ Becomes(t, f) /\ Alike(f, frame[t])
           /\ \/ f.step = "send" /\ frame[t].severity \in target.mask
              \/ f.step = "done"
    BY <1>4, MaskStep
  <2>2. frame[t].step = "mask"
    BY <1>4 DEF stumpless_mask_filter
  <2>3. f.step = "send" => f.severity \in f.masks
    BY <1>1, <2>1, <2>2 DEF Met, Inside, Alike
  <2>4. Met(f)
    BY <2>1, <2>2, <2>3, MetAlike DEF Alike, Inside, Sending
  <2> QED
    BY <1>4, <2>1, <2>4, MaskMove DEF stumpless_mask_filter
<1>5. CASE FormatFails(t)
  <2>1. PICK f \in Frames : Becomes(t, f) /\ f.step = "done"
    BY <1>5, RefusedStep DEF FormatFails
  <2> QED
    BY <1>5, <2>1, MetOutside, MaskMove DEF FormatFails
<1>6. CASE Console(t)
  <2>1. PICK f \in Frames : Becomes(t, f) /\ f.step = "done"
    BY <1>6, ConsoleStep
  <2> QED
    BY <1>6, <2>1, MetOutside, MaskMove DEF Console
<1>7. CASE Done(t)
  <2>1. Becomes(t, Idle) /\ Idle \in Frames /\ Idle.step = "idle"
    BY <1>7, DoneStep, IdleFrame
  <2>2. Met(Idle)
    BY <2>1, MetOutside DEF Outside
  <2> QED
    BY <1>7, <2>1, <2>2, MaskMove DEF Done
<1> QED
  BY <1>2, <1>3, <1>4, <1>5, <1>6, <1>7

LEMMA MaskWrites ==
  ASSUME PlaceInv, MaskInv, NEW t \in Threads,
         \/ send_entry_to_function_target(t) \/ sendto_file_target(t) \/ sendto_socket_target(t)
         \/ sendto_stream_target(t) \/ WriteCode(t) \/ WriteText(t) \/ WriteReset(t) \/ WriteFails(t)
  PROVE  MaskInv'
<1>1. frame[t].step \in Sending /\ frame[t].step \in Inside
  BY DEF send_entry_to_function_target, sendto_file_target, sendto_socket_target, sendto_stream_target,
         WriteCode, WriteText, WriteReset, WriteFails, Sending, Inside
<1>2. target' = target
  BY DEF send_entry_to_function_target, sendto_file_target, sendto_socket_target, sendto_stream_target,
         WriteCode, WriteText, WriteReset, WriteFails
<1>3. \E f \in Frames :
        /\ Becomes(t, f)
        /\ \/ f.step \in {"crashed", "done"}
           \/ f.masks = frame[t].masks /\ f.severity = frame[t].severity
  <2>1. CASE send_entry_to_function_target(t)
    BY <2>1, FunctionStep
  <2>2. CASE sendto_file_target(t)
    BY <2>2, FileStep DEF Alike
  <2>3. CASE sendto_socket_target(t)
    BY <2>3, SocketStep DEF Alike
  <2>4. CASE sendto_stream_target(t)
    BY <2>4, StreamStep
  <2>5. CASE WriteCode(t)
    BY <2>5, WriteCodeStep DEF Alike
  <2>6. CASE WriteText(t)
    BY <2>6, WriteTextStep DEF Alike
  <2>7. CASE WriteReset(t)
    BY <2>7, SentStep DEF Alike, WriteReset
  <2>8. CASE WriteFails(t)
    BY <2>8, ConsStep DEF Alike, WriteFails
  <2> QED
    BY <2>1, <2>2, <2>3, <2>4, <2>5, <2>6, <2>7, <2>8
<1>4. PICK f \in Frames :
        /\ Becomes(t, f)
        /\ \/ f.step \in {"crashed", "done"}
           \/ f.masks = frame[t].masks /\ f.severity = frame[t].severity
  BY <1>3
<1>5. Met(f)
  <2>1. CASE f.step \in {"crashed", "done"}
    BY <2>1, MetOutside DEF Outside
  <2>2. CASE f.masks = frame[t].masks /\ f.severity = frame[t].severity
    BY <1>1, <2>2, MetAlike
  <2> QED
    BY <1>4, <2>1, <2>2
<1> QED
  BY <1>2, <1>4, <1>5, MaskMove

LEMMA MaskOpen ==
  ASSUME PlaceInv, MaskInv, NEW t \in Threads, stumpless_open_target(t)
  PROVE  MaskInv'
<1>1. PICK f \in Frames, h \in Handles \cup {NULL} :
        /\ Becomes(t, f) /\ Alike(f, frame[t])
        /\ target' = [target EXCEPT !.stream = h]
        /\ f.step \in {"filter", "done"}
  BY OpenTargetStep
<1>2. frame[t].step = "open"
  BY DEF stumpless_open_target
<1>3. target \in Targets
  BY <1>2, InCall DEF Outside
<1>4. target'.mask = target.mask /\ (target'.filter <=> target.filter)
  BY <1>1, <1>3 DEF Targets
<1>5. Met(f)
  BY <1>1, <1>2, MetAlike DEF Alike, Inside, Sending
<1> QED
  BY <1>1, <1>4, <1>5, MaskMove

LEMMA MaskEnters ==
  ASSUME PlaceInv, MaskInv, NEW t \in Threads,
         \/ stumpless_add_entry(t) \/ stumpless_add_log(t) \/ vstumpless_trace_log(t)
         \/ CopyName(t) \/ CopyLength(t) \/ stumpless_trace_entry(t) \/ SetTrace(t)
  PROVE  MaskInv'
<1>1. target' = target
  BY DEF stumpless_add_entry, stumpless_add_log, vstumpless_trace_log, CopyName, CopyLength,
         stumpless_trace_entry, SetTrace
<1>2. target \in Targets
  <2>1. CASE stumpless_add_entry(t) \/ stumpless_add_log(t) \/ vstumpless_trace_log(t) \/ stumpless_trace_entry(t)
    BY <2>1, HasTarget DEF stumpless_add_entry, stumpless_add_log, vstumpless_trace_log, stumpless_trace_entry
  <2>2. CASE CopyName(t) \/ CopyLength(t) \/ SetTrace(t)
    BY <2>2, InCall DEF CopyName, CopyLength, SetTrace, Outside
  <2> QED
    BY <2>1, <2>2
<1>3. \E f \in Frames : Becomes(t, f) /\ Met(f)
  <2>1. CASE stumpless_add_entry(t)
    BY <1>2, <2>1, AddEntryStep, MetEntered
  <2>2. ASSUME NEW s \in Severities, NEW k \in Kinds, Call(t), Load(t, s, k)
        PROVE  \E f \in Frames : Becomes(t, f) /\ Met(f)
    <3>1. PICK f \in Frames : Loads(t, f, s, k)
      BY <2>2, LoadStep
    <3>2. Becomes(t, f) /\ f.step \in {"done", "name"}
      BY <3>1 DEF Loads
    <3> QED
      BY <3>2, MetOutside
  <2>3. CASE stumpless_add_log(t) \/ vstumpless_trace_log(t)
    <3>1. "entry" \in Kinds /\ "trace" \in Kinds
      BY DEF Kinds
    <3> QED
      BY <2>2, <2>3, <3>1 DEF stumpless_add_log, vstumpless_trace_log
  <2>4. CASE CopyName(t)
    BY <2>4, CopyNameStep, MetOutside
  <2>5. CASE CopyLength(t)
    <3>1. PICK f \in Frames :
             /\ Becomes(t, f)
             /\ Entered(f, frame[t].call, frame[t].severity, frame[t].own, frame[t]) \/ f.step = "trace"
      BY <2>5, CopyLengthStep
    <3> QED
      BY <1>2, <3>1, MetEntered, MetOutside
  <2>6. CASE stumpless_trace_entry(t)
    <3>1. PICK f \in Frames, s \in Severities : Becomes(t, f) /\ f.step = "trace"
      BY <2>6, TraceEntryStep
    <3> QED
      BY <3>1, MetOutside
  <2>7. CASE SetTrace(t)
    <3>1. PICK f \in Frames :
             /\ Becomes(t, f)
             /\ \/ Entered(f, frame[t].call, frame[t].severity, frame[t].own, frame[t])
                \/ f.step \in {"trace", "done"}
      BY <2>7, SetTraceStep
    <3> QED
      BY <1>2, <3>1, MetEntered, MetOutside
  <2> QED
    BY <2>1, <2>3, <2>4, <2>5, <2>6, <2>7
<1> QED
  BY <1>1, <1>3, MaskMove

LEMMA MaskNew ==
  ASSUME PlaceInv, MaskInv, NEW t \in Threads,
         new_target(t) \/ new_file_target(t) \/ NewFails(t) \/ stumpless_close_target(t)
  PROVE  MaskInv'
<1>1. \E f \in Frames :
        /\ Becomes(t, f) /\ f.step \in Outside
        /\ \A u \in Threads : u # t => frame[u].step = "idle"
  <2>1. CASE new_target(t)
    BY <2>1, NewTargetStep, IdleFrame DEF Outside
  <2>2. CASE new_file_target(t)
    BY <2>2, NewFileStep DEF Outside
  <2>3. CASE NewFails(t)
    BY <2>3, NewFailsStep DEF Outside
  <2>4. CASE stumpless_close_target(t)
    BY <2>4, CloseStep, IdleFrame DEF Outside
  <2> QED
    BY <2>1, <2>2, <2>3, <2>4
<1>2. \A u \in Threads : frame'[u].step \in Outside
  BY <1>1 DEF Becomes, Outside
<1> QED
  BY <1>2 DEF MaskInv, Met, Outside, Inside

LEMMA MaskSet ==
  ASSUME PlaceInv, MaskInv, \A u \in Threads : Meanwhile(frame'[u], frame[u]),
         \/ target'.mask = target.mask
         \/ \A u \in Threads : frame[u].step # "idle" => target'.mask \subseteq frame'[u].masks,
         \/ target.filter => target'.filter
         \/ \A u \in Threads : frame[u].step # "idle" /\ ~target'.filter => frame'[u].masks = Severities,
         frame' \in [Threads -> Frames]
  PROVE  MaskInv'
<1> SUFFICES ASSUME NEW u \in Threads PROVE Met(frame[u])'
  BY DEF MaskInv
<1>1. Met(frame[u])
  BY DEF MaskInv
<1>2. /\ frame'[u].step = frame[u].step /\ frame'[u].severity = frame[u].severity
      /\ frame[u].masks \subseteq frame'[u].masks /\ frame'[u].masks \subseteq Severities
  BY FrameFields DEF Meanwhile
<1>3. frame[u].step \in Inside => frame[u].step # "idle"
  BY DEF Inside
<1>4. frame[u].step \in Inside => target'.mask \subseteq frame'[u].masks
  BY <1>1, <1>2, <1>3 DEF Met
<1>5. frame[u].step \in Inside /\ ~target'.filter => frame'[u].masks = Severities
  BY <1>1, <1>2, <1>3 DEF Met
<1>6. frame[u].step \in {"send", "code", "text", "reset", "cons"} => frame'[u].severity \in frame'[u].masks
  BY <1>1, <1>2 DEF Met
<1> QED
  BY <1>2, <1>4, <1>5, <1>6 DEF Met

LEMMA MaskSetters ==
  ASSUME PlaceInv, MaskInv, NEW t \in Threads,
         \/ stumpless_set_option(t) \/ stumpless_unset_option(t) \/ stumpless_set_target_mask(t)
         \/ stumpless_set_target_filter(t) \/ stumpless_set_target_default_app_name(t)
         \/ stumpless_set_severity_color(t)
  PROVE  MaskInv'
<1>1. CASE stumpless_set_option(t)
  BY <1>1, SetOptionStep, SameFrames, MaskSet
<1>2. CASE stumpless_unset_option(t)
  BY <1>2, UnsetOptionStep, MaskSet
<1>3. CASE stumpless_set_target_mask(t)
  BY <1>3, SetMaskStep, MaskSet
<1>4. CASE stumpless_set_target_filter(t)
  BY <1>4, SetFilterStep, MaskSet
<1>5. CASE stumpless_set_target_default_app_name(t)
  BY <1>5, SetNameStep, SameFrames, MaskSet
<1>6. CASE stumpless_set_severity_color(t)
  BY <1>6, ColorStep, SameFrames, MaskSet
<1> QED
  BY <1>1, <1>2, <1>3, <1>4, <1>5, <1>6

LEMMA MaskSame ==
  ASSUME MaskInv, UNCHANGED << target, frame >>
  PROVE  MaskInv'
BY DEF MaskInv, Met

LEMMA MaskNext ==
  ASSUME PlaceInv, MaskInv, [Next]_vars
  PROVE  MaskInv'
<1>1. CASE UNCHANGED vars
  BY <1>1, MaskSame DEF vars
<1>2. CASE Next
  <2>1. PICK t \in Threads : Step(t)
    BY <1>2, NextStep
  <2>2. CASE stumpless_set_default_options(t) \/ target_free_thread(t)
    BY <2>2, MaskSame DEF stumpless_set_default_options, target_free_thread
  <2> QED
    BY <2>1, <2>2, MaskCalls, MaskWrites, MaskOpen, MaskEnters, MaskNew, MaskSetters DEF Step
<1> QED
  BY <1>1, <1>2

-----------------------------------------------------------------------------
(***************************************************************************)
(* TraceInv is inductive.                                                  *)
(***************************************************************************)

LEMMA TraceInit ==
  Init => TraceInv
<1> SUFFICES ASSUME Init PROVE TraceInv
  OBVIOUS
<1>1. \A t \in Threads : frame[t].step = "idle" /\ frame[t].trace = 0
  BY IdleFrame DEF Init
<1> QED
  BY <1>1 DEF TraceInv, Tracing

\* What TraceInv says of the trace of one call, the params of which are in a.
Following(f, a, mixed) ==
  f.trace # 0 /\ (~mixed \/ f.own # "none") =>
    /\ f.step = "trace" => \A i \in 1..3 : i < f.trace => a[i] = f.call
    /\ f.step \in Inside => \A i \in 1..3 : a[i] = f.call

Single == \A t, u \in Threads : Tracing(t) /\ Tracing(u) => t = u

LEMMA TraceParts ==
  /\ TraceInv <=> /\ "mixed" \notin seen => Single
                  /\ \A t \in Threads : Following(frame[t], trace[Traced(t)], "mixed" \in seen)
                  /\ \A t \in Threads : frame[t].step \in {"name", "length"} => frame[t].trace = 0
  /\ TraceInv' <=> /\ "mixed" \notin seen' => Single'
                   /\ \A t \in Threads : Following(frame'[t], trace'[Traced(t)'], "mixed" \in seen')
                   /\ \A t \in Threads : frame'[t].step \in {"name", "length"} => frame'[t].trace = 0
BY DEF TraceInv, Following, Single

LEMMA TraceMove ==
  ASSUME PlaceInv, TraceInv, NEW t \in Threads, NEW f \in Frames, Becomes(t, f), trace' = trace, seen \subseteq seen',
         f.step \in {"name", "length"} => f.trace = 0,
         \/ f.trace = 0
         \/ /\ f.trace = frame[t].trace /\ f.own = frame[t].own /\ f.call = frame[t].call
            /\ f.step = "trace" => frame[t].step = "trace"
            /\ f.step \in Inside => frame[t].step \in Inside
  PROVE  TraceInv'
<1>1. ASSUME NEW u \in Threads, Tracing(u)' PROVE Tracing(u)
  BY <1>1 DEF Tracing, Becomes
<1>2. "mixed" \notin seen' => Single'
  BY <1>1, TraceParts DEF Single
<1>3. ASSUME NEW u \in Threads PROVE Following(frame'[u], trace'[Traced(u)'], "mixed" \in seen')
  <2>1. Following(frame[u], trace[Traced(u)], "mixed" \in seen)
    BY TraceParts
  <2>2. CASE u # t
    BY <2>1, <2>2 DEF Following, Becomes, Traced
  <2>3. CASE u = t
    BY <2>1, <2>3 DEF Following, Becomes, Traced
  <2> QED
    BY <2>2, <2>3
<1>4. \A u \in Threads : frame'[u].step \in {"name", "length"} => frame'[u].trace = 0
  BY TraceParts DEF Becomes
<1> QED
  BY <1>2, <1>3, <1>4, TraceParts

LEMMA TraceCalls ==
  ASSUME PlaceInv, TraceInv, NEW t \in Threads,
         \/ stumpless_target_is_open(t) \/ Filter(t) \/ stumpless_mask_filter(t) \/ FormatFails(t)
         \/ Console(t) \/ Done(t) \/ send_entry_to_function_target(t) \/ sendto_file_target(t)
         \/ sendto_socket_target(t) \/ sendto_stream_target(t) \/ WriteCode(t) \/ WriteText(t)
         \/ WriteReset(t) \/ WriteFails(t) \/ stumpless_open_target(t)
  PROVE  TraceInv'
<1>1. trace' = trace /\ seen \subseteq seen'
  <2>1. CASE stumpless_open_target(t)
    BY <2>1, OpenTargetStep DEF stumpless_open_target
  <2>2. CASE ~stumpless_open_target(t)
    BY <2>2 DEF stumpless_target_is_open, Filter, stumpless_mask_filter, FormatFails, Console, Done,
         send_entry_to_function_target, sendto_file_target, sendto_socket_target, sendto_stream_target,
         WriteCode, WriteText, WriteReset, WriteFails
  <2> QED
    BY <2>1, <2>2
<1>2. frame[t].step \in Inside \cup {"done"}
  BY DEF stumpless_target_is_open, Filter, stumpless_mask_filter, FormatFails, Console, Done,
         send_entry_to_function_target, sendto_file_target, sendto_socket_target, sendto_stream_target,
         WriteCode, WriteText, WriteReset, WriteFails, stumpless_open_target, Inside
<1>3. \E f \in Frames :
        /\ Becomes(t, f)
        /\ \/ f.trace = 0 /\ f.step \in {"idle", "crashed"}
           \/ /\ f.trace = frame[t].trace /\ f.own = frame[t].own /\ f.call = frame[t].call
              /\ f.step \in Inside \cup {"done"} /\ (f.step \in Inside => frame[t].step \in Inside)
  <2>1. CASE stumpless_target_is_open(t)
    BY <2>1, IsOpenStep DEF Alike, Inside, stumpless_target_is_open
  <2>2. CASE Filter(t)
    BY <2>2, FilterStep DEF Alike, Inside, Filter
  <2>3. CASE stumpless_mask_filter(t)
    BY <2>3, MaskStep DEF Alike, Inside, stumpless_mask_filter
  <2>4. CASE FormatFails(t)
    BY <2>4, RefusedStep DEF Alike, Inside, FormatFails
  <2>5. CASE Console(t)
    BY <2>5, ConsoleStep DEF Alike, Inside
  <2>6. CASE Done(t)
    BY <2>6, DoneStep, IdleFrame
  <2>7. CASE send_entry_to_function_target(t)
    BY <2>7, FunctionStep DEF Alike, Inside
  <2>8. CASE sendto_file_target(t)
    BY <2>8, FileStep DEF Alike, Inside, sendto_file_target
  <2>9. CASE sendto_socket_target(t)
    BY <2>9, SocketStep DEF Alike, Inside, sendto_socket_target
  <2>10. CASE sendto_stream_target(t)
    BY <2>10, StreamStep DEF Inside, sendto_stream_target
  <2>11. CASE WriteCode(t)
    BY <2>11, WriteCodeStep DEF Alike, Inside, WriteCode
  <2>12. CASE WriteText(t)
    BY <2>12, WriteTextStep DEF Alike, Inside, WriteText
  <2>13. CASE WriteReset(t)
    BY <2>13, SentStep DEF Alike, Inside, WriteReset
  <2>14. CASE WriteFails(t)
    BY <2>14, ConsStep DEF Alike, Inside, WriteFails
  <2>15. CASE stumpless_open_target(t)
    <3>1. PICK f \in Frames : Becomes(t, f) /\ Alike(f, frame[t]) /\ f.step \in {"filter", "done"}
      BY <2>15, OpenTargetStep
    <3> QED
      BY <2>15, <3>1 DEF Alike, Inside, stumpless_open_target
  <2> QED
    BY <2>1, <2>2, <2>3, <2>4, <2>5, <2>6, <2>7, <2>8, <2>9, <2>10, <2>11, <2>12, <2>13, <2>14, <2>15
<1>4. PICK f \in Frames :
        /\ Becomes(t, f)
        /\ \/ f.trace = 0 /\ f.step \in {"idle", "crashed"}
           \/ /\ f.trace = frame[t].trace /\ f.own = frame[t].own /\ f.call = frame[t].call
              /\ f.step \in Inside \cup {"done"} /\ (f.step \in Inside => frame[t].step \in Inside)
  BY <1>3
<1>5. f.step \notin {"name", "length", "trace"}
  BY <1>4 DEF Inside
<1> QED
  BY <1>1, <1>4, <1>5, TraceMove

LEMMA TraceEnters ==
  ASSUME PlaceInv, TraceInv, NEW t \in Threads,
         \/ stumpless_add_entry(t) \/ stumpless_add_log(t) \/ vstumpless_trace_log(t) \/ CopyName(t)
  PROVE  TraceInv'
<1>1. trace' = trace /\ seen \subseteq seen'
  BY DEF stumpless_add_entry, stumpless_add_log, vstumpless_trace_log, CopyName
<1>2. \E f \in Frames : Becomes(t, f) /\ f.trace = 0
  <2>1. CASE stumpless_add_entry(t)
    <3>1. frame[t].trace = 0
      BY <2>1, IdleCall DEF stumpless_add_entry
    <3> QED
      BY <2>1, <3>1, AddEntryStep DEF Entered
  <2>2. ASSUME NEW s \in Severities, NEW k \in Kinds, Call(t), Load(t, s, k)
        PROVE  \E f \in Frames : Becomes(t, f) /\ f.trace = 0
    <3>1. PICK f \in Frames : Loads(t, f, s, k)
      BY <2>2, LoadStep
    <3> QED
      BY <3>1 DEF Loads
  <2>3. CASE stumpless_add_log(t) \/ vstumpless_trace_log(t)
    <3>1. "entry" \in Kinds /\ "trace" \in Kinds
      BY DEF Kinds
    <3> QED
      BY <2>2, <2>3, <3>1 DEF stumpless_add_log, vstumpless_trace_log
  <2>4. CASE CopyName(t)
    <3>1. frame[t].trace = 0
      BY <2>4, TraceParts DEF CopyName
    <3> QED
      BY <2>4, <3>1, CopyNameStep DEF Alike
  <2> QED
    BY <2>1, <2>3, <2>4
<1> QED
  BY <1>1, <1>2, TraceMove

\* A thread starts to trace, with no param set yet.
LEMMA TraceStarts ==
  ASSUME PlaceInv, TraceInv, NEW t \in Threads, NEW f \in Frames, Becomes(t, f), trace' = trace, seen \subseteq seen',
         f.step = "trace", f.trace = 1, ~Tracing(t),
         \/ f.own # "none"
         \/ "mixed" \in seen'
         \/ \A u \in Threads : ~Tracing(u)
  PROVE  TraceInv'
<1>1. ASSUME NEW u \in Threads, u # t PROVE Tracing(u)' <=> Tracing(u)
  BY <1>1 DEF Tracing, Becomes
<1>2. f.own # "none" => ~Tracing(t)'
  BY DEF Tracing, Becomes
<1>3. "mixed" \notin seen' => Single'
  <2> SUFFICES ASSUME "mixed" \notin seen', NEW u \in Threads, NEW v \in Threads, Tracing(u)', Tracing(v)', u # v
               PROVE  FALSE
    BY DEF Single
  <2>1. Single
    BY TraceParts
  <2>2. CASE f.own # "none"
    BY <1>1, <1>2, <2>1, <2>2 DEF Single
  <2>3. CASE \A w \in Threads : ~Tracing(w)
    BY <1>1, <2>3
  <2> QED
    BY <2>2, <2>3
<1>4. ASSUME NEW u \in Threads PROVE Following(frame'[u], trace'[Traced(u)'], "mixed" \in seen')
  <2>1. Following(frame[u], trace[Traced(u)], "mixed" \in seen)
    BY TraceParts
  <2>2. CASE u # t
    BY <2>1, <2>2 DEF Following, Becomes, Traced
  <2>3. CASE u = t
    <3>1. frame'[u] = f
      BY <2>3 DEF Becomes
    <3>2. \A i \in 1..3 : ~(i < f.trace)
      OBVIOUS
    <3> QED
      BY <3>1, <3>2 DEF Following, Inside
  <2> QED
    BY <2>2, <2>3
<1>5. \A u \in Threads : frame'[u].step \in {"name", "length"} => frame'[u].trace = 0
  BY TraceParts DEF Becomes
<1> QED
  BY <1>3, <1>4, <1>5, TraceParts

LEMMA TraceEntered ==
  ASSUME PlaceInv, TraceInv, NEW t \in Threads, stumpless_trace_entry(t)
  PROVE  TraceInv'
<1>1. PICK f \in Frames, s \in Severities : Becomes(t, f) /\ f.step = "trace" /\ f.trace = 1
  BY TraceEntryStep
<1>2. ~Tracing(t)
  BY IdleCall DEF stumpless_trace_entry, Tracing
<1>3. "mixed" \in seen' \/ \A u \in Threads : ~Tracing(u)
  BY DEF stumpless_trace_entry, Tracing
<1>4. trace' = trace /\ seen \subseteq seen'
  BY DEF stumpless_trace_entry
<1> QED
  BY <1>1, <1>2, <1>3, <1>4, TraceStarts

LEMMA TraceCopied ==
  ASSUME PlaceInv, TraceInv, NEW t \in Threads, CopyLength(t)
  PROVE  TraceInv'
<1>1. frame[t].trace = 0 /\ frame[t].own # "none" /\ trace' = trace /\ seen' = seen
  <2>1. frame[t].own \in Kinds
    BY OwnEntry DEF CopyLength
  <2> QED
    BY <2>1, TraceParts DEF CopyLength, Kinds
<1>2. PICK f \in Frames :
        /\ Becomes(t, f)
        /\ \/ Entered(f, frame[t].call, frame[t].severity, frame[t].own, frame[t])
           \/ f.step = "trace" /\ f.trace = 1 /\ f.own = frame[t].own
  BY CopyLengthStep
<1>3. CASE Entered(f, frame[t].call, frame[t].severity, frame[t].own, frame[t])
  <2>1. f.trace = 0
    BY <1>1, <1>3 DEF Entered
  <2> QED
    BY <1>1, <1>2, <2>1, TraceMove
<1>4. CASE f.step = "trace" /\ f.trace = 1 /\ f.own = frame[t].own
  <2>1. ~Tracing(t) /\ f.own # "none"
    BY <1>1, <1>4 DEF Tracing
  <2> QED
    BY <1>1, <1>2, <1>4, <2>1, TraceStarts
<1> QED
  BY <1>2, <1>3, <1>4

\* One param is set, or it fails.
LEMMA TraceParam ==
  ASSUME PlaceInv, TraceInv, NEW t \in Threads, SetTrace(t)
  PROVE  TraceInv'
<1>1. frame[t].step = "trace" /\ seen' = seen
  BY DEF SetTrace
<1>2. frame[t].trace # 0 /\ frame[t].trace \in 0..3 /\ frame[t] \in Frames
  BY <1>1, HasFrame, FrameFields DEF Placed
<1>3. PICK f \in Frames :
           /\ Becomes(t, f)
           /\ \/ /\ Alike(f, frame[t]) /\ f.step = "done" /\ f.result = "refused" /\ trace' = trace
              \/ /\ trace' = [trace EXCEPT ![Traced(t)][frame[t].trace] = frame[t].call]
                 /\ frame[t].trace < 3
                 /\ f.step = "trace" /\ f.trace = frame[t].trace + 1
                 /\ f.call = frame[t].call /\ f.severity = frame[t].severity /\ f.own = frame[t].own
                 /\ f.code = frame[t].code /\ f.kept = frame[t].kept
              \/ /\ trace' = [trace EXCEPT ![Traced(t)][frame[t].trace] = frame[t].call]
                 /\ frame[t].trace = 3
                 /\ Entered(f, frame[t].call, frame[t].severity, frame[t].own, frame[t])
  BY SetTraceStep
<1>4. CASE Alike(f, frame[t]) /\ f.step = "done" /\ trace' = trace
  <2>1. f.trace = frame[t].trace /\ f.own = frame[t].own /\ f.call = frame[t].call /\ f.step \notin Inside
    BY <1>4 DEF Alike, Inside
  <2> QED
    BY <1>1, <1>3, <1>4, <2>1, TraceMove
<1>5. CASE /\ trace' = [trace EXCEPT ![Traced(t)][frame[t].trace] = frame[t].call]
           /\ f.own = frame[t].own /\ f.call = frame[t].call
           /\ \/ f.step = "trace" /\ f.trace = frame[t].trace + 1
              \/ f.step \in {"is_open", "filter"} /\ f.trace = 3 /\ frame[t].trace = 3
  <2>1. /\ \A k \in Threads \cup {"shared"} : k # Traced(t) => trace'[k] = trace[k]
        /\ \A i \in 1..3 : trace'[Traced(t)][i] = IF i = frame[t].trace THEN frame[t].call ELSE trace[Traced(t)][i]
    BY <1>1, <1>5, TraceSet
  <2>2. ASSUME NEW u \in Threads PROVE Tracing(u)' => Tracing(u)
    BY <1>2, <1>3, <1>5 DEF Tracing, Becomes
  <2>3. "mixed" \notin seen' => Single'
    BY <1>1, <2>2, TraceParts DEF Single
  <2>4. ASSUME NEW u \in Threads PROVE Following(frame'[u], trace'[Traced(u)'], "mixed" \in seen')
    <3>1. Following(frame[u], trace[Traced(u)], "mixed" \in seen)
      BY TraceParts
    <3>2. CASE u # t
      <4>1. frame'[u] = frame[u] /\ Traced(u)' = Traced(u) /\ Traced(u) \in Threads \cup {"shared"}
        BY <1>3, <3>2 DEF Becomes, Traced
      <4>2. CASE Traced(u) # Traced(t)
        BY <1>1, <2>1, <3>1, <4>1, <4>2
      <4>3. CASE Traced(u) = Traced(t)
        <5>1. frame[u].own = "none" /\ frame[t].own = "none"
          BY <3>2, <4>3, DeliveryAssumption DEF Traced
        <5>2. frame[u].trace = 0 \/ "mixed" \in seen
          BY <1>2, <3>2, <5>1, TraceParts DEF Single, Tracing
        <5> QED
          BY <1>1, <4>1, <5>1, <5>2 DEF Following
      <4> QED
        BY <4>2, <4>3
    <3>3. CASE u = t
      <4>1. frame'[u] = f /\ Traced(u)' = Traced(t)
        BY <1>3, <1>5, <3>3 DEF Becomes, Traced
      <4>2. SUFFICES ASSUME "mixed" \notin seen \/ frame[t].own # "none"
                     PROVE  /\ f.step = "trace" => \A i \in 1..3 : i < f.trace => trace'[Traced(t)][i] = f.call
                            /\ f.step \in Inside => \A i \in 1..3 : trace'[Traced(t)][i] = f.call
        BY <1>1, <1>5, <4>1 DEF Following
      <4>3. \A i \in 1..3 : i < frame[t].trace => trace[Traced(t)][i] = frame[t].call
        BY <1>1, <1>2, <3>1, <3>3, <4>2 DEF Following
      <4>4. PICK n \in 0..3 : n = frame[t].trace
        BY <1>2
      <4>5. \A i \in 1..3 : i <= n => trace'[Traced(t)][i] = frame[t].call
        BY <2>1, <4>3, <4>4
      <4>6. CASE f.step = "trace" /\ f.trace = frame[t].trace + 1
        <5>1. \A i \in 1..3 : i < n + 1 => i <= n
          OBVIOUS
        <5> QED
          BY <1>5, <4>4, <4>5, <4>6, <5>1 DEF Inside
      <4>7. CASE f.step \in {"is_open", "filter"} /\ frame[t].trace = 3
        <5>1. \A i \in 1..3 : i <= n
          BY <4>4, <4>7
        <5> QED
          BY <1>5, <4>5, <4>7, <5>1
      <4> QED
        BY <1>5, <4>6, <4>7
    <3> QED
      BY <3>2, <3>3
  <2>5. \A u \in Threads : frame'[u].step \in {"name", "length"} => frame'[u].trace = 0
    BY <1>3, <1>5, TraceParts DEF Becomes
  <2> QED
    BY <2>3, <2>4, <2>5, TraceParts
<1> QED
  BY <1>3, <1>4, <1>5 DEF Entered

LEMMA TraceNew ==
  ASSUME PlaceInv, TraceInv, NEW t \in Threads,
         new_target(t) \/ new_file_target(t) \/ NewFails(t) \/ stumpless_close_target(t)
  PROVE  TraceInv'
<1>1. trace' = trace /\ ("mixed" \in seen => "mixed" \in seen')
  BY DEF new_target, new_file_target, NewFails, stumpless_close_target
<1>2. \E f \in Frames :
        /\ Becomes(t, f) /\ f.step \in Outside
        /\ \/ f.trace = 0
           \/ f.trace = frame[t].trace /\ f.own = frame[t].own
  <2>1. CASE new_target(t)
    BY <2>1, NewTargetStep, IdleFrame DEF Outside, Alike
  <2>2. CASE new_file_target(t)
    BY <2>2, NewFileStep DEF Outside, Alike
  <2>3. CASE NewFails(t)
    BY <2>3, NewFailsStep DEF Outside, Alike
  <2>4. CASE stumpless_close_target(t)
    BY <2>4, CloseStep, IdleFrame DEF Outside
  <2> QED
    BY <2>1, <2>2, <2>3, <2>4
<1>3. PICK f \in Frames :
        /\ Becomes(t, f) /\ f.step \in Outside
        /\ \/ f.trace = 0
           \/ f.trace = frame[t].trace /\ f.own = frame[t].own
  BY <1>2
<1>4. "mixed" \notin seen' => Single'
  BY <1>1, <1>3, TraceParts DEF Single, Tracing, Becomes
<1>5. ASSUME NEW u \in Threads PROVE Following(frame'[u], trace'[Traced(u)'], "mixed" \in seen')
  <2>1. Following(frame[u], trace[Traced(u)], "mixed" \in seen)
    BY TraceParts
  <2>2. CASE u = t
    BY <1>3, <2>2 DEF Following, Becomes, Outside, Inside
  <2>3. CASE u # t
    BY <1>1, <1>3, <2>1, <2>3 DEF Following, Becomes, Traced
  <2> QED
    BY <2>2, <2>3
<1>6. \A u \in Threads : frame'[u].step \in {"name", "length"} => frame'[u].trace = 0
  BY <1>3, TraceParts DEF Becomes, Outside
<1> QED
  BY <1>4, <1>5, <1>6, TraceParts

LEMMA TraceSetters ==
  ASSUME PlaceInv, TraceInv, NEW t \in Threads,
         \/ stumpless_set_option(t) \/ stumpless_unset_option(t) \/ stumpless_set_target_mask(t)
         \/ stumpless_set_target_filter(t) \/ stumpless_set_target_default_app_name(t)
         \/ stumpless_set_severity_color(t) \/ stumpless_set_default_options(t) \/ target_free_thread(t)
  PROVE  TraceInv'
<1>1. trace' = trace /\ seen \subseteq seen'
  BY DEF stumpless_set_option, stumpless_unset_option, stumpless_set_target_mask, stumpless_set_target_filter,
         stumpless_set_target_default_app_name, stumpless_set_severity_color, stumpless_set_default_options,
         target_free_thread, SetTarget
<1>2. \A u \in Threads : Meanwhile(frame'[u], frame[u])
  <2>1. CASE stumpless_unset_option(t)
    BY <2>1, UnsetOptionStep
  <2>2. CASE stumpless_set_target_mask(t)
    BY <2>2, SetMaskStep
  <2>3. CASE stumpless_set_target_filter(t)
    BY <2>3, SetFilterStep
  <2>4. CASE frame' = frame
    BY <2>4, SameFrames
  <2> QED
    BY <2>1, <2>2, <2>3, <2>4 DEF stumpless_set_option, stumpless_set_target_default_app_name,
       stumpless_set_severity_color, stumpless_set_default_options, target_free_thread
<1>3. "mixed" \notin seen' => Single'
  BY <1>1, <1>2, TraceParts DEF Single, Tracing, Meanwhile
<1>4. ASSUME NEW u \in Threads PROVE Following(frame'[u], trace'[Traced(u)'], "mixed" \in seen')
  <2>1. Following(frame[u], trace[Traced(u)], "mixed" \in seen)
    BY TraceParts
  <2> QED
    BY <1>1, <1>2, <2>1 DEF Following, Meanwhile, Traced
<1>5. \A u \in Threads : frame'[u].step \in {"name", "length"} => frame'[u].trace = 0
  BY <1>2, TraceParts DEF Meanwhile
<1> QED
  BY <1>3, <1>4, <1>5, TraceParts

LEMMA TraceNext ==
  ASSUME PlaceInv, TraceInv, [Next]_vars
  PROVE  TraceInv'
<1>1. CASE UNCHANGED vars
  <2>1. frame' = frame /\ trace' = trace /\ seen' = seen
    BY <1>1 DEF vars
  <2> QED
    BY <2>1 DEF TraceInv, Tracing, Traced
<1>2. CASE Next
  <2>1. PICK t \in Threads : Step(t)
    BY <1>2, NextStep
  <2> QED
    BY <2>1, TraceCalls, TraceEnters, TraceEntered, TraceCopied, TraceParam, TraceNew, TraceSetters DEF Step
<1> QED
  BY <1>1, <1>2

-----------------------------------------------------------------------------
(***************************************************************************)
(* NameInv is inductive.                                                   *)
(***************************************************************************)

\* What NameInv says of the entry e of kind k of a thread in frame f, while
\* the name of the target has length l.
Good(f, k, e, l, renamed, shrunk) ==
  LET length == IF f.step = "length" /\ f.own = k THEN l ELSE e.length
  IN  /\ ~renamed /\ f.own = k /\ f.step # "name" => IsName(e.name, length)
      /\ ~renamed /\ ~shrunk /\ e # NULL => Ended(e.name, length)

LEMMA NameParts ==
  /\ NameInv <=> /\ target # NULL => IsName(target.name, target.length)
                 /\ \A t \in Threads, k \in Kinds :
                      Good(frame[t], k, cached[t][k], target.length, "renamed" \in seen, "shrunk" \in seen)
  /\ NameInv' <=> /\ target' # NULL => IsName(target'.name, target'.length)
                  /\ \A t \in Threads, k \in Kinds :
                       Good(frame'[t], k, cached'[t][k], target'.length, "renamed" \in seen', "shrunk" \in seen')
BY DEF NameInv, Good, LengthOf

LEMMA NameInit ==
  Init => NameInv
<1> SUFFICES ASSUME Init PROVE NameInv
  OBVIOUS
<1>1. ASSUME NEW t \in Threads, NEW k \in Kinds
      PROVE  Good(frame[t], k, cached[t][k], target.length, "renamed" \in seen, "shrunk" \in seen)
  <2>1. frame[t].own = "none" /\ cached[t][k] = NULL /\ k # "none"
    BY IdleFrame DEF Init, Kinds
  <2> QED
    BY <2>1 DEF Good
<1>2. target = NULL
  BY DEF Init
<1> QED
  BY <1>1, <1>2, NameParts

\* What was seen of the names is not forgotten.
Remembered ==
  ("renamed" \in seen => "renamed" \in seen') /\ ("shrunk" \in seen => "shrunk" \in seen')

\* A frame that does not go on to copy the name, or stays where it does.
LEMMA GoodMove ==
  ASSUME NEW k \in Kinds, NEW f, NEW g, NEW e, NEW l, NEW m, Remembered,
         Good(g, k, e, l, "renamed" \in seen, "shrunk" \in seen),
         \/ f.step = g.step /\ f.own = g.own /\ (g.step = "length" /\ g.own = k => m = l)
         \/ /\ g.step \notin {"name", "length"} /\ f.step # "length"
            /\ f.own = "none" \/ f.own = g.own
  PROVE  Good(f, k, e, m, "renamed" \in seen', "shrunk" \in seen')
<1>1. k # "none"
  BY DEF Kinds
<1> QED
  BY <1>1 DEF Good, Remembered

LEMMA NameMove ==
  ASSUME PlaceInv, NameInv, NEW t \in Threads, NEW f \in Frames, Becomes(t, f), cached' = cached, Remembered,
         target' # NULL => target'.name = target.name /\ target'.length = target.length /\ target # NULL,
         \A u \in Threads : frame[u].step = "length" => target' # NULL,
         frame[t].step \notin {"name", "length"}, f.step # "length",
         f.own = "none" \/ f.own = frame[t].own
  PROVE  NameInv'
<1>1. target' # NULL => IsName(target'.name, target'.length)
  BY NameParts
<1>2. ASSUME NEW u \in Threads, NEW k \in Kinds
      PROVE  Good(frame'[u], k, cached'[u][k], target'.length, "renamed" \in seen', "shrunk" \in seen')
  <2>1. Good(frame[u], k, cached[u][k], target.length, "renamed" \in seen, "shrunk" \in seen)
    BY NameParts
  <2>2. PICK g, h, e, l, m :
          g = frame[u] /\ h = frame'[u] /\ e = cached[u][k] /\ l = target.length /\ m = target'.length
    OBVIOUS
  <2>3. CASE u = t
    <3>1. h = f
      BY <2>2, <2>3 DEF Becomes
    <3> QED
      BY <2>1, <2>2, <2>3, <3>1, GoodMove
  <2>4. CASE u # t
    <3>1. h = g /\ (g.step = "length" => m = l)
      BY <2>2, <2>4 DEF Becomes
    <3> QED
      BY <2>1, <2>2, <3>1, GoodMove
  <2> QED
    BY <2>3, <2>4
<1> QED
  BY <1>1, <1>2, NameParts

LEMMA NameCalls ==
  ASSUME PlaceInv, NameInv, NEW t \in Threads,
         \/ stumpless_target_is_open(t) \/ Filter(t) \/ stumpless_mask_filter(t) \/ FormatFails(t)
         \/ Console(t) \/ Done(t) \/ send_entry_to_function_target(t) \/ sendto_file_target(t)
         \/ sendto_socket_target(t) \/ sendto_stream_target(t) \/ WriteCode(t) \/ WriteText(t)
         \/ WriteReset(t) \/ WriteFails(t) \/ stumpless_add_entry(t) \/ stumpless_trace_entry(t) \/ SetTrace(t)
  PROVE  NameInv'
<1>1. target' = target /\ cached' = cached /\ seen \subseteq seen'
  BY DEF stumpless_target_is_open, Filter, stumpless_mask_filter, FormatFails, Console, Done,
         send_entry_to_function_target, sendto_file_target, sendto_socket_target, sendto_stream_target,
         WriteCode, WriteText, WriteReset, WriteFails, stumpless_add_entry, stumpless_trace_entry, SetTrace
<1>2. frame[t].step \notin {"name", "length"}
  <2>1. CASE stumpless_add_entry(t) \/ stumpless_trace_entry(t)
    BY <2>1, IdleCall DEF stumpless_add_entry, stumpless_trace_entry
  <2>2. CASE ~(stumpless_add_entry(t) \/ stumpless_trace_entry(t))
    BY <2>2 DEF stumpless_target_is_open, Filter, stumpless_mask_filter, FormatFails, Console, Done,
         send_entry_to_function_target, sendto_file_target, sendto_socket_target, sendto_stream_target,
         WriteCode, WriteText, WriteReset, WriteFails, SetTrace
  <2> QED
    BY <2>1, <2>2
<1>3. \E f \in Frames : Becomes(t, f) /\ f.step # "length" /\ (f.own = "none" \/ f.own = frame[t].own)
  <2>1. CASE stumpless_target_is_open(t)
    BY <2>1, IsOpenStep DEF Alike
  <2>2. CASE Filter(t)
    BY <2>2, FilterStep DEF Alike
  <2>3. CASE stumpless_mask_filter(t)
    BY <2>3, MaskStep DEF Alike
  <2>4. CASE FormatFails(t)
    BY <2>4, RefusedStep DEF Alike, FormatFails
  <2>5. CASE Console(t)
    BY <2>5, ConsoleStep DEF Alike
  <2>6. CASE Done(t)
    BY <2>6, DoneStep, IdleFrame
  <2>7. CASE send_entry_to_function_target(t)
    BY <2>7, FunctionStep DEF Alike
  <2>8. CASE sendto_file_target(t)
    BY <2>8, FileStep DEF Alike
  <2>9. CASE sendto_socket_target(t)
    BY <2>9, SocketStep DEF Alike
  <2>10. CASE sendto_stream_target(t)
    BY <2>10, StreamStep
  <2>11. CASE WriteCode(t)
    BY <2>11, WriteCodeStep DEF Alike
  <2>12. CASE WriteText(t)
    BY <2>12, WriteTextStep DEF Alike
  <2>13. CASE WriteReset(t)
    BY <2>13, SentStep DEF Alike, WriteReset
  <2>14. CASE WriteFails(t)
    BY <2>14, ConsStep DEF Alike, WriteFails
  <2>15. CASE stumpless_add_entry(t)
    BY <2>15, AddEntryStep DEF Entered
  <2>16. CASE stumpless_trace_entry(t)
    <3>1. PICK f \in Frames, s \in Severities : Becomes(t, f) /\ f.step = "trace" /\ f.own = frame[t].own
      BY <2>16, TraceEntryStep
    <3> QED
      BY <3>1
  <2>17. CASE SetTrace(t)
    <3>1. PICK f \in Frames :
             /\ Becomes(t, f)
             /\ \/ Alike(f, frame[t]) /\ f.step = "done"
                \/ f.step = "trace" /\ f.own = frame[t].own
                \/ Entered(f, frame[t].call, frame[t].severity, frame[t].own, frame[t])
      BY <2>17, SetTraceStep
    <3> QED
      BY <3>1 DEF Alike, Entered
  <2> QED
    BY <2>1, <2>2, <2>3, <2>4, <2>5, <2>6, <2>7, <2>8, <2>9, <2>10, <2>11, <2>12, <2>13, <2>14, <2>15, <2>16, <2>17
<1>4. Remembered
  BY <1>1 DEF Remembered
<1>5. \A u \in Threads : frame[u].step = "length" => target # NULL
  BY HasFrame DEF Placed
<1> QED
  BY <1>1, <1>2, <1>3, <1>4, <1>5, NameMove

LEMMA NameTargets ==
  ASSUME PlaceInv, NameInv, NEW t \in Threads,
         new_file_target(t) \/ NewFails(t) \/ stumpless_close_target(t) \/ stumpless_open_target(t)
  PROVE  NameInv'
<1>1. CASE stumpless_open_target(t)
  <2>1. PICK f \in Frames, h \in Handles \cup {NULL} :
          /\ Becomes(t, f) /\ Alike(f, frame[t])
          /\ target' = [target EXCEPT !.stream = h]
          /\ seen \subseteq seen'
          /\ f.step \in {"filter", "done"}
    BY <1>1, OpenTargetStep
  <2>2. target \in Targets
    BY <1>1, InCall DEF Outside, stumpless_open_target
  <2>3. target'.name = target.name /\ target'.length = target.length /\ target' \in Targets
    BY <2>1, <2>2 DEF Targets
  <2>4. target # NULL /\ target' # NULL
    BY <2>2, <2>3, NullApart
  <2>5. Remembered /\ f.own = frame[t].own /\ cached' = cached /\ frame[t].step = "open"
    BY <1>1, <2>1 DEF Remembered, Alike, stumpless_open_target
  <2> QED
    BY <2>1, <2>3, <2>4, <2>5, NameMove
<1>2. CASE new_file_target(t)
  <2>1. /\ target \in Targets /\ target' \in Targets /\ target'.name = target.name
        /\ target'.length = target.length
        /\ \E f \in Frames : Becomes(t, f) /\ Alike(f, frame[t]) /\ f.step = "idle"
    BY <1>2, NewFileStep
  <2>2. target # NULL /\ target' # NULL
    BY <2>1, NullApart
  <2>3. Remembered /\ cached' = cached /\ frame[t].step = "new"
    BY <1>2 DEF Remembered, new_file_target
  <2> QED
    BY <2>1, <2>2, <2>3, NameMove DEF Alike
<1>3. CASE NewFails(t)
  <2>1. /\ target' = NULL /\ \A u \in Threads : u # t => frame[u].step = "idle"
        /\ \E f \in Frames : Becomes(t, f) /\ Alike(f, frame[t]) /\ f.step = "idle"
    BY <1>3, NewFailsStep
  <2>2. Remembered /\ cached' = cached /\ frame[t].step = "new"
    BY <1>3 DEF Remembered, NewFails
  <2>3. \A u \in Threads : frame[u].step # "length"
    BY <2>1, <2>2
  <2> QED
    BY <2>1, <2>2, <2>3, NameMove DEF Alike
<1>4. CASE stumpless_close_target(t)
  <2>1. PICK f \in Frames :
          /\ Becomes(t, f) /\ f.own = "none" /\ f.step \in {"crashed", "idle"}
          /\ target' = target \/ target' = NULL
    BY <1>4, CloseStep
  <2>2. \A u \in Threads : frame[u].step = "idle"
    BY <1>4, CloseStep, IdleFrame
  <2>3. Remembered /\ cached' = cached /\ target # NULL
    BY <1>4 DEF Remembered, stumpless_close_target
  <2> QED
    BY <2>1, <2>2, <2>3, NameMove
<1> QED
  BY <1>1, <1>2, <1>3, <1>4

LEMMA NameNewTarget ==
  ASSUME PlaceInv, NameInv, NEW t \in Threads, new_target(t)
  PROVE  NameInv'
<1>1. /\ target'.name = << 45, 0 >> /\ target'.length = 1
      /\ \A u \in Threads : frame[u] = Idle
  BY NewTargetStep
<1>2. PICK f \in Frames : Becomes(t, f) /\ Alike(f, Idle) /\ f.step = "new"
  BY NewTargetStep
<1>3. IsName(target'.name, target'.length)
  <2>1. NIL \in Names \cup {NIL} /\ Len(NIL) = 1 /\ \A i \in 1..1 : << 45, 0 >>[i] = NIL[i]
    BY DEF NIL
  <2> QED
    BY <1>1, <2>1 DEF IsName
<1>4. Remembered /\ cached' = cached
  BY DEF new_target, Remembered
<1>5. ASSUME NEW u \in Threads, NEW k \in Kinds
      PROVE  Good(frame'[u], k, cached'[u][k], target'.length, "renamed" \in seen', "shrunk" \in seen')
  <2>1. Good(frame[u], k, cached[u][k], target.length, "renamed" \in seen, "shrunk" \in seen)
    BY NameParts
  <2>2. PICK g, h, e, l, m :
          g = frame[u] /\ h = frame'[u] /\ e = cached[u][k] /\ l = target.length /\ m = target'.length
    OBVIOUS
  <2>3. g.step = "idle" /\ g.own = "none" /\ h.own = "none" /\ h.step # "length"
    BY <1>1, <1>2, <2>2, IdleFrame DEF Becomes, Alike
  <2> QED
    BY <1>4, <2>1, <2>2, <2>3, GoodMove
<1> QED
  BY <1>3, <1>5, NameParts

\* A setter that leaves the name alone, and other calls where they are.
LEMMA NameSet ==
  ASSUME PlaceInv, NameInv, \A u \in Threads : Meanwhile(frame'[u], frame[u]), cached' = cached, Remembered,
         target # NULL, target'.name = target.name, target'.length = target.length
  PROVE  NameInv'
<1>1. target' # NULL => IsName(target'.name, target'.length)
  BY NameParts
<1>2. ASSUME NEW u \in Threads, NEW k \in Kinds
      PROVE  Good(frame'[u], k, cached'[u][k], target'.length, "renamed" \in seen', "shrunk" \in seen')
  <2>1. Good(frame[u], k, cached[u][k], target.length, "renamed" \in seen, "shrunk" \in seen)
    BY NameParts
  <2>2. PICK g, h, e, l :
          g = frame[u] /\ h = frame'[u] /\ e = cached[u][k] /\ l = target.length
    OBVIOUS
  <2>3. h.step = g.step /\ h.own = g.own
    BY <2>2 DEF Meanwhile
  <2> QED
    BY <2>1, <2>2, <2>3, GoodMove
<1> QED
  BY <1>1, <1>2, NameParts

LEMMA NameSetters ==
  ASSUME PlaceInv, NameInv, NEW t \in Threads,
         \/ stumpless_set_option(t) \/ stumpless_unset_option(t) \/ stumpless_set_target_mask(t)
         \/ stumpless_set_target_filter(t) \/ stumpless_set_severity_color(t)
  PROVE  NameInv'
<1>1. Remembered /\ cached' = cached
  BY DEF stumpless_set_option, stumpless_unset_option, stumpless_set_target_mask, stumpless_set_target_filter,
         stumpless_set_severity_color, SetTarget, Remembered
<1>2. /\ \A u \in Threads : Meanwhile(frame'[u], frame[u])
      /\ target \in Targets /\ target'.name = target.name /\ target'.length = target.length
  <2>1. CASE stumpless_set_option(t)
    BY <2>1, SetOptionStep, SameFrames
  <2>2. CASE stumpless_unset_option(t)
    BY <2>2, UnsetOptionStep
  <2>3. CASE stumpless_set_target_mask(t)
    BY <2>3, SetMaskStep
  <2>4. CASE stumpless_set_target_filter(t)
    BY <2>4, SetFilterStep
  <2>5. CASE stumpless_set_severity_color(t)
    BY <2>5, ColorStep, SameFrames
  <2> QED
    BY <2>1, <2>2, <2>3, <2>4, <2>5
<1> QED
  BY <1>1, <1>2, NullApart, NameSet

LEMMA NameRenamed ==
  ASSUME PlaceInv, NameInv, NEW t \in Threads, stumpless_set_target_default_app_name(t)
  PROVE  NameInv'
<1>1. /\ \E n \in Names : target'.length = Len(n) /\ \A i \in 1..Len(n) : target'.name[i] = n[i]
      /\ frame' = frame /\ seen \subseteq seen'
      /\ (\E u \in Threads : frame[u].step = "length") => "renamed" \in seen'
  BY SetNameStep
<1>2. IsName(target'.name, target'.length)
  BY <1>1 DEF IsName
<1>3. Remembered /\ cached' = cached
  BY <1>1 DEF stumpless_set_target_default_app_name, SetTarget, Remembered
<1>4. ASSUME NEW u \in Threads, NEW k \in Kinds
      PROVE  Good(frame'[u], k, cached'[u][k], target'.length, "renamed" \in seen', "shrunk" \in seen')
  <2>1. Good(frame[u], k, cached[u][k], target.length, "renamed" \in seen, "shrunk" \in seen)
    BY NameParts
  <2>2. CASE "renamed" \in seen'
    BY <2>2 DEF Good
  <2>3. CASE frame[u].step # "length"
    <3>1. PICK g, e, l, m : g = frame[u] /\ e = cached[u][k] /\ l = target.length /\ m = target'.length
      OBVIOUS
    <3> QED
      BY <1>1, <1>3, <2>1, <2>3, <3>1, GoodMove
  <2> QED
    BY <1>1, <2>2, <2>3
<1> QED
  BY <1>2, <1>4, NameParts

\* The entry k of thread t becomes e.
LEMMA NameEntryStep ==
  ASSUME PlaceInv, NameInv, NEW t \in Threads, NEW f \in Frames, Becomes(t, f), NEW k \in Kinds, NEW e \in Entries,
         CachedBecomes(t, k, e), Remembered, target' = target,
         f.own = k, frame[t].own = "none" \/ frame[t].own = k,
         Good(f, k, e, target.length, "renamed" \in seen', "shrunk" \in seen')
  PROVE  NameInv'
<1>1. target' # NULL => IsName(target'.name, target'.length)
  BY NameParts
<1>2. ASSUME NEW u \in Threads, NEW j \in Kinds
      PROVE  Good(frame'[u], j, cached'[u][j], target'.length, "renamed" \in seen', "shrunk" \in seen')
  <2>1. Good(frame[u], j, cached[u][j], target.length, "renamed" \in seen, "shrunk" \in seen)
    BY NameParts
  <2>2. PICK g, h, x, l : g = frame[u] /\ h = frame'[u] /\ x = cached[u][j] /\ l = target.length
    OBVIOUS
  <2>3. CASE u = t /\ j = k
    BY <2>3 DEF Becomes, CachedBecomes
  <2>4. CASE u = t /\ j # k
    <3>1. h = f /\ cached'[u][j] = x /\ g.own # j /\ j # "none"
      BY <2>2, <2>4 DEF Becomes, CachedBecomes, Kinds
    <3> QED
      BY <2>1, <2>2, <2>4, <3>1 DEF Good, Remembered
  <2>5. CASE u # t
    <3>1. h = g /\ cached'[u][j] = x
      BY <2>2, <2>5 DEF Becomes, CachedBecomes
    <3> QED
      BY <2>1, <2>2, <3>1, GoodMove
  <2> QED
    BY <2>3, <2>4, <2>5
<1> QED
  BY <1>1, <1>2, NameParts

LEMMA NameLoad ==
  ASSUME PlaceInv, NameInv, NEW t \in Threads, stumpless_add_log(t) \/ vstumpless_trace_log(t)
  PROVE  NameInv'
<1>1. PICK s \in Severities, k \in Kinds : Call(t) /\ target # NULL /\ Load(t, s, k) /\ UNCHANGED << target, seen >>
  <2>1. "entry" \in Kinds /\ "trace" \in Kinds
    BY DEF Kinds
  <2> QED
    BY <2>1 DEF stumpless_add_log, vstumpless_trace_log
<1>2. PICK f \in Frames : Loads(t, f, s, k)
  BY <1>1, LoadStep
<1>3. frame[t].step = "idle" /\ frame[t].own = "none" /\ Remembered
  BY <1>1, IdleCall DEF Remembered
<1>4. Becomes(t, f)
  BY <1>2 DEF Loads
<1>5. CASE f.step = "done" /\ f.own = "none" /\ cached' = cached
  BY <1>1, <1>3, <1>4, <1>5, NameMove
<1>6. CASE /\ f.step = "name" /\ f.own = k
           /\ \E e \in Entries :
                /\ CachedBecomes(t, k, e)
                /\ cached[t][k] # NULL => e = cached[t][k]
                /\ cached[t][k] = NULL => e.name = << 45, 0, 0 >> /\ e.length = 1
  <2>1. PICK e \in Entries :
                /\ CachedBecomes(t, k, e)
                /\ cached[t][k] # NULL => e = cached[t][k]
                /\ cached[t][k] = NULL => e.name = << 45, 0, 0 >> /\ e.length = 1
    BY <1>6
  <2>2. "renamed" \notin seen' /\ "shrunk" \notin seen' => Ended(e.name, e.length)
    <3>1. CASE cached[t][k] # NULL
      <4>1. Good(frame[t], k, cached[t][k], target.length, "renamed" \in seen, "shrunk" \in seen)
        BY NameParts
      <4> QED
        BY <1>1, <1>3, <2>1, <3>1, <4>1 DEF Good
    <3>2. CASE cached[t][k] = NULL
      <4>1. \A i \in 1..3 : 1 < i => << 45, 0, 0 >>[i] = 0
        OBVIOUS
      <4> QED
        BY <2>1, <3>2, <4>1 DEF Ended
    <3> QED
      BY <3>1, <3>2
  <2>3. Good(f, k, e, target.length, "renamed" \in seen', "shrunk" \in seen')
    BY <1>6, <2>2 DEF Good
  <2> QED
    BY <1>1, <1>3, <1>4, <1>6, <2>1, <2>3, NameEntryStep
<1> QED
  BY <1>2, <1>5, <1>6 DEF Loads

LEMMA NameCopied ==
  ASSUME PlaceInv, NameInv, NEW t \in Threads, CopyName(t)
  PROVE  NameInv'
<1>1. PICK f \in Frames : Becomes(t, f) /\ Alike(f, frame[t]) /\ f.step = "length"
  BY CopyNameStep
<1>2. frame[t].step = "name" /\ target' = target /\ seen \subseteq seen'
  BY DEF CopyName
<1>3. frame[t].own \in Kinds /\ cached[t][frame[t].own] # NULL /\ target \in Targets
  BY <1>2, OwnEntry
<1>4. PICK k \in Kinds : k = frame[t].own
  BY <1>3
<1>5. PICK e \in Entries :
           /\ CachedBecomes(t, k, e)
           /\ e.length = cached[t][k].length
           /\ \A i \in 1..3 : /\ i <= target.length => e.name[i] = target.name[i]
                              /\ target.length < i => e.name[i] = cached[t][k].name[i]
  BY <1>4, CopyNameCached
<1>6. PICK l \in 1..2, old \in Entries : l = target.length /\ old = cached[t][k]
  BY <1>3, <1>4, TargetFields DEF PlaceInv, TypeOK
<1>7. old.length \in 1..2 /\ old # NULL
  BY <1>6, EntryFields
<1>8. IsName(e.name, l)
  <2>1. PICK n \in Names \cup {NIL} : Len(n) = l /\ \A i \in 1..l : target.name[i] = n[i]
    <3>1. IsName(target.name, l)
      BY <1>3, <1>6, NullApart, NameParts
    <3> QED
      BY <3>1 DEF IsName
  <2>2. \A i \in 1..l : i \in 1..3 /\ i <= l
    BY <1>6
  <2> QED
    BY <1>5, <1>6, <2>1, <2>2 DEF IsName
<1>9. "renamed" \notin seen' /\ "shrunk" \notin seen' => Ended(e.name, l)
  <2> SUFFICES ASSUME "renamed" \notin seen', "shrunk" \notin seen', NEW i \in 1..3, l < i PROVE e.name[i] = 0
    BY DEF Ended
  <2>1. ~(l < old.length)
    BY <1>4, <1>6 DEF CopyName
  <2>2. Good(frame[t], k, old, l, "renamed" \in seen, "shrunk" \in seen)
    BY <1>6, NameParts
  <2>3. Ended(old.name, old.length)
    BY <1>2, <1>7, <2>2 DEF Good
  <2>4. old.length < i
    BY <1>7, <2>1
  <2>5. old.name[i] = 0
    BY <2>3, <2>4 DEF Ended
  <2> QED
    BY <1>5, <1>6, <2>5
<1>10. Good(f, k, e, target.length, "renamed" \in seen', "shrunk" \in seen')
  BY <1>1, <1>4, <1>6, <1>8, <1>9 DEF Good, Alike
<1>11. Remembered /\ f.own = k
  BY <1>1, <1>2, <1>4 DEF Remembered, Alike
<1> QED
  BY <1>1, <1>2, <1>4, <1>5, <1>10, <1>11, NameEntryStep

LEMMA NameLength ==
  ASSUME PlaceInv, NameInv, NEW t \in Threads, CopyLength(t)
  PROVE  NameInv'
<1>1. PICK f \in Frames :
        /\ Becomes(t, f)
        /\ \/ Entered(f, frame[t].call, frame[t].severity, frame[t].own, frame[t])
           \/ f.step = "trace" /\ f.own = frame[t].own
  BY CopyLengthStep
<1>2. frame[t].step = "length" /\ target' = target /\ seen' = seen
  BY DEF CopyLength
<1>3. frame[t].own \in Kinds /\ cached[t][frame[t].own] # NULL
  BY <1>2, OwnEntry
<1>4. PICK k \in Kinds : k = frame[t].own
  BY <1>3
<1>5. PICK e \in Entries : CachedBecomes(t, k, e) /\ e.length = target.length /\ e.name = cached[t][k].name
  BY <1>4, CopyLengthCached
<1>6. f.own = k /\ f.step # "length" /\ f.step # "name"
  BY <1>1, <1>4 DEF Entered
<1>7. Good(frame[t], k, cached[t][k], target.length, "renamed" \in seen, "shrunk" \in seen)
  BY NameParts
<1>8. Good(f, k, e, target.length, "renamed" \in seen', "shrunk" \in seen')
  BY <1>2, <1>3, <1>4, <1>5, <1>6, <1>7 DEF Good
<1>9. Remembered
  BY <1>2 DEF Remembered
<1> QED
  BY <1>1, <1>2, <1>4, <1>5, <1>6, <1>8, <1>9, NameEntryStep

LEMMA NameFreed ==
  ASSUME PlaceInv, NameInv, NEW t \in Threads, target_free_thread(t)
  PROVE  NameInv'
<1>1. frame' = frame /\ target' = target /\ seen' = seen /\ frame[t].own = "none"
  BY IdleFrame DEF target_free_thread
<1>2. ASSUME NEW u \in Threads, NEW k \in Kinds
      PROVE  Good(frame'[u], k, cached'[u][k], target'.length, "renamed" \in seen', "shrunk" \in seen')
  <2>1. Good(frame[u], k, cached[u][k], target.length, "renamed" \in seen, "shrunk" \in seen)
    BY NameParts
  <2>2. cached \in [Threads -> [Kinds -> Entries \cup {NULL}]]
    BY DEF PlaceInv, TypeOK
  <2>3. CASE u = t
    <3>1. cached'[u][k] = NULL /\ k # "none"
      BY <2>2, <2>3 DEF target_free_thread, Kinds
    <3> QED
      BY <1>1, <2>3, <3>1 DEF Good
  <2>4. CASE u # t
    <3>1. cached'[u] = cached[u]
      BY <2>2, <2>4 DEF target_free_thread
    <3> QED
      BY <1>1, <2>1, <3>1
  <2> QED
    BY <2>3, <2>4
<1> QED
  BY <1>1, <1>2, NameParts

LEMMA NameSame ==
  ASSUME NameInv, UNCHANGED << target, frame, cached, seen >>
  PROVE  NameInv'
BY DEF NameInv, LengthOf

LEMMA NameNext ==
  ASSUME PlaceInv, NameInv, [Next]_vars
  PROVE  NameInv'
<1>1. CASE UNCHANGED vars
  BY <1>1, NameSame DEF vars
<1>2. CASE Next
  <2>1. PICK t \in Threads : Step(t)
    BY <1>2, NextStep
  <2>2. CASE stumpless_set_default_options(t)
    BY <2>2, NameSame DEF stumpless_set_default_options
  <2> QED
    BY <2>1, <2>2, NameCalls, NameTargets, NameNewTarget, NameSetters, NameRenamed, NameLoad, NameCopied,
       NameLength, NameFreed
       DEF Step
<1> QED
  BY <1>1, <1>2

-----------------------------------------------------------------------------
(***************************************************************************)
(* StreamInv is inductive.                                                 *)
(***************************************************************************)

\* What StreamInv says of a sequence that was written: a while a code waits
\* for its text, and b while it waits for its reset.
Shape(o, a, b) ==
  /\ \A i \in 1..Len(o) :
       /\ o[i][1] = "code" /\ i < Len(o) => o[i + 1][1] = "text"
       /\ o[i][1] = "code" /\ i + 1 < Len(o) => o[i + 2][1] = "reset"
       /\ o[i][1] = "reset" => i > 2 /\ o[i - 2][1] = "code"
  /\ (Len(o) > 0 /\ o[Len(o)][1] = "code") <=> a
  /\ (Len(o) > 1 /\ o[Len(o) - 1][1] = "code") <=> b

\* The same, as StreamInv has it.
Law(o, a, b) ==
  /\ \A i \in DOMAIN o :
       /\ o[i][1] = "code" /\ i < Len(o) => o[i + 1][1] = "text"
       /\ o[i][1] = "code" /\ i + 1 < Len(o) => o[i + 2][1] = "reset"
       /\ o[i][1] = "reset" => i > 2 /\ o[i - 2][1] = "code"
  /\ (Len(o) \in DOMAIN o /\ o[Len(o)][1] = "code") <=> a
  /\ (Len(o) - 1 \in DOMAIN o /\ o[Len(o) - 1][1] = "code") <=> b

LEMMA StreamParts ==
  ASSUME NEW o \in Seq(Written), NEW a \in BOOLEAN, NEW b \in BOOLEAN
  PROVE  Shape(o, a, b) <=> Law(o, a, b)
<1>1. DOMAIN o = 1..Len(o) /\ Len(o) \in Nat
  OBVIOUS
<1>2. (Len(o) > 0 <=> Len(o) \in DOMAIN o) /\ (Len(o) > 1 <=> Len(o) - 1 \in DOMAIN o)
  BY <1>1
<1> QED
  BY <1>1, <1>2 DEF Shape, Law

\* One more at the end: the text of a code, its reset, or what needs neither.
LEMMA ShapeGrows ==
  ASSUME NEW o \in Seq(Written), NEW p \in Seq(Written), NEW a \in BOOLEAN, NEW b \in BOOLEAN, Shape(o, a, b),
         NEW x, Len(p) = Len(o) + 1, \A i \in 1..Len(o) : p[i] = o[i], p[Len(o) + 1][1] = x,
         a => x = "text", b <=> x = "reset"
  PROVE  Shape(p, x = "code", a)
<1>1. PICK n \in Nat : n = Len(o)
  OBVIOUS
<1>2. /\ Len(p) = n + 1 /\ p[n + 1][1] = x /\ \A i \in 1..n : p[i] = o[i]
      /\ (n > 1 /\ o[n - 1][1] = "code") <=> b
      /\ (n > 0 /\ o[n][1] = "code") <=> a
  BY <1>1 DEF Shape
<1>3. ASSUME NEW i \in 1..n
      PROVE  /\ o[i][1] = "code" /\ i < n => o[i + 1][1] = "text"
             /\ o[i][1] = "code" /\ i + 1 < n => o[i + 2][1] = "reset"
             /\ o[i][1] = "reset" => i > 2 /\ o[i - 2][1] = "code"
  BY <1>1 DEF Shape
<1>4. ASSUME NEW i \in 1..(n + 1)
      PROVE  /\ p[i][1] = "code" /\ i < n + 1 => p[i + 1][1] = "text"
             /\ p[i][1] = "code" /\ i + 1 < n + 1 => p[i + 2][1] = "reset"
             /\ p[i][1] = "reset" => i > 2 /\ p[i - 2][1] = "code"
  <2>1. CASE i = n + 1
    <3>1. x = "reset" => n > 1 /\ p[n - 1][1] = "code"
      BY <1>2
    <3> QED
      BY <1>2, <2>1, <3>1
  <2>2. CASE i = n
    BY <1>2, <1>3, <2>2
  <2>3. CASE i = n - 1
    BY <1>2, <1>3, <2>3
  <2>4. CASE i < n - 1
    <3>1. i \in 1..n /\ i + 1 \in 1..n /\ i + 2 \in 1..n /\ i < n /\ i + 1 < n /\ (i > 2 => i - 2 \in 1..n)
      BY <2>4
    <3>2. p[i] = o[i] /\ p[i + 1] = o[i + 1] /\ p[i + 2] = o[i + 2] /\ (i > 2 => p[i - 2] = o[i - 2])
      BY <1>2, <3>1
    <3> QED
      BY <1>3, <3>1, <3>2
  <2> QED
    BY <2>1, <2>2, <2>3, <2>4
<1>5. (n + 1 > 0 /\ p[n + 1][1] = "code") <=> x = "code"
  BY <1>2
<1>6. (n + 1 > 1 /\ p[n + 1 - 1][1] = "code") <=> a
  BY <1>2
<1> QED
  BY <1>2, <1>4, <1>5, <1>6 DEF Shape

LEMMA StreamShape ==
  /\ PlaceInv => (StreamInv <=> ("cut" \notin seen => Shape(out, Colored("text"), Colored("reset"))))
  /\ PlaceInv' => (StreamInv' <=> ("cut" \notin seen' => Shape(out', Colored("text")', Colored("reset")')))
<1>1. /\ StreamInv <=> ("cut" \notin seen => Law(out, Colored("text"), Colored("reset")))
      /\ StreamInv' <=> ("cut" \notin seen' => Law(out', Colored("text")', Colored("reset")'))
  BY DEF StreamInv, StreamWhole, IsCode, Law
<1>2. /\ PlaceInv => out \in Seq(Written)
      /\ PlaceInv' => out' \in Seq(Written)
  BY DEF PlaceInv, TypeOK, Written
<1>3. Colored("text") \in BOOLEAN /\ Colored("reset") \in BOOLEAN
  BY DEF Colored
<1>4. Colored("text")' \in BOOLEAN /\ Colored("reset")' \in BOOLEAN
  BY DEF Colored
<1> QED
  BY <1>1, <1>2, <1>3, <1>4, StreamParts

LEMMA StreamInit ==
  Init => StreamInv
<1> SUFFICES ASSUME Init PROVE StreamInv
  OBVIOUS
<1>1. DOMAIN out = {}
  BY DEF Init
<1>2. ~Colored("text") /\ ~Colored("reset")
  BY IdleFrame DEF Init, Colored
<1> QED
  BY <1>1, <1>2 DEF StreamInv, StreamWhole, IsCode

\* Nothing is written, and who is between two writes stays there.
LEMMA StreamSame ==
  ASSUME PlaceInv, PlaceInv', StreamInv, out' = out, "cut" \in seen => "cut" \in seen',
         "cut" \notin seen' =>
           (Colored("text")' <=> Colored("text")) /\ (Colored("reset")' <=> Colored("reset"))
  PROVE  StreamInv'
<1>1. "cut" \notin seen' => Shape(out', Colored("text")', Colored("reset")')
  BY StreamShape DEF Shape
<1> QED
  BY <1>1, StreamShape

LEMMA StreamMove ==
  ASSUME PlaceInv, PlaceInv', StreamInv, NEW t \in Threads, NEW f \in Frames, Becomes(t, f), out' = out,
         "cut" \in seen => "cut" \in seen',
         frame[t].step \notin {"text", "reset"} \/ frame[t].code = NULL,
         f.step \notin {"text", "reset"} \/ f.code = NULL
  PROVE  StreamInv'
<1>1. (Colored("text")' <=> Colored("text")) /\ (Colored("reset")' <=> Colored("reset"))
  BY DEF Colored, Becomes
<1> QED
  BY <1>1, StreamSame

\* Something is written, to another target by anyone, and to a stream by the
\* one thread that may.
LEMMA StreamGrows ==
  ASSUME PlaceInv, PlaceInv', StreamInv, NEW x \in Written, out' = Append(out, x), seen' = seen,
         Colored("text") => x[1] = "text",
         Colored("reset") <=> x[1] = "reset",
         Colored("text")' <=> x[1] = "code",
         Colored("reset")' <=> Colored("text")
  PROVE  StreamInv'
<1>1. SUFFICES ASSUME "cut" \notin seen' PROVE Shape(out', Colored("text")', Colored("reset")')
  BY StreamShape
<1>2. PICK o \in Seq(Written), a \in BOOLEAN, b \in BOOLEAN :
        o = out /\ (a <=> Colored("text")) /\ (b <=> Colored("reset"))
  BY SameTypes
<1>3. Shape(o, a, b)
  BY <1>1, <1>2, StreamShape DEF Shape
<1>4. PICK p \in Seq(Written) : p = Append(o, x)
  BY <1>2, WrittenOut
<1>5. Len(p) = Len(o) + 1 /\ (\A i \in 1..Len(o) : p[i] = o[i]) /\ p[Len(o) + 1] = x
  BY <1>4
<1>6. PICK y : y = x[1]
  OBVIOUS
<1>7. Shape(p, y = "code", a)
  BY <1>2, <1>3, <1>5, <1>6, ShapeGrows
<1> QED
  BY <1>2, <1>4, <1>6, <1>7 DEF Shape

\* A target of another type has nobody between two writes.
LEMMA NoStream ==
  ASSUME PlaceInv, target.type # "stream"
  PROVE  ~Colored("text") /\ ~Colored("reset")
BY HasFrame DEF Placed, Colored

LEMMA StreamCalls ==
  ASSUME PlaceInv, PlaceInv', StreamInv, NEW t \in Threads,
         \/ stumpless_target_is_open(t) \/ Filter(t) \/ stumpless_mask_filter(t) \/ FormatFails(t)
         \/ Console(t) \/ Done(t) \/ sendto_stream_target(t) \/ stumpless_open_target(t)
         \/ stumpless_add_entry(t) \/ stumpless_add_log(t) \/ vstumpless_trace_log(t)
         \/ CopyName(t) \/ CopyLength(t) \/ stumpless_trace_entry(t) \/ SetTrace(t)
         \/ new_target(t) \/ new_file_target(t) \/ NewFails(t) \/ stumpless_close_target(t)
  PROVE  StreamInv'
<1>1. out' = out /\ ("cut" \in seen => "cut" \in seen')
  BY DEF stumpless_target_is_open, Filter, stumpless_mask_filter, FormatFails, Console, Done,
         sendto_stream_target, stumpless_open_target, stumpless_add_entry, stumpless_add_log,
         vstumpless_trace_log, CopyName, CopyLength, stumpless_trace_entry, SetTrace,
         new_target, new_file_target, NewFails, stumpless_close_target
<1>2. frame[t].step \notin {"text", "reset"}
  <2>1. CASE Call(t)
    BY <2>1, IdleCall
  <2>2. CASE ~Call(t)
    BY <2>2 DEF stumpless_target_is_open, Filter, stumpless_mask_filter, FormatFails, Console, Done,
         sendto_stream_target, stumpless_open_target, stumpless_add_entry, stumpless_add_log,
         vstumpless_trace_log, CopyName, CopyLength, stumpless_trace_entry, SetTrace,
         new_target, new_file_target, NewFails, stumpless_close_target
  <2> QED
    BY <2>1, <2>2
<1>3. \E f \in Frames : Becomes(t, f) /\ f.step \notin {"text", "reset"}
  <2>1. CASE stumpless_target_is_open(t)
    BY <2>1, IsOpenStep
  <2>2. CASE Filter(t)
    BY <2>2, FilterStep
  <2>3. CASE stumpless_mask_filter(t)
    BY <2>3, MaskStep
  <2>4. CASE FormatFails(t)
    BY <2>4, RefusedStep DEF FormatFails
  <2>5. CASE Console(t)
    BY <2>5, ConsoleStep
  <2>6. CASE Done(t)
    BY <2>6, DoneStep, IdleFrame
  <2>7. CASE sendto_stream_target(t)
    BY <2>7, StreamStep
  <2>8. CASE stumpless_open_target(t)
    BY <2>8, OpenTargetStep
  <2>9. CASE stumpless_add_entry(t)
    BY <2>9, AddEntryStep DEF Entered
  <2>10. ASSUME NEW s \in Severities, NEW k \in Kinds, Call(t), Load(t, s, k)
         PROVE  \E f \in Frames : Becomes(t, f) /\ f.step \notin {"text", "reset"}
    <3>1. PICK f \in Frames : Loads(t, f, s, k)
      BY <2>10, LoadStep
    <3> QED
      BY <3>1 DEF Loads
  <2>11. CASE stumpless_add_log(t) \/ vstumpless_trace_log(t)
    <3>1. "entry" \in Kinds /\ "trace" \in Kinds
      BY DEF Kinds
    <3> QED
      BY <2>10, <2>11, <3>1 DEF stumpless_add_log, vstumpless_trace_log
  <2>12. CASE CopyName(t)
    BY <2>12, CopyNameStep
  <2>13. CASE CopyLength(t)
    <3>1. PICK f \in Frames :
             /\ Becomes(t, f)
             /\ Entered(f, frame[t].call, frame[t].severity, frame[t].own, frame[t]) \/ f.step = "trace"
      BY <2>13, CopyLengthStep
    <3> QED
      BY <3>1 DEF Entered
  <2>14. CASE stumpless_trace_entry(t)
    <3>1. PICK f \in Frames, s \in Severities : Becomes(t, f) /\ f.step = "trace"
      BY <2>14, TraceEntryStep
    <3> QED
      BY <3>1
  <2>15. CASE SetTrace(t)
    <3>1. PICK f \in Frames :
             /\ Becomes(t, f)
             /\ \/ Entered(f, frame[t].call, frame[t].severity, frame[t].own, frame[t])
                \/ f.step \in {"trace", "done"}
      BY <2>15, SetTraceStep
    <3> QED
      BY <3>1 DEF Entered
  <2>16. CASE new_target(t)
    BY <2>16, NewTargetStep
  <2>17. CASE new_file_target(t)
    BY <2>17, NewFileStep
  <2>18. CASE NewFails(t)
    BY <2>18, NewFailsStep
  <2>19. CASE stumpless_close_target(t)
    BY <2>19, CloseStep
  <2> QED
    BY <2>1, <2>2, <2>3, <2>4, <2>5, <2>6, <2>7, <2>8, <2>9, <2>11, <2>12, <2>13, <2>14, <2>15, <2>16, <2>17,
       <2>18, <2>19
<1> QED
  BY <1>1, <1>2, <1>3, StreamMove

LEMMA StreamSetters ==
  ASSUME PlaceInv, PlaceInv', StreamInv, NEW t \in Threads,
         \/ stumpless_set_option(t) \/ stumpless_unset_option(t) \/ stumpless_set_target_mask(t)
         \/ stumpless_set_target_filter(t) \/ stumpless_set_target_default_app_name(t)
         \/ stumpless_set_severity_color(t) \/ stumpless_set_default_options(t) \/ target_free_thread(t)
  PROVE  StreamInv'
<1>1. out' = out /\ ("cut" \in seen => "cut" \in seen')
  BY DEF stumpless_set_option, stumpless_unset_option, stumpless_set_target_mask, stumpless_set_target_filter,
         stumpless_set_target_default_app_name, stumpless_set_severity_color, stumpless_set_default_options,
         target_free_thread, SetTarget
<1>2. \A u \in Threads : Meanwhile(frame'[u], frame[u])
  <2>1. CASE stumpless_unset_option(t)
    BY <2>1, UnsetOptionStep
  <2>2. CASE stumpless_set_target_mask(t)
    BY <2>2, SetMaskStep
  <2>3. CASE stumpless_set_target_filter(t)
    BY <2>3, SetFilterStep
  <2>4. CASE frame' = frame
    BY <2>4, SameFrames
  <2> QED
    BY <2>1, <2>2, <2>3, <2>4 DEF stumpless_set_option, stumpless_set_target_default_app_name,
       stumpless_set_severity_color, stumpless_set_default_options, target_free_thread
<1>3. (Colored("text")' <=> Colored("text")) /\ (Colored("reset")' <=> Colored("reset"))
  BY <1>2 DEF Colored, Meanwhile
<1> QED
  BY <1>1, <1>3, StreamSame

\* The other targets write a text, or nothing.
LEMMA StreamOthers ==
  ASSUME PlaceInv, PlaceInv', StreamInv, NEW t \in Threads,
         send_entry_to_function_target(t) \/ sendto_file_target(t) \/ sendto_socket_target(t)
  PROVE  StreamInv'
<1>1. target.type # "stream" /\ target' = target /\ seen' = seen
  BY DEF send_entry_to_function_target, sendto_file_target, sendto_socket_target
<1>2. /\ ~Colored("text") /\ ~Colored("reset")
      /\ ~Colored("text")' /\ ~Colored("reset")'
  <2>1. ~Colored("text") /\ ~Colored("reset")
    BY <1>1, NoStream
  <2>2. \A u \in Threads : Placed(u, frame[u])'
    BY DEF PlaceInv
  <2>3. \A u \in Threads : frame'[u].step \notin {"text", "reset"}
    BY <1>1, <2>2 DEF Placed
  <2> QED
    BY <2>1, <2>3 DEF Colored
<1>3. CASE out' = out
  BY <1>1, <1>2, <1>3, StreamSame
<1>4. CASE out' = Append(out, Text(t))
  <2>1. Text(t) \in Written /\ Text(t)[1] = "text"
    BY TextWritten DEF Text
  <2> QED
    BY <1>1, <1>2, <1>4, <2>1, StreamGrows
<1> QED
  BY <1>3, <1>4 DEF send_entry_to_function_target, sendto_file_target, sendto_socket_target

\* The mutex of the stream keeps the others from writing.
LEMMA StreamWrites ==
  ASSUME PlaceInv, PlaceInv', HandleInv, StreamInv, NEW t \in Threads,
         WriteCode(t) \/ WriteText(t) \/ WriteReset(t) \/ WriteFails(t)
  PROVE  StreamInv'
<1>1. ASSUME frame[t].step \in {"text", "reset"}
      PROVE  \A u \in Threads : u # t => frame[u].step \notin {"text", "reset"}
  BY <1>1 DEF HandleInv, StreamHeld
<1>2. CASE WriteCode(t)
  <2>1. PICK f \in Frames : Becomes(t, f) /\ Alike(f, frame[t]) /\ f.step = "text"
    BY <1>2, WriteCodeStep
  <2>2. \A u \in Threads : frame[u].step \notin {"text", "reset"}
    BY <1>2, NobodyWrites DEF WriteCode, Free
  <2>3. f.code = frame[t].code /\ seen' = seen
    BY <1>2, <2>1 DEF Alike, WriteCode
  <2>4. CASE frame[t].code = NULL
    BY <1>2, <2>1, <2>2, <2>3, <2>4, StreamMove DEF WriteCode
  <2>5. CASE frame[t].code # NULL
    <3>1. ~Colored("text") /\ ~Colored("reset") /\ Colored("text")' /\ ~Colored("reset")'
      BY <2>1, <2>2, <2>3, <2>5 DEF Colored, Becomes
    <3>2. PICK x : x = << "code", frame[t].code >>
      OBVIOUS
    <3>3. x \in Written /\ x[1] = "code"
      BY <2>5, <3>2, HasFrame, FrameFields DEF Written
    <3>4. out' = Append(out, x)
      BY <1>2, <2>5, <3>2 DEF WriteCode
    <3> QED
      BY <2>3, <3>1, <3>3, <3>4, StreamGrows
  <2> QED
    BY <2>4, <2>5
<1>3. CASE WriteText(t)
  <2>1. PICK f \in Frames : Becomes(t, f) /\ Alike(f, frame[t]) /\ f.step = "reset"
    BY <1>3, WriteTextStep
  <2>2. \A u \in Threads : u # t => frame[u].step \notin {"text", "reset"}
    BY <1>1, <1>3 DEF WriteText
  <2>3. f.code = frame[t].code /\ seen' = seen /\ frame[t].step = "text"
    BY <1>3, <2>1 DEF Alike, WriteText
  <2>4. ~Colored("reset") /\ ~Colored("text")' /\ (Colored("reset")' <=> Colored("text"))
    BY <2>1, <2>2, <2>3 DEF Colored, Becomes
  <2>5. Text(t) \in Written /\ Text(t)[1] = "text" /\ out' = Append(out, Text(t))
    BY <1>3, TextWritten DEF Text, WriteText
  <2> QED
    BY <2>3, <2>4, <2>5, StreamGrows
<1>4. CASE WriteReset(t)
  <2>1. PICK f \in Frames : Becomes(t, f) /\ Alike(f, frame[t]) /\ f.step = "done"
    BY <1>4, SentStep DEF WriteReset
  <2>2. \A u \in Threads : u # t => frame[u].step \notin {"text", "reset"}
    BY <1>1, <1>4 DEF WriteReset
  <2>3. seen' = seen /\ frame[t].step = "reset"
    BY <1>4 DEF WriteReset
  <2>4. CASE frame[t].code = NULL
    BY <1>4, <2>1, <2>3, <2>4, StreamMove DEF WriteReset
  <2>5. CASE frame[t].code # NULL
    <3>1. ~Colored("text") /\ Colored("reset") /\ ~Colored("text")' /\ ~Colored("reset")'
      BY <2>1, <2>2, <2>3, <2>5 DEF Colored, Becomes
    <3>2. << "reset", 0 >> \in Written /\ << "reset", 0 >>[1] = "reset"
      BY DEF Written
    <3>3. out' = Append(out, << "reset", 0 >>)
      BY <1>4, <2>5 DEF WriteReset
    <3> QED
      BY <2>3, <3>1, <3>2, <3>3, StreamGrows
  <2> QED
    BY <2>4, <2>5
<1>5. CASE WriteFails(t)
  <2>1. PICK f \in Frames : Becomes(t, f) /\ f.step = "cons"
    BY <1>5, ConsStep DEF WriteFails
  <2>2. out' = out /\ ("cut" \in seen => "cut" \in seen')
    BY <1>5 DEF WriteFails
  <2>3. CASE frame[t].code = NULL
    BY <2>1, <2>2, <2>3, StreamMove
  <2>4. CASE frame[t].code # NULL
    <3>1. "cut" \in seen'
      BY <1>5, <2>4 DEF WriteFails
    <3> QED
      BY <3>1, StreamShape
  <2> QED
    BY <2>3, <2>4
<1> QED
  BY <1>2, <1>3, <1>4, <1>5

LEMMA StreamNext ==
  ASSUME PlaceInv, PlaceInv', HandleInv, StreamInv, [Next]_vars
  PROVE  StreamInv'
<1>1. CASE UNCHANGED vars
  <2>1. out' = out /\ seen' = seen /\ frame' = frame
    BY <1>1 DEF vars
  <2> QED
    BY <2>1, StreamSame DEF Colored
<1>2. CASE Next
  <2>1. PICK t \in Threads : Step(t)
    BY <1>2, NextStep
  <2> QED
    BY <2>1, StreamCalls, StreamSetters, StreamOthers, StreamWrites DEF Step
<1> QED
  BY <1>1, <1>2

-----------------------------------------------------------------------------
(***************************************************************************)
(* What the invariants say of what is written.                             *)
(***************************************************************************)

LEMMA WholeInductive ==
  Spec => [](PlaceInv /\ HandleInv /\ ToldInv /\ MaskInv /\ StreamInv /\ NameInv /\ TraceInv)
<1> DEFINE Inv == PlaceInv /\ HandleInv /\ ToldInv /\ MaskInv /\ StreamInv /\ NameInv /\ TraceInv
<1>1. Init => Inv
  BY PlaceInit, HandleInit, ToldInit, MaskInit, StreamInit, NameInit, TraceInit
<1>2. Inv /\ [Next]_vars => Inv'
  <2> SUFFICES ASSUME Inv, [Next]_vars PROVE Inv'
    OBVIOUS
  <2>1. PlaceInv'
    BY PlaceNext
  <2> QED
    BY <2>1, HandleNext, ToldNext, MaskNext, StreamNext, NameNext, TraceNext
<1> QED
  BY <1>1, <1>2, PTL DEF Spec

\* The part of an array that is a name is that name.
LEMMA NamedPart ==
  ASSUME NEW a \in [1..3 -> Nat], NEW l \in 1..2, IsName(a, l)
  PROVE  SubSeq(a, 1, l) \in Names \cup {NIL}
<1>1. PICK n \in Names \cup {NIL} : Len(n) = l /\ \A i \in 1..l : a[i] = n[i]
  BY DEF IsName
<1>2. n \in Seq(Nat)
  <2>1. NIL \in Seq(Nat)
    BY DEF NIL
  <2> QED
    BY <2>1, NameTypes
<1>3. a \in Seq(Nat) /\ Len(a) = 3
  <2>1. \A i \in 1..3 : a[i] \in Nat
    OBVIOUS
  <2>2. a \in Seq(Nat)
    BY <2>1, SeqDef
  <2> QED
    BY <2>2, LenProperties
<1>4. /\ SubSeq(a, 1, l) \in Seq(Nat) /\ Len(SubSeq(a, 1, l)) = l
      /\ \A i \in 1..l : SubSeq(a, 1, l)[i] = a[i]
  BY <1>3, SubSeqProperties
<1>5. SubSeq(a, 1, l) = n
  BY <1>1, <1>2, <1>4, SeqEqual
<1> QED
  BY <1>5

LEMMA NamesWhole ==
  PlaceInv /\ NameInv => NameWhole
<1> SUFFICES ASSUME PlaceInv, NameInv, NEW t \in Threads,
                    frame[t].own # "none", frame[t].step \in {"send", "code", "text"}
             PROVE  LET entry == cached[t][frame[t].own]
                        name == SubSeq(entry.name, 1, entry.length)
                    IN
                    /\ "renamed" \notin seen => name \in Names \cup {NIL}
                    /\ "shrunk" \notin seen /\ "renamed" \notin seen => entry.name[entry.length + 1] = 0
  BY DEF NameWhole
<1>1. frame[t].own \in Kinds /\ cached[t][frame[t].own] # NULL
  BY HasFrame, FrameFields DEF Placed
<1>2. PICK k \in Kinds, e \in Entries : k = frame[t].own /\ e = cached[t][k]
  BY <1>1 DEF PlaceInv, TypeOK
<1>3. Good(frame[t], k, e, target.length, "renamed" \in seen, "shrunk" \in seen)
  BY <1>2, NameParts
<1>4. PICK a \in [1..3 -> Nat], l \in 1..2 : a = e.name /\ l = e.length /\ e # NULL
  BY EntryFields
<1>5. /\ "renamed" \notin seen => IsName(a, l)
      /\ "renamed" \notin seen /\ "shrunk" \notin seen => Ended(a, l)
  BY <1>2, <1>3, <1>4 DEF Good
<1>6. "renamed" \notin seen => SubSeq(a, 1, l) \in Names \cup {NIL}
  BY <1>5, NamedPart
<1>7. "renamed" \notin seen /\ "shrunk" \notin seen => a[l + 1] = 0
  <2>1. l + 1 \in 1..3 /\ l < l + 1
    OBVIOUS
  <2> QED
    BY <1>5, <2>1 DEF Ended
<1> QED
  BY <1>2, <1>4, <1>6, <1>7

(***************************************************************************)
(* What stumpless_add_entry and the calls of log.c write is meant to be    *)
(* written, whatever other threads set meanwhile: its severity passes a    *)
(* mask that the target has during the call, the colors of a stream stay   *)
(* with their message, and the app name and the trace are of one piece.    *)
(***************************************************************************)
THEOREM WrittenAsMeant ==
  Spec => []WrittenWhole
<1>1. PlaceInv /\ MaskInv /\ StreamInv /\ NameInv /\ TraceInv => WrittenWhole
  <2> SUFFICES ASSUME PlaceInv, MaskInv, StreamInv, NameInv, TraceInv PROVE WrittenWhole
    OBVIOUS
  <2>1. MaskRespected
    BY DEF MaskInv, Met, MaskRespected
  <2>2. StreamWhole
    BY DEF StreamInv
  <2>3. NameWhole
    BY NamesWhole
  <2>4. TraceWhole
    BY DEF TraceInv, TraceWhole, Inside
  <2> QED
    BY <2>1, <2>2, <2>3, <2>4 DEF WrittenWhole
<1> QED
  BY <1>1, WholeInductive, PTL
=============================================================================
