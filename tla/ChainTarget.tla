---------------------------- MODULE ChainTarget ----------------------------
(***************************************************************************)
(* Chain targets (src/src/target/chain.c): a chain passes each entry on to *)
(* its targets, which can be chains themselves, and holds its mutex        *)
(* meanwhile.  The first targets of a chain are kept in an array of fixed  *)
(* length, the others in one that grows by one for each.                   *)
(*                                                                         *)
(* A chain is a number and is only ever added to a greater one: a chain    *)
(* that reached itself would wait for its own mutex, which the library     *)
(* leaves to the application.                                              *)
(***************************************************************************)
EXTENDS Integers, Sequences, FiniteSets

CONSTANTS
  Threads,
  Leaves,        \* targets that are not chains
  Chains,
  NULL,
  ArrayLength,   \* STUMPLESS_CHAIN_TARGET_ARRAY_LENGTH
  MaxTargets,    \* how many targets each chain may be given
  MaxEntries     \* how many entries a behaviour may send

ASSUME ChainAssumption ==
  /\ Chains \subseteq Nat /\ Leaves \cap Nat = {}
  /\ NULL \notin Threads \cup Leaves \cup Nat \cup (Chains \X (Leaves \cup Chains))
  /\ ArrayLength \in Nat /\ MaxTargets \in [Chains -> Nat] /\ MaxEntries \in Nat

VARIABLES
  targets,            \* per chain: the array of fixed length
  overflow_targets,   \* per chain: the other one
  target_count,
  target_lock,        \* holder of the mutex of the target structure
  chain_mutex,        \* holder of the mutex of the chain
  log,                \* what each leaf was sent
  entries,            \* per entry: the chain it was added to
  stack,              \* per thread: the chains it is sending to
  entry,              \* per thread: the entry it is sending
  adding,             \* per thread: the chain and the target it adds to it
  last                \* per thread: the last chain it was done with

chains == << targets, overflow_targets, target_count >>
locks == << target_lock, chain_mutex >>

vars == << chains, locks, log, entries, stack, entry, adding, last >>

Targets == Leaves \cup Chains

Below(c) == Leaves \cup {d \in Chains : d < c}

(***************************************************************************)
(* A call of send_entry_to_chain_target: i is the loop's counter, and 0    *)
(* before the mutex was taken; all is a history of what the chain held     *)
(* when it was taken.                                                      *)
(***************************************************************************)
Frame(c) == [chain |-> c, i |-> 0, failed |-> FALSE, all |-> << >>]

Empty(c) == [i \in 1 .. ArrayLength |-> NULL]

Init ==
  /\ targets = [c \in Chains |-> Empty(c)]
  /\ overflow_targets = [c \in Chains |-> << >>]
  /\ target_count = [c \in Chains |-> 0]
  /\ target_lock = [c \in Chains |-> NULL]
  /\ chain_mutex = [c \in Chains |-> NULL]
  /\ log = [l \in Leaves |-> << >>]
  /\ entries = << >>
  /\ stack = [t \in Threads |-> << >>]
  /\ entry = [t \in Threads |-> 0]
  /\ adding = [t \in Threads |-> NULL]
  /\ last = [t \in Threads |-> NULL]

Idle(t) == stack[t] = << >> /\ adding[t] = NULL /\ last[t] = NULL

Quiet == \A t \in Threads : Idle(t)

\* The i-th target, as the loops over a chain look it up.
TargetAt(c, i) ==
  IF i <= ArrayLength THEN targets[c][i] ELSE overflow_targets[c][i - ArrayLength]

Contents(c) == [i \in 1 .. target_count[c] |-> TargetAt(c, i)]

(***************************************************************************)
(* stumpless_add_target_to_chain takes both mutexes.                       *)
(***************************************************************************)
AddTarget(t, c) ==
  /\ Idle(t)
  /\ target_count[c] < MaxTargets[c]
  /\ target_lock[c] = NULL
  /\ target_lock' = [target_lock EXCEPT ![c] = t]
  /\ \E x \in Below(c) : adding' = [adding EXCEPT ![t] = << c, x >>]
  /\ UNCHANGED << chains, chain_mutex, log, entries, stack, entry, last >>

Added(t, c) ==
  /\ target_lock' = [target_lock EXCEPT ![c] = NULL]
  /\ adding' = [adding EXCEPT ![t] = NULL]
  /\ UNCHANGED << chain_mutex, log, entries, stack, entry, last >>

\* Mutant: the array is enlarged but the target not written to it.
AppendUnset(t) ==
  /\ adding[t] # NULL
  /\ LET c == adding[t][1]
         x == adding[t][2]
     IN  /\ chain_mutex[c] = NULL
         /\ \/ /\ target_count[c] >= ArrayLength
               /\ overflow_targets' = [overflow_targets EXCEPT ![c] = Append(@, NULL)]
               /\ UNCHANGED targets
            \/ /\ target_count[c] < ArrayLength
               /\ targets' = [targets EXCEPT ![c][target_count[c] + 1] = x]
               /\ UNCHANGED overflow_targets
         /\ target_count' = [target_count EXCEPT ![c] = @ + 1]
         /\ Added(t, c)

\* Mutant: the chain's mutex is not taken.
AppendUnguarded(t) ==
  /\ adding[t] # NULL
  /\ LET c == adding[t][1]
         x == adding[t][2]
     IN  /\ \/ /\ target_count[c] >= ArrayLength
               /\ overflow_targets' = [overflow_targets EXCEPT ![c] = Append(@, x)]
               /\ UNCHANGED targets
            \/ /\ target_count[c] < ArrayLength
               /\ targets' = [targets EXCEPT ![c][target_count[c] + 1] = x]
               /\ UNCHANGED overflow_targets
         /\ target_count' = [target_count EXCEPT ![c] = @ + 1]
         /\ Added(t, c)

AppendTarget(t) ==
  /\ adding[t] # NULL
  /\ LET c == adding[t][1]
         x == adding[t][2]
     IN  /\ chain_mutex[c] = NULL
         /\ \/ /\ target_count[c] >= ArrayLength
               /\ overflow_targets' = [overflow_targets EXCEPT ![c] = Append(@, x)]
               /\ UNCHANGED targets
            \/ /\ target_count[c] < ArrayLength
               /\ targets' = [targets EXCEPT ![c][target_count[c] + 1] = x]
               /\ UNCHANGED overflow_targets
         /\ target_count' = [target_count EXCEPT ![c] = @ + 1]
         /\ Added(t, c)

\* realloc_mem fails.
AppendFails(t) ==
  /\ adding[t] # NULL
  /\ LET c == adding[t][1]
     IN  /\ chain_mutex[c] = NULL
         /\ target_count[c] >= ArrayLength
         /\ Added(t, c)
  /\ UNCHANGED chains

(***************************************************************************)
(* stumpless_add_entry with a chain, which reads the filter and the        *)
(* options under the target's mutex before it goes on to the chain.        *)
(***************************************************************************)
AddEntry(t, c) ==
  /\ Idle(t)
  /\ Len(entries) < MaxEntries
  /\ target_lock[c] = NULL
  /\ entries' = Append(entries, c)
  /\ entry' = [entry EXCEPT ![t] = Len(entries) + 1]
  /\ stack' = [stack EXCEPT ![t] = << Frame(c) >>]
  /\ UNCHANGED << chains, locks, log, adding, last >>

Sending(t) == stack[t] # << >>

Top(t) == stack[t][Len(stack[t])]

Outer(s) == SubSeq(s, 1, Len(s) - 1)

\* The frame at the top of s goes on to its next target.
GoOn(s, failed) ==
  Append(Outer(s),
         [s[Len(s)] EXCEPT !.i = @ + 1, !.failed = @ \/ failed])

\* Mutant: the chain is read without its mutex.
LockNothing(t) ==
  /\ Sending(t)
  /\ LET f == Top(t)
     IN  /\ f.i = 0
         /\ stack' = [stack EXCEPT ![t] =
                        Append(Outer(@), [f EXCEPT !.i = 1, !.all = Contents(f.chain)])]
  /\ UNCHANGED << chains, locks, log, entries, entry, adding, last >>

LockChain(t) ==
  /\ Sending(t)
  /\ LET f == Top(t)
     IN  /\ f.i = 0
         /\ chain_mutex[f.chain] = NULL
         /\ chain_mutex' = [chain_mutex EXCEPT ![f.chain] = t]
         /\ stack' = [stack EXCEPT ![t] =
                        Append(Outer(@), [f EXCEPT !.i = 1, !.all = Contents(f.chain)])]
  /\ UNCHANGED << chains, target_lock, log, entries, entry, adding, last >>

\* Thread t is about to send to target x.
At(t, x) ==
  /\ Sending(t)
  /\ Top(t).i \in 1 .. target_count[Top(t).chain]
  /\ x = TargetAt(Top(t).chain, Top(t).i)

SendToLeaf(t, l) ==
  /\ At(t, l)
  /\ log' = [log EXCEPT ![l] = Append(@, entry[t])]
  /\ stack' = [stack EXCEPT ![t] = GoOn(@, FALSE)]
  /\ UNCHANGED << chains, locks, entries, entry, adding, last >>

\* A target that fails does not keep the others from their entry.
LeafFails(t, l) ==
  /\ At(t, l)
  /\ stack' = [stack EXCEPT ![t] = GoOn(@, TRUE)]
  /\ UNCHANGED << chains, locks, log, entries, entry, adding, last >>

SendToChain(t, d) ==
  /\ At(t, d)
  /\ target_lock[d] = NULL
  /\ stack' = [stack EXCEPT ![t] = Append(@, Frame(d))]
  /\ UNCHANGED << chains, locks, log, entries, entry, adding, last >>

\* The end of the loop: the chain's result is that of a target to the chain
\* that contains it.
UnlockChain(t) ==
  /\ Sending(t)
  /\ LET f == Top(t)
         s == Outer(stack[t])
     IN  /\ f.i > target_count[f.chain]
         /\ chain_mutex' = [chain_mutex EXCEPT ![f.chain] = NULL]
         /\ stack' = [stack EXCEPT ![t] = IF s = << >> THEN s ELSE GoOn(s, f.failed)]
         /\ last' = [last EXCEPT ![t] = f]
  /\ UNCHANGED << chains, target_lock, log, entries, entry, adding >>

\* The caller has seen the result.
Done(t) ==
  /\ stack[t] = << >>
  /\ last[t] # NULL
  /\ last' = [last EXCEPT ![t] = NULL]
  /\ entry' = [entry EXCEPT ![t] = 0]
  /\ UNCHANGED << chains, locks, log, entries, stack, adding >>

(***************************************************************************)
(* Closing a chain, with or without what is in it, when no other thread    *)
(* uses the library and no other chain refers to what is closed.  What was *)
(* closed is replaced by a new target of its kind.                         *)
(***************************************************************************)
Positions(x) ==
  UNION {{<< c, i >> : i \in {j \in 1 .. target_count[c] : TargetAt(c, j) = x}} :
         c \in Chains}

Renew(cs) ==
  /\ targets' = [c \in Chains |-> IF c \in cs THEN Empty(c) ELSE targets[c]]
  /\ overflow_targets' = [c \in Chains |-> IF c \in cs THEN << >> ELSE overflow_targets[c]]
  /\ target_count' = [c \in Chains |-> IF c \in cs THEN 0 ELSE target_count[c]]

\* stumpless_close_chain_only.
CloseOnly(c) ==
  /\ Quiet
  /\ target_count[c] > 0
  /\ Positions(c) = {}
  /\ Renew({c})
  /\ UNCHANGED << locks, log, entries, stack, entry, adding, last >>

\* The targets that closing c with its contents closes, c among them.
Closed[c \in Chains] ==
  {c} \cup UNION {IF x \in Chains THEN Closed[x] ELSE {x} :
                   x \in {TargetAt(c, i) : i \in 1 .. target_count[c]}}

\* stumpless_close_chain_and_contents, for a chain in which no target occurs
\* twice: it would be closed twice.
CloseContents(c) ==
  /\ Quiet
  /\ target_count[c] > 0
  /\ Positions(c) = {}
  /\ \A x \in Closed[c] \ {c} : Cardinality(Positions(x)) = 1
  /\ Renew(Closed[c] \cap Chains)
  /\ log' = [l \in Leaves |-> IF l \in Closed[c] THEN << >> ELSE log[l]]
  /\ UNCHANGED << locks, entries, stack, entry, adding, last >>

Next ==
  \/ \E c \in Chains : CloseOnly(c) \/ CloseContents(c)
  \/ \E t \in Threads :
       \/ \E c \in Chains : AddTarget(t, c) \/ AddEntry(t, c) \/ SendToChain(t, c)
       \/ AppendTarget(t)
       \/ AppendFails(t)
       \/ LockChain(t)
       \/ \E l \in Leaves : SendToLeaf(t, l) \/ LeafFails(t, l)
       \/ UnlockChain(t)
       \/ Done(t)

Spec == Init /\ [][Next]_vars

-----------------------------------------------------------------------------
(***************************************************************************)
(* Properties.                                                             *)
(***************************************************************************)

Frames ==
  [chain : Chains, i : Nat, failed : BOOLEAN, all : Seq(Targets)]

TypeOK ==
  /\ targets \in [Chains -> [1 .. ArrayLength -> Targets \cup {NULL}]]
  /\ overflow_targets \in [Chains -> Seq(Targets)]
  /\ target_count \in [Chains -> Nat]
  /\ target_lock \in [Chains -> Threads \cup {NULL}]
  /\ chain_mutex \in [Chains -> Threads \cup {NULL}]
  /\ log \in [Leaves -> Seq(DOMAIN entries)]
  /\ entries \in Seq(Chains)
  /\ stack \in [Threads -> Seq(Frames)]
  /\ entry \in [Threads -> {0} \cup DOMAIN entries]
  /\ adding \in [Threads -> (Chains \X Targets) \cup {NULL}]
  /\ last \in [Threads -> Frames \cup {NULL}]
  /\ \A c \in Chains :
       /\ target_count[c] <= MaxTargets[c]
       /\ Len(overflow_targets[c]) =
            IF target_count[c] > ArrayLength THEN target_count[c] - ArrayLength ELSE 0

\* A mutex is held exactly by the thread that is in a call that took it,
\* nested calls included.
LocksMatch ==
  \A t \in Threads, c \in Chains :
    /\ target_lock[c] = t <=> adding[t] # NULL /\ adding[t][1] = c
    /\ chain_mutex[c] = t <=>
         \E k \in DOMAIN stack[t] : stack[t][k].chain = c /\ stack[t][k].i > 0

\* A chain does not change while an entry is passed on: every target the loop
\* has yet to visit is the one that was there when the mutex was taken.
ChainStable ==
  \A t \in Threads : \A k \in DOMAIN stack[t] :
    stack[t][k].i > 0 => stack[t][k].all = Contents(stack[t][k].chain)

Times(e, l) == Cardinality({i \in DOMAIN log[l] : log[l][i] = e})

\* When a chain, on its own or within another, reports no failure, every leaf
\* in it was sent the entry as often as the chain contains it.
EveryTargetServed ==
  \A t \in Threads :
    last[t] # NULL /\ ~last[t].failed =>
      \A l \in Leaves :
        Times(entry[t], l) >= Cardinality({i \in DOMAIN last[t].all : last[t].all[i] = l})

Precedes(l, e, f) ==
  \E i, j \in DOMAIN log[l] : i < j /\ log[l][i] = e /\ log[l][j] = f

\* The entries of several threads that are added to the same chain reach all
\* targets in one order, targets of nested chains included.
BroadcastsOrdered ==
  \A e, f \in DOMAIN entries :
    e # f /\ entries[e] = entries[f] =>
      \A l, m \in Leaves : ~(Precedes(l, e, f) /\ Precedes(m, f, e))

\* Adding a target puts it after the others, where the loops find it, whether
\* or not it fits into the array; a failed addition changes nothing.
AddsAtEnd ==
  [][\A c \in Chains :
       \/ Contents(c)' = Contents(c)
       \/ Contents(c)' = << >>
       \/ \E x \in Targets : Contents(c)' = Append(Contents(c), x)]_vars

(***************************************************************************)
(* The mutexes of a chain are held where they should be, and keep it from  *)
(* changing under the loop that passes an entry on.                        *)
(***************************************************************************)
ChainsLocked == TypeOK /\ LocksMatch /\ ChainStable

(***************************************************************************)
(* Every target of a chain gets every entry, in one order for all targets. *)
(***************************************************************************)
Broadcast == EveryTargetServed /\ BroadcastsOrdered
=============================================================================
