-------------------------- MODULE EntryTreeProofs --------------------------
(***************************************************************************)
(* Proofs about the tree of an entry.                                      *)
(*                                                                         *)
(* BaseInv says where every object is: TreeInv, that an allocated object   *)
(* is in one place, over the arrays and the frames; PlaceInv, which fields *)
(* a frame uses at which step; RefInv, that no frame has a pointer to a    *)
(* freed object.  It is kept by every step, action by action, with lemmas  *)
(* on how objects move from one place to another.  LockInv says who holds  *)
(* which mutex.  From these two follows TreeSound.                         *)
(*                                                                         *)
(* Effect(t) is what a step of t can do to names, contents and the frames  *)
(* of the other threads, and is proved for every action; with it NameInv   *)
(* and UniqueNames (NamesSound) and MakingInv (CopiesWhole) need to look   *)
(* only at the frame of t itself.                                          *)
(***************************************************************************)
EXTENDS EntryTree, FiniteSetTheorems, WellFoundedInduction, TLAPS

\* The params array of each element, and what the calls have created.
Arrays == [e \in Elements |-> el[e].params]

Owners == [t \in Threads |-> Owned(t)]

\* The elements of an entry en are allocated, and in one place.
Listed(en, lv, ls, ow) ==
  /\ \A i \in DOMAIN en : en[i] \in lv /\ en[i] \notin ls /\ \A t \in Threads : en[i] \notin ow[t]
  /\ \A i, j \in DOMAIN en : en[i] = en[j] => i = j

\* And so are the params of the elements that are allocated.
Held(pm, lv, ls, ow) ==
  /\ \A e \in lv \cap Elements : \A i \in DOMAIN pm[e] :
       pm[e][i] \in lv /\ pm[e][i] \notin ls /\ \A t \in Threads : pm[e][i] \notin ow[t]
  /\ \A e, f \in lv \cap Elements : \A i \in DOMAIN pm[e], j \in DOMAIN pm[f] :
       pm[e][i] = pm[f][j] => e = f /\ i = j

\* And what a call has created, or the application has to attach.
Given(lv, ls, ow) ==
  /\ \A t \in Threads, o \in Elements \cup Params : o \in ow[t] => o \in lv /\ o \notin ls
  /\ \A t, u \in Threads, o \in Elements \cup Params : o \in ow[t] /\ o \in ow[u] => t = u

\* There is no other place an allocated object can be in.
Complete(en, lv, ls, ow) ==
  \A o \in lv \cap Elements :
    o \in ls \/ (\E t \in Threads : o \in ow[t]) \/ (\E i \in DOMAIN en : en[i] = o)

Contents(pm, lv, ls, ow) ==
  \A o \in lv \cap Params :
    \/ o \in ls
    \/ \E t \in Threads : o \in ow[t]
    \/ \E e \in lv \cap Elements : \E i \in DOMAIN pm[e] : pm[e][i] = o

Tree(en, pm, lv, ls, ow) ==
  /\ Listed(en, lv, ls, ow) /\ Held(pm, lv, ls, ow) /\ Given(lv, ls, ow)
  /\ Complete(en, lv, ls, ow) /\ Contents(pm, lv, ls, ow)

TreeInv == Tree(entry, Arrays, live, loose, Owners)

\* Which of its fields a call uses at each of its steps.
Placed(f) ==
  /\ f.e = NULL <=> f.step \notin {"attach", "replace", "value_at", "look", "value", "make", "append", "finish"}
  /\ f.p = NULL <=> f.step \notin {"replace", "value", "append"}
  /\ f.step \in {"look", "make", "append"} => f.n \in Names
  /\ f.step \in {"value_at", "look", "value", "make"} => f.v \in Values
  /\ f.created => f.locked /\ f.step \in {"look", "make", "append", "finish"}
  /\ f.locked => f.step \in {"look", "value", "make", "append", "finish", "measure", "write", "copy"}
  /\ f.step \in {"measure", "write", "copy"} => f.locked
  /\ f.step = "idle" => f.copy = << >>

PlaceInv == \A t \in Threads : Placed(frame[t])

RefInv ==
  /\ \A t \in Threads : frame[t].e # NULL => frame[t].e \in live
  /\ \A t \in Threads : frame[t].step = "replace" => frame[t].p \in loose
  /\ \A t, u \in Threads : frame[t].step = "replace" /\ frame[u].p = frame[t].p => t = u
  /\ \A t \in Threads : frame[t].step = "value" =>
       frame[t].p \in loose \/ frame[t].p \in ToSet(el[frame[t].e].params)
  /\ \A t \in Threads :
       frame[t].step = "attach" \/ (frame[t].created /\ frame[t].step # "finish") =>
         el[frame[t].e].params = << >>
  /\ \A t, u \in Threads : frame[u].e \in Owned(t) => t = u

LockInv ==
  /\ \A t \in Threads : frame[t].locked => holder[Entry] = t
  /\ \A t \in Threads : t \notin seen.failed =>
       /\ holder[Entry] = t => frame[t].locked
       /\ \A o \in Elements \cup Params : holder[o] # t

\* What a call that sets a param by name knows of the element.
Looking(f) ==
  /\ f.step # "replace"
  /\ f.step \in {"look", "make", "append"} => f.locked
  /\ f.step \in {"make", "append"} =>
       \A i \in DOMAIN el[f.e].params : par[el[f.e].params[i]].name # f.n
  /\ f.step = "append" => par[f.p].name = f.n

DistinctParams ==
  \A e \in live \cap Elements : \A i, j \in DOMAIN el[e].params :
    par[el[e].params[i]].name = par[el[e].params[j]].name => i = j

NameInv == ~seen.added => DistinctParams /\ \A t \in Threads : Looking(frame[t])

-----------------------------------------------------------------------------
(***************************************************************************)
(* Least elements of sets of numbers: what Min returns, and with it        *)
(* induction.                                                              *)
(***************************************************************************)

\* A set of numbers that is not empty has a least one.
LEMMA Least ==
  ASSUME NEW T, T \subseteq Nat, T # {}
  PROVE  \E x \in T : \A y \in T : x <= y
<1> DEFINE R == {ss \in Nat \X Nat : ss[1] < ss[2]}
<1>1. IsWellFoundedOn(R, Nat)
  BY NatLessThanWellFounded DEF OpToRel
<1>2. \A a, b \in Nat : a < b => << a, b >> \in R
  OBVIOUS
<1> HIDE DEF R
<1>3. PICK x \in T : \A y \in T : ~(<< y, x >> \in R)
  BY <1>1, WFMin
<1>4. \A y \in T : ~(y < x)
  BY <1>2, <1>3
<1> QED
  BY <1>4

\* Which is what Min returns.
LEMMA MinIsLeast ==
  ASSUME NEW T, T \subseteq Nat, T # {}
  PROVE  Min(T) \in T /\ \A y \in T : Min(T) <= y
BY Least DEF Min

-----------------------------------------------------------------------------
(***************************************************************************)
(* How objects move between places, in terms of an entry en, the arrays pm *)
(* of the elements, the objects lv that are allocated, the ones ls that    *)
(* the application has, and what the calls have, ow.                       *)
(***************************************************************************)

TreeType(en, pm, lv, ls, ow) ==
  /\ en \in Seq(Elements)
  /\ pm \in [Elements -> Seq(Params)]
  /\ lv \subseteq Elements \cup Params
  /\ ls \subseteq lv
  /\ ow \in [Threads -> SUBSET (Elements \cup Params)]

\* Only t has something else.
Hands(ow, ow2, t) == \A u \in Threads : u # t => ow2[u] = ow[u]

\* An object is allocated for the application, or for the call of t; an
\* element has no params.
LEMMA NewObject ==
  ASSUME NEW en, NEW pm, NEW lv, NEW ls, NEW ow, NEW pm2, NEW lv2, NEW ls2, NEW ow2,
         TreeType(en, pm, lv, ls, ow), TreeType(en, pm2, lv2, ls2, ow2), Tree(en, pm, lv, ls, ow),
         NEW o \in Elements \cup Params, o \notin lv, lv2 = lv \cup {o},
         \A e \in Elements : e # o => pm2[e] = pm[e],
         o \in Elements => pm2[o] = << >>,
         \/ ls2 = ls \cup {o} /\ ow2 = ow
         \/ ls2 = ls /\ \E t \in Threads : Hands(ow, ow2, t) /\ ow2[t] = ow[t] \cup {o}
  PROVE  Tree(en, pm2, lv2, ls2, ow2)
<1> USE DEF TreeType
<1>0. Elements \cap Params = {}
  BY ObjectsAssumption
<1>1. \A x : \A t \in Threads : x # o => (x \in ls2 <=> x \in ls) /\ (x \in ow2[t] <=> x \in ow[t])
  BY DEF Hands
<1>2. Listed(en, lv2, ls2, ow2)
  BY <1>1 DEF Listed, Tree
<1>3. Held(pm2, lv2, ls2, ow2)
  BY <1>0, <1>1 DEF Held, Tree
<1>4. Given(lv2, ls2, ow2)
  BY <1>1 DEF Given, Tree, Hands
<1>5. o \in ls2 \/ \E t \in Threads : o \in ow2[t]
  OBVIOUS
<1>6. \A x \in lv2 : x # o => x \in lv
  OBVIOUS
<1>7. Complete(en, lv2, ls2, ow2)
  <2> SUFFICES ASSUME NEW x \in lv2 \cap Elements, x # o
               PROVE  x \in ls2 \/ (\E t \in Threads : x \in ow2[t]) \/ (\E i \in DOMAIN en : en[i] = x)
    BY <1>5 DEF Complete
  <2> QED
    BY <1>1, <1>6 DEF Complete, Tree
<1>8. Contents(pm2, lv2, ls2, ow2)
  <2> SUFFICES ASSUME NEW x \in lv2 \cap Params, x # o
               PROVE  \/ x \in ls2
                      \/ \E t \in Threads : x \in ow2[t]
                      \/ \E e \in lv2 \cap Elements : \E i \in DOMAIN pm2[e] : pm2[e][i] = x
    BY <1>5 DEF Contents
  <2>1. CASE x \in ls \/ \E t \in Threads : x \in ow[t]
    BY <1>1, <2>1
  <2>2. CASE \E e \in lv \cap Elements : \E i \in DOMAIN pm[e] : pm[e][i] = x
    BY <2>2
  <2> QED
    BY <1>6, <2>1, <2>2 DEF Contents, Tree
<1> QED
  BY <1>2, <1>3, <1>4, <1>7, <1>8 DEF Tree

\* Objects X are freed, with the params of the elements among them.  Either
\* none of them is in the entry, or the entry goes with them.
Freed(X, en, pm, lv, ls, ow, en2, lv2, ls2, ow2) ==
  /\ \A x \in Elements \cup Params : x \in lv2 <=> x \in lv /\ x \notin X
  /\ \A x \in Elements \cup Params : x \in ls2 <=> x \in ls /\ x \notin X
  /\ \A t \in Threads, x \in Elements \cup Params : x \in ow2[t] <=> x \in ow[t] /\ x \notin X
  /\ \A e \in lv \cap Elements : \A i \in DOMAIN pm[e] : pm[e][i] \in X <=> e \in X
  /\ \/ en2 = en /\ \A i \in DOMAIN en : en[i] \notin X
     \/ en2 = << >> /\ \A i \in DOMAIN en : en[i] \in X

\* Objects are freed: what is left of the tree is still a tree.
LEMMA FreeObjects ==
  ASSUME NEW en, NEW pm, NEW lv, NEW ls, NEW ow, NEW X, NEW en2, NEW lv2, NEW ls2, NEW ow2,
         TreeType(en, pm, lv, ls, ow), TreeType(en2, pm, lv2, ls2, ow2), Tree(en, pm, lv, ls, ow),
         Freed(X, en, pm, lv, ls, ow, en2, lv2, ls2, ow2)
  PROVE  Tree(en2, pm, lv2, ls2, ow2)
<1> USE DEF TreeType, Freed
<1>0. Elements \cap Params = {}
  BY ObjectsAssumption
<1>1. \A i \in DOMAIN en : en[i] \in Elements
  OBVIOUS
<1>2. \A e \in Elements : \A i \in DOMAIN pm[e] : pm[e][i] \in Params
  OBVIOUS
<1>3. Listed(en2, lv2, ls2, ow2)
  BY <1>1 DEF Listed, Tree
<1>4. Held(pm, lv2, ls2, ow2)
  BY <1>2 DEF Held, Tree
<1>5. Given(lv2, ls2, ow2)
  BY DEF Given, Tree
<1>7. Complete(en2, lv2, ls2, ow2)
  BY DEF Complete, Tree
<1>8. Contents(pm, lv2, ls2, ow2)
  <2> SUFFICES ASSUME NEW x \in lv2 \cap Params
               PROVE  \/ x \in ls2
                      \/ \E t \in Threads : x \in ow2[t]
                      \/ \E e \in lv2 \cap Elements : \E i \in DOMAIN pm[e] : pm[e][i] = x
    BY DEF Contents
  <2>1. CASE x \in ls \/ \E t \in Threads : x \in ow[t]
    BY <2>1
  <2>2. CASE \E e \in lv \cap Elements : \E i \in DOMAIN pm[e] : pm[e][i] = x
    BY <2>2
  <2> QED
    BY <2>1, <2>2 DEF Contents, Tree
<1> QED
  BY <1>3, <1>4, <1>5, <1>7, <1>8 DEF Tree

\* An element of the application is freed, which gets its params.
LEMMA FreeElementOnly ==
  ASSUME NEW en, NEW pm, NEW lv, NEW ls, NEW ow, NEW lv2, NEW ls2,
         TreeType(en, pm, lv, ls, ow), TreeType(en, pm, lv2, ls2, ow), Tree(en, pm, lv, ls, ow),
         NEW e \in Elements, e \in ls, lv2 = lv \ {e}, ls2 = (ls \ {e}) \cup ToSet(pm[e])
  PROVE  Tree(en, pm, lv2, ls2, ow)
<1> USE DEF TreeType
<1>0. Elements \cap Params = {}
  BY ObjectsAssumption
<1>1. \A x \in Params : x \in ls2 <=> x \in ls \/ \E i \in DOMAIN pm[e] : pm[e][i] = x
  BY <1>0 DEF ToSet
<1>2. \A x \in Elements : x \in ls2 <=> x \in ls /\ x # e
  BY <1>0 DEF ToSet
<1>3. \A i \in DOMAIN en : en[i] \in Elements
  OBVIOUS
<1>4. \A f \in Elements : \A i \in DOMAIN pm[f] : pm[f][i] \in Params
  OBVIOUS
<1>5. Listed(en, lv2, ls2, ow)
  BY <1>2, <1>3 DEF Listed, Tree
<1>6. Held(pm, lv2, ls2, ow)
  <2>1. ASSUME NEW f \in lv2 \cap Elements, NEW i \in DOMAIN pm[f] PROVE pm[f][i] \in lv2 /\ pm[f][i] \notin ls2
    BY <1>0, <1>1, <1>4 DEF Held, Tree
  <2> QED
    BY <2>1 DEF Held, Tree
<1>7. Given(lv2, ls2, ow)
  <2>1. ASSUME NEW t \in Threads, NEW o \in Elements \cup Params, o \in ow[t] PROVE o \in lv2 /\ o \notin ls2
    <3>1. o \in lv /\ o \notin ls
      BY <2>1 DEF Given, Tree
    <3>2. ~ \E i \in DOMAIN pm[e] : pm[e][i] = o
      BY <2>1 DEF Held, Tree
    <3> QED
      BY <1>0, <1>1, <1>2, <3>1, <3>2
  <2> QED
    BY <2>1 DEF Given, Tree
<1>8. Complete(en, lv2, ls2, ow)
  BY <1>2 DEF Complete, Tree
<1>9. Contents(pm, lv2, ls2, ow)
  <2> SUFFICES ASSUME NEW x \in lv2 \cap Params
               PROVE  \/ x \in ls2
                      \/ \E t \in Threads : x \in ow[t]
                      \/ \E f \in lv2 \cap Elements : \E i \in DOMAIN pm[f] : pm[f][i] = x
    BY DEF Contents
  <2>1. CASE x \in ls \/ \E t \in Threads : x \in ow[t]
    BY <1>1, <2>1
  <2>2. CASE \E f \in lv \cap Elements : \E i \in DOMAIN pm[f] : pm[f][i] = x
    BY <1>1, <2>2
  <2> QED
    BY <2>1, <2>2 DEF Contents, Tree
<1> QED
  BY <1>5, <1>6, <1>7, <1>8, <1>9 DEF Tree

\* The application gets the elements of an entry that is freed.
LEMMA FreeEntryOnly ==
  ASSUME NEW en, NEW pm, NEW lv, NEW ls, NEW ow, NEW ls2,
         TreeType(en, pm, lv, ls, ow), Tree(en, pm, lv, ls, ow), ls2 = ls \cup ToSet(en)
  PROVE  Tree(<< >>, pm, lv, ls2, ow)
<1> USE DEF TreeType
<1>0. Elements \cap Params = {}
  BY ObjectsAssumption
<1>1. \A x \in Elements : x \in ls2 <=> x \in ls \/ \E i \in DOMAIN en : en[i] = x
  BY DEF ToSet
<1>2. \A x \in Params : x \in ls2 <=> x \in ls
  BY <1>0 DEF ToSet
<1>4. \A f \in Elements : \A i \in DOMAIN pm[f] : pm[f][i] \in Params
  OBVIOUS
<1>5. Listed(<< >>, lv, ls2, ow)
  BY DEF Listed
<1>6. Held(pm, lv, ls2, ow)
  BY <1>2, <1>4 DEF Held, Tree
<1>7. Given(lv, ls2, ow)
  BY <1>1, <1>2 DEF Given, Listed, Tree
<1>8. Complete(<< >>, lv, ls2, ow)
  BY <1>1 DEF Complete, Tree
<1>9. Contents(pm, lv, ls2, ow)
  BY <1>2 DEF Contents, Tree
<1> QED
  BY <1>5, <1>6, <1>7, <1>8, <1>9 DEF Tree

\* An element that is in no array yet is appended to that of the entry.
LEMMA AppendElement ==
  ASSUME NEW en, NEW pm, NEW lv, NEW ls, NEW ow, NEW ls2, NEW ow2,
         TreeType(en, pm, lv, ls, ow), TreeType(en, pm, lv, ls2, ow2), Tree(en, pm, lv, ls, ow),
         NEW e \in Elements, e \in ls \/ \E t \in Threads : e \in ow[t],
         \A x \in Elements \cup Params : x \in ls2 <=> x \in ls /\ x # e,
         \A t \in Threads, x \in Elements \cup Params : x \in ow2[t] <=> x \in ow[t] /\ x # e
  PROVE  Tree(Append(en, e), pm, lv, ls2, ow2)
<1> USE DEF TreeType
<1>0. Elements \cap Params = {}
  BY ObjectsAssumption
<1> DEFINE en2 == Append(en, e)
<1>1. /\ \A i \in DOMAIN en : i \in DOMAIN en2 /\ en2[i] = en[i]
      /\ \A i \in DOMAIN en2 : i \in DOMAIN en \/ (i = Len(en) + 1 /\ en2[i] = e)
      /\ Len(en) + 1 \in DOMAIN en2 /\ en2[Len(en) + 1] = e
  OBVIOUS
<1>2. e \in lv /\ \A i \in DOMAIN en : en[i] # e
  BY DEF Listed, Given, Tree
<1>3. \A i \in DOMAIN en : en[i] \in Elements
  OBVIOUS
<1>4. \A f \in Elements : \A i \in DOMAIN pm[f] : pm[f][i] \in Params
  OBVIOUS
<1> HIDE DEF en2
<1>5. Listed(en2, lv, ls2, ow2)
  <2>1. ASSUME NEW i \in DOMAIN en2
        PROVE  en2[i] \in lv /\ en2[i] \notin ls2 /\ \A t \in Threads : en2[i] \notin ow2[t]
    BY <1>1, <1>2, <1>3 DEF Listed, Tree
  <2>2. ASSUME NEW i \in DOMAIN en2, NEW j \in DOMAIN en2, en2[i] = en2[j] PROVE i = j
    BY <1>1, <1>2, <2>2 DEF Listed, Tree
  <2> QED
    BY <2>1, <2>2 DEF Listed
<1>6. Held(pm, lv, ls2, ow2)
  BY <1>0, <1>4 DEF Held, Tree
<1>7. Given(lv, ls2, ow2)
  BY DEF Given, Tree
<1>8. Complete(en2, lv, ls2, ow2)
  <2> SUFFICES ASSUME NEW x \in lv \cap Elements
               PROVE  x \in ls2 \/ (\E t \in Threads : x \in ow2[t]) \/ (\E i \in DOMAIN en2 : en2[i] = x)
    BY DEF Complete
  <2>1. CASE x = e
    BY <1>1, <2>1
  <2>2. CASE x # e
    BY <1>1, <2>2 DEF Complete, Tree
  <2> QED
    BY <2>1, <2>2
<1>9. Contents(pm, lv, ls2, ow2)
  BY <1>0 DEF Contents, Tree
<1> QED
  BY <1>5, <1>6, <1>7, <1>8, <1>9 DEF Tree, en2

\* An element of the application takes the place of one of the entry.
LEMMA ReplaceElement ==
  ASSUME NEW en, NEW pm, NEW lv, NEW ls, NEW ow, NEW ls2, NEW k \in DOMAIN en, NEW en2,
         TreeType(en, pm, lv, ls, ow), TreeType(en, pm, lv, ls2, ow), Tree(en, pm, lv, ls, ow),
         NEW e \in Elements, e \in ls,
         ls2 = (ls \ {e}) \cup {en[k]}, en2 = [en EXCEPT ![k] = e]
  PROVE  Tree(en2, pm, lv, ls2, ow)
<1> USE DEF TreeType
<1>0. Elements \cap Params = {}
  BY ObjectsAssumption
<1>1. DOMAIN en2 = DOMAIN en /\ en2[k] = e /\ \A i \in DOMAIN en : i # k => en2[i] = en[i]
  OBVIOUS
<1>2. e \in lv /\ (\A i \in DOMAIN en : en[i] # e) /\ (\A t \in Threads : e \notin ow[t])
  BY DEF Listed, Given, Tree
<1>3. \A i \in DOMAIN en : en[i] \in Elements
  OBVIOUS
<1>4. \A f \in Elements : \A i \in DOMAIN pm[f] : pm[f][i] \in Params
  OBVIOUS
<1>5. \A x \in Elements : x \in ls2 <=> (x \in ls /\ x # e) \/ x = en[k]
  OBVIOUS
<1>6. \A x \in Params : x \in ls2 <=> x \in ls
  BY <1>0, <1>3
<1>7. Listed(en2, lv, ls2, ow)
  <2>1. ASSUME NEW i \in DOMAIN en2
        PROVE  en2[i] \in lv /\ en2[i] \notin ls2 /\ \A t \in Threads : en2[i] \notin ow[t]
    BY <1>1, <1>2, <1>3, <1>5 DEF Listed, Tree
  <2>2. ASSUME NEW i \in DOMAIN en2, NEW j \in DOMAIN en2, en2[i] = en2[j] PROVE i = j
    BY <1>1, <1>2, <2>2 DEF Listed, Tree
  <2> QED
    BY <2>1, <2>2 DEF Listed
<1>8. Held(pm, lv, ls2, ow)
  BY <1>6, <1>4 DEF Held, Tree
<1>9. Given(lv, ls2, ow)
  BY <1>5, <1>6 DEF Given, Listed, Tree
<1>10. Complete(en2, lv, ls2, ow)
  <2> SUFFICES ASSUME NEW x \in lv \cap Elements
               PROVE  x \in ls2 \/ (\E t \in Threads : x \in ow[t]) \/ (\E i \in DOMAIN en2 : en2[i] = x)
    BY DEF Complete
  <2>1. CASE x = e
    BY <1>1, <2>1
  <2>2. CASE x # e
    BY <1>1, <1>5, <2>2 DEF Complete, Tree
  <2> QED
    BY <2>1, <2>2
<1>11. Contents(pm, lv, ls2, ow)
  BY <1>6 DEF Contents, Tree
<1> QED
  BY <1>7, <1>8, <1>9, <1>10, <1>11 DEF Tree

\* The same for the params of an element e.
LEMMA AppendParamTo ==
  ASSUME NEW en, NEW pm, NEW lv, NEW ls, NEW ow, NEW pm2, NEW ls2, NEW ow2,
         TreeType(en, pm, lv, ls, ow), TreeType(en, pm2, lv, ls2, ow2), Tree(en, pm, lv, ls, ow),
         NEW e \in lv \cap Elements, NEW p \in Params, p \in ls \/ \E t \in Threads : p \in ow[t],
         \A x \in Elements \cup Params : x \in ls2 <=> x \in ls /\ x # p,
         \A t \in Threads, x \in Elements \cup Params : x \in ow2[t] <=> x \in ow[t] /\ x # p,
         pm2[e] = Append(pm[e], p), \A f \in Elements : f # e => pm2[f] = pm[f]
  PROVE  Tree(en, pm2, lv, ls2, ow2)
<1> USE DEF TreeType
<1>0. Elements \cap Params = {}
  BY ObjectsAssumption
<1>1. /\ \A f \in Elements : \A i \in DOMAIN pm[f] : i \in DOMAIN pm2[f] /\ pm2[f][i] = pm[f][i]
      /\ \A f \in Elements : \A i \in DOMAIN pm2[f] :
           i \in DOMAIN pm[f] \/ (f = e /\ i = Len(pm[e]) + 1 /\ pm2[f][i] = p)
      /\ Len(pm[e]) + 1 \in DOMAIN pm2[e] /\ pm2[e][Len(pm[e]) + 1] = p
  <2>1. ASSUME NEW s \in Seq(Params)
        PROVE  LET s2 == Append(s, p) IN
               /\ \A i \in DOMAIN s : i \in DOMAIN s2 /\ s2[i] = s[i]
               /\ \A i \in DOMAIN s2 : i \in DOMAIN s \/ (i = Len(s) + 1 /\ s2[i] = p)
               /\ Len(s) + 1 \in DOMAIN s2 /\ s2[Len(s) + 1] = p
    OBVIOUS
  <2>2. /\ \A i \in DOMAIN pm[e] : i \in DOMAIN pm2[e] /\ pm2[e][i] = pm[e][i]
        /\ \A i \in DOMAIN pm2[e] : i \in DOMAIN pm[e] \/ (i = Len(pm[e]) + 1 /\ pm2[e][i] = p)
        /\ Len(pm[e]) + 1 \in DOMAIN pm2[e] /\ pm2[e][Len(pm[e]) + 1] = p
    <3>1. pm[e] \in Seq(Params)
      OBVIOUS
    <3> QED
      BY <2>1, <3>1
  <2> QED
    BY <2>2
<1>2. p \in lv /\ \A f \in lv \cap Elements : \A i \in DOMAIN pm[f] : pm[f][i] # p
  BY DEF Held, Given, Tree
<1>3. \A i \in DOMAIN en : en[i] \in Elements
  OBVIOUS
<1>4. \A f \in Elements : \A i \in DOMAIN pm[f] : pm[f][i] \in Params
  OBVIOUS
<1>5. Listed(en, lv, ls2, ow2)
  BY <1>0, <1>3 DEF Listed, Tree
<1>6. Held(pm2, lv, ls2, ow2)
  <2>1. ASSUME NEW f \in lv \cap Elements, NEW i \in DOMAIN pm2[f]
        PROVE  pm2[f][i] \in lv /\ pm2[f][i] \notin ls2 /\ \A t \in Threads : pm2[f][i] \notin ow2[t]
    BY <1>1, <1>2, <1>4 DEF Held, Tree
  <2>2. ASSUME NEW f \in lv \cap Elements, NEW i \in DOMAIN pm2[f],
               NEW g \in lv \cap Elements, NEW j \in DOMAIN pm2[g], pm2[f][i] = pm2[g][j]
        PROVE  f = g /\ i = j
    <3>1. CASE i \in DOMAIN pm[f] /\ j \in DOMAIN pm[g]
      BY <1>1, <2>2, <3>1 DEF Held, Tree
    <3>2. CASE i \notin DOMAIN pm[f] /\ j \in DOMAIN pm[g]
      BY <1>1, <1>2, <2>2, <3>2
    <3>3. CASE i \in DOMAIN pm[f] /\ j \notin DOMAIN pm[g]
      BY <1>1, <1>2, <2>2, <3>3
    <3>4. CASE i \notin DOMAIN pm[f] /\ j \notin DOMAIN pm[g]
      BY <1>1, <3>4
    <3> QED
      BY <3>1, <3>2, <3>3, <3>4
  <2> QED
    BY <2>1, <2>2 DEF Held
<1>7. Given(lv, ls2, ow2)
  BY DEF Given, Tree
<1>8. Complete(en, lv, ls2, ow2)
  BY <1>0 DEF Complete, Tree
<1>9. Contents(pm2, lv, ls2, ow2)
  <2> SUFFICES ASSUME NEW x \in lv \cap Params
               PROVE  \/ x \in ls2
                      \/ \E t \in Threads : x \in ow2[t]
                      \/ \E f \in lv \cap Elements : \E i \in DOMAIN pm2[f] : pm2[f][i] = x
    BY DEF Contents
  <2>1. CASE x = p
    BY <1>1, <2>1
  <2>2. CASE x # p
    <3>1. CASE x \in ls \/ \E t \in Threads : x \in ow[t]
      BY <2>2, <3>1
    <3>2. CASE \E f \in lv \cap Elements : \E i \in DOMAIN pm[f] : pm[f][i] = x
      BY <1>1, <3>2
    <3> QED
      BY <3>1, <3>2 DEF Contents, Tree
  <2> QED
    BY <2>1, <2>2
<1> QED
  BY <1>5, <1>6, <1>7, <1>8, <1>9 DEF Tree

\* A param takes the place of another in its element, as in
\* stumpless_set_param.
LEMMA ReplaceParam ==
  ASSUME NEW en, NEW pm, NEW lv, NEW ls, NEW ow, NEW pm2, NEW ls2,
         TreeType(en, pm, lv, ls, ow), TreeType(en, pm2, lv, ls2, ow), Tree(en, pm, lv, ls, ow),
         NEW e \in lv \cap Elements, NEW k \in DOMAIN pm[e], NEW p \in Params, p \in ls,
         ls2 = (ls \ {p}) \cup {pm[e][k]},
         pm2[e] = [pm[e] EXCEPT ![k] = p], \A f \in Elements : f # e => pm2[f] = pm[f]
  PROVE  Tree(en, pm2, lv, ls2, ow)
<1> USE DEF TreeType
<1>0. Elements \cap Params = {}
  BY ObjectsAssumption
<1>1. /\ \A f \in Elements : DOMAIN pm2[f] = DOMAIN pm[f]
      /\ pm2[e][k] = p
      /\ \A f \in Elements : \A i \in DOMAIN pm[f] : f # e \/ i # k => pm2[f][i] = pm[f][i]
  OBVIOUS
<1>2. /\ p \in lv /\ \A f \in lv \cap Elements : \A i \in DOMAIN pm[f] : pm[f][i] # p
      /\ \A t \in Threads : p \notin ow[t]
  BY DEF Held, Given, Tree
<1>3. \A i \in DOMAIN en : en[i] \in Elements
  OBVIOUS
<1>4. \A f \in Elements : \A i \in DOMAIN pm[f] : pm[f][i] \in Params
  OBVIOUS
<1>5. \A x \in Params : x \in ls2 <=> (x \in ls /\ x # p) \/ x = pm[e][k]
  OBVIOUS
<1>6. \A x \in Elements : x \in ls2 <=> x \in ls
  BY <1>0, <1>4
<1>7. Listed(en, lv, ls2, ow)
  BY <1>6, <1>3 DEF Listed, Tree
<1>8. Held(pm2, lv, ls2, ow)
  <2>1. ASSUME NEW f \in lv \cap Elements, NEW i \in DOMAIN pm2[f]
        PROVE  pm2[f][i] \in lv /\ pm2[f][i] \notin ls2 /\ \A t \in Threads : pm2[f][i] \notin ow[t]
    BY <1>1, <1>2, <1>4, <1>5 DEF Held, Tree
  <2>2. ASSUME NEW f \in lv \cap Elements, NEW i \in DOMAIN pm2[f],
               NEW g \in lv \cap Elements, NEW j \in DOMAIN pm2[g], pm2[f][i] = pm2[g][j]
        PROVE  f = g /\ i = j
    BY <1>1, <1>2, <2>2 DEF Held, Tree
  <2> QED
    BY <2>1, <2>2 DEF Held
<1>9. Given(lv, ls2, ow)
  BY <1>5, <1>6 DEF Given, Held, Tree
<1>10. Complete(en, lv, ls2, ow)
  BY <1>6 DEF Complete, Tree
<1>11. Contents(pm2, lv, ls2, ow)
  <2> SUFFICES ASSUME NEW x \in lv \cap Params
               PROVE  \/ x \in ls2
                      \/ \E t \in Threads : x \in ow[t]
                      \/ \E f \in lv \cap Elements : \E i \in DOMAIN pm2[f] : pm2[f][i] = x
    BY DEF Contents
  <2>1. CASE x = p
    BY <1>1, <2>1
  <2>2. CASE x # p
    <3>1. CASE x \in ls \/ \E t \in Threads : x \in ow[t]
      BY <1>5, <2>2, <3>1
    <3>2. CASE \E f \in lv \cap Elements : \E i \in DOMAIN pm[f] : pm[f][i] = x
      <4>0. PICK f \in lv \cap Elements : \E i \in DOMAIN pm[f] : pm[f][i] = x
        BY <3>2
      <4>1. PICK i \in DOMAIN pm[f] : pm[f][i] = x
        BY <4>0
      <4>2. CASE f = e /\ i = k
        BY <1>5, <4>1, <4>2
      <4>3. CASE f # e \/ i # k
        BY <1>1, <4>1, <4>3
      <4> QED
        BY <4>2, <4>3
    <3> QED
      BY <3>1, <3>2 DEF Contents, Tree
  <2> QED
    BY <2>1, <2>2
<1> QED
  BY <1>7, <1>8, <1>9, <1>10, <1>11 DEF Tree

-----------------------------------------------------------------------------
(***************************************************************************)
(* TreeInv implies that objects are in one place.                          *)
(***************************************************************************)

Somewhere(o, x) ==
  \/ \E i \in DOMAIN entry : entry[i] = o /\ x = << "entry", i >>
  \/ \E e \in live \cap Elements : \E i \in DOMAIN Arrays[e] : Arrays[e][i] = o /\ x = << "param", << e, i >> >>
  \/ o \in loose /\ x = << "loose", o >>
  \/ \E t \in Threads : o \in Owners[t] /\ x = << "call", t >>

\* The places of an object, counted, when the tree is one.
LEMMA PlacesAre ==
  ASSUME NEW o, NEW x
  PROVE  x \in Places(o) <=> Somewhere(o, x)
<1>1. \A e \in Elements : x \in InElement(o, e) <=>
        \E i \in DOMAIN Arrays[e] : Arrays[e][i] = o /\ x = << "param", << e, i >> >>
  BY DEF Arrays, InElement, Indices
<1>2. x \in InElements(o) <=> \E e \in live \cap Elements : x \in InElement(o, e)
  BY DEF InElements
<1>3. x \in InElements(o) <=> \E e \in live \cap Elements :
        \E i \in DOMAIN Arrays[e] : Arrays[e][i] = o /\ x = << "param", << e, i >> >>
  BY <1>1, <1>2
<1>4. x \in Places(o) <=>
        \/ \E i \in DOMAIN entry : entry[i] = o /\ x = << "entry", i >>
        \/ x \in InElements(o)
        \/ o \in loose /\ x = << "loose", o >>
        \/ \E t \in Threads : o \in Owners[t] /\ x = << "call", t >>
  BY DEF Places, Owners, Indices
<1> QED
  BY <1>3, <1>4 DEF Somewhere

\* The parts of the state have the types of a tree.
LEMMA StateType ==
  ASSUME TypeOK
  PROVE  /\ Arrays \in [Elements -> Seq(Params)]
         /\ \A e \in Elements : Arrays[e] = el[e].params
         /\ \A t \in Threads : Owners[t] = Owned(t)
BY DEF TypeOK, stumpless_element, Arrays, Owners

\* What OwnedOnce says, from the tree.
LEMMA TreeIsSound ==
  ASSUME TypeOK, TreeInv
  PROVE  OwnedOnce
<1> SUFFICES ASSUME NEW o \in Elements \cup Params
             PROVE  Cardinality(Places(o)) = IF o \in live THEN 1 ELSE 0
  BY DEF OwnedOnce
<1>0. Elements \cap Params = {}
  BY ObjectsAssumption
<1>1. /\ \A i \in DOMAIN entry : entry[i] \in Elements
      /\ \A e \in Elements : \A i \in DOMAIN Arrays[e] : Arrays[e][i] \in Params
      /\ loose \subseteq live
  BY StateType DEF TypeOK
<1>2. Tree(entry, Arrays, live, loose, Owners)
  BY DEF TreeInv
<1>3. ASSUME NEW x, Somewhere(o, x) PROVE o \in live
  BY <1>1, <1>2, <1>3 DEF Somewhere, Tree, Listed, Held, Given
<1>4. ASSUME NEW x, NEW y, Somewhere(o, x), Somewhere(o, y) PROVE x = y
  <2>1. CASE \E i \in DOMAIN entry : entry[i] = o /\ x = << "entry", i >>
    <3>1. PICK i \in DOMAIN entry : entry[i] = o /\ x = << "entry", i >>
      BY <2>1
    <3>2. /\ o \notin loose
          /\ \A t \in Threads : o \notin Owners[t]
          /\ \A j \in DOMAIN entry : entry[j] = o => j = i
      BY <1>2, <3>1 DEF Tree, Listed
    <3>3. ~ \E e \in live \cap Elements : \E j \in DOMAIN Arrays[e] : Arrays[e][j] = o
      BY <1>0, <1>1, <3>1
    <3> QED
      BY <1>4, <3>1, <3>2, <3>3 DEF Somewhere
  <2>2. CASE \E e \in live \cap Elements : \E i \in DOMAIN Arrays[e] : Arrays[e][i] = o /\ x = << "param", << e, i >> >>
    <3>0. PICK e \in live \cap Elements : \E i \in DOMAIN Arrays[e] : Arrays[e][i] = o /\ x = << "param", << e, i >> >>
      BY <2>2
    <3>1. PICK i \in DOMAIN Arrays[e] : Arrays[e][i] = o /\ x = << "param", << e, i >> >>
      BY <3>0
    <3>2. /\ o \notin loose
          /\ \A t \in Threads : o \notin Owners[t]
          /\ \A f \in live \cap Elements : \A j \in DOMAIN Arrays[f] : Arrays[f][j] = o => f = e /\ j = i
      BY <1>2, <3>1 DEF Tree, Held
    <3>3. ~ \E j \in DOMAIN entry : entry[j] = o
      BY <1>0, <1>1, <3>1
    <3> QED
      BY <1>4, <3>1, <3>2, <3>3 DEF Somewhere
  <2>3. CASE o \in loose /\ x = << "loose", o >>
    <3>1. ~ \E j \in DOMAIN entry : entry[j] = o
      BY <1>2, <2>3 DEF Tree, Listed
    <3>2. ~ \E e \in live \cap Elements : \E j \in DOMAIN Arrays[e] : Arrays[e][j] = o
      BY <1>2, <2>3 DEF Tree, Held
    <3>3. \A t \in Threads : o \notin Owners[t]
      BY <1>2, <2>3 DEF Tree, Given
    <3> QED
      BY <1>4, <2>3, <3>1, <3>2, <3>3 DEF Somewhere
  <2>4. CASE \E t \in Threads : o \in Owners[t] /\ x = << "call", t >>
    <3>0. PICK t \in Threads : o \in Owners[t] /\ x = << "call", t >>
      BY <2>4
    <3>1. ~ \E j \in DOMAIN entry : entry[j] = o
      BY <1>2, <3>0 DEF Tree, Listed
    <3>2. ~ \E e \in live \cap Elements : \E j \in DOMAIN Arrays[e] : Arrays[e][j] = o
      BY <1>2, <3>0 DEF Tree, Held
    <3>3. o \notin loose /\ \A u \in Threads : o \in Owners[u] => u = t
      BY <1>2, <3>0 DEF Tree, Given
    <3> QED
      BY <1>4, <3>0, <3>1, <3>2, <3>3 DEF Somewhere
  <2> QED
    BY <1>4, <2>1, <2>2, <2>3, <2>4 DEF Somewhere
<1>5. ASSUME o \in live PROVE \E x : Somewhere(o, x)
  <2>1. CASE o \in Elements
    BY <1>2, <1>5, <2>1 DEF Tree, Complete, Somewhere
  <2>2. CASE o \in Params
    <3>1. CASE o \in loose \/ \E t \in Threads : o \in Owners[t]
      BY <3>1 DEF Somewhere
    <3>2. CASE \E e \in live \cap Elements : \E i \in DOMAIN Arrays[e] : Arrays[e][i] = o
      BY <3>2 DEF Somewhere
    <3> QED
      BY <1>2, <1>5, <2>2, <3>1, <3>2 DEF Tree, Contents
  <2> QED
    BY <2>1, <2>2
<1>6. CASE o \in live
  <2>1. PICK x : Somewhere(o, x)
    BY <1>5, <1>6
  <2>2. Places(o) = {x}
    BY <1>4, <2>1, PlacesAre
  <2> QED
    BY <1>6, <2>2, FS_Singleton
<1>7. CASE o \notin live
  <2>1. Places(o) = {}
    BY <1>3, <1>7, PlacesAre
  <2> QED
    BY <1>7, <2>1, FS_EmptySet
<1> QED
  BY <1>6, <1>7

-----------------------------------------------------------------------------
(***************************************************************************)
(* What a step makes of the frames: f is the new frame of t, and the       *)
(* others can only be told that the tree was changed.                      *)
(***************************************************************************)

Alike(f, g) ==
  /\ f.step = g.step /\ f.e = g.e /\ f.p = g.p /\ f.n = g.n /\ f.v = g.v /\ f.i = g.i
  /\ f.created = g.created /\ f.locked = g.locked /\ f.size = g.size /\ f.used = g.used
  /\ f.copy = g.copy

Becomes(t, f) ==
  /\ f \in Frames
  /\ frame' \in [Threads -> Frames]
  /\ frame'[t] = f
  /\ \A u \in Threads : u # t => Alike(frame'[u], frame[u])

OwnedBy(f) ==
  (IF f.created \/ f.step = "attach" THEN {f.e} ELSE {}) \cup (IF f.step = "append" THEN {f.p} ELSE {})

\* The fields of a frame.
LEMMA FrameFields ==
  ASSUME NEW f \in Frames
  PROVE  /\ f.step \in Steps /\ f.e \in Elements \cup {NULL} /\ f.p \in Params \cup {NULL}
         /\ f.n \in Names \cup {NULL} /\ f.v \in Values \cup {0} /\ f.i \in Nat
         /\ f.created \in BOOLEAN /\ f.locked \in BOOLEAN /\ f.size \in Nat /\ f.used \in Nat
         /\ f.copy \in Seq([name : Names, params : Seq(stumpless_param)]) /\ f.disturbed \in BOOLEAN
BY DEF Frames

\* The frame of a thread that is not in the library.
LEMMA IdleFrame ==
  /\ Idle \in Frames /\ Placed(Idle) /\ OwnedBy(Idle) = {}
  /\ Idle.step = "idle" /\ Idle.e = NULL /\ Idle.p = NULL /\ Idle.created = FALSE
  /\ Idle.locked = FALSE /\ Idle.copy = << >> /\ Idle.disturbed = FALSE
<1>1. << >> \in Seq([name : Names, params : Seq(stumpless_param)])
  OBVIOUS
<1> QED
  BY <1>1 DEF Idle, Frames, Placed, OwnedBy, Steps

\* A step that only changes the frame of t.
LEMMA StepBecomes ==
  ASSUME TypeOK, NEW t \in Threads, NEW f \in Frames, Step(t, f)
  PROVE  Becomes(t, f) /\ \A u \in Threads : u # t => frame'[u] = frame[u]
<1>1. frame \in [Threads -> Frames]
  BY DEF TypeOK
<1>2. frame' \in [Threads -> Frames] /\ frame'[t] = f /\ \A u \in Threads : u # t => frame'[u] = frame[u]
  BY <1>1 DEF Step
<1> QED
  BY <1>2 DEF Becomes, Alike

\* A step that changes no frame.
LEMMA SameBecomes ==
  ASSUME TypeOK, NEW t \in Threads, frame' = frame
  PROVE  Becomes(t, frame[t]) /\ \A u \in Threads : u # t => frame'[u] = frame[u]
BY DEF Becomes, Alike, TypeOK

\* A frame that is told of a change differs in nothing else.
LEMMA Disturbed ==
  ASSUME NEW f \in Frames, NEW b \in BOOLEAN
  PROVE  /\ [f EXCEPT !.disturbed = b] \in Frames
         /\ Alike([f EXCEPT !.disturbed = b], f)
         /\ [f EXCEPT !.disturbed = b].disturbed = b
BY DEF Frames, Alike

\* A step that changes the tree, and tells the other calls.
LEMMA ChangeBecomes ==
  ASSUME TypeOK, NEW t \in Threads, NEW f \in Frames, Change(t, f)
  PROVE  /\ Becomes(t, f)
         /\ \A u \in Threads : u # t /\ frame[u].step # "idle" => frame'[u].disturbed
<1>1. \A u \in Threads : frame[u] \in Frames
  BY DEF TypeOK
<1> DEFINE g(u) == [frame[u] EXCEPT !.disturbed = frame[u].step # "idle"]
<1>2. ASSUME NEW u \in Threads
      PROVE  g(u) \in Frames /\ Alike(g(u), frame[u]) /\ g(u).disturbed = (frame[u].step # "idle")
  <2> DEFINE b == frame[u].step # "idle"
  <2>1. b \in BOOLEAN /\ g(u) = [frame[u] EXCEPT !.disturbed = b]
    OBVIOUS
  <2> HIDE DEF b, g
  <2>2. g(u) \in Frames /\ Alike(g(u), frame[u]) /\ g(u).disturbed = b
    BY <1>1, <2>1, Disturbed
  <2> QED
    BY <2>2 DEF b
<1>3. frame' = [u \in Threads |-> IF u = t THEN f ELSE g(u)]
  BY DEF Change
<1> HIDE DEF g
<1> QED
  BY <1>2, <1>3 DEF Becomes

\* What a call has created is in its frame.
LEMMA OwnedIs ==
  ASSUME NEW t
  PROVE  Owned(t) = OwnedBy(frame[t])
BY DEF Owned, OwnedBy

\* And is an element or a param.
LEMMA OwnedByType ==
  ASSUME NEW f \in Frames, Placed(f)
  PROVE  OwnedBy(f) \subseteq Elements \cup Params
BY FrameFields, ObjectsAssumption DEF OwnedBy, Placed

\* For every thread.
LEMMA OwnersType ==
  ASSUME TypeOK, PlaceInv
  PROVE  Owners \in [Threads -> SUBSET (Elements \cup Params)]
<1>1. \A t \in Threads : frame[t] \in Frames /\ Placed(frame[t])
  BY DEF TypeOK, PlaceInv
<1> QED
  BY <1>1, OwnedByType, OwnedIs DEF Owners

\* Frames stay well formed, if the one of t does.
LEMMA PlaceStep ==
  ASSUME PlaceInv, NEW t \in Threads, NEW f, Becomes(t, f), Placed(f)
  PROVE  PlaceInv'
<1> SUFFICES ASSUME NEW u \in Threads PROVE Placed(frame'[u])
  BY DEF PlaceInv
<1>1. CASE u = t
  BY <1>1 DEF Becomes
<1>2. CASE u # t
  <2>1. Alike(frame'[u], frame[u]) /\ Placed(frame[u])
    BY <1>2 DEF Becomes, PlaceInv
  <2> QED
    BY <2>1 DEF Alike, Placed
<1> QED
  BY <1>1, <1>2

\* What the calls have, after a step of t.
LEMMA OwnersStep ==
  ASSUME TypeOK, TypeOK', PlaceInv, NEW t \in Threads, NEW f, Becomes(t, f), Placed(f)
  PROVE  /\ Owners' \in [Threads -> SUBSET (Elements \cup Params)]
         /\ Owners'[t] = OwnedBy(f)
         /\ \A u \in Threads : u # t => Owners'[u] = Owners[u]
         /\ OwnedBy(f) = Owned(t) => Owners' = Owners
<1>1. PlaceInv'
  BY PlaceStep
<1>2. Owners' \in [Threads -> SUBSET (Elements \cup Params)]
  <2>1. \A u \in Threads : frame'[u] \in Frames /\ Placed(frame'[u])
    BY <1>1 DEF PlaceInv, Becomes
  <2>2. \A u \in Threads : OwnedBy(frame'[u]) \subseteq Elements \cup Params
    BY <2>1, OwnedByType
  <2>3. Owners' = [u \in Threads |-> OwnedBy(frame'[u])]
    BY DEF Owners, Owned, OwnedBy
  <2> QED
    BY <2>2, <2>3
<1>3. \A u \in Threads : Owners'[u] = OwnedBy(frame'[u]) /\ Owners[u] = OwnedBy(frame[u])
  BY DEF Owners, Owned, OwnedBy
<1>4. Owners'[t] = OwnedBy(f)
  BY <1>3 DEF Becomes
<1>5. ASSUME NEW u \in Threads, u # t PROVE Owners'[u] = Owners[u]
  <2>1. Alike(frame'[u], frame[u])
    BY <1>5 DEF Becomes
  <2> QED
    BY <1>3, <2>1 DEF Alike, OwnedBy
<1>6. OwnedBy(f) = Owned(t) => Owners' = Owners
  <2>1. Owners \in [Threads -> SUBSET (Elements \cup Params)]
    BY OwnersType
  <2>2. Owners[t] = Owned(t)
    BY DEF Owners
  <2> QED
    BY <1>2, <1>4, <1>5, <2>1, <2>2
<1> QED
  BY <1>2, <1>4, <1>5, <1>6

-----------------------------------------------------------------------------
(***************************************************************************)
(* What the frames refer to.                                               *)
(***************************************************************************)

\* The new frame of t refers to what is there, and to nothing that another
\* call has created or is about to attach.
RefersTo(t, f) ==
  /\ f.e # NULL => f.e \in live'
  /\ f.step = "replace" => f.p \in loose' /\ \A u \in Threads : u # t => frame[u].p # f.p
  /\ \A u \in Threads : u # t /\ frame[u].step = "replace" => frame[u].p # f.p
  /\ f.step = "value" => f.p \in loose' \/ f.p \in ToSet(el'[f.e].params)
  /\ f.step = "attach" \/ (f.created /\ f.step # "finish") => el'[f.e].params = << >>
  /\ \A u \in Threads : u # t => f.e \notin Owned(u) /\ frame[u].e \notin OwnedBy(f)

\* What the frames of the others refer to is still there.
Spares(t) ==
  \A u \in Threads : u # t =>
    /\ frame[u].e \in live => frame[u].e \in live'
    /\ frame[u].p \in loose => frame[u].p \in loose'
    /\ frame[u].step = "value" /\ frame[u].p \in ToSet(el[frame[u].e].params) =>
         frame[u].p \in loose' \/ frame[u].p \in ToSet(el'[frame[u].e].params)
    /\ frame[u].e \in Owned(u) => el'[frame[u].e].params = el[frame[u].e].params

\* No frame gets a dangling pointer, if t spares what the others refer to.
LEMMA RefStep ==
  ASSUME PlaceInv, RefInv, NEW t \in Threads, NEW f, Becomes(t, f), RefersTo(t, f), Spares(t)
  PROVE  RefInv'
<1>1. frame'[t] = f /\ \A u \in Threads : u # t => Alike(frame'[u], frame[u])
  BY DEF Becomes
<1>2. ASSUME NEW u \in Threads
      PROVE  /\ frame'[u].e # NULL => frame'[u].e \in live'
             /\ frame'[u].step = "replace" => frame'[u].p \in loose'
             /\ frame'[u].step = "value" => frame'[u].p \in loose' \/ frame'[u].p \in ToSet(el'[frame'[u].e].params)
             /\ frame'[u].step = "attach" \/ (frame'[u].created /\ frame'[u].step # "finish") =>
                  el'[frame'[u].e].params = << >>
  <2>1. CASE u = t
    BY <1>1, <2>1 DEF RefersTo
  <2>2. CASE u # t
    <3>1. Alike(frame'[u], frame[u])
      BY <1>1, <2>2
    <3>2. frame[u].e # NULL => frame[u].e \in live'
      BY <2>2 DEF RefInv, Spares
    <3>3. frame[u].step = "replace" => frame[u].p \in loose'
      BY <2>2 DEF RefInv, Spares
    <3>4. frame[u].step = "value" => frame[u].p \in loose' \/ frame[u].p \in ToSet(el'[frame[u].e].params)
      BY <2>2 DEF RefInv, Spares
    <3>5. frame[u].step = "attach" \/ (frame[u].created /\ frame[u].step # "finish") => el'[frame[u].e].params = << >>
      BY <2>2 DEF RefInv, Spares, Owned
    <3> QED
      BY <3>1, <3>2, <3>3, <3>4, <3>5 DEF Alike
  <2> QED
    BY <2>1, <2>2
<1>3. ASSUME NEW u \in Threads, NEW w \in Threads, frame'[u].step = "replace", frame'[w].p = frame'[u].p
      PROVE  u = w
  BY <1>1, <1>3 DEF RefersTo, RefInv, Alike
<1>4. ASSUME NEW u \in Threads, NEW w \in Threads, frame'[w].e \in OwnedBy(frame'[u])
      PROVE  u = w
  <2>1. \A x \in Threads : x # t => OwnedBy(frame'[x]) = Owned(x) /\ frame'[x].e = frame[x].e
    BY <1>1 DEF Owned, OwnedBy, Alike
  <2>2. \A x \in Threads : x # t => f.e \notin Owned(x) /\ frame[x].e \notin OwnedBy(f)
    BY DEF RefersTo
  <2>3. \A x, y \in Threads : frame[y].e \in Owned(x) => x = y
    BY DEF RefInv
  <2> QED
    BY <1>1, <1>4, <2>1, <2>2, <2>3
<1>5. \A u \in Threads : Owned(u)' = OwnedBy(frame'[u])
  BY DEF Owned, OwnedBy
<1> QED
  BY <1>2, <1>3, <1>4, <1>5 DEF RefInv

BaseInv == TypeOK /\ TreeInv /\ PlaceInv /\ RefInv

\* The invariant is kept if the tree, the frames and the pointers in them are.
LEMMA BaseStep ==
  ASSUME BaseInv, TypeOK', NEW t \in Threads, NEW f, Becomes(t, f), Placed(f), RefersTo(t, f), Spares(t),
         Tree(entry', Arrays', live', loose', Owners')
  PROVE  BaseInv'
<1>1. PlaceInv'
  BY PlaceStep DEF BaseInv
<1>2. RefInv'
  BY RefStep DEF BaseInv
<1> QED
  BY <1>1, <1>2 DEF BaseInv, TreeInv

\* Frames that are always fine.
LEMMA RefersToNothing ==
  ASSUME TypeOK, PlaceInv, NEW t \in Threads, NEW f, f.e = NULL, f.p = NULL, Placed(f)
  PROVE  RefersTo(t, f)
<1>1. OwnedBy(f) = {}
  BY DEF OwnedBy, Placed
<1>2. \A u \in Threads : NULL \notin Owned(u)
  BY OwnersType, ObjectsAssumption DEF Owners
<1>3. \A u \in Threads : frame[u].step = "replace" => frame[u].p # NULL
  BY DEF PlaceInv, Placed
<1>4. f.step \notin {"replace", "value", "attach"} /\ ~f.created
  BY DEF Placed
<1> QED
  BY <1>1, <1>2, <1>3, <1>4 DEF RefersTo

-----------------------------------------------------------------------------
(***************************************************************************)
(* Steps that move nothing.                                                *)
(***************************************************************************)

\* The types of the state, one by one.
LEMMA TypeFacts ==
  ASSUME TypeOK
  PROVE  /\ entry \in Seq(Elements) /\ DOMAIN entry = 1 .. Len(entry) /\ Len(entry) \in Nat
         /\ \A i \in DOMAIN entry : entry[i] \in Elements
         /\ \A e \in Elements : /\ el[e].name \in Names /\ el[e].params \in Seq(Params)
                                /\ \A i \in DOMAIN el[e].params : el[e].params[i] \in Params
         /\ \A p \in Params : par[p].name \in Names /\ par[p].value \in Values
         /\ live \subseteq Elements \cup Params /\ loose \subseteq live
         /\ \A t \in Threads : frame[t] \in Frames
         /\ seen.renamed \in BOOLEAN /\ seen.added \in BOOLEAN /\ seen.failed \subseteq Threads
         /\ calls \in Nat
<1>1. \A e \in Elements : el[e].name \in Names /\ el[e].params \in Seq(Params)
  BY DEF TypeOK, stumpless_element
<1>2. \A e \in Elements : \A i \in DOMAIN el[e].params : el[e].params[i] \in Params
  BY <1>1
<1>3. \A p \in Params : par[p].name \in Names /\ par[p].value \in Values
  BY DEF TypeOK, stumpless_param
<1>4. entry \in Seq(Elements) /\ DOMAIN entry = 1 .. Len(entry) /\ Len(entry) \in Nat
  BY DEF TypeOK
<1>5. \A i \in DOMAIN entry : entry[i] \in Elements
  BY <1>4
<1> QED
  BY <1>1, <1>2, <1>3, <1>4, <1>5, ObjectsAssumption DEF TypeOK

\* The frame of a thread that begins a call.
LEMMA CallBegins ==
  ASSUME BaseInv, NEW t \in Threads, Calling(t)
  PROVE  /\ frame[t] \in Frames /\ frame[t].step = "idle" /\ Placed(frame[t])
         /\ frame[t].e = NULL /\ frame[t].p = NULL /\ ~frame[t].locked /\ ~frame[t].created
         /\ OwnedBy(frame[t]) = {} /\ Owned(t) = {} /\ calls' \in 0 .. MaxCalls
<1>1. frame[t] \in Frames /\ frame[t].step = "idle" /\ Placed(frame[t])
  BY DEF BaseInv, TypeOK, PlaceInv, Calling
<1>2. calls' \in 0 .. MaxCalls
  BY ObjectsAssumption DEF BaseInv, TypeOK, Calling
<1>3. frame[t].e = NULL /\ frame[t].p = NULL /\ ~frame[t].locked /\ ~frame[t].created
  BY <1>1 DEF Placed
<1> QED
  BY <1>1, <1>2, <1>3, OwnedIs DEF OwnedBy

\* A step that moves no object.
LEMMA Settled ==
  ASSUME BaseInv, TypeOK', NEW t \in Threads, NEW f, Becomes(t, f), Placed(f), RefersTo(t, f),
         entry' = entry, live' = live, loose' = loose,
         \A e \in Elements : el'[e].params = el[e].params,
         OwnedBy(f) = Owned(t)
  PROVE  BaseInv'
<1>1. Spares(t)
  <2> SUFFICES ASSUME NEW u \in Threads
               PROVE  /\ frame[u].step = "value" /\ frame[u].p \in ToSet(el[frame[u].e].params) =>
                           frame[u].p \in ToSet(el'[frame[u].e].params)
                      /\ frame[u].e \in Owned(u) => el'[frame[u].e].params = el[frame[u].e].params
    BY DEF Spares
  <2>1. frame[u] \in Frames /\ Placed(frame[u])
    BY DEF BaseInv, TypeOK, PlaceInv
  <2>2. frame[u].e # NULL => frame[u].e \in Elements
    BY <2>1, FrameFields
  <2>3. frame[u].step = "value" => frame[u].e # NULL
    BY <2>1 DEF Placed
  <2>4. frame[u].e \in Owned(u) => frame[u].e # NULL
    BY <2>1, OwnedIs, OwnedByType, ObjectsAssumption
  <2> QED
    BY <2>2, <2>3, <2>4
<1>2. Arrays' = Arrays
  BY DEF Arrays
<1>3. Owners' = Owners
  BY OwnersStep DEF BaseInv
<1>4. Tree(entry', Arrays', live', loose', Owners')
  BY <1>2, <1>3 DEF BaseInv, TreeInv
<1> QED
  BY <1>1, <1>4, BaseStep

\* The same for a call that returns or refers to no object.
LEMMA SettledIdle ==
  ASSUME BaseInv, TypeOK', NEW t \in Threads, NEW f, Becomes(t, f), Placed(f),
         f.e = NULL, f.p = NULL, Owned(t) = {},
         entry' = entry, live' = live, loose' = loose,
         \A e \in Elements : el'[e].params = el[e].params
  PROVE  BaseInv'
<1>1. RefersTo(t, f)
  BY RefersToNothing DEF BaseInv
<1>2. OwnedBy(f) = {}
  BY DEF OwnedBy, Placed
<1> QED
  BY <1>1, <1>2, Settled

\* stumpless_set_element_name moves no object.
LEMMA SetElementNameBase ==
  ASSUME BaseInv, NEW t \in Threads, NEW e \in Elements, NEW n \in Names, stumpless_set_element_name(t, e, n)
  PROVE  BaseInv'
<1> USE DEF stumpless_set_element_name
<1>1. TypeOK /\ Owned(t) = {} /\ calls' \in 0 .. MaxCalls
  BY CallBegins DEF BaseInv
<1>2. Becomes(t, Idle)
  BY <1>1, ChangeBecomes, IdleFrame
<1>3. el' \in [Elements -> stumpless_element] /\ \A f \in Elements : el'[f].params = el[f].params
  BY <1>1 DEF TypeOK, stumpless_element
<1>4. seen' \in [renamed : BOOLEAN, added : BOOLEAN, failed : SUBSET Threads]
  BY <1>1 DEF TypeOK
<1>5. TypeOK'
  BY <1>1, <1>2, <1>3, <1>4 DEF TypeOK, Becomes
<1> QED
  BY <1>1, <1>2, <1>3, <1>5, IdleFrame, SettledIdle

\* Neither does stumpless_set_param_name.
LEMMA SetParamNameBase ==
  ASSUME BaseInv, NEW t \in Threads, NEW p \in Params, NEW n \in Names, stumpless_set_param_name(t, p, n)
  PROVE  BaseInv'
<1> USE DEF stumpless_set_param_name
<1>1. TypeOK /\ Owned(t) = {} /\ calls' \in 0 .. MaxCalls
  BY CallBegins DEF BaseInv
<1>2. Becomes(t, Idle)
  BY <1>1, ChangeBecomes, IdleFrame
<1>3. par' \in [Params -> stumpless_param]
  BY <1>1 DEF TypeOK, stumpless_param
<1>4. seen' \in [renamed : BOOLEAN, added : BOOLEAN, failed : SUBSET Threads]
  BY <1>1 DEF TypeOK
<1>5. TypeOK'
  BY <1>1, <1>2, <1>3, <1>4 DEF TypeOK, Becomes
<1> QED
  BY <1>1, <1>2, <1>5, IdleFrame, SettledIdle

\* The calls that begin by looking up an object.
LEMMA BeginBase ==
  ASSUME BaseInv, NEW t \in Threads, Calling(t), NEW f \in Frames, Step(t, f), Placed(f), ~f.created,
         f.step \in {"replace", "value_at", "look", "make"},
         f.e \in live, \A u \in Threads : f.e \notin Owned(u),
         f.step = "replace" => Usable(f.p),
         UNCHANGED << entry, el, par, live, loose >>,
         holder' \in [Elements \cup Params \cup {Entry} -> Threads \cup {NULL}],
         seen' \in [renamed : BOOLEAN, added : BOOLEAN, failed : SUBSET Threads]
  PROVE  BaseInv'
<1>1. TypeOK /\ Owned(t) = {} /\ calls' \in 0 .. MaxCalls
  BY CallBegins DEF BaseInv
<1>2. Becomes(t, f)
  BY <1>1, StepBecomes
<1>3. TypeOK'
  BY <1>1, <1>2 DEF TypeOK, Becomes
<1>4. OwnedBy(f) = {}
  BY DEF OwnedBy
<1>5. RefersTo(t, f)
  <2>1. f.step = "replace" => f.p \in loose' /\ \A u \in Threads : u # t => frame[u].p # f.p
    BY DEF Usable
  <2>2. f.step # "replace" => f.p = NULL
    BY DEF Placed
  <2>3. \A u \in Threads : frame[u].step = "replace" => frame[u].p # NULL
    BY DEF BaseInv, PlaceInv, Placed
  <2> QED
    BY <1>4, <2>1, <2>2, <2>3 DEF RefersTo
<1> QED
  BY <1>1, <1>2, <1>3, <1>4, <1>5, Settled

\* The frames these calls begin with.
Begun(f, e) ==
  /\ f \in Frames /\ Placed(f) /\ f.e = e /\ ~f.created /\ ~f.locked /\ f.copy = << >> /\ ~f.disturbed

SetParamFrame(e, p, i) == [Idle EXCEPT !.step = "replace", !.e = e, !.p = p, !.i = i]

SetValueFrame(e, v, i) == [Idle EXCEPT !.step = "value_at", !.e = e, !.v = v, !.i = i]

ByNameFrame(e, n, v, step) == [Idle EXCEPT !.step = step, !.e = e, !.n = n, !.v = v]

\* The frame with which stumpless_set_param begins.
LEMMA SetParamFrameIs ==
  ASSUME NEW e \in Elements, NEW p \in Params, NEW i \in 1..2
  PROVE  Begun(SetParamFrame(e, p, i), e) /\ SetParamFrame(e, p, i).step = "replace" /\ SetParamFrame(e, p, i).p = p
<1> DEFINE f == SetParamFrame(e, p, i)
<1>0. /\ Idle \in Frames /\ Idle.p = NULL /\ ~Idle.created /\ ~Idle.locked /\ Idle.copy = << >> /\ ~Idle.disturbed
      /\ e # NULL /\ p # NULL /\ i \in Nat
  BY IdleFrame, ObjectsAssumption
<1>1. /\ f \in Frames /\ f.e = e /\ f.p = p /\ ~f.created /\ ~f.locked /\ f.copy = << >> /\ ~f.disturbed
      /\ f.step = "replace"
  BY <1>0 DEF Frames, Steps, SetParamFrame
<1> HIDE DEF f
<1>2. Placed(f)
  BY <1>0, <1>1 DEF Placed
<1>3. Begun(f, e)
  BY <1>1, <1>2 DEF Begun
<1> QED
  BY <1>1, <1>3 DEF f

\* The frame with which stumpless_set_param_value_by_index begins.
LEMMA SetValueFrameIs ==
  ASSUME NEW e \in Elements, NEW v \in Values, NEW i \in 1..2
  PROVE  Begun(SetValueFrame(e, v, i), e) /\ SetValueFrame(e, v, i).step = "value_at"
<1> DEFINE f == SetValueFrame(e, v, i)
<1>0. /\ Idle \in Frames /\ Idle.p = NULL /\ ~Idle.created /\ ~Idle.locked /\ Idle.copy = << >> /\ ~Idle.disturbed
      /\ e # NULL /\ i \in Nat
  BY IdleFrame, ObjectsAssumption
<1>1. /\ f \in Frames /\ f.e = e /\ f.p = NULL /\ ~f.created /\ ~f.locked /\ f.copy = << >> /\ ~f.disturbed
      /\ f.step = "value_at" /\ f.v = v
  BY <1>0 DEF Frames, Steps, SetValueFrame
<1> HIDE DEF f
<1>2. Placed(f)
  BY <1>0, <1>1 DEF Placed
<1>3. Begun(f, e)
  BY <1>1, <1>2 DEF Begun
<1> QED
  BY <1>1, <1>3 DEF f

\* The frame with which stumpless_set_param_value_by_name or
\* stumpless_add_new_param begins.
LEMMA ByNameFrameIs ==
  ASSUME NEW e \in Elements, NEW n \in Names, NEW v \in Values, NEW step \in {"look", "make"}
  PROVE  Begun(ByNameFrame(e, n, v, step), e) /\ ByNameFrame(e, n, v, step).step = step /\ ByNameFrame(e, n, v, step).n = n
<1> DEFINE f == ByNameFrame(e, n, v, step)
<1>0. /\ Idle \in Frames /\ Idle.p = NULL /\ ~Idle.created /\ ~Idle.locked /\ Idle.copy = << >> /\ ~Idle.disturbed
      /\ e # NULL
  BY IdleFrame, ObjectsAssumption
<1>1. /\ f \in Frames /\ f.e = e /\ f.p = NULL /\ ~f.created /\ ~f.locked /\ f.copy = << >> /\ ~f.disturbed
      /\ f.step = step /\ f.v = v /\ f.n = n
  BY <1>0 DEF Frames, Steps, ByNameFrame
<1> HIDE DEF f
<1>2. Placed(f)
  BY <1>0, <1>1 DEF Placed
<1>3. Begun(f, e)
  BY <1>1, <1>2 DEF Begun
<1> QED
  BY <1>1, <1>3 DEF f

\* A call for an element that the application has a pointer to begins.
LEMMA CallElementBase ==
  ASSUME BaseInv, NEW t \in Threads, NEW e \in Elements, NEW f, Begun(f, e), CallElement(t, f),
         f.step \in {"replace", "value_at", "look", "make"}, f.step = "replace" => Usable(f.p)
  PROVE  BaseInv'
<1> USE DEF CallElement
<1>1. TypeOK
  BY DEF BaseInv
<1>2. f \in Frames /\ Placed(f) /\ ~f.created
  BY DEF Begun
<1>3. seen' \in [renamed : BOOLEAN, added : BOOLEAN, failed : SUBSET Threads]
  BY <1>1 DEF TypeOK
<1>4. f.e \in live /\ \A u \in Threads : f.e \notin Owned(u)
  BY DEF Known
<1>5. holder' \in [Elements \cup Params \cup {Entry} -> Threads \cup {NULL}]
  BY <1>1 DEF TypeOK
<1> QED
  BY <1>2, <1>3, <1>4, <1>5, BeginBase

ByIndexFrame(i, p, v) ==
  [Idle EXCEPT !.step = IF p = NULL THEN "value_at" ELSE "replace",
               !.e = entry[i], !.p = p, !.i = 1, !.v = v]

\* The frame of a call for an element by its index.
LEMMA ByIndexFrameIs ==
  ASSUME TypeOK, NEW i \in DOMAIN entry, NEW p \in Params \cup {NULL}, NEW v \in Values
  PROVE  /\ ByIndexFrame(i, p, v) \in Frames /\ Placed(ByIndexFrame(i, p, v))
         /\ ByIndexFrame(i, p, v).step = (IF p = NULL THEN "value_at" ELSE "replace")
         /\ ByIndexFrame(i, p, v).e = entry[i] /\ ByIndexFrame(i, p, v).p = p
         /\ ~ByIndexFrame(i, p, v).created /\ ~ByIndexFrame(i, p, v).locked
         /\ ByIndexFrame(i, p, v).copy = << >>
<1> DEFINE f == ByIndexFrame(i, p, v)
<1>1. entry[i] \in Elements /\ entry[i] # NULL
  BY ObjectsAssumption, TypeFacts
<1>2. Idle \in Frames /\ ~Idle.created /\ ~Idle.locked /\ Idle.copy = << >>
  BY IdleFrame
<1>3. /\ f \in Frames /\ f.step = (IF p = NULL THEN "value_at" ELSE "replace")
      /\ f.e = entry[i] /\ f.p = p /\ f.v = v /\ ~f.created /\ ~f.locked /\ f.copy = << >>
  BY <1>1, <1>2 DEF Frames, Steps, ByIndexFrame
<1> HIDE DEF f
<1>4. Placed(f)
  BY <1>1, <1>3 DEF Placed
<1> QED
  BY <1>3, <1>4 DEF f

\* stumpless_set_entry_param_by_index finds an element of the entry.
LEMMA SetByIndexBase ==
  ASSUME BaseInv, NEW t \in Threads, NEW i \in DOMAIN entry, NEW p \in Params \cup {NULL}, NEW v \in Values,
         stumpless_set_entry_param_by_index(t, i, 1, p, v)
  PROVE  BaseInv'
<1> USE DEF stumpless_set_entry_param_by_index
<1> DEFINE f == ByIndexFrame(i, p, v)
<1>1. TypeOK
  BY DEF BaseInv
<1>2. /\ f \in Frames /\ Placed(f) /\ ~f.created /\ f.step \in {"replace", "value_at", "look", "make"}
      /\ f.e = entry[i] /\ f.p = p /\ (f.step = "replace" => p # NULL)
  BY <1>1, ByIndexFrameIs
<1>3. seen' \in [renamed : BOOLEAN, added : BOOLEAN, failed : SUBSET Threads]
  BY <1>1 DEF TypeOK
<1>4. entry[i] \in live /\ \A u \in Threads : entry[i] \notin Owned(u)
  BY <1>1, StateType DEF BaseInv, TreeInv, Tree, Listed
<1>5. holder' \in [Elements \cup Params \cup {Entry} -> Threads \cup {NULL}]
  BY <1>1 DEF TypeOK
<1>6. Step(t, f)
  BY DEF ByIndexFrame
<1> HIDE DEF f
<1> QED
  BY <1>2, <1>3, <1>4, <1>5, <1>6, BeginBase

-----------------------------------------------------------------------------
(***************************************************************************)
(* The sum in ElementStringLength is a number.  What a function defined by *)
(* recursion returns is proved by looking at the least argument at which   *)
(* it would return something else.                                         *)
(***************************************************************************)

\* The partial sums of a function on 1 .. n exist: a least length for which
\* they do not cannot be.
LEMMA PartialSums ==
  ASSUME NEW n \in Nat, NEW w \in [1 .. n -> Nat], NEW m \in 0 .. n
  PROVE  \E g \in [0 .. m -> Nat] : \A i \in 0 .. m : g[i] = IF i = 0 THEN 0 ELSE g[i - 1] + w[i]
<1> DEFINE Good(k) == \E g \in [0 .. k -> Nat] : \A i \in 0 .. k : g[i] = IF i = 0 THEN 0 ELSE g[i - 1] + w[i]
           T == {k \in 0 .. n : ~Good(k)}
<1>1. ASSUME T # {} PROVE FALSE
  <2>1. T \subseteq Nat
    OBVIOUS
  <2>2. PICK k \in T : \A j \in T : k <= j
    BY <1>1, <2>1, Least
  <2>3. k \in 0 .. n /\ ~Good(k)
    OBVIOUS
  <2>4. k # 0
    <3> DEFINE z == [i \in 0 .. 0 |-> 0]
    <3>1. z \in [0 .. 0 -> Nat] /\ \A i \in 0 .. 0 : i = 0 /\ z[i] = 0
      OBVIOUS
    <3> HIDE DEF z
    <3>2. Good(0)
      BY <3>1
    <3> HIDE DEF Good
    <3> QED
      BY <2>3, <3>2
  <2>5. k - 1 \in 0 .. n /\ ~(k <= k - 1)
    BY <2>3, <2>4
  <2>6. Good(k - 1)
    <3> HIDE DEF Good
    <3> QED
      BY <2>2, <2>5
  <2>7. PICK g \in [0 .. k - 1 -> Nat] : \A i \in 0 .. k - 1 : g[i] = IF i = 0 THEN 0 ELSE g[i - 1] + w[i]
    BY <2>6
  <2> DEFINE h == [i \in 0 .. k |-> IF i = k THEN g[k - 1] + w[k] ELSE g[i]]
  <2>8. g[k - 1] \in Nat /\ w[k] \in Nat
    BY <2>3, <2>4
  <2>9. h \in [0 .. k -> Nat]
    BY <2>3, <2>8
  <2>10. ASSUME NEW i \in 0 .. k PROVE h[i] = IF i = 0 THEN 0 ELSE h[i - 1] + w[i]
    <3>1. CASE i = k
      BY <2>3, <2>4, <3>1
    <3>2. CASE i # k
      <4>1. i \in 0 .. k - 1 /\ (i # 0 => i - 1 \in 0 .. k - 1 /\ i - 1 # k)
        BY <2>3, <3>2
      <4>2. h[i] = g[i] /\ (i # 0 => h[i - 1] = g[i - 1])
        BY <2>3, <3>2, <4>1
      <4> QED
        BY <2>7, <4>1, <4>2
    <3> QED
      BY <3>1, <3>2
  <2> HIDE DEF h
  <2>11. Good(k)
    BY <2>9, <2>10
  <2> QED
    BY <2>3, <2>11
<1>2. Good(m)
  <2> HIDE DEF Good
  <2> QED
    BY <1>1
<1> QED
  BY <1>2

\* The sum of a sequence of numbers is a number.
LEMMA TotalIsNatural ==
  ASSUME NEW w \in Seq(Nat)
  PROVE  Total(w) \in Nat
<1> DEFINE n == Len(w)
<1>0. n \in Nat /\ w \in [1 .. n -> Nat]
  OBVIOUS
<1> HIDE DEF n
<1>1. PICK S : S = CHOOSE s : s = [i \in 0 .. n |-> IF i = 0 THEN 0 ELSE s[i - 1] + w[i]]
  OBVIOUS
<1>2. Total(w) = S[n]
  BY <1>1 DEF Total, n
<1>3. PICK g \in [0 .. n -> Nat] : \A i \in 0 .. n : g[i] = IF i = 0 THEN 0 ELSE g[i - 1] + w[i]
  <2>1. n \in 0 .. n
    BY <1>0
  <2> QED
    BY <1>0, <2>1, PartialSums
<1>4. g = [i \in 0 .. n |-> IF i = 0 THEN 0 ELSE g[i - 1] + w[i]]
  BY <1>3
<1>5. S = [i \in 0 .. n |-> IF i = 0 THEN 0 ELSE S[i - 1] + w[i]]
  BY <1>1, <1>4, Zenon
<1>6. \A i \in 0 .. n : S[i] = IF i = 0 THEN 0 ELSE S[i - 1] + w[i]
  BY <1>5
<1> DEFINE T == {k \in 0 .. n : S[k] \notin Nat}
<1>7. ASSUME T # {} PROVE FALSE
  <2>1. PICK k \in T : \A j \in T : k <= j
    <3>1. T \subseteq Nat
      BY <1>0
    <3> HIDE DEF T
    <3> QED
      BY <1>7, <3>1, Least
  <2>2. k \in 0 .. n /\ S[k] \notin Nat
    OBVIOUS
  <2>3. k # 0
    BY <1>6, <2>2
  <2>4. k - 1 \in 0 .. n /\ ~(k <= k - 1) /\ k \in 1 .. n
    BY <1>0, <2>2, <2>3
  <2>5. S[k - 1] \in Nat
    BY <2>1, <2>4
  <2>6. w[k] \in Nat
    BY <1>0, <2>4
  <2>7. S[k] = S[k - 1] + w[k]
    BY <1>6, <2>2, <2>3
  <2> QED
    BY <2>2, <2>5, <2>6, <2>7
<1>8. S[n] \in Nat
  BY <1>0, <1>7
<1> QED
  BY <1>2, <1>8

\* The string of an element has a length.
LEMMA LengthIsNatural ==
  ASSUME TypeOK, NEW e \in Elements
  PROVE  ElementStringLength(e) \in Nat
<1>1. /\ el[e].name \in Names /\ el[e].params \in Seq(Params)
      /\ \A i \in DOMAIN el[e].params : el[e].params[i] \in Params
      /\ \A p \in Params : par[p].name \in Names /\ par[p].value \in Values
  BY TypeFacts
<1>2. NameLength \in [Names -> Nat] /\ Values \subseteq Nat
  BY ObjectsAssumption
<1> DEFINE ps == el[e].params
           w == [i \in DOMAIN ps |-> locked_get_param_string_size(ps[i]) - 1]
<1>3. \A i \in DOMAIN ps : locked_get_param_string_size(ps[i]) - 1 \in Nat
  <2> SUFFICES ASSUME NEW i \in DOMAIN ps PROVE locked_get_param_string_size(ps[i]) - 1 \in Nat
    OBVIOUS
  <2> DEFINE a == NameLength[par[ps[i]].name]
             b == par[ps[i]].value
  <2>1. a \in Nat /\ b \in Nat
    BY <1>1, <1>2
  <2>2. locked_get_param_string_size(ps[i]) = a + b + 4
    BY DEF locked_get_param_string_size
  <2> HIDE DEF a, b
  <2> QED
    BY <2>1, <2>2
<1>4. w \in Seq(Nat)
  BY <1>1, <1>3
<1>5. Total(w) \in Nat
  <2> HIDE DEF w
  <2> QED
    BY <1>4, TotalIsNatural
<1>6. NameLength[el[e].name] \in Nat /\ Len(ps) \in Nat /\ (ps # << >> => Len(ps) > 0)
  BY <1>1, <1>2
<1>7. ElementStringLength(e) = NameLength[el[e].name] + (IF ps = <<>> THEN 0 ELSE 3 + Len(ps) - 1 + Total(w))
  BY DEF ElementStringLength
<1> HIDE DEF w, ps
<1> QED
  BY <1>5, <1>6, <1>7

-----------------------------------------------------------------------------
(***************************************************************************)
(* The steps of calls in progress that move nothing.                       *)
(***************************************************************************)

\* What is known of a call of t that refers to an element.
LEMMA Referring ==
  ASSUME BaseInv, NEW t \in Threads, frame[t].e # NULL
  PROVE  /\ frame[t] \in Frames /\ Placed(frame[t])
         /\ frame[t].e \in Elements /\ frame[t].e \in live
         /\ \A u \in Threads : u # t => frame[t].e \notin Owned(u) /\ frame[u].e \notin Owned(t)
BY FrameFields DEF BaseInv, TypeOK, PlaceInv, RefInv

\* What the call of a thread has created, by its step.
LEMMA InStep ==
  ASSUME BaseInv, NEW t \in Threads
  PROVE  /\ TypeOK /\ frame[t] \in Frames /\ Placed(frame[t])
         /\ frame[t].step = "attach" => Owned(t) = {frame[t].e} /\ frame[t].e # NULL /\ ~frame[t].created
         /\ frame[t].step = "append" /\ frame[t].created => Owned(t) = {frame[t].e, frame[t].p}
         /\ frame[t].step = "append" /\ ~frame[t].created => Owned(t) = {frame[t].p}
         /\ frame[t].step \notin {"attach", "append"} /\ ~frame[t].created => Owned(t) = {}
         /\ frame[t].step # "append" /\ frame[t].created => Owned(t) = {frame[t].e}
<1>1. TypeOK /\ frame[t] \in Frames /\ Placed(frame[t])
  BY DEF BaseInv, TypeOK, PlaceInv
<1> QED
  BY <1>1 DEF Owned, Placed

\* What stumpless_get_param_by_name finds.
LEMMA ParamFound ==
  ASSUME TypeOK, NEW e \in Elements, NEW n
  PROVE  LET p == stumpless_get_param_by_name(e, n) IN
         /\ p = NULL => \A i \in DOMAIN el[e].params : par[el[e].params[i]].name # n
         /\ p # NULL => \E i \in DOMAIN el[e].params : p = el[e].params[i] /\ par[p].name = n
<1> DEFINE I == FOR_EACH_PARAM_WITH_NAME(e, n)
           p == stumpless_get_param_by_name(e, n)
<1>1. \A i : i \in I <=> i \in DOMAIN el[e].params /\ par[el[e].params[i]].name = n
  BY DEF FOR_EACH_PARAM_WITH_NAME
<1>2. p = IF I = {} THEN NULL ELSE el[e].params[Min(I)]
  BY DEF stumpless_get_param_by_name
<1>3. I \subseteq Nat
  <2>1. el[e].params \in Seq(Params)
    BY TypeFacts
  <2>2. DOMAIN el[e].params \subseteq Nat
    BY <2>1
  <2> QED
    BY <1>1, <2>2
<1> HIDE DEF I, p
<1>4. p = NULL => \A i \in DOMAIN el[e].params : par[el[e].params[i]].name # n
  <2>1. I # {} => el[e].params[Min(I)] \in Params
    BY <1>1, <1>3, MinIsLeast, TypeFacts
  <2> QED
    BY <1>1, <1>2, <2>1, ObjectsAssumption
<1>5. p # NULL => \E i \in DOMAIN el[e].params : p = el[e].params[i] /\ par[p].name = n
  <2> HAVE p # NULL
  <2>1. I # {} /\ p = el[e].params[Min(I)]
    BY <1>2
  <2>2. Min(I) \in I
    BY <1>3, <2>1, MinIsLeast, Zenon
  <2> QED
    BY <1>1, <2>1, <2>2
<1> QED
  BY <1>4, <1>5 DEF p

\* stumpless_set_param_value_by_index moves no object.
LEMMA SetValueAtBase ==
  ASSUME BaseInv, NEW t \in Threads, stumpless_set_param_value_by_index(t)
  PROVE  BaseInv'
<1> USE DEF stumpless_set_param_value_by_index
<1>1. TypeOK /\ frame[t] \in Frames /\ Placed(frame[t]) /\ Owned(t) = {}
  BY InStep, Zenon DEF Placed
<1>2. frame[t].e \in Elements /\ frame[t].v \in Values
  BY <1>1, FrameFields, Zenon DEF Placed
<1>3. Becomes(t, Idle)
  BY <1>1, ChangeBecomes, StepBecomes, IdleFrame, Zenon
<1>4. par' \in [Params -> stumpless_param]
  <2>1. par \in [Params -> stumpless_param]
    BY <1>1 DEF TypeOK
  <2>2. CASE frame[t].i \in DOMAIN el[frame[t].e].params
    <3>1. el[frame[t].e].params[frame[t].i] \in Params
      BY <1>1, <1>2, <2>2, TypeFacts, Zenon
    <3> QED
      BY <1>2, <2>1, <2>2, <3>1, Zenon DEF stumpless_param
  <2>3. CASE frame[t].i \notin DOMAIN el[frame[t].e].params
    BY <2>1, <2>3
  <2> QED
    BY <2>2, <2>3, Zenon
<1>5. TypeOK'
  BY <1>1, <1>3, <1>4 DEF TypeOK, Becomes
<1> QED
  BY <1>1, <1>3, <1>5, IdleFrame, SettledIdle, Zenon

\* The lookup of a param by name moves no object, and what it finds is a param
\* of the element.
LEMMA LookUpBase ==
  ASSUME BaseInv, NEW t \in Threads, LookUpParam(t)
  PROVE  BaseInv'
<1> USE DEF LookUpParam
<1>1. TypeOK /\ frame[t] \in Frames /\ Placed(frame[t]) /\ frame[t].step = "look"
  BY InStep
<1>2. frame[t].e \in Elements /\ frame[t].e \in live /\ frame[t].p = NULL /\ frame[t].n \in Names /\ frame[t].v \in Values
  BY <1>1, Referring DEF Placed
<1> DEFINE e == frame[t].e
           p == stumpless_get_param_by_name(e, frame[t].n)
           f == [frame[t] EXCEPT !.step = IF p = NULL THEN "make" ELSE "value", !.p = p]
<1>3. p # NULL => \E i \in DOMAIN el[e].params : p = el[e].params[i]
  BY <1>1, <1>2, ParamFound
<1>4. p # NULL => p \in Params /\ p \notin loose /\ p \in ToSet(el[e].params)
  <2>1. p # NULL => p \in Params /\ p \in ToSet(el[e].params)
    BY <1>1, <1>2, <1>3, TypeFacts DEF ToSet
  <2>2. p # NULL => p \notin loose
    BY <1>1, <1>2, <1>3, StateType DEF BaseInv, TreeInv, Tree, Held
  <2> QED
    BY <2>1, <2>2
<1>5. frame[t].created => el[e].params = << >>
  BY <1>1 DEF BaseInv, RefInv
<1>6. frame[t].created => p = NULL
  <2>1. DOMAIN << >> = {}
    OBVIOUS
  <2> QED
    BY <1>3, <1>5, <2>1
<1>7. Step(t, f)
  OBVIOUS
<1> HIDE DEF p
<1>8. /\ f \in Frames /\ f.step = (IF p = NULL THEN "make" ELSE "value") /\ f.p = p /\ f.e = e
      /\ f.n = frame[t].n /\ f.v = frame[t].v /\ f.created = frame[t].created /\ f.locked = frame[t].locked
  BY <1>1, <1>4 DEF Frames, Steps
<1> HIDE DEF f
<1>9. Placed(f)
  BY <1>1, <1>2, <1>6, <1>8 DEF Placed
<1>10. OwnedBy(f) = Owned(t)
  BY <1>1, <1>8 DEF OwnedBy, Owned
<1>11. Becomes(t, f)
  BY <1>1, <1>7, <1>8, StepBecomes
<1>12. TypeOK'
  BY <1>1, <1>11 DEF TypeOK, Becomes
<1>13. RefersTo(t, f)
  <2>1. \A u \in Threads : frame[u].step = "replace" => frame[u].p \in loose /\ frame[u].p # NULL
    BY DEF BaseInv, RefInv, PlaceInv, Placed
  <2>2. \A u \in Threads : u # t /\ frame[u].step = "replace" => frame[u].p # f.p
    BY <1>4, <1>8, <2>1
  <2>3. \A u \in Threads : u # t => f.e \notin Owned(u) /\ frame[u].e \notin OwnedBy(f)
    BY <1>2, <1>8, <1>10, Referring, ObjectsAssumption
  <2>4. f.step \notin {"replace", "attach"}
    BY <1>8
  <2>5. f.step = "value" => f.p \in ToSet(el'[f.e].params)
    BY <1>4, <1>8
  <2>6. f.created /\ f.step # "finish" => el'[f.e].params = << >>
    BY <1>5, <1>8
  <2> QED
    BY <1>2, <1>8, <2>2, <2>3, <2>4, <2>5, <2>6 DEF RefersTo
<1> QED
  BY <1>10, <1>11, <1>12, <1>13, <1>9, Settled

\* stumpless_set_param_value moves no object.
LEMMA SetValueBase ==
  ASSUME BaseInv, NEW t \in Threads, stumpless_set_param_value(t)
  PROVE  BaseInv'
<1> USE DEF stumpless_set_param_value
<1>1. TypeOK /\ frame[t] \in Frames /\ Placed(frame[t]) /\ frame[t].step = "value"
  BY InStep
<1>2. /\ frame[t].e \in Elements /\ frame[t].e \in live /\ frame[t].p \in Params /\ frame[t].v \in Values
      /\ ~frame[t].created /\ Owned(t) = {}
  BY <1>1, Referring, FrameFields, InStep DEF Placed
<1> DEFINE f == [frame[t] EXCEPT !.step = "finish", !.p = NULL]
<1>3. Change(t, f)
  OBVIOUS
<1>4. /\ f \in Frames /\ f.step = "finish" /\ f.p = NULL /\ f.e = frame[t].e
      /\ ~f.created /\ f.locked = frame[t].locked
  BY <1>1, <1>2 DEF Frames, Steps
<1> HIDE DEF f
<1>5. Placed(f)
  BY <1>1, <1>2, <1>4 DEF Placed
<1>6. OwnedBy(f) = {}
  BY <1>4 DEF OwnedBy
<1>7. Becomes(t, f)
  BY <1>1, <1>3, <1>4, ChangeBecomes
<1>8. par' \in [Params -> stumpless_param]
  BY <1>1, <1>2 DEF TypeOK, stumpless_param
<1>9. TypeOK'
  BY <1>1, <1>7, <1>8 DEF TypeOK, Becomes
<1>10. RefersTo(t, f)
  <2>1. \A u \in Threads : frame[u].step = "replace" => frame[u].p # NULL
    BY DEF BaseInv, PlaceInv, Placed
  <2>2. \A u \in Threads : u # t => f.e \notin Owned(u)
    BY <1>2, <1>4, Referring, ObjectsAssumption
  <2> QED
    BY <1>2, <1>4, <1>6, <2>1, <2>2 DEF RefersTo
<1> QED
  BY <1>2, <1>5, <1>6, <1>7, <1>9, <1>10, Settled

-----------------------------------------------------------------------------
(***************************************************************************)
(* Strings and copies.                                                     *)
(***************************************************************************)

\* f is the frame of a call that makes a string or a copy.
Reading(f) == f \in Frames /\ Placed(f) /\ f.e = NULL /\ f.p = NULL /\ ~f.created

\* The frames of a call that begins to make one, and how they go on.
MeasureFrame == [Idle EXCEPT !.step = "measure", !.locked = TRUE, !.size = FieldsSize, !.i = 1]

CopyFrame == [Idle EXCEPT !.step = "copy", !.locked = TRUE, !.i = 1]

CrashedFrame == [Idle EXCEPT !.step = "crashed"]

Measured(f, size) == [f EXCEPT !.i = f.i + 1, !.size = size]

ToWrite(f, used) == [f EXCEPT !.step = "write", !.i = 1, !.used = used]

Wrote(f, used) == [f EXCEPT !.i = f.i + 1, !.used = used]

Closed(f, used) == [f EXCEPT !.step = "close", !.locked = FALSE, !.used = used]

Copying(f, v) == [f EXCEPT !.i = f.i + 1, !.copy = Append(f.copy, v)]

Copied(f) == [f EXCEPT !.step = "copied", !.locked = FALSE]

\* What these frames have in common.
Reads(f, step, locked) == Reading(f) /\ f.step = step /\ f.locked = locked

\* The frame with which stumpless_entry_to_string begins.
LEMMA MeasureFrameIs ==
         /\ Reads(MeasureFrame, "measure", TRUE)
         /\ MeasureFrame.size = FieldsSize /\ MeasureFrame.i = 1 /\ MeasureFrame.copy = << >>
<1> DEFINE g == MeasureFrame
<1>1. /\ g \in Frames /\ g.e = NULL /\ g.p = NULL /\ g.created = FALSE /\ g.step = "measure" /\ g.locked = TRUE
      /\ g.size = FieldsSize /\ g.i = 1 /\ g.copy = << >>
  <2>1. /\ Idle \in Frames /\ Idle.e = NULL /\ Idle.p = NULL /\ Idle.created = FALSE
        /\ Idle.locked = FALSE /\ Idle.copy = << >> /\ FieldsSize \in Nat
    BY IdleFrame DEF FieldsSize
  <2> QED
    BY <2>1 DEF Frames, Steps, MeasureFrame
<1> HIDE DEF g
<1>2. Placed(g)
  BY <1>1 DEF Placed
<1>3. Reads(g, "measure", TRUE)
  BY <1>1, <1>2 DEF Reads, Reading
<1> QED
  BY <1>1, <1>3 DEF g

\* The frame with which stumpless_copy_entry begins.
LEMMA CopyFrameIs ==
         /\ Reads(CopyFrame, "copy", TRUE)
         /\ CopyFrame.i = 1 /\ CopyFrame.copy = << >>
<1> DEFINE g == CopyFrame
<1>1. /\ g \in Frames /\ g.e = NULL /\ g.p = NULL /\ g.created = FALSE /\ g.step = "copy" /\ g.locked = TRUE
      /\ g.i = 1 /\ g.copy = << >>
  <2>1. /\ Idle \in Frames /\ Idle.e = NULL /\ Idle.p = NULL /\ Idle.created = FALSE
        /\ Idle.locked = FALSE /\ Idle.copy = << >> /\ FieldsSize \in Nat
    BY IdleFrame DEF FieldsSize
  <2> QED
    BY <2>1 DEF Frames, Steps, CopyFrame
<1> HIDE DEF g
<1>2. Placed(g)
  BY <1>1 DEF Placed
<1>3. Reads(g, "copy", TRUE)
  BY <1>1, <1>2 DEF Reads, Reading
<1> QED
  BY <1>1, <1>3 DEF g

\* The frame of a call that used a string it did not get.
LEMMA CrashedFrameIs ==
         /\ Reads(CrashedFrame, "crashed", FALSE)
         /\ CrashedFrame.copy = << >>
<1> DEFINE g == CrashedFrame
<1>1. /\ g \in Frames /\ g.e = NULL /\ g.p = NULL /\ g.created = FALSE /\ g.step = "crashed" /\ g.locked = FALSE
      /\ g.copy = << >>
  <2>1. /\ Idle \in Frames /\ Idle.e = NULL /\ Idle.p = NULL /\ Idle.created = FALSE
        /\ Idle.locked = FALSE /\ Idle.copy = << >> /\ FieldsSize \in Nat
    BY IdleFrame DEF FieldsSize
  <2> QED
    BY <2>1 DEF Frames, Steps, CrashedFrame
<1> HIDE DEF g
<1>2. Placed(g)
  BY <1>1 DEF Placed
<1>3. Reads(g, "crashed", FALSE)
  BY <1>1, <1>2 DEF Reads, Reading
<1> QED
  BY <1>1, <1>3 DEF g

\* An element is counted.
LEMMA MeasuredIs ==
  ASSUME NEW f, Reads(f, "measure", TRUE), NEW size \in Nat
  PROVE  /\ Reads(Measured(f, size), "measure", TRUE)
         /\ Measured(f, size).i = f.i + 1 /\ Measured(f, size).size = size
         /\ Measured(f, size).copy = f.copy /\ Measured(f, size).disturbed = f.disturbed
<1> DEFINE g == Measured(f, size)
<1>1. /\ g \in Frames /\ g.e = NULL /\ g.p = NULL /\ g.created = FALSE /\ g.step = "measure" /\ g.locked = TRUE
      /\ g.i = f.i + 1 /\ g.size = size
      /\ g.copy = f.copy /\ g.disturbed = f.disturbed
  <2>1. f \in Frames /\ f.e = NULL /\ f.p = NULL /\ f.created = FALSE /\ f.i + 1 \in Nat
    BY FrameFields DEF Reading, Reads
  <2>2. f.locked = TRUE /\ f.step = "measure"
    BY DEF Reads
  <2> QED
    BY <2>1, <2>2 DEF Frames, Steps, Measured
<1> HIDE DEF g
<1>2. Placed(g)
  BY <1>1 DEF Placed
<1>3. Reads(g, "measure", TRUE)
  BY <1>1, <1>2 DEF Reads, Reading
<1> QED
  BY <1>1, <1>3 DEF g

\* The second pass begins.
LEMMA ToWriteIs ==
  ASSUME NEW f, Reads(f, "measure", TRUE), NEW used \in Nat
  PROVE  /\ Reads(ToWrite(f, used), "write", TRUE)
         /\ ToWrite(f, used).i = 1 /\ ToWrite(f, used).size = f.size /\ ToWrite(f, used).used = used
         /\ ToWrite(f, used).copy = f.copy /\ ToWrite(f, used).disturbed = f.disturbed
<1> DEFINE g == ToWrite(f, used)
<1>1. /\ g \in Frames /\ g.e = NULL /\ g.p = NULL /\ g.created = FALSE /\ g.step = "write" /\ g.locked = TRUE
      /\ g.i = 1 /\ g.size = f.size /\ g.used = used
      /\ g.copy = f.copy /\ g.disturbed = f.disturbed
  <2>1. f \in Frames /\ f.e = NULL /\ f.p = NULL /\ f.created = FALSE /\ f.i + 1 \in Nat
    BY FrameFields DEF Reading, Reads
  <2>2. f.locked = TRUE /\ f.step = "measure"
    BY DEF Reads
  <2> QED
    BY <2>1, <2>2 DEF Frames, Steps, ToWrite
<1> HIDE DEF g
<1>2. Placed(g)
  BY <1>1 DEF Placed
<1>3. Reads(g, "write", TRUE)
  BY <1>1, <1>2 DEF Reads, Reading
<1> QED
  BY <1>1, <1>3 DEF g

\* An element is written.
LEMMA WroteIs ==
  ASSUME NEW f, Reads(f, "write", TRUE), NEW used \in Nat
  PROVE  /\ Reads(Wrote(f, used), "write", TRUE)
         /\ Wrote(f, used).i = f.i + 1 /\ Wrote(f, used).size = f.size /\ Wrote(f, used).used = used
         /\ Wrote(f, used).copy = f.copy /\ Wrote(f, used).disturbed = f.disturbed
<1> DEFINE g == Wrote(f, used)
<1>1. /\ g \in Frames /\ g.e = NULL /\ g.p = NULL /\ g.created = FALSE /\ g.step = "write" /\ g.locked = TRUE
      /\ g.i = f.i + 1 /\ g.size = f.size /\ g.used = used
      /\ g.copy = f.copy /\ g.disturbed = f.disturbed
  <2>1. f \in Frames /\ f.e = NULL /\ f.p = NULL /\ f.created = FALSE /\ f.i + 1 \in Nat
    BY FrameFields DEF Reading, Reads
  <2>2. f.locked = TRUE /\ f.step = "write"
    BY DEF Reads
  <2> QED
    BY <2>1, <2>2 DEF Frames, Steps, Wrote
<1> HIDE DEF g
<1>2. Placed(g)
  BY <1>1 DEF Placed
<1>3. Reads(g, "write", TRUE)
  BY <1>1, <1>2 DEF Reads, Reading
<1> QED
  BY <1>1, <1>3 DEF g

\* The string is complete.
LEMMA ClosedIs ==
  ASSUME NEW f, Reads(f, "write", TRUE), NEW used \in Nat
  PROVE  /\ Reads(Closed(f, used), "close", FALSE)
         /\ Closed(f, used).size = f.size /\ Closed(f, used).used = used
         /\ Closed(f, used).copy = f.copy /\ Closed(f, used).disturbed = f.disturbed
<1> DEFINE g == Closed(f, used)
<1>1. /\ g \in Frames /\ g.e = NULL /\ g.p = NULL /\ g.created = FALSE /\ g.step = "close" /\ g.locked = FALSE
      /\ g.size = f.size /\ g.used = used
      /\ g.copy = f.copy /\ g.disturbed = f.disturbed
  <2>1. f \in Frames /\ f.e = NULL /\ f.p = NULL /\ f.created = FALSE /\ f.i + 1 \in Nat
    BY FrameFields DEF Reading, Reads
  <2>2. f.locked = TRUE /\ f.step = "write"
    BY DEF Reads
  <2> QED
    BY <2>1, <2>2 DEF Frames, Steps, Closed
<1> HIDE DEF g
<1>2. Placed(g)
  BY <1>1 DEF Placed
<1>3. Reads(g, "close", FALSE)
  BY <1>1, <1>2 DEF Reads, Reading
<1> QED
  BY <1>1, <1>3 DEF g

\* An element is copied.
LEMMA CopyingIs ==
  ASSUME NEW f, Reads(f, "copy", TRUE), NEW v \in [name : Names, params : Seq(stumpless_param)]
  PROVE  /\ Reads(Copying(f, v), "copy", TRUE)
         /\ Copying(f, v).i = f.i + 1 /\ Copying(f, v).copy = Append(f.copy, v)
         /\ Copying(f, v).disturbed = f.disturbed
<1> DEFINE g == Copying(f, v)
<1>1. /\ g \in Frames /\ g.e = NULL /\ g.p = NULL /\ g.created = FALSE /\ g.step = "copy" /\ g.locked = TRUE
      /\ g.i = f.i + 1 /\ g.copy = Append(f.copy, v)
      /\ g.disturbed = f.disturbed
  <2> DEFINE V == [name : Names, params : Seq(stumpless_param)]
  <2>0. f \in Frames /\ f.e = NULL /\ f.p = NULL /\ f.created = FALSE /\ f.i + 1 \in Nat /\ f.copy \in Seq(V)
    <3>1. f \in Frames /\ f.e = NULL /\ f.p = NULL /\ f.created = FALSE
      BY DEF Reading, Reads
    <3>2. f.i \in Nat /\ f.copy \in Seq([name : Names, params : Seq(stumpless_param)])
      BY <3>1, FrameFields
    <3> HIDE DEF V
    <3>3. f.copy \in Seq(V)
      BY <3>2 DEF V
    <3> QED
      BY <3>1, <3>2, <3>3
  <2>1. Append(f.copy, v) \in Seq(V)
    <3>1. v \in V
      OBVIOUS
    <3> HIDE DEF V
    <3> QED
      BY <2>0, <3>1
  <2>2. f.locked = TRUE /\ f.step = "copy"
    BY DEF Reads
  <2> QED
    BY <2>0, <2>1, <2>2 DEF Frames, Steps, Copying
<1> HIDE DEF g
<1>2. Placed(g)
  BY <1>1 DEF Placed
<1>3. Reads(g, "copy", TRUE)
  BY <1>1, <1>2 DEF Reads, Reading
<1> QED
  BY <1>1, <1>3 DEF g

\* The copy is complete.
LEMMA CopiedIs ==
  ASSUME NEW f, Reads(f, "copy", TRUE)
  PROVE  /\ Reads(Copied(f), "copied", FALSE)
         /\ Copied(f).copy = f.copy /\ Copied(f).disturbed = f.disturbed
<1> DEFINE g == Copied(f)
<1>1. /\ g \in Frames /\ g.e = NULL /\ g.p = NULL /\ g.created = FALSE /\ g.step = "copied" /\ g.locked = FALSE
      /\ g.copy = f.copy /\ g.disturbed = f.disturbed
  <2>1. f \in Frames /\ f.e = NULL /\ f.p = NULL /\ f.created = FALSE /\ f.i + 1 \in Nat
    BY FrameFields DEF Reading, Reads
  <2>2. f.locked = TRUE /\ f.step = "copy"
    BY DEF Reads
  <2> QED
    BY <2>1, <2>2 DEF Frames, Steps, Copied
<1> HIDE DEF g
<1>2. Placed(g)
  BY <1>1 DEF Placed
<1>3. Reads(g, "copied", FALSE)
  BY <1>1, <1>2 DEF Reads, Reading
<1> QED
  BY <1>1, <1>3 DEF g

\* A step that changes no object.
ReadingStep(t, f) ==
  /\ Reading(f) /\ Step(t, f)
  /\ UNCHANGED << entry, el, par, live, loose >>
  /\ holder' \in [Elements \cup Params \cup {Entry} -> Threads \cup {NULL}]
  /\ seen' \in [renamed : BOOLEAN, added : BOOLEAN, failed : SUBSET Threads]
  /\ calls' \in 0 .. MaxCalls

\* A call that only reads the tree keeps the invariant.
LEMMA ReadingBase ==
  ASSUME BaseInv, NEW t \in Threads, Owned(t) = {}, NEW f, ReadingStep(t, f)
  PROVE  BaseInv'
<1>1. TypeOK /\ f \in Frames /\ Placed(f) /\ f.e = NULL /\ f.p = NULL /\ Step(t, f)
  BY DEF BaseInv, ReadingStep, Reading
<1>2. Becomes(t, f)
  BY <1>1, StepBecomes
<1>3. TypeOK'
  BY <1>1, <1>2 DEF TypeOK, Becomes, ReadingStep
<1>4. entry' = entry /\ live' = live /\ loose' = loose /\ el' = el
  BY DEF ReadingStep
<1> QED
  BY <1>1, <1>2, <1>3, <1>4, SettledIdle

\* A call that returns reads nothing.
LEMMA IdleReads == Reads(Idle, "idle", FALSE)
BY IdleFrame DEF Reads, Reading

\* Which mutexes stumpless_element_to_string leaves locked.
Keeps(t) ==
  \/ holder' = holder /\ seen' = seen
  \/ /\ seen'.failed = seen.failed \cup {t} /\ seen'.renamed = seen.renamed /\ seen'.added = seen.added
     /\ holder'[Entry] = holder[Entry]
     /\ \A o \in Elements \cup Params : holder'[o] \in {holder[o], t}

\* stumpless_element_to_string changes mutexes only.
LEMMA StringOfElement ==
  ASSUME TypeOK, NEW t \in Threads, NEW e \in Elements, NEW ok \in BOOLEAN, stumpless_element_to_string(t, e, ok)
  PROVE  /\ holder' \in [Elements \cup Params \cup {Entry} -> Threads \cup {NULL}]
         /\ seen' \in [renamed : BOOLEAN, added : BOOLEAN, failed : SUBSET Threads]
         /\ Keeps(t)
         /\ ~ok => t \in seen'.failed
<1>1. /\ holder \in [Elements \cup Params \cup {Entry} -> Threads \cup {NULL}]
      /\ seen \in [renamed : BOOLEAN, added : BOOLEAN, failed : SUBSET Threads]
  BY DEF TypeOK
<1>2. ParamsOf(e) \subseteq Params /\ Entry \notin ParamsOf(e)
  BY TypeFacts, ObjectsAssumption DEF ParamsOf, ToSet
<1>3. CASE ok
  BY <1>1, <1>3 DEF stumpless_element_to_string, Keeps
<1>4. CASE ~ok
  <2>1. /\ holder' = [o \in DOMAIN holder |-> IF o \in ParamsOf(e) THEN t ELSE holder[o]]
        /\ seen' = [seen EXCEPT !.failed = @ \cup {t}]
    BY <1>4 DEF stumpless_element_to_string
  <2>2. /\ holder' \in [Elements \cup Params \cup {Entry} -> Threads \cup {NULL}]
        /\ holder'[Entry] = holder[Entry]
        /\ \A o \in Elements \cup Params : holder'[o] \in {holder[o], t}
    BY <1>1, <1>2, <2>1
  <2>3. /\ seen' \in [renamed : BOOLEAN, added : BOOLEAN, failed : SUBSET Threads]
        /\ seen'.failed = seen.failed \cup {t} /\ seen'.renamed = seen.renamed /\ seen'.added = seen.added
    BY <1>1, <2>1
  <2> QED
    BY <2>2, <2>3 DEF Keeps
<1> QED
  BY <1>3, <1>4

\* A call in one of these steps.
LEMMA ReadingCall ==
  ASSUME BaseInv, NEW t \in Threads, frame[t].step \in {"measure", "write", "close", "copy", "copied"}
  PROVE  /\ Reads(frame[t], frame[t].step, frame[t].step \in {"measure", "write", "copy"})
         /\ Owned(t) = {} /\ TypeOK /\ calls \in 0 .. MaxCalls
         /\ holder \in [Elements \cup Params \cup {Entry} -> Threads \cup {NULL}]
         /\ seen \in [renamed : BOOLEAN, added : BOOLEAN, failed : SUBSET Threads]
         /\ frame[t].i \in Nat /\ frame[t].size \in Nat /\ frame[t].used \in Nat
<1>1. TypeOK /\ frame[t] \in Frames /\ Placed(frame[t])
  BY InStep
<1>2. /\ frame[t].e = NULL /\ frame[t].p = NULL /\ frame[t].created = FALSE
      /\ frame[t].locked = (frame[t].step \in {"measure", "write", "copy"})
  BY <1>1, FrameFields DEF Placed
<1>3. Owned(t) = {}
  BY <1>1, <1>2, InStep
<1> QED
  BY <1>1, <1>2, <1>3, FrameFields DEF Reads, Reading, TypeOK

\* stumpless_element_to_string only reads the tree, also when it fails.
LEMMA ToStringFailsDoes ==
  ASSUME BaseInv, NEW t \in Threads, NEW e \in Elements, ElementToStringFails(t, e)
  PROVE  ReadingStep(t, frame[t]) /\ Owned(t) = {} /\ Keeps(t) /\ frame' = frame
<1> USE DEF ElementToStringFails
<1>1. /\ TypeOK /\ Owned(t) = {} /\ calls' \in 0 .. MaxCalls /\ frame[t] \in Frames /\ Placed(frame[t])
      /\ frame[t].e = NULL /\ frame[t].p = NULL /\ ~frame[t].created
  BY CallBegins DEF BaseInv
<1>2. frame' = frame /\ Step(t, frame[t])
  BY <1>1 DEF Step, TypeOK
<1> QED
  BY <1>1, <1>2, StringOfElement DEF ReadingStep, Reading

\* So does stumpless_entry_to_string when it begins.
LEMMA EntryToStringDoes ==
  ASSUME BaseInv, NEW t \in Threads, stumpless_entry_to_string(t)
  PROVE  ReadingStep(t, MeasureFrame) /\ Owned(t) = {}
<1> USE DEF stumpless_entry_to_string
<1>1. TypeOK /\ Owned(t) = {} /\ calls' \in 0 .. MaxCalls
  BY CallBegins DEF BaseInv
<1>2. Step(t, MeasureFrame)
  BY DEF MeasureFrame
<1>3. /\ holder' \in [Elements \cup Params \cup {Entry} -> Threads \cup {NULL}]
      /\ seen' \in [renamed : BOOLEAN, added : BOOLEAN, failed : SUBSET Threads]
  BY <1>1 DEF TypeOK
<1>4. Reading(MeasureFrame)
  BY MeasureFrameIs DEF Reads
<1> QED
  BY <1>1, <1>2, <1>3, <1>4 DEF ReadingStep

\* And stumpless_copy_entry.
LEMMA CopyEntryDoes ==
  ASSUME BaseInv, NEW t \in Threads, stumpless_copy_entry(t)
  PROVE  ReadingStep(t, CopyFrame) /\ Owned(t) = {}
<1> USE DEF stumpless_copy_entry
<1>1. TypeOK /\ Owned(t) = {} /\ calls' \in 0 .. MaxCalls
  BY CallBegins DEF BaseInv
<1>2. Step(t, CopyFrame)
  BY DEF CopyFrame
<1>3. /\ holder' \in [Elements \cup Params \cup {Entry} -> Threads \cup {NULL}]
      /\ seen' \in [renamed : BOOLEAN, added : BOOLEAN, failed : SUBSET Threads]
  BY <1>1 DEF TypeOK
<1>4. Reading(CopyFrame)
  BY CopyFrameIs DEF Reads
<1> QED
  BY <1>1, <1>2, <1>3, <1>4 DEF ReadingStep

\* The first pass, for one element: counted, unless its string could not be
\* made.
LEMMA MeasureDoes ==
  ASSUME BaseInv, NEW t \in Threads, Measure(t)
  PROVE  /\ Reads(frame[t], "measure", TRUE) /\ Owned(t) = {} /\ Keeps(t) /\ frame[t].i \in DOMAIN entry
         /\ \E size \in Nat :
              /\ ReadingStep(t, Measured(frame[t], size))
              /\ t \notin seen'.failed => size = frame[t].size + (ElementStringLength(entry[frame[t].i]) + 1)
<1> USE DEF Measure
<1> DEFINE e == entry[frame[t].i]
<1>1. /\ Reads(frame[t], "measure", TRUE) /\ Owned(t) = {} /\ TypeOK /\ calls' \in 0 .. MaxCalls
      /\ frame[t].size \in Nat /\ frame[t].i \in DOMAIN entry
  BY ReadingCall
<1>2. e \in Elements
  BY <1>1, TypeFacts
<1>3. ElementStringLength(e) \in Nat
  BY <1>1, <1>2, LengthIsNatural
<1>4. PICK ok \in BOOLEAN :
        /\ stumpless_element_to_string(t, e, ok)
        /\ Step(t, Measured(frame[t], frame[t].size + IF ok THEN ElementStringLength(e) + 1 ELSE 0))
  BY Zenon DEF Measured
<1> DEFINE size == frame[t].size + IF ok THEN ElementStringLength(e) + 1 ELSE 0
<1>5. size \in Nat /\ (ok => size = frame[t].size + (ElementStringLength(e) + 1))
  BY <1>1, <1>3
<1>6. /\ holder' \in [Elements \cup Params \cup {Entry} -> Threads \cup {NULL}]
      /\ seen' \in [renamed : BOOLEAN, added : BOOLEAN, failed : SUBSET Threads]
      /\ Keeps(t) /\ (~ok => t \in seen'.failed)
  BY <1>1, <1>2, <1>4, StringOfElement
<1>7. Step(t, Measured(frame[t], size))
  BY <1>4
<1> HIDE DEF size
<1>8. Reading(Measured(frame[t], size))
  BY <1>1, <1>5, MeasuredIs DEF Reads
<1>9. ReadingStep(t, Measured(frame[t], size))
  BY <1>1, <1>6, <1>7, <1>8 DEF ReadingStep
<1> QED
  BY <1>1, <1>5, <1>6, <1>9

\* The end of the first pass: the memory for the string is there, or the entry
\* stays locked.
LEMMA AllocateDoes ==
  ASSUME BaseInv, NEW t \in Threads, AllocateString(t)
  PROVE  /\ Reads(frame[t], "measure", TRUE) /\ Owned(t) = {} /\ frame[t].i > Len(entry) /\ holder' = holder
         /\ \/ \E digits \in 1..3 : ReadingStep(t, ToWrite(frame[t], FieldsUsed(digits))) /\ seen' = seen
            \/ /\ ReadingStep(t, Idle) /\ seen'.failed = seen.failed \cup {t}
               /\ seen'.renamed = seen.renamed /\ seen'.added = seen.added
<1> USE DEF AllocateString
<1>1. /\ Reads(frame[t], "measure", TRUE) /\ Owned(t) = {} /\ TypeOK /\ calls' \in 0 .. MaxCalls
      /\ holder \in [Elements \cup Params \cup {Entry} -> Threads \cup {NULL}]
      /\ seen \in [renamed : BOOLEAN, added : BOOLEAN, failed : SUBSET Threads]
  BY ReadingCall
<1>2. ASSUME NEW digits \in 1..3 PROVE FieldsUsed(digits) \in Nat
  BY DEF FieldsUsed, append_key_value_pair
<1>3. ASSUME NEW digits \in 1..3, Step(t, ToWrite(frame[t], FieldsUsed(digits))), seen' = seen
      PROVE  ReadingStep(t, ToWrite(frame[t], FieldsUsed(digits)))
  <2>1. Reading(ToWrite(frame[t], FieldsUsed(digits)))
    BY <1>1, <1>2, ToWriteIs DEF Reads
  <2> QED
    BY <1>1, <1>3, <2>1 DEF ReadingStep
<1>4. ASSUME Step(t, Idle), seen' = [seen EXCEPT !.failed = @ \cup {t}]
      PROVE  /\ ReadingStep(t, Idle) /\ seen'.failed = seen.failed \cup {t}
             /\ seen'.renamed = seen.renamed /\ seen'.added = seen.added
  BY <1>1, <1>4, IdleReads DEF ReadingStep, Reads
<1>5. \/ \E digits \in 1..3 : Step(t, ToWrite(frame[t], FieldsUsed(digits))) /\ seen' = seen
      \/ Step(t, Idle) /\ seen' = [seen EXCEPT !.failed = @ \cup {t}]
  BY DEF ToWrite
<1> QED
  BY <1>1, <1>3, <1>4, <1>5

\* The second pass, for one element.
LEMMA WriteDoes ==
  ASSUME BaseInv, NEW t \in Threads, WriteElement(t)
  PROVE  /\ Reads(frame[t], "write", TRUE) /\ Owned(t) = {} /\ Keeps(t) /\ frame[t].i \in DOMAIN entry
         /\ \/ /\ holder' = holder /\ seen' = seen
               /\ ReadingStep(t, Wrote(frame[t], frame[t].used + ElementStringLength(entry[frame[t].i]) +
                                                   (IF frame[t].i = 1 THEN 0 ELSE 1)))
            \/ t \in seen'.failed /\ ReadingStep(t, CrashedFrame)
<1> USE DEF WriteElement
<1> DEFINE e == entry[frame[t].i]
           used == frame[t].used + ElementStringLength(e) + (IF frame[t].i = 1 THEN 0 ELSE 1)
<1>1. /\ Reads(frame[t], "write", TRUE) /\ Owned(t) = {} /\ TypeOK /\ calls' \in 0 .. MaxCalls
      /\ frame[t].used \in Nat /\ frame[t].i \in DOMAIN entry
  BY ReadingCall
<1>2. e \in Elements
  BY <1>1, TypeFacts
<1>3. ElementStringLength(e) \in Nat
  BY <1>1, <1>2, LengthIsNatural
<1>4. used \in Nat
  BY <1>1, <1>3
<1>5. PICK ok \in BOOLEAN :
        /\ stumpless_element_to_string(t, e, ok)
        /\ Step(t, IF ok THEN Wrote(frame[t], used) ELSE CrashedFrame)
  BY DEF Wrote, CrashedFrame
<1>6. /\ holder' \in [Elements \cup Params \cup {Entry} -> Threads \cup {NULL}]
      /\ seen' \in [renamed : BOOLEAN, added : BOOLEAN, failed : SUBSET Threads]
      /\ Keeps(t) /\ (~ok => t \in seen'.failed)
  BY <1>1, <1>2, <1>5, StringOfElement, Zenon
<1>7. ok => holder' = holder /\ seen' = seen
  BY <1>5 DEF stumpless_element_to_string
<1> HIDE DEF used, e
<1>8. Reading(Wrote(frame[t], used)) /\ Reading(CrashedFrame)
  BY <1>1, <1>4, WroteIs, CrashedFrameIs DEF Reads
<1>9. ReadingStep(t, IF ok THEN Wrote(frame[t], used) ELSE CrashedFrame)
  BY <1>1, <1>5, <1>6, <1>8 DEF ReadingStep
<1> QED
  BY <1>1, <1>6, <1>7, <1>9 DEF used, e

\* A call that returns gives back the mutex of the entry at most.
LEMMA ReturnType ==
  ASSUME TypeOK, NEW t \in Threads, Return(t)
  PROVE  /\ holder' \in [Elements \cup Params \cup {Entry} -> Threads \cup {NULL}]
         /\ frame[t].locked => holder'[Entry] = NULL
         /\ ~frame[t].locked => holder'[Entry] = holder[Entry]
         /\ \A o \in Elements \cup Params : holder'[o] = holder[o]
<1>1. holder \in [Elements \cup Params \cup {Entry} -> Threads \cup {NULL}]
  BY DEF TypeOK
<1>2. Entry \notin Elements \cup Params
  BY ObjectsAssumption
<1> QED
  BY <1>1, <1>2 DEF Return

\* The end of the second pass.
LEMMA TerminateDoes ==
  ASSUME BaseInv, NEW t \in Threads, TerminateString(t)
  PROVE  /\ Reads(frame[t], "write", TRUE) /\ Owned(t) = {} /\ frame[t].i > Len(entry) /\ Return(t) /\ seen' = seen
         /\ ReadingStep(t, Closed(frame[t], frame[t].used + (IF entry = <<>> THEN 0 ELSE 1)))
<1> USE DEF TerminateString
<1> DEFINE used == frame[t].used + (IF entry = <<>> THEN 0 ELSE 1)
<1>1. /\ Reads(frame[t], "write", TRUE) /\ Owned(t) = {} /\ TypeOK /\ calls' \in 0 .. MaxCalls
      /\ seen \in [renamed : BOOLEAN, added : BOOLEAN, failed : SUBSET Threads]
      /\ frame[t].used \in Nat
  BY ReadingCall
<1>2. used \in Nat
  BY <1>1
<1>3. Step(t, Closed(frame[t], used))
  BY DEF Closed
<1>4. holder' \in [Elements \cup Params \cup {Entry} -> Threads \cup {NULL}]
  BY <1>1, ReturnType
<1> HIDE DEF used
<1>5. Reading(Closed(frame[t], used))
  BY <1>1, <1>2, ClosedIs DEF Reads
<1>6. ReadingStep(t, Closed(frame[t], used))
  BY <1>1, <1>3, <1>4, <1>5 DEF ReadingStep
<1> QED
  BY <1>1, <1>6 DEF used

\* The application takes the string or the copy.
LEMMA CloseDoes ==
  ASSUME BaseInv, NEW t \in Threads, CloseString(t) \/ TakeCopy(t)
  PROVE  /\ Owned(t) = {} /\ ~frame[t].locked /\ holder' = holder /\ seen' = seen
         /\ ReadingStep(t, Idle)
<1> USE DEF CloseString, TakeCopy
<1>1. /\ Owned(t) = {} /\ TypeOK /\ calls' \in 0 .. MaxCalls /\ ~frame[t].locked
      /\ seen \in [renamed : BOOLEAN, added : BOOLEAN, failed : SUBSET Threads]
      /\ holder \in [Elements \cup Params \cup {Entry} -> Threads \cup {NULL}]
  BY ReadingCall DEF Reads
<1> QED
  BY <1>1, IdleReads DEF ReadingStep, Reads

\* The value of an element has its type.
LEMMA ValueIs ==
  ASSUME TypeOK, NEW e \in Elements
  PROVE  ElementValue(e) \in [name : Names, params : Seq(stumpless_param)]
<1>1. el[e].name \in Names /\ el[e].params \in Seq(Params)
  BY TypeFacts
<1>2. par \in [Params -> stumpless_param]
  BY DEF TypeOK
<1> DEFINE ps == el[e].params
           vs == [i \in DOMAIN ps |-> par[ps[i]]]
<1>3. vs \in Seq(stumpless_param)
  <2>1. \A i \in DOMAIN ps : par[ps[i]] \in stumpless_param
    BY <1>1, <1>2
  <2> QED
    BY <1>1, <2>1
<1>4. ElementValue(e) = [name |-> el[e].name, params |-> vs]
  BY DEF ElementValue
<1> HIDE DEF vs
<1> QED
  BY <1>1, <1>3, <1>4

\* stumpless_copy_element adds an element to the copy, or the copy is given up.
LEMMA CopyElementDoes ==
  ASSUME BaseInv, NEW t \in Threads, stumpless_copy_element(t)
  PROVE  /\ Reads(frame[t], "copy", TRUE) /\ Owned(t) = {} /\ frame[t].i \in DOMAIN entry /\ seen' = seen
         /\ \/ ReadingStep(t, Copying(frame[t], ElementValue(entry[frame[t].i]))) /\ holder' = holder
            \/ ReadingStep(t, Idle) /\ Return(t)
<1> USE DEF stumpless_copy_element
<1> DEFINE v == ElementValue(entry[frame[t].i])
<1>1. /\ Reads(frame[t], "copy", TRUE) /\ Owned(t) = {} /\ TypeOK /\ calls' \in 0 .. MaxCalls
      /\ holder \in [Elements \cup Params \cup {Entry} -> Threads \cup {NULL}]
      /\ seen \in [renamed : BOOLEAN, added : BOOLEAN, failed : SUBSET Threads]
      /\ frame[t].i \in DOMAIN entry
  BY ReadingCall
<1>2. v \in [name : Names, params : Seq(stumpless_param)]
  BY <1>1, TypeFacts, ValueIs
<1>3. CASE Step(t, Copying(frame[t], v)) /\ holder' = holder
  <2> HIDE DEF v
  <2>1. Reading(Copying(frame[t], v))
    BY <1>1, <1>2, CopyingIs DEF Reads
  <2>2. ReadingStep(t, Copying(frame[t], v))
    BY <1>1, <1>3, <2>1 DEF ReadingStep
  <2> QED
    BY <1>1, <1>3, <2>2 DEF v
<1>4. CASE Step(t, Idle) /\ Return(t)
  <2>1. holder' \in [Elements \cup Params \cup {Entry} -> Threads \cup {NULL}]
    BY <1>1, <1>4, ReturnType
  <2> QED
    BY <1>1, <1>4, <2>1, IdleReads DEF ReadingStep, Reads
<1> QED
  BY <1>3, <1>4 DEF Copying

\* The end of the copy.
LEMMA EndCopyDoes ==
  ASSUME BaseInv, NEW t \in Threads, EndCopy(t)
  PROVE  /\ Reads(frame[t], "copy", TRUE) /\ Owned(t) = {} /\ frame[t].i > Len(entry) /\ Return(t) /\ seen' = seen
         /\ ReadingStep(t, Copied(frame[t]))
<1> USE DEF EndCopy
<1>1. /\ Reads(frame[t], "copy", TRUE) /\ Owned(t) = {} /\ TypeOK /\ calls' \in 0 .. MaxCalls
      /\ seen \in [renamed : BOOLEAN, added : BOOLEAN, failed : SUBSET Threads]
  BY ReadingCall
<1>2. holder' \in [Elements \cup Params \cup {Entry} -> Threads \cup {NULL}]
  BY <1>1, ReturnType
<1>3. Reading(Copied(frame[t])) /\ Step(t, Copied(frame[t]))
  BY <1>1, CopiedIs, Zenon DEF Reads, Copied
<1> QED
  BY <1>1, <1>2, <1>3 DEF ReadingStep

-----------------------------------------------------------------------------
(***************************************************************************)
(* Steps that move objects.                                                *)
(***************************************************************************)

\* The facts about a tree and the one after a step that the lemmas on moves
\* ask for.
LEMMA Moves ==
  ASSUME BaseInv, TypeOK', NEW t \in Threads, NEW f, Becomes(t, f), Placed(f)
  PROVE  /\ TreeType(entry, Arrays, live, loose, Owners)
         /\ TreeType(entry', Arrays', live', loose', Owners')
         /\ Tree(entry, Arrays, live, loose, Owners)
         /\ \A e \in Elements : Arrays[e] = el[e].params /\ Arrays'[e] = el'[e].params
         /\ \A u \in Threads : Owners[u] = Owned(u)
         /\ Owners'[t] = OwnedBy(f)
         /\ \A u \in Threads : u # t => Owners'[u] = Owned(u)
         /\ OwnedBy(f) = Owned(t) => Owners' = Owners
         /\ el' = el => Arrays' = Arrays
<1>1. TypeOK /\ PlaceInv
  BY DEF BaseInv
<1>2. /\ Owners' \in [Threads -> SUBSET (Elements \cup Params)]
      /\ Owners'[t] = OwnedBy(f)
      /\ \A u \in Threads : u # t => Owners'[u] = Owners[u]
      /\ OwnedBy(f) = Owned(t) => Owners' = Owners
  BY <1>1, OwnersStep
<1>3. /\ Arrays \in [Elements -> Seq(Params)] /\ \A e \in Elements : Arrays[e] = el[e].params
      /\ \A u \in Threads : Owners[u] = Owned(u)
  BY <1>1, StateType
<1>4. Arrays' \in [Elements -> Seq(Params)] /\ \A e \in Elements : Arrays'[e] = el'[e].params
  BY DEF TypeOK, stumpless_element, Arrays
<1>5. Owners \in [Threads -> SUBSET (Elements \cup Params)]
  BY <1>1, OwnersType
<1>6. TreeType(entry, Arrays, live, loose, Owners)
  BY <1>1, <1>3, <1>5 DEF TypeOK, TreeType
<1>7. TreeType(entry', Arrays', live', loose', Owners')
  BY <1>2, <1>4 DEF TypeOK, TreeType
<1>8. el' = el => Arrays' = Arrays
  BY DEF Arrays
<1> QED
  BY <1>2, <1>3, <1>4, <1>6, <1>7, <1>8 DEF BaseInv, TreeInv

\* The objects that are owned by a call or that a frame refers to.
LEMMA Objects ==
  ASSUME BaseInv, NEW u \in Threads
  PROVE  /\ frame[u] \in Frames /\ Placed(frame[u])
         /\ Owned(u) \subseteq live /\ \A o \in Owned(u) : o \notin loose
         /\ frame[u].e \in (live \cap Elements) \cup {NULL}
         /\ frame[u].p \in Params \cup {NULL}
         /\ \A w \in Threads, o \in Owned(u) : o \in Owned(w) => u = w
<1>1. frame[u] \in Frames /\ Placed(frame[u]) /\ TypeOK /\ PlaceInv
  BY DEF BaseInv, TypeOK, PlaceInv
<1>2. frame[u].e \in (live \cap Elements) \cup {NULL} /\ frame[u].p \in Params \cup {NULL}
  BY <1>1, FrameFields DEF BaseInv, RefInv
<1>3. \A w \in Threads : Owners[w] = Owned(w) /\ Owned(w) \subseteq Elements \cup Params
  BY <1>1, OwnersType, StateType
<1>4. Given(live, loose, Owners)
  BY DEF BaseInv, TreeInv, Tree
<1> QED
  BY <1>1, <1>2, <1>3, <1>4 DEF Given

\* What is allocated stays where it is.
LEMMA SparesLive ==
  ASSUME BaseInv, NEW t \in Threads, live \subseteq live', loose \subseteq loose',
         \A e \in live \cap Elements : el'[e].params = el[e].params
  PROVE  Spares(t)
<1> SUFFICES ASSUME NEW u \in Threads
             PROVE  /\ frame[u].step = "value" /\ frame[u].p \in ToSet(el[frame[u].e].params) =>
                         frame[u].p \in ToSet(el'[frame[u].e].params)
                    /\ frame[u].e \in Owned(u) => el'[frame[u].e].params = el[frame[u].e].params
  BY DEF Spares
<1>1. Placed(frame[u]) /\ frame[u].e \in (live \cap Elements) \cup {NULL} /\ Owned(u) \subseteq live
  BY Objects
<1>2. NULL \notin live
  BY ObjectsAssumption DEF BaseInv, TypeOK
<1>3. frame[u].step = "value" => frame[u].e # NULL
  BY <1>1 DEF Placed
<1> QED
  BY <1>1, <1>2, <1>3

\* What the other calls refer to stays where it is.
LEMMA SparesOthers ==
  ASSUME BaseInv, NEW t \in Threads, el' = el,
         \A u \in Threads : u # t =>
           /\ frame[u].e \in live => frame[u].e \in live'
           /\ frame[u].p \in loose => frame[u].p \in loose'
  PROVE  Spares(t)
BY DEF Spares

\* stumpless_new_element allocates an element for the application.
LEMMA NewElementBase ==
  ASSUME BaseInv, NEW t \in Threads, NEW n \in Names, stumpless_new_element(t, n)
  PROVE  BaseInv'
<1> USE DEF stumpless_new_element
<1>1. /\ TypeOK /\ Owned(t) = {} /\ calls' \in 0 .. MaxCalls /\ Placed(frame[t])
      /\ frame[t].e = NULL /\ frame[t].p = NULL
  BY CallBegins DEF BaseInv
<1>2. PICK e \in Elements \ live :
        /\ el' = [el EXCEPT ![e] = [name |-> n, params |-> <<>>]]
        /\ live' = live \cup {e}
        /\ loose' = loose \cup {e}
  OBVIOUS
<1>3. [name |-> n, params |-> <<>>] \in stumpless_element
  BY DEF stumpless_element
<1>4. /\ el' \in [Elements -> stumpless_element] /\ el'[e].params = << >>
      /\ \A x \in Elements : x # e => el'[x] = el[x]
  BY <1>1, <1>2, <1>3 DEF TypeOK
<1>5. Becomes(t, frame[t])
  BY <1>1, SameBecomes
<1>6. TypeOK'
  BY <1>1, <1>2, <1>4 DEF TypeOK
<1>7. RefersTo(t, frame[t])
  BY <1>1, RefersToNothing DEF BaseInv
<1>8. Spares(t)
  BY <1>2, <1>4, SparesLive
<1>9. Tree(entry', Arrays', live', loose', Owners')
  <2>1. /\ TreeType(entry, Arrays, live, loose, Owners)
        /\ TreeType(entry, Arrays', live', loose', Owners')
        /\ Tree(entry, Arrays, live, loose, Owners)
        /\ \A x \in Elements : Arrays[x] = el[x].params /\ Arrays'[x] = el'[x].params
        /\ Owners' = Owners
    BY <1>1, <1>5, <1>6, Moves, OwnedIs
  <2>2. \A x \in Elements : x # e => Arrays'[x] = Arrays[x]
    BY <1>4, <2>1
  <2>3. Arrays'[e] = << >>
    BY <1>4, <2>1
  <2>4. Tree(entry, Arrays', live', loose', Owners')
    BY <1>2, <2>1, <2>2, <2>3, NewObject
  <2> QED
    BY <2>4
<1> QED
  BY <1>1, <1>5, <1>6, <1>7, <1>8, <1>9, BaseStep

\* stumpless_new_param allocates a param for it.
LEMMA NewParamBase ==
  ASSUME BaseInv, NEW t \in Threads, NEW n \in Names, NEW v \in Values, stumpless_new_param(t, n, v)
  PROVE  BaseInv'
<1> USE DEF stumpless_new_param
<1>1. /\ TypeOK /\ Owned(t) = {} /\ calls' \in 0 .. MaxCalls /\ Placed(frame[t])
      /\ frame[t].e = NULL /\ frame[t].p = NULL
  BY CallBegins DEF BaseInv
<1>2. PICK p \in Params \ live :
        /\ par' = [par EXCEPT ![p] = [name |-> n, value |-> v]]
        /\ live' = live \cup {p}
        /\ loose' = loose \cup {p}
  OBVIOUS
<1>3. [name |-> n, value |-> v] \in stumpless_param
  BY DEF stumpless_param
<1>4. par' \in [Params -> stumpless_param]
  BY <1>1, <1>2, <1>3 DEF TypeOK
<1>5. Becomes(t, frame[t])
  BY <1>1, SameBecomes
<1>6. TypeOK'
  BY <1>1, <1>2, <1>4 DEF TypeOK
<1>7. RefersTo(t, frame[t])
  BY <1>1, RefersToNothing DEF BaseInv
<1>8. Spares(t)
  BY <1>2, SparesLive
<1>9. Tree(entry', Arrays', live', loose', Owners')
  <2>1. /\ TreeType(entry, Arrays, live, loose, Owners)
        /\ TreeType(entry, Arrays', live', loose', Owners')
        /\ Tree(entry, Arrays, live, loose, Owners)
        /\ Owners' = Owners /\ Arrays' = Arrays
    BY <1>1, <1>5, <1>6, Moves, OwnedIs
  <2>2. p \notin Elements
    BY ObjectsAssumption
  <2>3. Tree(entry, Arrays', live', loose', Owners')
    BY <1>2, <2>1, <2>2, NewObject
  <2> QED
    BY <2>3
<1> QED
  BY <1>1, <1>5, <1>6, <1>7, <1>8, <1>9, BaseStep

\* What a call of t that keeps its idle frame and frees the objects X needs.
LEMMA FreeBase ==
  ASSUME BaseInv, NEW t \in Threads, Calling(t), NEW X,
         UNCHANGED << el, par, holder, frame, seen >>,
         live' = live \ X, loose' = loose \ X, entry' \in Seq(Elements),
         \A u \in Threads : frame[u].e \notin X /\ frame[u].p \notin X,
         \A u \in Threads : \A x \in Owned(u) : x \notin X,
         \A e \in live \cap Elements : \A i \in DOMAIN el[e].params : el[e].params[i] \in X <=> e \in X,
         \/ entry' = entry /\ \A i \in DOMAIN entry : entry[i] \notin X
         \/ entry' = << >> /\ \A i \in DOMAIN entry : entry[i] \in X
  PROVE  BaseInv'
<1>1. /\ TypeOK /\ Owned(t) = {} /\ calls' \in 0 .. MaxCalls /\ Placed(frame[t])
      /\ frame[t].e = NULL /\ frame[t].p = NULL
  BY CallBegins DEF BaseInv
<1>2. Becomes(t, frame[t])
  BY <1>1, SameBecomes
<1>3. TypeOK'
  BY <1>1 DEF TypeOK
<1>4. RefersTo(t, frame[t])
  BY <1>1, RefersToNothing DEF BaseInv
<1>5. Spares(t)
  BY SparesOthers
<1>6. Tree(entry', Arrays', live', loose', Owners')
  <2>1. /\ TreeType(entry, Arrays, live, loose, Owners)
        /\ TreeType(entry', Arrays, live', loose', Owners')
        /\ Tree(entry, Arrays, live, loose, Owners)
        /\ \A x \in Elements : Arrays[x] = el[x].params
        /\ Owners' = Owners /\ Arrays' = Arrays
        /\ \A u \in Threads : Owners[u] = Owned(u)
    BY <1>1, <1>2, <1>3, Moves, OwnedIs
  <2>2. \A u \in Threads, x \in Elements \cup Params : x \in Owners'[u] <=> x \in Owners[u] /\ x \notin X
    BY <2>1
  <2>3. \A e \in live \cap Elements : \A i \in DOMAIN Arrays[e] : Arrays[e][i] \in X <=> e \in X
    BY <2>1
  <2>4. /\ \A x \in Elements \cup Params : x \in live' <=> x \in live /\ x \notin X
        /\ \A x \in Elements \cup Params : x \in loose' <=> x \in loose /\ x \notin X
    OBVIOUS
  <2>5. \/ entry' = entry /\ \A i \in DOMAIN entry : entry[i] \notin X
        \/ entry' = << >> /\ \A i \in DOMAIN entry : entry[i] \in X
    OBVIOUS
  <2>6. Freed(X, entry, Arrays, live, loose, Owners, entry', live', loose', Owners')
    BY <2>2, <2>3, <2>4, <2>5 DEF Freed
  <2>7. Tree(entry', Arrays, live', loose', Owners')
    BY <2>1, <2>6, FreeObjects
  <2> QED
    BY <2>1, <2>7
<1> QED
  BY <1>1, <1>2, <1>3, <1>4, <1>5, <1>6, BaseStep

\* What the tree says of the arrays.
LEMMA InTree ==
  ASSUME BaseInv
  PROVE  /\ \A i \in DOMAIN entry : /\ entry[i] \in Elements /\ entry[i] \in live /\ entry[i] \notin loose
                                    /\ \A u \in Threads : entry[i] \notin Owned(u)
         /\ \A i, j \in DOMAIN entry : entry[i] = entry[j] => i = j
         /\ \A e \in live \cap Elements : \A i \in DOMAIN el[e].params :
              /\ el[e].params[i] \in Params /\ el[e].params[i] \in live /\ el[e].params[i] \notin loose
              /\ \A u \in Threads : el[e].params[i] \notin Owned(u)
         /\ \A e, f \in live \cap Elements : \A i \in DOMAIN el[e].params, j \in DOMAIN el[f].params :
              el[e].params[i] = el[f].params[j] => e = f /\ i = j
<1>1. TypeOK /\ Listed(entry, live, loose, Owners) /\ Held(Arrays, live, loose, Owners)
  BY DEF BaseInv, TreeInv, Tree
<1>2. (\A e \in Elements : Arrays[e] = el[e].params) /\ (\A u \in Threads : Owners[u] = Owned(u))
  BY <1>1, StateType
<1>3. /\ \A i \in DOMAIN entry : entry[i] \in Elements
      /\ \A e \in Elements : \A i \in DOMAIN el[e].params : el[e].params[i] \in Params
  BY <1>1, TypeFacts
<1>4. /\ \A i \in DOMAIN entry : entry[i] \in live /\ entry[i] \notin loose /\ \A u \in Threads : entry[i] \notin Owned(u)
      /\ \A i, j \in DOMAIN entry : entry[i] = entry[j] => i = j
  BY <1>1, <1>2 DEF Listed
<1>5. \A e \in live \cap Elements : \A i \in DOMAIN el[e].params :
        el[e].params[i] \in live /\ el[e].params[i] \notin loose /\ \A u \in Threads : el[e].params[i] \notin Owned(u)
  BY <1>1, <1>2 DEF Held
<1>6. \A e, f \in live \cap Elements : \A i \in DOMAIN el[e].params, j \in DOMAIN el[f].params :
        el[e].params[i] = el[f].params[j] => e = f /\ i = j
  BY <1>1, <1>2 DEF Held
<1> QED
  BY <1>3, <1>4, <1>5, <1>6

\* stumpless_destroy_param frees a param of the application.
LEMMA DestroyParamBase ==
  ASSUME BaseInv, NEW t \in Threads, NEW p \in Params, stumpless_destroy_param(t, p)
  PROVE  BaseInv'
<1> USE DEF stumpless_destroy_param
<1>1. p \in loose /\ p \notin Elements /\ \A u \in Threads : frame[u].e # p /\ frame[u].p # p
  BY ObjectsAssumption DEF Usable
<1>2. \A u \in Threads : \A x \in Owned(u) : x \notin {p}
  BY <1>1, Objects
<1>3. /\ \A e \in live \cap Elements : \A i \in DOMAIN el[e].params : el[e].params[i] \in {p} <=> e \in {p}
      /\ \A i \in DOMAIN entry : entry[i] \notin {p}
  BY <1>1, InTree
<1>4. entry' \in Seq(Elements)
  BY DEF BaseInv, TypeOK
<1> QED
  BY <1>1, <1>2, <1>3, <1>4, FreeBase

\* stumpless_destroy_element_and_contents frees an element with its params.
LEMMA DestroyElementBase ==
  ASSUME BaseInv, NEW t \in Threads, NEW e \in Elements, stumpless_destroy_element_and_contents(t, e)
  PROVE  BaseInv'
<1> USE DEF stumpless_destroy_element_and_contents
<1> DEFINE X == {e} \cup ParamsOf(e)
<1>1. e \in loose /\ e \in live /\ \A u \in Threads : frame[u].e # e /\ frame[u].p # e
  BY DEF Usable, BaseInv, TypeOK
<1>2. \A x : x \in ParamsOf(e) <=> \E i \in DOMAIN el[e].params : el[e].params[i] = x
  BY DEF ParamsOf, ToSet
<1>3. \A x \in ParamsOf(e) : x \in Params /\ x \notin Elements /\ x \notin loose
  BY <1>1, <1>2, InTree, ObjectsAssumption
<1>4. ASSUME NEW u \in Threads PROVE frame[u].e \notin X /\ frame[u].p \notin X
  <2>1. frame[u].e \in Elements \cup {NULL} /\ NULL \notin Params
    BY Objects, ObjectsAssumption
  <2> QED
    BY <1>1, <1>3, <2>1
<1>5. ASSUME NEW u \in Threads, NEW x \in Owned(u) PROVE x \notin X
  <2>1. x \notin loose
    BY Objects
  <2>2. x \notin ParamsOf(e)
    BY <1>1, <1>2, InTree
  <2> QED
    BY <1>1, <2>1, <2>2
<1>6. ASSUME NEW f \in live \cap Elements, NEW i \in DOMAIN el[f].params PROVE el[f].params[i] \in X <=> f \in X
  <2>1. el[f].params[i] \in Params /\ el[f].params[i] \notin Elements
    BY InTree, ObjectsAssumption
  <2>2. el[f].params[i] \in X <=> \E j \in DOMAIN el[e].params : el[e].params[j] = el[f].params[i]
    BY <1>2, <2>1
  <2>3. f \in X <=> f = e
    BY <1>3
  <2> QED
    BY <1>1, <2>2, <2>3, InTree
<1>7. \A i \in DOMAIN entry : entry[i] \notin X
  BY <1>1, <1>3, InTree
<1>8. loose' = loose \ X /\ live' = live \ X
  BY <1>3
<1>9. entry' \in Seq(Elements)
  BY DEF BaseInv, TypeOK
<1> HIDE DEF X
<1> QED
  BY <1>4, <1>5, <1>6, <1>7, <1>8, <1>9, FreeBase

\* stumpless_destroy_entry_and_contents frees all that is in the entry.
LEMMA DestroyEntryBase ==
  ASSUME BaseInv, NEW t \in Threads, stumpless_destroy_entry_and_contents(t)
  PROVE  BaseInv'
<1> USE DEF stumpless_destroy_entry_and_contents
<1> DEFINE X == ToSet(entry) \cup UNION {ParamsOf(e) : e \in ToSet(entry)}
<1>1. \A x : x \in ToSet(entry) <=> \E i \in DOMAIN entry : entry[i] = x
  BY DEF ToSet
<1>2. \A e, x : x \in ParamsOf(e) <=> \E i \in DOMAIN el[e].params : el[e].params[i] = x
  BY DEF ParamsOf, ToSet
<1>3. \A x : x \in X <=> x \in ToSet(entry) \/ \E e \in ToSet(entry) : x \in ParamsOf(e)
  OBVIOUS
<1> HIDE DEF X
<1>4. \A e \in ToSet(entry) : e \in live /\ e \in Elements /\ e \notin loose /\ \A u \in Threads : e \notin Owned(u)
  BY <1>1, InTree
<1>5. \A e \in ToSet(entry) : \A x \in ParamsOf(e) :
        x \in Params /\ x \notin Elements /\ x \notin loose /\ \A u \in Threads : x \notin Owned(u)
  BY <1>2, <1>4, InTree, ObjectsAssumption
<1>6. ASSUME NEW u \in Threads PROVE frame[u].e \notin X /\ frame[u].p \notin X
  <2>1. Placed(frame[u]) /\ frame[u].step = "idle"
    BY Objects
  <2>2. frame[u].e = NULL /\ frame[u].p = NULL
    BY <2>1 DEF Placed
  <2>3. NULL \notin Elements \cup Params
    BY ObjectsAssumption
  <2> QED
    BY <1>3, <1>4, <1>5, <2>2, <2>3
<1>7. \A u \in Threads : \A x \in Owned(u) : x \notin X
  BY <1>3, <1>4, <1>5
<1>8. ASSUME NEW f \in live \cap Elements, NEW i \in DOMAIN el[f].params PROVE el[f].params[i] \in X <=> f \in X
  <2>1. el[f].params[i] \in Params /\ el[f].params[i] \notin Elements
    BY InTree, ObjectsAssumption
  <2>2. f \in X <=> f \in ToSet(entry)
    BY <1>3, <1>5
  <2>3. el[f].params[i] \in X <=> \E e \in ToSet(entry) : el[f].params[i] \in ParamsOf(e)
    BY <1>3, <1>4, <2>1
  <2>4. el[f].params[i] \in ParamsOf(f)
    BY <1>2
  <2>5. ASSUME NEW e \in ToSet(entry), el[f].params[i] \in ParamsOf(e) PROVE f = e
    <3>1. PICK j \in DOMAIN el[e].params : el[e].params[j] = el[f].params[i]
      BY <1>2, <2>5
    <3> QED
      BY <1>4, <3>1, InTree
  <2> QED
    BY <2>2, <2>3, <2>4, <2>5
<1>9. \A i \in DOMAIN entry : entry[i] \in X
  BY <1>1, <1>3
<1>10. loose' = loose \ X
  BY <1>3, <1>4, <1>5
<1>11. live' = live \ X
  BY DEF X
<1>12. entry' \in Seq(Elements) /\ entry' = << >>
  OBVIOUS
<1> QED
  BY <1>6, <1>7, <1>8, <1>9, <1>10, <1>11, <1>12, FreeBase

\* stumpless_destroy_element_only leaves the params to the application.
LEMMA DestroyElementOnlyBase ==
  ASSUME BaseInv, NEW t \in Threads, NEW e \in Elements, stumpless_destroy_element_only(t, e)
  PROVE  BaseInv'
<1> USE DEF stumpless_destroy_element_only
<1>1. /\ TypeOK /\ Owned(t) = {} /\ calls' \in 0 .. MaxCalls /\ Placed(frame[t])
      /\ frame[t].e = NULL /\ frame[t].p = NULL
  BY CallBegins DEF BaseInv
<1>2. e \in loose /\ e \in live /\ \A u \in Threads : frame[u].e # e /\ frame[u].p # e
  BY <1>1 DEF Usable, TypeOK
<1>3. \A x \in ParamsOf(e) : x \in live /\ x \in Params /\ x # e
  BY <1>2, InTree, ObjectsAssumption DEF ParamsOf, ToSet
<1>4. Becomes(t, frame[t])
  BY <1>1, SameBecomes
<1>5. TypeOK'
  BY <1>1, <1>3 DEF TypeOK
<1>6. RefersTo(t, frame[t])
  BY <1>1, RefersToNothing DEF BaseInv
<1>7. Spares(t)
  BY <1>2, SparesOthers
<1>8. Tree(entry', Arrays', live', loose', Owners')
  <2>1. /\ TreeType(entry, Arrays, live, loose, Owners)
        /\ TreeType(entry, Arrays, live', loose', Owners)
        /\ Tree(entry, Arrays, live, loose, Owners)
        /\ Arrays[e] = el[e].params
        /\ Owners' = Owners /\ Arrays' = Arrays
    BY <1>1, <1>4, <1>5, Moves, OwnedIs
  <2>2. loose' = (loose \ {e}) \cup ToSet(Arrays[e])
    BY <2>1 DEF ParamsOf
  <2>3. Tree(entry, Arrays, live', loose', Owners)
    BY <1>2, <2>1, <2>2, FreeElementOnly
  <2> QED
    BY <2>1, <2>3
<1> QED
  BY <1>1, <1>4, <1>5, <1>6, <1>7, <1>8, BaseStep

\* stumpless_destroy_entry_only leaves the elements to it.
LEMMA DestroyEntryOnlyBase ==
  ASSUME BaseInv, NEW t \in Threads, stumpless_destroy_entry_only(t)
  PROVE  BaseInv'
<1> USE DEF stumpless_destroy_entry_only
<1>1. /\ TypeOK /\ Owned(t) = {} /\ calls' \in 0 .. MaxCalls /\ Placed(frame[t])
      /\ frame[t].e = NULL /\ frame[t].p = NULL
  BY CallBegins DEF BaseInv
<1>2. Becomes(t, frame[t])
  BY <1>1, SameBecomes
<1>3. TypeOK'
  <2>1. ToSet(entry) \subseteq live
    BY InTree DEF ToSet
  <2> QED
    BY <1>1, <2>1 DEF TypeOK
<1>4. RefersTo(t, frame[t])
  BY <1>1, RefersToNothing DEF BaseInv
<1>5. Spares(t)
  BY SparesLive
<1>6. Tree(entry', Arrays', live', loose', Owners')
  <2>1. /\ TreeType(entry, Arrays, live, loose, Owners)
        /\ Tree(entry, Arrays, live, loose, Owners)
        /\ Owners' = Owners /\ Arrays' = Arrays
    BY <1>1, <1>2, <1>3, Moves, OwnedIs
  <2>2. Tree(<< >>, Arrays, live, loose', Owners)
    BY <2>1, FreeEntryOnly
  <2> QED
    BY <2>1, <2>2
<1> QED
  BY <1>1, <1>2, <1>3, <1>4, <1>5, <1>6, BaseStep

\* An element is added to the entry by a call of t that owns it or was given it.
LEMMA AddedBase ==
  ASSUME BaseInv, TypeOK', NEW t \in Threads, Becomes(t, Idle), NEW e \in Elements,
         entry' = Append(entry, e), el' = el, live' = live, loose' = loose \ {e},
         e \in loose \/ e \in Owned(t), Owned(t) \subseteq {e}
  PROVE  BaseInv'
<1>1. Idle.e = NULL /\ Idle.p = NULL /\ Placed(Idle) /\ OwnedBy(Idle) = {}
  BY IdleFrame
<1>2. RefersTo(t, Idle)
  BY <1>1, RefersToNothing DEF BaseInv
<1>3. \A u \in Threads : frame[u].p # e
  BY Objects, ObjectsAssumption
<1>4. Spares(t)
  BY <1>3, SparesOthers
<1>5. /\ TreeType(entry, Arrays, live, loose, Owners)
      /\ TreeType(entry', Arrays', live', loose', Owners')
      /\ Tree(entry, Arrays, live, loose, Owners)
      /\ Owners'[t] = {} /\ \A u \in Threads : u # t => Owners'[u] = Owned(u)
      /\ Arrays' = Arrays
      /\ \A u \in Threads : Owners[u] = Owned(u)
  BY <1>1, Moves
<1>6. \A u \in Threads : u # t => e \notin Owned(u)
  BY Objects
<1>7. \A u \in Threads, x \in Elements \cup Params : x \in Owners'[u] <=> x \in Owners[u] /\ x # e
  BY <1>5, <1>6
<1>8. TreeType(entry, Arrays, live, loose', Owners')
  BY <1>5 DEF TreeType
<1>9. Tree(Append(entry, e), Arrays, live, loose', Owners')
  <2>1. \A x \in Elements \cup Params : x \in loose' <=> x \in loose /\ x # e
    OBVIOUS
  <2>2. e \in loose \/ \E u \in Threads : e \in Owners[u]
    BY <1>5
  <2> QED
    BY ONLY <1>5, <1>7, <1>8, <2>1, <2>2, AppendElement, e \in Elements
<1> QED
  BY <1>1, <1>2, <1>4, <1>5, <1>9, BaseStep

\* stumpless_add_element takes an element from the application.
LEMMA AddElementBase ==
  ASSUME BaseInv, NEW t \in Threads, NEW e \in Elements, stumpless_add_element(t, e)
  PROVE  BaseInv'
<1> USE DEF stumpless_add_element, locked_add_element
<1>1. TypeOK /\ Owned(t) = {} /\ calls' \in 0 .. MaxCalls
  BY CallBegins DEF BaseInv
<1>2. e \in loose
  BY DEF Usable
<1>3. Becomes(t, Idle)
  BY <1>1, ChangeBecomes, IdleFrame
<1>4. entry' \in Seq(Elements) /\ entry' = Append(entry, e)
  BY <1>1 DEF TypeOK
<1>5. TypeOK'
  BY <1>1, <1>3, <1>4 DEF TypeOK, Becomes
<1> QED
  BY <1>1, <1>2, <1>3, <1>4, <1>5, AddedBase

AttachFrame(e) == [Idle EXCEPT !.step = "attach", !.e = e]

\* The frame of stumpless_add_new_element with the element it made.
LEMMA AttachFrameIs ==
  ASSUME NEW e \in Elements
  PROVE  /\ AttachFrame(e) \in Frames /\ Placed(AttachFrame(e))
         /\ AttachFrame(e).step = "attach" /\ AttachFrame(e).e = e /\ AttachFrame(e).p = NULL
         /\ ~AttachFrame(e).created /\ ~AttachFrame(e).locked /\ AttachFrame(e).copy = << >>
<1> DEFINE f == AttachFrame(e)
<1>0. /\ Idle \in Frames /\ Idle.p = NULL /\ ~Idle.created /\ ~Idle.locked /\ Idle.copy = << >> /\ e # NULL
  BY IdleFrame, ObjectsAssumption
<1>1. /\ f \in Frames /\ f.e = e /\ f.p = NULL /\ ~f.created /\ ~f.locked /\ f.copy = << >> /\ f.step = "attach"
  BY <1>0 DEF Frames, Steps, AttachFrame
<1> HIDE DEF f
<1>2. Placed(f)
  BY <1>0, <1>1 DEF Placed
<1> QED
  BY <1>1, <1>2 DEF f

\* stumpless_add_new_element allocates an element for the call.
LEMMA AddNewElementBase ==
  ASSUME BaseInv, NEW t \in Threads, NEW n \in Names, stumpless_add_new_element(t, n)
  PROVE  BaseInv'
<1> USE DEF stumpless_add_new_element
<1>1. TypeOK /\ Owned(t) = {} /\ calls' \in 0 .. MaxCalls
  BY CallBegins DEF BaseInv
<1>2. PICK e \in Elements \ live :
        /\ el' = [el EXCEPT ![e] = [name |-> n, params |-> <<>>]]
        /\ live' = live \cup {e}
        /\ Step(t, AttachFrame(e))
  BY Zenon DEF AttachFrame
<1> DEFINE f == AttachFrame(e)
<1>3. /\ f \in Frames /\ Placed(f) /\ f.e = e /\ f.step = "attach" /\ f.p = NULL /\ ~f.created
      /\ Step(t, f)
  BY <1>2, AttachFrameIs
<1> HIDE DEF f
<1>4. Becomes(t, f)
  BY <1>1, <1>3, StepBecomes
<1>5. [name |-> n, params |-> <<>>] \in stumpless_element
  BY DEF stumpless_element
<1>6. /\ el' \in [Elements -> stumpless_element] /\ el'[e].params = << >>
      /\ \A x \in Elements : x # e => el'[x] = el[x]
  BY <1>1, <1>2, <1>5 DEF TypeOK
<1>7. TypeOK'
  BY <1>1, <1>2, <1>4, <1>6 DEF TypeOK, Becomes
<1>8. OwnedBy(f) = {e}
  BY <1>3 DEF OwnedBy
<1>9. RefersTo(t, f)
  <2>1. \A u \in Threads : e \notin Owned(u) /\ frame[u].e # e
    BY <1>2, Objects, ObjectsAssumption
  <2>2. \A u \in Threads : frame[u].step = "replace" => frame[u].p # NULL
    BY DEF BaseInv, PlaceInv, Placed
  <2> QED
    BY <1>2, <1>3, <1>6, <1>8, <2>1, <2>2 DEF RefersTo
<1>10. Spares(t)
  BY <1>2, <1>6, SparesLive
<1>11. Tree(entry', Arrays', live', loose', Owners')
  <2>1. /\ TreeType(entry, Arrays, live, loose, Owners)
        /\ TreeType(entry, Arrays', live', loose', Owners')
        /\ Tree(entry, Arrays, live, loose, Owners)
        /\ \A x \in Elements : Arrays[x] = el[x].params /\ Arrays'[x] = el'[x].params
        /\ Owners'[t] = {e} /\ (\A u \in Threads : u # t => Owners'[u] = Owned(u))
        /\ \A u \in Threads : Owners[u] = Owned(u)
    BY <1>3, <1>4, <1>7, <1>8, Moves
  <2>2. \A x \in Elements : x # e => Arrays'[x] = Arrays[x]
    BY <1>6, <2>1
  <2>3. Arrays'[e] = << >>
    BY <1>6, <2>1
  <2>4. Hands(Owners, Owners', t) /\ Owners'[t] = Owners[t] \cup {e}
    BY <1>1, <2>1 DEF Hands
  <2>5. Tree(entry, Arrays', live', loose', Owners')
    BY <1>2, <2>1, <2>2, <2>3, <2>4, NewObject
  <2> QED
    BY <2>5
<1> QED
  BY <1>3, <1>4, <1>7, <1>9, <1>10, <1>11, BaseStep

\* A call of t ends and frees the objects X, among them what it owns.
LEMMA ReleaseBase ==
  ASSUME BaseInv, TypeOK', NEW t \in Threads, Becomes(t, Idle), NEW X,
         entry' = entry, el' = el, live' = live \ X, loose' = loose,
         \A x \in loose : x \notin X, Owned(t) \subseteq X,
         \A u \in Threads : u # t => frame[u].e \notin X /\ \A x \in Owned(u) : x \notin X,
         \A e \in live \cap Elements : \A i \in DOMAIN el[e].params : el[e].params[i] \in X <=> e \in X,
         \A i \in DOMAIN entry : entry[i] \notin X
  PROVE  BaseInv'
<1>1. Idle.e = NULL /\ Idle.p = NULL /\ Placed(Idle) /\ OwnedBy(Idle) = {}
  BY IdleFrame
<1>2. RefersTo(t, Idle)
  BY <1>1, RefersToNothing DEF BaseInv
<1>3. Spares(t)
  BY SparesOthers
<1>4. /\ TreeType(entry, Arrays, live, loose, Owners)
      /\ TreeType(entry', Arrays', live', loose', Owners')
      /\ Tree(entry, Arrays, live, loose, Owners)
      /\ Owners'[t] = {} /\ (\A u \in Threads : u # t => Owners'[u] = Owned(u))
      /\ Arrays' = Arrays
      /\ (\A u \in Threads : Owners[u] = Owned(u))
      /\ \A e \in Elements : Arrays[e] = el[e].params
  BY <1>1, Moves, Zenon
<1>5. \A u \in Threads, x \in Elements \cup Params : x \in Owners'[u] <=> x \in Owners[u] /\ x \notin X
  BY <1>4
<1>6. \A e \in live \cap Elements : \A i \in DOMAIN Arrays[e] : Arrays[e][i] \in X <=> e \in X
  BY <1>4
<1>7. Freed(X, entry, Arrays, live, loose, Owners, entry', live', loose', Owners')
  BY <1>5, <1>6 DEF Freed
<1>8. Tree(entry', Arrays', live', loose', Owners')
  BY <1>4, <1>7, FreeObjects
<1> QED
  BY <1>1, <1>2, <1>3, <1>8, BaseStep

\* And adds it to the entry, or frees it.
LEMMA AttachBase ==
  ASSUME BaseInv, NEW t \in Threads, Attach(t)
  PROVE  BaseInv'
<1> USE DEF Attach, locked_add_element, AddElementFails
<1> DEFINE e == frame[t].e
<1>1. TypeOK /\ frame[t].step = "attach" /\ Owned(t) = {e} /\ e # NULL
  BY InStep
<1>2. e \in Elements /\ e \in live /\ \A u \in Threads : u # t => frame[u].e # e
  BY <1>1, Referring
<1>3. e \notin loose /\ \A u \in Threads : u # t => e \notin Owned(u)
  BY <1>1, Objects
<1>4. Becomes(t, Idle)
  BY <1>1, ChangeBecomes, IdleFrame
<1>5. entry' \in Seq(Elements)
  BY <1>1, <1>2 DEF TypeOK
<1>6. live' \subseteq Elements \cup Params /\ loose' \subseteq live'
  BY <1>1, <1>3 DEF TypeOK
<1>7. TypeOK'
  BY <1>1, <1>4, <1>5, <1>6 DEF TypeOK, Becomes
<1>8. CASE entry' = Append(entry, e) /\ live' = live
  <2>1. loose' = loose \ {e}
    BY <1>3
  <2> QED
    BY <1>1, <1>2, <1>4, <1>7, <1>8, <2>1, AddedBase
<1>9. CASE entry' = entry /\ live' = live \ {e}
  <2>1. el[e].params = << >>
    BY <1>1 DEF BaseInv, RefInv
  <2>2. \A f \in live \cap Elements : \A i \in DOMAIN el[f].params : el[f].params[i] \in {e} <=> f \in {e}
    <3>1. \A f \in live \cap Elements : \A i \in DOMAIN el[f].params : el[f].params[i] # e
      BY <1>2, InTree, ObjectsAssumption
    <3>2. DOMAIN el[e].params = {}
      BY <2>1
    <3> QED
      BY <3>1, <3>2
  <2>3. \A i \in DOMAIN entry : entry[i] \notin {e}
    BY <1>1, InTree
  <2> DEFINE X == {e}
  <2>4. /\ live' = live \ X /\ (\A x \in loose : x \notin X) /\ Owned(t) \subseteq X
        /\ \A u \in Threads : u # t => frame[u].e \notin X /\ \A x \in Owned(u) : x \notin X
        /\ \A f \in live \cap Elements : \A i \in DOMAIN el[f].params : el[f].params[i] \in X <=> f \in X
        /\ \A i \in DOMAIN entry : entry[i] \notin X
    BY <1>1, <1>2, <1>3, <1>9, <2>2, <2>3
  <2>5. entry' = entry /\ el' = el /\ loose' = loose
    BY <1>9
  <2> HIDE DEF X
  <2> QED
    BY <1>4, <1>7, <2>4, <2>5, ReleaseBase
<1> QED
  BY <1>8, <1>9

\* stumpless_set_element swaps an element of the application for one of the
\* entry.
LEMMA SetElementBase ==
  ASSUME BaseInv, NEW t \in Threads, NEW i \in DOMAIN entry, NEW e \in Elements, stumpless_set_element(t, i, e)
  PROVE  BaseInv'
<1> USE DEF stumpless_set_element
<1>1. TypeOK /\ Owned(t) = {} /\ calls' \in 0 .. MaxCalls
  BY CallBegins DEF BaseInv
<1>2. e \in loose /\ \A u \in Threads : frame[u].p # e
  BY DEF Usable
<1>3. Becomes(t, Idle)
  BY <1>1, ChangeBecomes, IdleFrame
<1>4. entry' \in Seq(Elements)
  <2>1. entry \in Seq(Elements)
    BY <1>1 DEF TypeOK
  <2> QED
    BY <2>1
<1>5. entry[i] \in live /\ entry[i] \in Elements
  BY InTree
<1>6. TypeOK'
  BY <1>1, <1>3, <1>4, <1>5 DEF TypeOK, Becomes
<1>7. Idle.e = NULL /\ Idle.p = NULL /\ Placed(Idle) /\ OwnedBy(Idle) = {}
  BY IdleFrame
<1>8. RefersTo(t, Idle)
  BY <1>7, RefersToNothing DEF BaseInv
<1>9. Spares(t)
  BY <1>2, SparesOthers
<1>10. Tree(entry', Arrays', live', loose', Owners')
  <2>1. /\ TreeType(entry, Arrays, live, loose, Owners)
        /\ TreeType(entry', Arrays', live', loose', Owners')
        /\ Tree(entry, Arrays, live, loose, Owners)
        /\ Owners' = Owners /\ Arrays' = Arrays
    BY <1>1, <1>3, <1>6, <1>7, Moves
  <2>2. TreeType(entry, Arrays, live, loose', Owners)
    BY <2>1 DEF TreeType
  <2>3. entry' = [entry EXCEPT ![i] = e] /\ loose' = (loose \ {e}) \cup {entry[i]} /\ live' = live
    OBVIOUS
  <2>4. Tree(entry', Arrays, live, loose', Owners)
    BY ONLY <1>2, <2>1, <2>2, <2>3, ReplaceElement, e \in Elements, i \in DOMAIN entry
  <2> QED
    BY <2>1, <2>3, <2>4
<1> QED
  BY <1>3, <1>6, <1>7, <1>8, <1>9, <1>10, BaseStep

\* A param that a call of t owns or was given is added to an element.
LEMMA ParamAddedBase ==
  ASSUME BaseInv, TypeOK', NEW t \in Threads, NEW f, Becomes(t, f), Placed(f), RefersTo(t, f),
         NEW e \in live \cap Elements, NEW p \in Params, p \in loose \/ p \in Owned(t),
         entry' = entry, live' = live, loose' = loose \ {p},
         el'[e].params = Append(el[e].params, p),
         \A x \in Elements : x # e => el'[x].params = el[x].params,
         OwnedBy(f) = Owned(t) \ {p},
         \A u \in Threads : u # t => e \notin Owned(u),
         p \in loose => \A u \in Threads : u # t => frame[u].p # p
  PROVE  BaseInv'
<1>1. TypeOK /\ el[e].params \in Seq(Params)
  BY TypeFacts DEF BaseInv
<1>2. ToSet(el[e].params) \subseteq ToSet(el'[e].params)
  <2>1. \A i \in DOMAIN el[e].params : i \in DOMAIN el'[e].params /\ el'[e].params[i] = el[e].params[i]
    BY <1>1
  <2> QED
    BY <2>1 DEF ToSet
<1>3. Spares(t)
  <2> SUFFICES ASSUME NEW u \in Threads, u # t
               PROVE  /\ frame[u].p \in loose => frame[u].p \in loose'
                      /\ frame[u].step = "value" /\ frame[u].p \in ToSet(el[frame[u].e].params) =>
                           frame[u].p \in ToSet(el'[frame[u].e].params)
                      /\ frame[u].e \in Owned(u) => el'[frame[u].e].params = el[frame[u].e].params
    BY DEF Spares
  <2>1. Placed(frame[u]) /\ frame[u].e \in (live \cap Elements) \cup {NULL} /\ Owned(u) \subseteq live
    BY Objects
  <2>2. NULL \notin live
    BY <1>1, ObjectsAssumption DEF TypeOK
  <2>3. frame[u].step = "value" => frame[u].e \in Elements
    BY <2>1 DEF Placed
  <2>4. frame[u].e \in Owned(u) => frame[u].e \in Elements /\ frame[u].e # e
    BY <2>1, <2>2
  <2>5. frame[u].p \in loose => frame[u].p \in loose'
    OBVIOUS
  <2> QED
    BY <1>2, <2>3, <2>4, <2>5
<1>4. /\ TreeType(entry, Arrays, live, loose, Owners)
      /\ TreeType(entry', Arrays', live', loose', Owners')
      /\ Tree(entry, Arrays, live, loose, Owners)
      /\ Owners'[t] = Owned(t) \ {p} /\ (\A u \in Threads : u # t => Owners'[u] = Owned(u))
      /\ (\A u \in Threads : Owners[u] = Owned(u))
      /\ \A x \in Elements : Arrays[x] = el[x].params /\ Arrays'[x] = el'[x].params
  BY Moves
<1>5. \A u \in Threads : u # t => p \notin Owned(u)
  BY Objects
<1>6. \A u \in Threads, x \in Elements \cup Params : x \in Owners'[u] <=> x \in Owners[u] /\ x # p
  BY <1>4, <1>5
<1>7. /\ Arrays'[e] = Append(Arrays[e], p)
      /\ \A x \in Elements : x # e => Arrays'[x] = Arrays[x]
  BY <1>4
<1>8. Tree(entry, Arrays', live, loose', Owners')
  <2>1. \A x \in Elements \cup Params : x \in loose' <=> x \in loose /\ x # p
    OBVIOUS
  <2>2. p \in loose \/ \E u \in Threads : p \in Owners[u]
    BY <1>4
  <2>3. TreeType(entry, Arrays', live, loose', Owners')
    BY <1>4
  <2> QED
    BY ONLY <1>4, <1>6, <1>7, <2>1, <2>2, <2>3, AppendParamTo, e \in live \cap Elements, p \in Params
<1> QED
  BY <1>3, <1>8, BaseStep

\* stumpless_add_param takes a param from the application.
LEMMA AddParamBase ==
  ASSUME BaseInv, NEW t \in Threads, NEW e \in Elements, NEW p \in Params, stumpless_add_param(t, e, p)
  PROVE  BaseInv'
<1> USE DEF stumpless_add_param
<1>1. TypeOK /\ Owned(t) = {} /\ calls' \in 0 .. MaxCalls
  BY CallBegins DEF BaseInv
<1>2. p \in loose /\ (\A u \in Threads : frame[u].p # p) /\ e \in live /\ \A u \in Threads : e \notin Owned(u)
  BY DEF Usable, Known
<1>3. Becomes(t, Idle)
  BY <1>1, ChangeBecomes, IdleFrame
<1>4. /\ el' \in [Elements -> stumpless_element] /\ el'[e].params = Append(el[e].params, p)
      /\ \A x \in Elements : x # e => el'[x].params = el[x].params
  <2>1. el \in [Elements -> stumpless_element] /\ el[e].params \in Seq(Params) /\ el[e].name \in Names
    BY <1>1, TypeFacts DEF TypeOK
  <2>2. Append(el[e].params, p) \in Seq(Params)
    BY <2>1
  <2> QED
    BY <2>1, <2>2 DEF stumpless_element
<1>5. seen' \in [renamed : BOOLEAN, added : BOOLEAN, failed : SUBSET Threads]
  BY <1>1 DEF TypeOK
<1>6. TypeOK'
  BY <1>1, <1>3, <1>4, <1>5, ObjectsAssumption DEF TypeOK, Becomes
<1>7. Idle.e = NULL /\ Idle.p = NULL /\ Placed(Idle) /\ OwnedBy(Idle) = {}
  BY IdleFrame
<1>8. RefersTo(t, Idle)
  BY <1>7, RefersToNothing DEF BaseInv
<1> QED
  BY <1>1, <1>2, <1>3, <1>4, <1>6, <1>7, <1>8, ParamAddedBase

\* stumpless_set_param swaps a param of the application for one of the element.
LEMMA SetParamBase ==
  ASSUME BaseInv, NEW t \in Threads, stumpless_set_param(t)
  PROVE  BaseInv'
<1> USE DEF stumpless_set_param
<1> DEFINE e == frame[t].e
           p == frame[t].p
           i == frame[t].i
<1>1. TypeOK /\ frame[t] \in Frames /\ Placed(frame[t]) /\ frame[t].step = "replace" /\ Owned(t) = {}
  BY InStep DEF Placed
<1>2. e \in Elements /\ e \in live /\ p \in Params /\ p \in loose
  BY <1>1, Objects DEF Placed, BaseInv, RefInv
<1>3. \A u \in Threads : u # t => e \notin Owned(u) /\ frame[u].p # p
  BY <1>1 DEF BaseInv, RefInv
<1>4. Becomes(t, Idle)
  BY <1>1, ChangeBecomes, StepBecomes, IdleFrame
<1>5. Idle.e = NULL /\ Idle.p = NULL /\ Placed(Idle) /\ OwnedBy(Idle) = {}
  BY IdleFrame
<1>6. CASE i \notin DOMAIN el[e].params
  <2>1. el' = el /\ loose' = loose
    BY <1>6
  <2>2. TypeOK'
    BY <1>1, <1>4, <2>1 DEF TypeOK, Becomes
  <2> QED
    BY <1>1, <1>4, <1>5, <2>1, <2>2, SettledIdle
<1>7. CASE i \in DOMAIN el[e].params
  <2> DEFINE old == el[e].params[i]
  <2>1. el' = [el EXCEPT ![e].params[i] = p] /\ loose' = (loose \ {p}) \cup {old}
    BY <1>7
  <2>2. el \in [Elements -> stumpless_element] /\ el[e].params \in Seq(Params) /\ el[e].name \in Names
    BY <1>1, <1>2, TypeFacts DEF TypeOK
  <2> DEFINE ps == [el[e].params EXCEPT ![i] = p]
  <2>3. ps \in Seq(Params) /\ \A j \in DOMAIN el[e].params : j \in DOMAIN ps /\ (j # i => ps[j] = el[e].params[j])
    BY <1>2, <1>7, <2>2
  <2>4. /\ el' \in [Elements -> stumpless_element] /\ el'[e].params = ps
        /\ \A x \in Elements : x # e => el'[x] = el[x]
    <3>1. el' = [el EXCEPT ![e].params = ps]
      BY <2>1
    <3> HIDE DEF ps, e
    <3> QED
      BY <1>2, <2>2, <2>3, <3>1 DEF stumpless_element
  <2>5. old \in Params /\ old \in live
    BY <1>2, <1>7, InTree
  <2>6. TypeOK'
    BY <1>1, <1>4, <2>1, <2>4, <2>5 DEF TypeOK, Becomes
  <2>7. RefersTo(t, Idle)
    BY <1>5, RefersToNothing DEF BaseInv
  <2>8. \A x \in ToSet(el[e].params) : x = old \/ x \in ToSet(el'[e].params)
    <3> SUFFICES ASSUME NEW j \in DOMAIN el[e].params
                 PROVE  el[e].params[j] = old \/ el[e].params[j] \in ToSet(ps)
      BY <2>4 DEF ToSet
    <3>1. ps[j] \in ToSet(ps)
      BY <2>3 DEF ToSet
    <3> QED
      BY <2>3, <3>1
  <2>9. Spares(t)
    <3> SUFFICES ASSUME NEW u \in Threads, u # t
                 PROVE  /\ frame[u].e \in live => frame[u].e \in live'
                        /\ frame[u].p \in loose => frame[u].p \in loose'
                        /\ frame[u].step = "value" /\ frame[u].p \in ToSet(el[frame[u].e].params) =>
                             frame[u].p \in loose' \/ frame[u].p \in ToSet(el'[frame[u].e].params)
                        /\ frame[u].e \in Owned(u) => el'[frame[u].e].params = el[frame[u].e].params
      BY DEF Spares
    <3>1. Placed(frame[u]) /\ frame[u].e \in (live \cap Elements) \cup {NULL} /\ Owned(u) \subseteq live
      BY Objects
    <3>2. NULL \notin live
      BY <1>1, ObjectsAssumption DEF TypeOK
    <3>3. frame[u].step = "value" => frame[u].e \in Elements
      BY <3>1 DEF Placed
    <3>4. frame[u].e \in Owned(u) => frame[u].e \in Elements /\ frame[u].e # e
      BY <1>3, <3>1, <3>2
    <3>5. frame[u].p \in loose => frame[u].p \in loose'
      BY <1>3, <2>1
    <3>6. old \in loose'
      BY <2>1
    <3> HIDE DEF e, old, ps
    <3> QED
      BY <2>4, <2>8, <3>3, <3>4, <3>5, <3>6
  <2>10. Tree(entry', Arrays', live', loose', Owners')
    <3>1. /\ TreeType(entry, Arrays, live, loose, Owners)
          /\ TreeType(entry, Arrays', live, loose', Owners)
          /\ Tree(entry, Arrays, live, loose, Owners)
          /\ Owners' = Owners
          /\ \A x \in Elements : Arrays[x] = el[x].params /\ Arrays'[x] = el'[x].params
      BY <1>1, <1>4, <1>5, <2>6, Moves
    <3>2. /\ Arrays'[e] = [Arrays[e] EXCEPT ![i] = p] /\ i \in DOMAIN Arrays[e]
          /\ loose' = (loose \ {p}) \cup {Arrays[e][i]}
          /\ \A x \in Elements : x # e => Arrays'[x] = Arrays[x]
      BY <1>2, <1>7, <2>1, <2>4, <3>1
    <3> HIDE DEF e, p, i
    <3>3. Tree(entry, Arrays', live, loose', Owners)
      BY ONLY <1>2, <3>1, <3>2, ReplaceParam
    <3> QED
      BY <3>1, <3>3
  <2> QED
    BY <1>4, <1>5, <2>6, <2>7, <2>9, <2>10, BaseStep
<1> QED
  BY <1>6, <1>7

\* What a search with SelectInSeq finds.
LEMMA ElementFound ==
  ASSUME TypeOK, NEW n
  PROVE  LET e == locked_get_element_by_name(n) IN
         /\ e = NULL => \A i \in DOMAIN entry : el[entry[i]].name # n
         /\ e # NULL => \E i \in DOMAIN entry :
                          e = entry[i] /\ el[e].name = n /\ \A j \in 1 .. i - 1 : el[entry[j]].name # n
<1> DEFINE I == {i \in 1 .. Len(entry) : el[entry[i]].name = n}
           e == locked_get_element_by_name(n)
<1>1. SelectInSeq(entry, LAMBDA x : el[x].name = n) = IF I # {} THEN Min(I) ELSE 0
  BY DEF SelectInSeq
<1>2. e = IF SelectInSeq(entry, LAMBDA x : el[x].name = n) = 0 THEN NULL
          ELSE entry[SelectInSeq(entry, LAMBDA x : el[x].name = n)]
  BY DEF locked_get_element_by_name
<1>3. DOMAIN entry = 1 .. Len(entry) /\ \A i \in DOMAIN entry : entry[i] \in Elements
  BY TypeFacts
<1>4. I \subseteq Nat
  OBVIOUS
<1>5. CASE I = {}
  <2>1. e = NULL
    BY <1>1, <1>2, <1>5
  <2>2. \A i \in DOMAIN entry : el[entry[i]].name # n
    BY <1>3, <1>5
  <2> QED
    BY <2>1, <2>2
<1>6. CASE I # {}
  <2>1. Min(I) \in I /\ \A j \in I : Min(I) <= j
    BY <1>4, <1>6, MinIsLeast
  <2> DEFINE k == Min(I)
  <2>2. k \in DOMAIN entry /\ k # 0 /\ el[entry[k]].name = n /\ k \in Nat
    BY <1>3, <2>1
  <2>3. e = entry[k]
    BY <1>1, <1>2, <1>6, <2>2
  <2>4. e # NULL
    BY <1>3, <2>2, <2>3, ObjectsAssumption
  <2>5. \A j \in 1 .. k - 1 : el[entry[j]].name # n
    <3> SUFFICES ASSUME NEW j \in 1 .. k - 1, j \in I PROVE FALSE
      BY <1>3, <2>2
    <3> QED
      BY <2>1, <2>2
  <2> QED
    BY <2>2, <2>3, <2>4, <2>5
<1> QED
  BY <1>5, <1>6

\* The steps that calls by name begin with.
ByNameSteps == {"make", "look"}

\* The frames of a call for an element that is there, and for one it creates.
FoundFrame(e, n, v, step) ==
  [Idle EXCEPT !.step = step, !.e = e, !.n = n, !.v = v, !.created = FALSE, !.locked = TRUE]

MadeFrame(e, n, v, step) ==
  [Idle EXCEPT !.step = step, !.e = e, !.n = n, !.v = v, !.created = TRUE, !.locked = TRUE]

\* What they have in common.
Looks(f, e, n, step) ==
  /\ f \in Frames /\ Placed(f) /\ f.step = step /\ f.e = e /\ f.p = NULL /\ f.n = n
  /\ f.locked = TRUE /\ f.copy = << >>

\* The frame of a call for a name that is in the entry.
LEMMA FoundFrameIs ==
  ASSUME NEW e \in Elements, NEW n \in Names, NEW v \in Values, NEW step \in ByNameSteps
  PROVE  Looks(FoundFrame(e, n, v, step), e, n, step) /\ FoundFrame(e, n, v, step).created = FALSE
<1> DEFINE f == FoundFrame(e, n, v, step)
<1>0. Idle \in Frames /\ Idle.p = NULL /\ Idle.copy = << >> /\ e # NULL
  BY IdleFrame, ObjectsAssumption
<1>1. /\ f \in Frames /\ f.step = step /\ f.e = e /\ f.p = NULL /\ f.n = n /\ f.v = v
      /\ f.created = FALSE /\ f.locked = TRUE /\ f.copy = << >>
  BY <1>0 DEF Frames, Steps, ByNameSteps, FoundFrame
<1> HIDE DEF f
<1>2. Placed(f)
  BY <1>0, <1>1 DEF Placed, ByNameSteps
<1>3. Looks(f, e, n, step)
  BY <1>1, <1>2 DEF Looks
<1> QED
  BY <1>1, <1>3 DEF f

\* The frame of a call for a name that is not.
LEMMA MadeFrameIs ==
  ASSUME NEW e \in Elements, NEW n \in Names, NEW v \in Values, NEW step \in ByNameSteps
  PROVE  Looks(MadeFrame(e, n, v, step), e, n, step) /\ MadeFrame(e, n, v, step).created = TRUE
<1> DEFINE f == MadeFrame(e, n, v, step)
<1>0. Idle \in Frames /\ Idle.p = NULL /\ Idle.copy = << >> /\ e # NULL
  BY IdleFrame, ObjectsAssumption
<1>1. /\ f \in Frames /\ f.step = step /\ f.e = e /\ f.p = NULL /\ f.n = n /\ f.v = v
      /\ f.created = TRUE /\ f.locked = TRUE /\ f.copy = << >>
  BY <1>0 DEF Frames, Steps, ByNameSteps, MadeFrame
<1> HIDE DEF f
<1>2. Placed(f)
  BY <1>0, <1>1 DEF Placed, ByNameSteps
<1>3. Looks(f, e, n, step)
  BY <1>1, <1>2 DEF Looks
<1> QED
  BY <1>1, <1>3 DEF f

\* What EntryCall does, when the element is there and when it is not.
LEMMA EntryCallDoes ==
  ASSUME BaseInv, NEW t \in Threads, NEW en \in Names, NEW pn \in Names, NEW v \in Values,
         NEW step \in {"make", "look"}, EntryCall(t, en, pn, v, step)
  PROVE  /\ Calling(t) /\ holder' = [holder EXCEPT ![Entry] = t] /\ Free(Entry)
         /\ seen' = [seen EXCEPT !.added = @ \/ step = "make"]
         /\ UNCHANGED << entry, par, loose >>
         /\ \/ \E e \in Elements :
                 /\ \E i \in DOMAIN entry : e = entry[i]
                 /\ Step(t, FoundFrame(e, pn, v, step)) /\ live' = live /\ el' = el
            \/ \E e \in Elements \ live :
                 /\ \A i \in DOMAIN entry : el[entry[i]].name # en
                 /\ Step(t, MadeFrame(e, pn, v, step)) /\ live' = live \cup {e}
                 /\ el' = [el EXCEPT ![e] = [name |-> en, params |-> <<>>]]
<1> USE DEF EntryCall
<1> DEFINE found == locked_get_element_by_name(en)
           Framed(e, created) ==
             [Idle EXCEPT !.step = step, !.e = e, !.n = pn, !.v = v, !.created = created, !.locked = TRUE]
<1>1. TypeOK
  BY DEF BaseInv
<1>2. PICK e \in (IF found = NULL THEN Elements \ live ELSE {found}) :
        /\ Step(t, Framed(e, found = NULL))
        /\ live' = live \cup {e}
        /\ el' = IF found = NULL THEN [el EXCEPT ![e] = [name |-> en, params |-> <<>>]] ELSE el
  BY Zenon
<1>3. /\ found = NULL => \A i \in DOMAIN entry : el[entry[i]].name # en
      /\ found # NULL => \E i \in DOMAIN entry : found = entry[i]
  BY <1>1, ElementFound
<1>4. Framed(e, TRUE) = MadeFrame(e, pn, v, step) /\ Framed(e, FALSE) = FoundFrame(e, pn, v, step)
  BY DEF MadeFrame, FoundFrame
<1> HIDE DEF found, Framed
<1>5. CASE found = NULL
  <2>1. Step(t, Framed(e, TRUE))
    <3>1. (found = NULL) = TRUE
      BY <1>5
    <3> QED
      BY <1>2, <3>1
  <2>2. /\ e \in Elements \ live /\ Step(t, MadeFrame(e, pn, v, step)) /\ live' = live \cup {e}
        /\ el' = [el EXCEPT ![e] = [name |-> en, params |-> <<>>]]
        /\ \A i \in DOMAIN entry : el[entry[i]].name # en
    BY <1>2, <1>3, <1>4, <1>5, <2>1
  <2> QED
    BY <2>2
<1>6. CASE found # NULL
  <2>1. Step(t, Framed(e, FALSE))
    <3>1. (found = NULL) = FALSE
      BY <1>6
    <3> QED
      BY <1>2, <3>1
  <2>2. e = found /\ found \in Elements /\ found \in live
    BY <1>2, <1>3, <1>6, InTree
  <2>3. live' = live /\ el' = el
    BY <1>2, <1>6, <2>2
  <2>4. Step(t, FoundFrame(e, pn, v, step)) /\ \E i \in DOMAIN entry : e = entry[i]
    BY <1>3, <1>4, <1>6, <2>1, <2>2
  <2> QED
    BY <2>2, <2>3, <2>4
<1> QED
  BY <1>5, <1>6

\* An entry call finds the element, or allocates one.
LEMMA EntryCallBase ==
  ASSUME BaseInv, NEW t \in Threads, NEW en \in Names, NEW pn \in Names, NEW v \in Values,
         NEW step \in {"make", "look"}, EntryCall(t, en, pn, v, step)
  PROVE  BaseInv'
<1>0. step \in ByNameSteps
  BY DEF ByNameSteps
<1>1. /\ Calling(t) /\ holder' = [holder EXCEPT ![Entry] = t] /\ Free(Entry)
      /\ seen' = [seen EXCEPT !.added = @ \/ step = "make"]
      /\ UNCHANGED << entry, par, loose >>
  BY EntryCallDoes
<1>2. TypeOK /\ Owned(t) = {} /\ calls' \in 0 .. MaxCalls
  BY <1>1, CallBegins DEF BaseInv
<1>3. /\ holder' \in [Elements \cup Params \cup {Entry} -> Threads \cup {NULL}]
      /\ seen' \in [renamed : BOOLEAN, added : BOOLEAN, failed : SUBSET Threads]
  BY <1>1, <1>2 DEF TypeOK
<1>4. ASSUME NEW e \in Elements, NEW i \in DOMAIN entry, e = entry[i],
             Step(t, FoundFrame(e, pn, v, step)), live' = live, el' = el
      PROVE  BaseInv'
  <2> DEFINE f == FoundFrame(e, pn, v, step)
  <2>1. f \in Frames /\ Placed(f) /\ f.step = step /\ f.e = e /\ ~f.created /\ Step(t, f)
    <3>1. Looks(f, e, pn, step)
      BY <1>0, FoundFrameIs
    <3>2. f.created = FALSE
      BY <1>0, FoundFrameIs
    <3>3. Step(t, f)
      BY <1>4
    <3> HIDE DEF f
    <3> QED
      BY <3>1, <3>2, <3>3 DEF Looks
  <2> HIDE DEF f
  <2>2. f.e \in live /\ \A u \in Threads : f.e \notin Owned(u)
    BY <1>4, <2>1, InTree
  <2> QED
    BY <1>1, <1>3, <1>4, <2>1, <2>2, BeginBase
<1>5. ASSUME NEW e \in Elements \ live, Step(t, MadeFrame(e, pn, v, step)), live' = live \cup {e},
             el' = [el EXCEPT ![e] = [name |-> en, params |-> <<>>]]
      PROVE  BaseInv'
  <2> DEFINE f == MadeFrame(e, pn, v, step)
  <2>1. /\ f \in Frames /\ Placed(f) /\ f.step = step /\ f.e = e /\ f.p = NULL /\ f.created = TRUE
        /\ Step(t, f)
    <3>1. Looks(f, e, pn, step)
      BY <1>0, MadeFrameIs
    <3>2. f.created = TRUE
      BY <1>0, MadeFrameIs
    <3>3. Step(t, f)
      BY <1>5
    <3> HIDE DEF f
    <3> QED
      BY <3>1, <3>2, <3>3 DEF Looks
  <2> HIDE DEF f
  <2>2. Becomes(t, f)
    BY <1>2, <2>1, StepBecomes
  <2>3. [name |-> en, params |-> <<>>] \in stumpless_element
    BY DEF stumpless_element
  <2>4. /\ el' \in [Elements -> stumpless_element] /\ el'[e].params = << >>
        /\ \A x \in Elements : x # e => el'[x] = el[x]
    BY <1>2, <1>5, <2>3 DEF TypeOK
  <2>5. TypeOK'
    BY <1>1, <1>2, <1>3, <1>5, <2>2, <2>4 DEF TypeOK, Becomes
  <2>6. OwnedBy(f) = {e}
    BY <2>1 DEF OwnedBy
  <2>7. RefersTo(t, f)
    <3>1. \A u \in Threads : e \notin Owned(u) /\ frame[u].e # e
      BY Objects, ObjectsAssumption
    <3>2. \A u \in Threads : frame[u].step = "replace" => frame[u].p # NULL
      BY DEF BaseInv, PlaceInv, Placed
    <3> QED
      BY <1>5, <2>1, <2>4, <2>6, <3>1, <3>2 DEF RefersTo
  <2>8. Spares(t)
    BY <1>1, <1>5, <2>4, SparesLive
  <2>9. Tree(entry', Arrays', live', loose', Owners')
    <3>1. /\ TreeType(entry, Arrays, live, loose, Owners)
          /\ TreeType(entry, Arrays', live', loose', Owners')
          /\ Tree(entry, Arrays, live, loose, Owners)
          /\ \A x \in Elements : Arrays[x] = el[x].params /\ Arrays'[x] = el'[x].params
          /\ Owners'[t] = {e} /\ (\A u \in Threads : u # t => Owners'[u] = Owned(u))
          /\ \A u \in Threads : Owners[u] = Owned(u)
      BY <1>1, <2>1, <2>2, <2>5, <2>6, Moves
    <3>2. \A x \in Elements : x # e => Arrays'[x] = Arrays[x]
      BY <2>4, <3>1
    <3>3. Arrays'[e] = << >>
      BY <2>4, <3>1
    <3>4. Hands(Owners, Owners', t) /\ Owners'[t] = Owners[t] \cup {e}
      BY <1>2, <3>1 DEF Hands
    <3>5. Tree(entry, Arrays', live', loose', Owners')
      BY <1>1, <1>5, <3>1, <3>2, <3>3, <3>4, NewObject
    <3> QED
      BY <1>1, <3>5
  <2> QED
    BY <2>1, <2>2, <2>5, <2>7, <2>8, <2>9, BaseStep
<1>6. \/ \E e \in Elements :
           /\ \E i \in DOMAIN entry : e = entry[i]
           /\ Step(t, FoundFrame(e, pn, v, step)) /\ live' = live /\ el' = el
      \/ \E e \in Elements \ live :
           /\ Step(t, MadeFrame(e, pn, v, step)) /\ live' = live \cup {e}
           /\ el' = [el EXCEPT ![e] = [name |-> en, params |-> <<>>]]
  BY EntryCallDoes
<1> QED
  BY <1>4, <1>5, <1>6

\* A call that fails frees the element it has created.
LEMMA FailBase ==
  ASSUME BaseInv, NEW t \in Threads, frame[t].step \in {"make", "finish"}, Fail(t),
         UNCHANGED << entry, el, par, loose, seen, calls >>
  PROVE  BaseInv'
<1> USE DEF Fail
<1> DEFINE e == frame[t].e
<1>1. TypeOK /\ frame[t] \in Frames /\ Placed(frame[t])
  BY InStep
<1>2. e \in Elements /\ e \in live /\ \A u \in Threads : u # t => frame[u].e \notin Owned(t)
  <2>1. e # NULL
    BY <1>1 DEF Placed
  <2> QED
    BY <2>1, Referring
<1>3. Becomes(t, Idle)
  BY <1>1, StepBecomes, IdleFrame
<1>4. holder' \in [Elements \cup Params \cup {Entry} -> Threads \cup {NULL}]
  BY <1>1, ReturnType
<1>5. CASE ~frame[t].created
  <2>1. live' = live /\ Owned(t) = {}
    BY <1>5, InStep
  <2>2. TypeOK'
    BY <1>1, <1>3, <1>4, <2>1 DEF TypeOK, Becomes
  <2> QED
    BY <1>3, <2>1, <2>2, SettledIdle, IdleFrame
<1>6. CASE frame[t].created
  <2> DEFINE X == {e} \cup ParamsOf(e)
  <2>1. live' = live \ X /\ Owned(t) = {e}
    BY <1>6, InStep
  <2>2. \A x : x \in ParamsOf(e) <=> \E i \in DOMAIN el[e].params : el[e].params[i] = x
    BY DEF ParamsOf, ToSet
  <2>3. \A x \in ParamsOf(e) : x \in Params /\ x \notin Elements /\ x \notin loose /\ \A u \in Threads : x \notin Owned(u)
    BY <1>2, <2>2, InTree, ObjectsAssumption
  <2>4. e \notin loose /\ \A u \in Threads : u # t => e \notin Owned(u)
    BY <2>1, Objects
  <2>5. \A x \in loose : x \notin X
    BY <2>3, <2>4
  <2>6. ASSUME NEW u \in Threads, u # t PROVE frame[u].e \notin X /\ \A x \in Owned(u) : x \notin X
    <3>1. frame[u].e \in Elements \cup {NULL} /\ NULL \notin Params
      BY Objects, ObjectsAssumption
    <3>2. frame[u].e # e
      BY <1>2, <2>1, <2>6
    <3> QED
      BY <2>3, <2>4, <2>6, <3>1, <3>2
  <2>7. ASSUME NEW f \in live \cap Elements, NEW i \in DOMAIN el[f].params PROVE el[f].params[i] \in X <=> f \in X
    <3>1. el[f].params[i] \in Params /\ el[f].params[i] \notin Elements
      BY InTree, ObjectsAssumption
    <3>2. el[f].params[i] \in X <=> \E j \in DOMAIN el[e].params : el[e].params[j] = el[f].params[i]
      BY <1>2, <2>2, <3>1
    <3>3. f \in X <=> f = e
      BY <2>3
    <3> HIDE DEF e
    <3> QED
      BY <1>2, <3>2, <3>3, InTree
  <2>8. \A i \in DOMAIN entry : entry[i] \notin X
    BY <2>1, <2>3, InTree
  <2>9. TypeOK'
    BY <1>1, <1>3, <1>4, <2>1, <2>5 DEF TypeOK, Becomes
  <2>10. Owned(t) \subseteq X
    BY <2>1
  <2> HIDE DEF X
  <2> QED
    BY <1>3, <2>1, <2>5, <2>6, <2>7, <2>8, <2>9, <2>10, ReleaseBase
<1> QED
  BY <1>5, <1>6

ToAppend(f, p) == [f EXCEPT !.step = "append", !.p = p]

ToFinish(f) == [f EXCEPT !.step = "finish", !.p = NULL]

\* The param is made.
LEMMA ToAppendIs ==
  ASSUME NEW f \in Frames, Placed(f), f.step = "make", NEW p \in Params
  PROVE  /\ ToAppend(f, p) \in Frames /\ Placed(ToAppend(f, p)) /\ ToAppend(f, p).step = "append"
         /\ ToAppend(f, p).e = f.e /\ ToAppend(f, p).p = p /\ ToAppend(f, p).created = f.created
         /\ ToAppend(f, p).locked = f.locked /\ ToAppend(f, p).n = f.n
         /\ OwnedBy(ToAppend(f, p)) = OwnedBy(f) \cup {p}
<1> DEFINE g == ToAppend(f, p)
<1>1. /\ g \in Frames /\ g.step = "append" /\ g.e = f.e /\ g.p = p /\ g.n = f.n /\ g.v = f.v
      /\ g.created = f.created /\ g.locked = f.locked /\ g.copy = f.copy
  BY DEF Frames, Steps, ToAppend
<1>2. f.created \in BOOLEAN /\ f.locked \in BOOLEAN /\ p # NULL
  BY FrameFields, ObjectsAssumption
<1> HIDE DEF g
<1>3. Placed(g)
  BY <1>1, <1>2 DEF Placed
<1>4. OwnedBy(g) = OwnedBy(f) \cup {p}
  BY <1>1, <1>2 DEF OwnedBy
<1> QED
  BY <1>1, <1>3, <1>4 DEF g

\* The param is in the element.
LEMMA ToFinishIs ==
  ASSUME NEW f \in Frames, Placed(f), f.step = "append"
  PROVE  /\ ToFinish(f) \in Frames /\ Placed(ToFinish(f)) /\ ToFinish(f).step = "finish"
         /\ ToFinish(f).e = f.e /\ ToFinish(f).p = NULL /\ ToFinish(f).created = f.created
         /\ ToFinish(f).locked = f.locked
         /\ OwnedBy(ToFinish(f)) = OwnedBy(f) \ {f.p}
<1> DEFINE g == ToFinish(f)
<1>1. /\ g \in Frames /\ g.step = "finish" /\ g.e = f.e /\ g.p = NULL /\ g.n = f.n /\ g.v = f.v
      /\ g.created = f.created /\ g.locked = f.locked /\ g.copy = f.copy
  BY DEF Frames, Steps, ToFinish
<1>2. f.created \in BOOLEAN /\ f.locked \in BOOLEAN /\ f.e \in Elements \cup {NULL} /\ f.p \in Params \cup {NULL}
  BY FrameFields
<1>3. f.e # f.p
  BY <1>2, ObjectsAssumption DEF Placed
<1> HIDE DEF g
<1>4. Placed(g)
  BY <1>1, <1>2 DEF Placed
<1>5. OwnedBy(g) = OwnedBy(f) \ {f.p}
  BY <1>1, <1>2, <1>3 DEF OwnedBy
<1> QED
  BY <1>1, <1>4, <1>5 DEF g

\* stumpless_add_new_param allocates the param, or frees what the call created.
LEMMA AddNewParamBase ==
  ASSUME BaseInv, NEW t \in Threads, stumpless_add_new_param(t)
  PROVE  BaseInv'
<1> USE DEF stumpless_add_new_param
<1>1. TypeOK /\ frame[t] \in Frames /\ Placed(frame[t]) /\ frame[t].step = "make"
  BY InStep, Zenon
<1>2. CASE Fail(t) /\ UNCHANGED par
  BY <1>1, <1>2, FailBase
<1>3. ASSUME NEW p \in Params \ live, par' = [par EXCEPT ![p] = [name |-> frame[t].n, value |-> frame[t].v]],
             live' = live \cup {p}, Step(t, ToAppend(frame[t], p)), holder' = holder
      PROVE  BaseInv'
  <2> DEFINE f == ToAppend(frame[t], p)
  <2>1. /\ f \in Frames /\ Placed(f) /\ f.step = "append" /\ f.e = frame[t].e /\ f.p = p
        /\ f.created = frame[t].created /\ OwnedBy(f) = OwnedBy(frame[t]) \cup {p}
    BY <1>1, ToAppendIs, Zenon
  <2>2. Step(t, f)
    BY <1>3, Zenon
  <2> HIDE DEF f
  <2>3. /\ frame[t].n \in Names /\ frame[t].v \in Values /\ frame[t].e \in Elements /\ frame[t].e \in live
        /\ \A u \in Threads : u # t => frame[t].e \notin Owned(u) /\ frame[u].e \notin Owned(t)
    <3>1. frame[t].n \in Names /\ frame[t].v \in Values /\ frame[t].e # NULL
      BY <1>1, Zenon DEF Placed
    <3> QED
      BY <3>1, Referring, Zenon
  <2>4. Becomes(t, f)
    BY <1>1, <2>1, <2>2, StepBecomes, Zenon
  <2>5. par' \in [Params -> stumpless_param]
    <3>1. [name |-> frame[t].n, value |-> frame[t].v] \in stumpless_param
      BY <2>3, Zenon DEF stumpless_param
    <3> QED
      BY <1>1, <1>3, <3>1, Zenon DEF TypeOK
  <2>6. TypeOK'
    BY <1>1, <1>3, <2>4, <2>5, Zenon DEF TypeOK, Becomes
  <2>7. OwnedBy(f) = Owned(t) \cup {p}
    BY <2>1, OwnedIs, Zenon
  <2>8. RefersTo(t, f)
    <3>1. \A u \in Threads : frame[u].step = "replace" => frame[u].p \in live
      BY <1>1, Zenon DEF BaseInv, RefInv, TypeOK
    <3>2. \A u \in Threads : frame[u].e # p
      BY Objects, ObjectsAssumption, Zenon
    <3>3. frame[t].created => el[frame[t].e].params = << >>
      BY <1>1, Zenon DEF BaseInv, RefInv
    <3> QED
      BY <1>3, <2>1, <2>3, <2>7, <3>1, <3>2, <3>3, Zenon DEF RefersTo
  <2>9. Spares(t)
    BY <1>3, SparesLive, Zenon
  <2>10. Tree(entry', Arrays', live', loose', Owners')
    <3>1. /\ TreeType(entry, Arrays, live, loose, Owners)
          /\ TreeType(entry, Arrays', live', loose', Owners')
          /\ Tree(entry, Arrays, live, loose, Owners)
          /\ Arrays' = Arrays
          /\ Owners'[t] = Owned(t) \cup {p} /\ (\A u \in Threads : u # t => Owners'[u] = Owned(u))
          /\ \A u \in Threads : Owners[u] = Owned(u)
      BY <2>1, <2>4, <2>6, <2>7, Moves, Zenon
    <3>2. Hands(Owners, Owners', t) /\ Owners'[t] = Owners[t] \cup {p}
      BY <3>1, Zenon DEF Hands
    <3>3. p \notin Elements /\ p \in Elements \cup Params /\ p \notin live
      BY ObjectsAssumption, Zenon
    <3>4. live' = live \cup {p} /\ loose' = loose /\ entry' = entry
      BY <1>3, Zenon
    <3>5. \A x \in Elements : x # p => Arrays'[x] = Arrays[x]
      BY <3>1, Zenon
    <3>6. Tree(entry, Arrays', live', loose', Owners')
      BY ONLY <3>1, <3>2, <3>3, <3>4, <3>5, NewObject, t \in Threads
    <3> QED
      BY <3>4, <3>6, Zenon
  <2> QED
    BY <2>1, <2>4, <2>6, <2>8, <2>9, <2>10, BaseStep, Zenon
<1>4. \/ Fail(t) /\ UNCHANGED par
      \/ \E p \in Params \ live :
           /\ par' = [par EXCEPT ![p] = [name |-> frame[t].n, value |-> frame[t].v]]
           /\ live' = live \cup {p} /\ Step(t, ToAppend(frame[t], p)) /\ holder' = holder
  BY Zenon DEF ToAppend
<1> QED
  BY <1>2, <1>3, <1>4, Zenon

\* The param becomes one of the element, or is freed with what the call
\* created.
LEMMA AppendParamBase ==
  ASSUME BaseInv, NEW t \in Threads, AppendParam(t)
  PROVE  BaseInv'
<1> USE DEF AppendParam
<1> DEFINE e == frame[t].e
           p == frame[t].p
           f == ToFinish(frame[t])
<1>1. TypeOK /\ frame[t] \in Frames /\ Placed(frame[t]) /\ frame[t].step = "append" /\ frame[t].created \in BOOLEAN
  BY InStep, FrameFields
<1>2. /\ e \in Elements /\ e \in live /\ p \in Params
      /\ \A u \in Threads : u # t => e \notin Owned(u) /\ frame[u].e \notin Owned(t)
  <2>1. e # NULL /\ p # NULL
    BY <1>1 DEF Placed
  <2> QED
    BY <2>1, Referring, Objects
<1>3. /\ f \in Frames /\ Placed(f) /\ f.step = "finish" /\ f.e = e /\ f.p = NULL
      /\ f.created = frame[t].created /\ OwnedBy(f) = Owned(t) \ {p}
  BY <1>1, ToFinishIs, OwnedIs
<1>4. p \in Owned(t) /\ Owned(t) = (IF frame[t].created THEN {e, p} ELSE {p})
  BY <1>1, InStep
<1>5. CASE el' = [el EXCEPT ![e].params = Append(@, p)] /\ Change(t, f) /\ UNCHANGED << live, holder >>
  <2>1. Becomes(t, f)
    <3> HIDE DEF f
    <3> QED
      BY <1>1, <1>3, <1>5, ChangeBecomes
  <2>2. /\ el' \in [Elements -> stumpless_element] /\ el'[e].params = Append(el[e].params, p)
        /\ \A x \in Elements : x # e => el'[x].params = el[x].params
    <3>1. el \in [Elements -> stumpless_element] /\ el[e].params \in Seq(Params) /\ el[e].name \in Names
      BY <1>1, <1>2, TypeFacts DEF TypeOK
    <3> HIDE DEF e, p
    <3>2. Append(el[e].params, p) \in Seq(Params)
      BY <1>2, <3>1
    <3> QED
      BY <1>2, <1>5, <3>1, <3>2 DEF stumpless_element
  <2>3. TypeOK'
    BY <1>1, <1>5, <2>1, <2>2 DEF TypeOK, Becomes
  <2>4. loose' = loose \ {p} /\ p \notin loose
    BY <1>4, Objects
  <2>5. RefersTo(t, f)
    <3>1. \A u \in Threads : frame[u].step = "replace" => frame[u].p # NULL
      BY DEF BaseInv, PlaceInv, Placed
    <3>2. OwnedBy(f) \subseteq Owned(t)
      BY <1>3
    <3> HIDE DEF f
    <3> QED
      BY <1>2, <1>3, <1>5, <3>1, <3>2 DEF RefersTo
  <2> HIDE DEF f, e, p
  <2> QED
    BY <1>2, <1>3, <1>4, <1>5, <2>1, <2>2, <2>3, <2>4, <2>5, ParamAddedBase
<1>6. CASE live' = live \ (IF frame[t].created THEN {e, p} ELSE {p}) /\ Return(t) /\ Step(t, Idle) /\ el' = el
  <2> DEFINE X == Owned(t)
  <2>1. live' = live \ X
    BY <1>4, <1>6
  <2>2. Becomes(t, Idle)
    BY <1>1, <1>6, StepBecomes, IdleFrame
  <2>3. holder' \in [Elements \cup Params \cup {Entry} -> Threads \cup {NULL}]
    BY <1>1, <1>6, ReturnType
  <2>4. \A x \in loose : x \notin X
    BY Objects
  <2>5. TypeOK'
    BY <1>1, <1>6, <2>1, <2>2, <2>3, <2>4 DEF TypeOK, Becomes
  <2>6. \A u \in Threads : u # t => frame[u].e \notin X /\ \A x \in Owned(u) : x \notin X
    BY <1>2, Objects
  <2>7. ASSUME NEW y \in live \cap Elements, NEW i \in DOMAIN el[y].params PROVE el[y].params[i] \in X <=> y \in X
    <3>1. el[y].params[i] \notin X
      BY InTree
    <3>2. y # p
      BY <1>2, ObjectsAssumption
    <3>3. frame[t].created => el[e].params = << >>
      BY <1>1 DEF BaseInv, RefInv
    <3>4. frame[t].created => y # e
      <4>1. DOMAIN << >> = {}
        OBVIOUS
      <4> QED
        BY <3>3, <4>1
    <3> QED
      BY <1>4, <3>1, <3>2, <3>4
  <2>8. \A i \in DOMAIN entry : entry[i] \notin X
    BY InTree
  <2> HIDE DEF X
  <2>9. Owned(t) \subseteq X
    BY DEF X
  <2> QED
    BY <1>6, <2>1, <2>2, <2>4, <2>5, <2>6, <2>7, <2>8, <2>9, ReleaseBase
<1> QED
  BY <1>5, <1>6 DEF ToFinish

\* The element becomes one of the entry, or is freed with its params.
LEMMA FinishBase ==
  ASSUME BaseInv, NEW t \in Threads, Finish(t)
  PROVE  BaseInv'
<1> USE DEF Finish
<1> DEFINE e == frame[t].e
<1>1. TypeOK /\ frame[t] \in Frames /\ Placed(frame[t]) /\ frame[t].step = "finish"
  BY InStep
<1>2. CASE frame[t].created /\ Fail(t) /\ UNCHANGED entry
  BY <1>1, <1>2, FailBase
<1>3. CASE /\ IF frame[t].created THEN locked_add_element(e) ELSE UNCHANGED entry
           /\ Change(t, Idle) /\ live' = live /\ Return(t)
  <2>1. Becomes(t, Idle)
    BY <1>1, <1>3, ChangeBecomes, IdleFrame
  <2>2. holder' \in [Elements \cup Params \cup {Entry} -> Threads \cup {NULL}]
    BY <1>1, <1>3, ReturnType
  <2>3. e \in Elements
    <3>1. e # NULL
      BY <1>1 DEF Placed
    <3> QED
      BY <3>1, Referring
  <2>4. CASE ~frame[t].created
    <3>1. entry' = entry /\ Owned(t) = {}
      BY <1>1, <1>3, <2>4, InStep
    <3>2. TypeOK'
      BY <1>1, <1>3, <2>1, <2>2, <3>1 DEF TypeOK, Becomes
    <3> QED
      BY <1>3, <2>1, <3>1, <3>2, SettledIdle, IdleFrame
  <2>5. CASE frame[t].created
    <3>1. Owned(t) = {e} /\ entry' = Append(entry, e)
      BY <1>1, <1>3, <2>5, InStep DEF locked_add_element
    <3>2. entry' \in Seq(Elements)
      BY <1>1, <2>3, <3>1 DEF TypeOK
    <3>3. TypeOK'
      BY <1>1, <1>3, <2>1, <2>2, <3>2 DEF TypeOK, Becomes
    <3>4. loose' = loose \ {e}
      BY <3>1, Objects
    <3> HIDE DEF e
    <3> QED
      BY <1>3, <2>1, <2>3, <3>1, <3>3, <3>4, AddedBase
  <2> QED
    BY <2>4, <2>5
<1> QED
  BY <1>2, <1>3

-----------------------------------------------------------------------------
(***************************************************************************)
(* The initial states and all steps.                                       *)
(***************************************************************************)

\* The tree is sound in the beginning.
LEMMA InitBase == Init => BaseInv
<1> SUFFICES ASSUME Init PROVE BaseInv
  OBVIOUS
<1>1. PICK a \in Elements, n \in Names, ps \in {<<>>} \cup {<< p >> : p \in Params} :
        /\ entry = << a >>
        /\ el = [e \in Elements |-> [name |-> n, params |-> IF e = a THEN ps ELSE <<>>]]
        /\ par = [q \in Params |-> [name |-> n, value |-> Min(Values)]]
        /\ live = {a} \cup ToSet(ps)
        /\ loose = {}
        /\ holder = [o \in Elements \cup Params \cup {Entry} |-> NULL]
        /\ frame = [t \in Threads |-> Idle]
        /\ seen = [renamed |-> FALSE, added |-> FALSE, failed |-> {}]
        /\ calls = 0
  BY DEF Init
<1>2. Min(Values) \in Values
  BY ObjectsAssumption, MinIsLeast
<1>3. ps \in Seq(Params) /\ (\A i, j \in DOMAIN ps : i = j) /\ \A x : x \in ToSet(ps) <=> \E i \in DOMAIN ps : ps[i] = x
  <2>1. CASE ps = << >>
    BY <2>1 DEF ToSet
  <2>2. CASE \E p \in Params : ps = << p >>
    BY <2>2 DEF ToSet
  <2> QED
    BY <2>1, <2>2
<1>4. ToSet(ps) \subseteq Params
  BY <1>3
<1>5. entry \in Seq(Elements) /\ DOMAIN entry = {1} /\ entry[1] = a
  BY <1>1
<1>6. /\ el \in [Elements -> stumpless_element] /\ el[a].params = ps
      /\ \A e \in Elements : e # a => el[e].params = << >>
  <2>1. << >> \in Seq(Params)
    OBVIOUS
  <2> QED
    BY <1>1, <1>3, <2>1 DEF stumpless_element
<1>7. \A t \in Threads : frame[t] = Idle
  BY <1>1
<1>8. TypeOK
  <2>1. par \in [Params -> stumpless_param]
    BY <1>1, <1>2 DEF stumpless_param
  <2>2. frame \in [Threads -> Frames]
    BY <1>1, IdleFrame
  <2>3. holder \in [Elements \cup Params \cup {Entry} -> Threads \cup {NULL}] /\ calls \in 0 .. MaxCalls
    BY <1>1, ObjectsAssumption
  <2>4. seen \in [renamed : BOOLEAN, added : BOOLEAN, failed : SUBSET Threads]
    BY <1>1
  <2>5. live \subseteq Elements \cup Params /\ loose \subseteq live
    BY <1>1, <1>4
  <2> QED
    BY <1>5, <1>6, <2>1, <2>2, <2>3, <2>4, <2>5 DEF TypeOK
<1>9. PlaceInv
  BY <1>7, IdleFrame DEF PlaceInv
<1>10. \A t \in Threads : Owned(t) = {}
  BY <1>7, IdleFrame, OwnedIs
<1>11. RefInv
  <2>1. Idle.e = NULL /\ Idle.step = "idle" /\ Idle.created = FALSE
    BY IdleFrame
  <2> QED
    BY <1>7, <1>10, <2>1 DEF RefInv
<1>12. TreeInv
  <2>1. (\A e \in Elements : Arrays[e] = el[e].params) /\ \A t \in Threads : Owners[t] = {}
    BY <1>8, <1>10, StateType
  <2>2. Elements \cap Params = {} /\ DOMAIN << >> = {}
    BY ObjectsAssumption
  <2>3. live \cap Elements = {a}
    BY <1>1, <1>4, <2>2
  <2>4. Listed(entry, live, loose, Owners)
    BY <1>1, <1>5, <2>1 DEF Listed
  <2>5. Held(Arrays, live, loose, Owners)
    BY <1>1, <1>3, <1>6, <2>1, <2>3 DEF Held
  <2>6. Given(live, loose, Owners)
    BY <2>1 DEF Given
  <2>7. Complete(entry, live, loose, Owners)
    BY <1>5, <2>3 DEF Complete
  <2>8. Contents(Arrays, live, loose, Owners)
    <3>1. \A o \in live \cap Params : o \in ToSet(ps)
      BY <1>1, <2>2
    <3>2. Arrays[a] = ps /\ a \in live \cap Elements
      BY <1>6, <2>1, <2>3
    <3> QED
      BY <1>3, <3>1, <3>2 DEF Contents
  <2> QED
    BY <2>4, <2>5, <2>6, <2>7, <2>8 DEF TreeInv, Tree
<1> QED
  BY <1>8, <1>9, <1>11, <1>12 DEF BaseInv

\* It stays so when a call begins.
LEMMA CallBase ==
  ASSUME BaseInv, NEW t \in Threads, Call(t)
  PROVE  BaseInv'
<1>1. ASSUME NEW n \in Names, stumpless_new_element(t, n) PROVE BaseInv'
  BY <1>1, NewElementBase
<1>2. ASSUME NEW n \in Names, stumpless_add_new_element(t, n) PROVE BaseInv'
  BY <1>2, AddNewElementBase
<1>3. ASSUME NEW n \in Names, NEW v \in Values, stumpless_new_param(t, n, v) PROVE BaseInv'
  BY <1>3, NewParamBase
<1>4. ASSUME NEW p \in Params, stumpless_destroy_param(t, p) PROVE BaseInv'
  BY <1>4, DestroyParamBase
<1>5. ASSUME NEW e \in Elements, stumpless_destroy_element_and_contents(t, e) PROVE BaseInv'
  BY <1>5, DestroyElementBase
<1>6. ASSUME NEW e \in Elements, stumpless_destroy_element_only(t, e) PROVE BaseInv'
  BY <1>6, DestroyElementOnlyBase
<1>7. ASSUME stumpless_destroy_entry_and_contents(t) PROVE BaseInv'
  BY <1>7, DestroyEntryBase
<1>8. ASSUME stumpless_destroy_entry_only(t) PROVE BaseInv'
  BY <1>8, DestroyEntryOnlyBase
<1>9. ASSUME NEW e \in Elements, stumpless_add_element(t, e) PROVE BaseInv'
  BY <1>9, AddElementBase
<1>10. ASSUME NEW e \in Elements, NEW i \in DOMAIN entry, stumpless_set_element(t, i, e) PROVE BaseInv'
  BY <1>10, SetElementBase
<1>11. ASSUME NEW e \in Elements, NEW n \in Names, stumpless_set_element_name(t, e, n) PROVE BaseInv'
  BY <1>11, SetElementNameBase
<1>12. ASSUME NEW e \in Elements, NEW p \in Params, stumpless_add_param(t, e, p) PROVE BaseInv'
  BY <1>12, AddParamBase
<1>13. ASSUME NEW p \in Params, NEW n \in Names, stumpless_set_param_name(t, p, n) PROVE BaseInv'
  BY <1>13, SetParamNameBase
<1>14. ASSUME NEW e \in Elements, NEW p \in Params, NEW i \in 1..2, CallSetParam(t, e, p, i) PROVE BaseInv'
  <2>1. Usable(p) /\ CallElement(t, SetParamFrame(e, p, i))
    BY <1>14 DEF CallSetParam, SetParamFrame
  <2> QED
    BY <2>1, SetParamFrameIs, CallElementBase
<1>15. ASSUME NEW e \in Elements, NEW v \in Values, NEW i \in 1..2, CallSetValueAt(t, e, v, i) PROVE BaseInv'
  <2>1. CallElement(t, SetValueFrame(e, v, i))
    BY <1>15 DEF CallSetValueAt, SetValueFrame
  <2> QED
    BY <2>1, SetValueFrameIs, CallElementBase
<1>16. ASSUME NEW e \in Elements, NEW n \in Names, NEW v \in Values, NEW step \in {"look", "make"},
              CallByName(t, e, n, v, step)
       PROVE  BaseInv'
  <2>1. CallElement(t, ByNameFrame(e, n, v, step))
    BY <1>16 DEF CallByName, ByNameFrame
  <2> QED
    BY <2>1, ByNameFrameIs, CallElementBase
<1>17. ASSUME NEW i \in DOMAIN entry, NEW p \in Params \cup {NULL}, NEW v \in Values,
              stumpless_set_entry_param_by_index(t, i, 1, p, v)
       PROVE  BaseInv'
  BY <1>17, SetByIndexBase
<1>18. ASSUME NEW en \in Names, NEW pn \in Names, NEW v \in Values, NEW step \in {"make", "look"},
              EntryCall(t, en, pn, v, step)
       PROVE  BaseInv'
  BY <1>18, EntryCallBase
<1>19. ASSUME NEW e \in Elements, ElementToStringFails(t, e) PROVE BaseInv'
  BY <1>19, ToStringFailsDoes, ReadingBase
<1>20. ASSUME stumpless_entry_to_string(t) PROVE BaseInv'
  BY <1>20, EntryToStringDoes, ReadingBase
<1>21. ASSUME stumpless_copy_entry(t) PROVE BaseInv'
  BY <1>21, CopyEntryDoes, ReadingBase
<1> QED
  BY <1>1, <1>2, <1>3, <1>4, <1>5, <1>6, <1>7, <1>8, <1>9, <1>10, <1>11, <1>12, <1>13, <1>14, <1>15, <1>16,
     <1>17, <1>18, <1>19, <1>20, <1>21 DEF Call

\* And in every later step of a call.
LEMMA ProgressBase ==
  ASSUME BaseInv, NEW t \in Threads, Progress(t)
  PROVE  BaseInv'
<1>1. CASE Attach(t)
  BY <1>1, AttachBase
<1>2. CASE stumpless_set_param(t)
  BY <1>2, SetParamBase
<1>3. CASE stumpless_set_param_value_by_index(t)
  BY <1>3, SetValueAtBase
<1>4. CASE LookUpParam(t)
  BY <1>4, LookUpBase
<1>5. CASE stumpless_set_param_value(t)
  BY <1>5, SetValueBase
<1>6. CASE stumpless_add_new_param(t)
  BY <1>6, AddNewParamBase
<1>7. CASE AppendParam(t)
  BY <1>7, AppendParamBase
<1>8. CASE Finish(t)
  BY <1>8, FinishBase
<1>9. CASE Measure(t)
  BY <1>9, MeasureDoes, ReadingBase
<1>10. CASE AllocateString(t)
  BY <1>10, AllocateDoes, ReadingBase
<1>11. CASE WriteElement(t)
  BY <1>11, WriteDoes, ReadingBase
<1>12. CASE TerminateString(t)
  BY <1>12, TerminateDoes, ReadingBase
<1>13. CASE CloseString(t) \/ TakeCopy(t)
  BY <1>13, CloseDoes, ReadingBase
<1>14. CASE stumpless_copy_element(t)
  BY <1>14, CopyElementDoes, ReadingBase
<1>15. CASE EndCopy(t)
  BY <1>15, EndCopyDoes, ReadingBase
<1> QED
  BY <1>1, <1>2, <1>3, <1>4, <1>5, <1>6, <1>7, <1>8, <1>9, <1>10, <1>11, <1>12, <1>13, <1>14, <1>15 DEF Progress

\* So the invariant of the tree is inductive.
LEMMA BaseNext == BaseInv /\ [Next]_vars => BaseInv'
<1> SUFFICES ASSUME BaseInv, [Next]_vars PROVE BaseInv'
  OBVIOUS
<1>1. CASE Next
  BY <1>1, CallBase, ProgressBase DEF Next
<1>2. CASE UNCHANGED vars
  <2>1. TypeOK' /\ PlaceInv'
    BY <1>2 DEF BaseInv, TypeOK, PlaceInv, vars
  <2>2. TreeInv'
    BY <1>2 DEF BaseInv, TreeInv, Arrays, Owners, Owned, vars
  <2>3. RefInv'
    BY <1>2 DEF BaseInv, RefInv, Owned, vars
  <2> QED
    BY <2>1, <2>2, <2>3 DEF BaseInv
<1> QED
  BY <1>1, <1>2

-----------------------------------------------------------------------------
(***************************************************************************)
(* Mutexes.                                                                *)
(***************************************************************************)

\* What a step of t that leaves the frame f does with the mutexes: nothing,
\* or it takes or gives back the one of the entry, or it fails and leaves
\* some locked.
Keeping(t, f) == holder' = holder /\ seen'.failed = seen.failed /\ f.locked = frame[t].locked

Taking(t, f) == Free(Entry) /\ holder' = [holder EXCEPT ![Entry] = t] /\ seen'.failed = seen.failed /\ f.locked

Returning(t, f) == Return(t) /\ seen'.failed = seen.failed /\ ~f.locked

Leaking(t, f) ==
  /\ seen'.failed = seen.failed \cup {t} /\ holder'[Entry] = holder[Entry]
  /\ \A o \in Elements \cup Params : holder'[o] \in {holder[o], t}
  /\ f.locked => frame[t].locked

\* The mutexes, after a step that does one of these.
LEMMA LockStep ==
  ASSUME BaseInv, LockInv, NEW t \in Threads, NEW f, Becomes(t, f),
         Keeping(t, f) \/ Taking(t, f) \/ Returning(t, f) \/ Leaking(t, f)
  PROVE  LockInv'
<1>1. frame'[t] = f /\ \A u \in Threads : u # t => frame'[u].locked = frame[u].locked
  BY DEF Becomes, Alike
<1>2. /\ \A u \in Threads : frame[u].locked => holder[Entry] = u
      /\ \A u \in Threads : u \notin seen.failed =>
           (holder[Entry] = u => frame[u].locked) /\ \A o \in Elements \cup Params : holder[o] # u
  BY DEF LockInv
<1>3. NULL \notin Threads /\ Entry \notin Elements \cup Params
  BY ObjectsAssumption
<1>4. TypeOK
  BY DEF BaseInv
<1> SUFFICES /\ \A u \in Threads : frame'[u].locked => holder'[Entry] = u
             /\ \A u \in Threads : u \notin seen'.failed =>
                  (holder'[Entry] = u => frame'[u].locked) /\ \A o \in Elements \cup Params : holder'[o] # u
  BY DEF LockInv
<1>5. CASE Keeping(t, f)
  BY <1>1, <1>2, <1>5 DEF Keeping
<1>6. CASE Taking(t, f)
  <2>1. /\ holder'[Entry] = t /\ holder[Entry] = NULL /\ f.locked /\ seen'.failed = seen.failed
        /\ \A o \in Elements \cup Params : holder'[o] = holder[o]
    BY <1>3, <1>4, <1>6 DEF Taking, Free, TypeOK
  <2> QED
    BY <1>1, <1>2, <1>3, <2>1
<1>7. CASE Returning(t, f)
  <2>1. /\ frame[t].locked => holder'[Entry] = NULL
        /\ ~frame[t].locked => holder'[Entry] = holder[Entry]
        /\ \A o \in Elements \cup Params : holder'[o] = holder[o]
        /\ seen'.failed = seen.failed /\ ~f.locked
    BY <1>4, <1>7, ReturnType DEF Returning
  <2> QED
    BY <1>1, <1>2, <1>3, <2>1
<1>8. CASE Leaking(t, f)
  BY <1>1, <1>2, <1>8 DEF Leaking
<1> QED
  BY <1>5, <1>6, <1>7, <1>8

\* A call of a single step that takes no mutex for longer.
LEMMA LockIdle ==
  ASSUME BaseInv, LockInv, NEW t \in Threads, Calling(t), holder' = holder, seen'.failed = seen.failed,
         frame' = frame \/ Change(t, Idle)
  PROVE  LockInv'
<1>1. TypeOK /\ frame[t].locked = FALSE
  BY CallBegins, FrameFields DEF BaseInv
<1>2. CASE frame' = frame
  <2>1. Becomes(t, frame[t]) /\ Keeping(t, frame[t])
    BY <1>1, <1>2, SameBecomes DEF Keeping
  <2> QED
    BY <2>1, LockStep
<1>3. CASE Change(t, Idle)
  <2>1. Becomes(t, Idle) /\ Keeping(t, Idle)
    BY <1>1, <1>3, ChangeBecomes, IdleFrame DEF Keeping
  <2> QED
    BY <2>1, LockStep
<1> QED
  BY <1>2, <1>3

\* A call of several steps that does not lock the entry.
LEMMA LockBegin ==
  ASSUME BaseInv, LockInv, NEW t \in Threads, Calling(t), holder' = holder, seen'.failed = seen.failed,
         NEW f \in Frames, Step(t, f), ~f.locked
  PROVE  LockInv'
<1>1. TypeOK /\ frame[t].locked = FALSE
  BY CallBegins, FrameFields DEF BaseInv
<1>2. f.locked = FALSE
  BY FrameFields
<1>3. Becomes(t, f) /\ Keeping(t, f)
  BY <1>1, <1>2, StepBecomes DEF Keeping
<1> QED
  BY <1>3, LockStep

\* Calls lock nothing, or the entry, or fail.
LEMMA CallLock ==
  ASSUME BaseInv, LockInv, NEW t \in Threads, Call(t)
  PROVE  LockInv'
<1>0. TypeOK
  BY DEF BaseInv
<1>1. ASSUME NEW n \in Names, stumpless_new_element(t, n) PROVE LockInv'
  BY <1>1, LockIdle DEF stumpless_new_element
<1>2. ASSUME NEW n \in Names, stumpless_add_new_element(t, n) PROVE LockInv'
  <2>1. PICK e \in Elements : Step(t, AttachFrame(e))
    BY <1>2, Zenon DEF stumpless_add_new_element, AttachFrame
  <2>2. Calling(t) /\ holder' = holder /\ seen'.failed = seen.failed
    BY <1>2 DEF stumpless_add_new_element
  <2> QED
    BY <2>1, <2>2, AttachFrameIs, LockBegin
<1>3. ASSUME NEW n \in Names, NEW v \in Values, stumpless_new_param(t, n, v) PROVE LockInv'
  BY <1>3, LockIdle DEF stumpless_new_param
<1>4. ASSUME NEW p \in Params, stumpless_destroy_param(t, p) PROVE LockInv'
  BY <1>4, LockIdle DEF stumpless_destroy_param
<1>5. ASSUME NEW e \in Elements, stumpless_destroy_element_and_contents(t, e) PROVE LockInv'
  BY <1>5, LockIdle DEF stumpless_destroy_element_and_contents
<1>6. ASSUME NEW e \in Elements, stumpless_destroy_element_only(t, e) PROVE LockInv'
  BY <1>6, LockIdle DEF stumpless_destroy_element_only
<1>7. ASSUME stumpless_destroy_entry_and_contents(t) PROVE LockInv'
  BY <1>7, LockIdle DEF stumpless_destroy_entry_and_contents
<1>8. ASSUME stumpless_destroy_entry_only(t) PROVE LockInv'
  BY <1>8, LockIdle DEF stumpless_destroy_entry_only
<1>9. ASSUME NEW e \in Elements, stumpless_add_element(t, e) PROVE LockInv'
  BY <1>9, LockIdle DEF stumpless_add_element
<1>10. ASSUME NEW e \in Elements, NEW i \in DOMAIN entry, stumpless_set_element(t, i, e) PROVE LockInv'
  BY <1>10, LockIdle DEF stumpless_set_element
<1>11. ASSUME NEW e \in Elements, NEW n \in Names, stumpless_set_element_name(t, e, n) PROVE LockInv'
  BY <1>0, <1>11, LockIdle DEF stumpless_set_element_name, TypeOK
<1>12. ASSUME NEW e \in Elements, NEW p \in Params, stumpless_add_param(t, e, p) PROVE LockInv'
  BY <1>0, <1>12, LockIdle DEF stumpless_add_param, TypeOK
<1>13. ASSUME NEW p \in Params, NEW n \in Names, stumpless_set_param_name(t, p, n) PROVE LockInv'
  BY <1>0, <1>13, LockIdle DEF stumpless_set_param_name, TypeOK
<1>14. ASSUME NEW e \in Elements, NEW f, Begun(f, e), CallElement(t, f) PROVE LockInv'
  <2>1. Calling(t) /\ Step(t, f) /\ holder' = holder
    BY <1>14 DEF CallElement
  <2>2. seen'.failed = seen.failed
    BY <1>0, <1>14 DEF CallElement, TypeOK
  <2>3. f \in Frames /\ ~f.locked
    BY <1>14 DEF Begun
  <2> QED
    BY <2>1, <2>2, <2>3, LockBegin
<1>15. ASSUME NEW e \in Elements, NEW p \in Params, NEW i \in 1..2, CallSetParam(t, e, p, i) PROVE LockInv'
  <2>1. CallElement(t, SetParamFrame(e, p, i))
    BY <1>15 DEF CallSetParam, SetParamFrame
  <2> QED
    BY <1>14, <2>1, SetParamFrameIs
<1>16. ASSUME NEW e \in Elements, NEW v \in Values, NEW i \in 1..2, CallSetValueAt(t, e, v, i) PROVE LockInv'
  <2>1. CallElement(t, SetValueFrame(e, v, i))
    BY <1>16 DEF CallSetValueAt, SetValueFrame
  <2> QED
    BY <1>14, <2>1, SetValueFrameIs
<1>17. ASSUME NEW e \in Elements, NEW n \in Names, NEW v \in Values, NEW step \in {"look", "make"},
              CallByName(t, e, n, v, step)
       PROVE  LockInv'
  <2>1. CallElement(t, ByNameFrame(e, n, v, step))
    BY <1>17 DEF CallByName, ByNameFrame
  <2> QED
    BY <1>14, <2>1, ByNameFrameIs
<1>18. ASSUME NEW i \in DOMAIN entry, NEW p \in Params \cup {NULL}, NEW v \in Values,
              stumpless_set_entry_param_by_index(t, i, 1, p, v)
       PROVE  LockInv'
  <2>1. Calling(t) /\ holder' = holder
    BY <1>18 DEF stumpless_set_entry_param_by_index
  <2>2. seen'.failed = seen.failed
    BY <1>0, <1>18 DEF stumpless_set_entry_param_by_index, TypeOK
  <2>3. Step(t, ByIndexFrame(i, p, v))
    BY <1>18 DEF stumpless_set_entry_param_by_index, ByIndexFrame
  <2> QED
    BY <1>0, <2>1, <2>2, <2>3, ByIndexFrameIs, LockBegin
<1>19. ASSUME NEW en \in Names, NEW pn \in Names, NEW v \in Values, NEW step \in {"make", "look"},
              EntryCall(t, en, pn, v, step)
       PROVE  LockInv'
  <2>1. step \in ByNameSteps
    BY DEF ByNameSteps
  <2>2. Free(Entry) /\ holder' = [holder EXCEPT ![Entry] = t]
    BY <1>19, EntryCallDoes
  <2>3. seen'.failed = seen.failed
    BY <1>0, <1>19, EntryCallDoes DEF TypeOK
  <2>4. ASSUME NEW f, Step(t, f), f \in Frames, f.locked = TRUE PROVE LockInv'
    <3>1. Becomes(t, f) /\ Taking(t, f)
      BY <1>0, <2>2, <2>3, <2>4, StepBecomes DEF Taking
    <3> QED
      BY <3>1, LockStep
  <2>5. \E e \in Elements : Step(t, FoundFrame(e, pn, v, step)) \/ Step(t, MadeFrame(e, pn, v, step))
    BY <1>19, EntryCallDoes
  <2>6. PICK e \in Elements : Step(t, FoundFrame(e, pn, v, step)) \/ Step(t, MadeFrame(e, pn, v, step))
    BY <2>5
  <2>7. Looks(FoundFrame(e, pn, v, step), e, pn, step)
    BY <2>1, FoundFrameIs
  <2>8. Looks(MadeFrame(e, pn, v, step), e, pn, step)
    BY <2>1, MadeFrameIs
  <2> QED
    BY <2>4, <2>6, <2>7, <2>8 DEF Looks
<1>20. ASSUME NEW e \in Elements, ElementToStringFails(t, e) PROVE LockInv'
  <2>1. frame' = frame /\ Keeps(t)
    BY <1>20, ToStringFailsDoes
  <2>2. Becomes(t, frame[t])
    BY <1>0, <2>1, SameBecomes
  <2>3. Keeping(t, frame[t]) \/ Leaking(t, frame[t])
    BY <2>1 DEF Keeps, Keeping, Leaking
  <2> QED
    BY <2>2, <2>3, LockStep
<1>21. ASSUME stumpless_entry_to_string(t) PROVE LockInv'
  <2>1. Becomes(t, MeasureFrame)
    BY <1>0, <1>21, EntryToStringDoes, StepBecomes DEF ReadingStep, Reading
  <2>2. Taking(t, MeasureFrame)
    BY <1>21, MeasureFrameIs DEF Taking, Reads, stumpless_entry_to_string
  <2> QED
    BY <2>1, <2>2, LockStep
<1>22. ASSUME stumpless_copy_entry(t) PROVE LockInv'
  <2>1. Becomes(t, CopyFrame)
    BY <1>0, <1>22, CopyEntryDoes, StepBecomes DEF ReadingStep, Reading
  <2>2. Taking(t, CopyFrame)
    BY <1>22, CopyFrameIs DEF Taking, Reads, stumpless_copy_entry
  <2> QED
    BY <2>1, <2>2, LockStep
<1> QED
  BY <1>1, <1>2, <1>3, <1>4, <1>5, <1>6, <1>7, <1>8, <1>9, <1>10, <1>11, <1>12, <1>13, <1>15, <1>16,
     <1>17, <1>18, <1>19, <1>20, <1>21, <1>22 DEF Call

\* Calls that read the tree keep, take, give back or leak the mutex of the
\* entry.
LEMMA ReadingLock ==
  ASSUME BaseInv, LockInv, NEW t \in Threads, NEW f, ReadingStep(t, f),
         Keeping(t, f) \/ Taking(t, f) \/ Returning(t, f) \/ Leaking(t, f)
  PROVE  LockInv'
<1>1. Becomes(t, f)
  BY StepBecomes DEF BaseInv, ReadingStep, Reading
<1> QED
  BY <1>1, LockStep

\* Later steps keep what the call has locked, give it back or fail.
LEMMA ProgressLock ==
  ASSUME BaseInv, LockInv, NEW t \in Threads, Progress(t)
  PROVE  LockInv'
<1>0. TypeOK /\ frame[t] \in Frames /\ Placed(frame[t]) /\ frame[t].locked \in BOOLEAN
  BY InStep, FrameFields
<1>1. Idle \in Frames /\ Idle.locked = FALSE
  BY IdleFrame
<1>2. CASE Attach(t) \/ stumpless_set_param(t) \/ stumpless_set_param_value_by_index(t)
  <2>1. /\ Change(t, Idle) \/ Step(t, Idle)
        /\ holder' = holder /\ seen'.failed = seen.failed
        /\ frame[t].step \in {"attach", "replace", "value_at"}
    BY <1>2, Zenon DEF Attach, stumpless_set_param, stumpless_set_param_value_by_index
  <2>2. frame[t].locked = FALSE
    BY <1>0, <2>1 DEF Placed
  <2>3. Becomes(t, Idle) /\ Keeping(t, Idle)
    BY <1>0, <1>1, <2>1, <2>2, ChangeBecomes, StepBecomes DEF Keeping
  <2> QED
    BY <2>3, LockStep
<1>3. CASE LookUpParam(t)
  <2> DEFINE p == stumpless_get_param_by_name(frame[t].e, frame[t].n)
             f == [frame[t] EXCEPT !.step = IF p = NULL THEN "make" ELSE "value", !.p = p]
  <2>1. Step(t, f) /\ holder' = holder /\ seen'.failed = seen.failed
    BY <1>3 DEF LookUpParam
  <2>2. frame[t].e \in Elements
    BY <1>0, <1>3, Referring DEF LookUpParam, Placed
  <2>3. p \in Params \cup {NULL}
    BY <1>0, <2>2, ParamFound, TypeFacts
  <2> HIDE DEF p
  <2>4. f \in Frames /\ f.locked = frame[t].locked
    BY <1>0, <2>3 DEF Frames, Steps
  <2> HIDE DEF f
  <2>5. Becomes(t, f) /\ Keeping(t, f)
    BY <1>0, <2>1, <2>4, StepBecomes DEF Keeping
  <2> QED
    BY <2>5, LockStep
<1>4. CASE stumpless_set_param_value(t)
  <2> DEFINE f == ToFinish(frame[t])
  <2>1. f \in Frames /\ f.locked = frame[t].locked
    BY <1>0 DEF ToFinish, Frames, Steps
  <2>2. Change(t, f) /\ holder' = holder /\ seen'.failed = seen.failed
    BY <1>4 DEF stumpless_set_param_value, ToFinish
  <2> HIDE DEF f
  <2>3. Becomes(t, f) /\ Keeping(t, f)
    BY <1>0, <2>1, <2>2, ChangeBecomes DEF Keeping
  <2> QED
    BY <2>3, LockStep
<1>5. ASSUME Return(t), Step(t, Idle) \/ Change(t, Idle), seen' = seen PROVE LockInv'
  <2>1. Becomes(t, Idle) /\ Returning(t, Idle)
    BY <1>0, <1>1, <1>5, ChangeBecomes, StepBecomes DEF Returning
  <2> QED
    BY <2>1, LockStep
<1>6. CASE stumpless_add_new_param(t)
  <2>1. CASE Fail(t)
    BY <1>5, <1>6, <2>1, Zenon DEF Fail, stumpless_add_new_param
  <2>2. CASE ~Fail(t)
    <3>1. PICK p \in Params : Step(t, ToAppend(frame[t], p)) /\ holder' = holder /\ seen'.failed = seen.failed
      BY <1>6, <2>2, Zenon DEF stumpless_add_new_param, ToAppend
    <3> DEFINE f == ToAppend(frame[t], p)
    <3>2. f \in Frames /\ f.locked = frame[t].locked
      BY <1>0, <1>6, ToAppendIs, Zenon DEF stumpless_add_new_param
    <3>3. Step(t, f)
      BY <3>1
    <3> HIDE DEF f
    <3>4. Becomes(t, f) /\ Keeping(t, f)
      BY <1>0, <3>1, <3>2, <3>3, StepBecomes DEF Keeping
    <3> QED
      BY <3>4, LockStep
  <2> QED
    BY <2>1, <2>2
<1>7. CASE AppendParam(t)
  <2>1. CASE Return(t) /\ Step(t, Idle)
    BY <1>5, <1>7, <2>1 DEF AppendParam
  <2>2. CASE ~(Return(t) /\ Step(t, Idle))
    <3> DEFINE f == ToFinish(frame[t])
    <3>1. f \in Frames /\ f.locked = frame[t].locked
      BY <1>0, <1>7, ToFinishIs DEF AppendParam
    <3>2. Change(t, f) /\ holder' = holder /\ seen'.failed = seen.failed
      BY <1>7, <2>2 DEF AppendParam, ToFinish
    <3> HIDE DEF f
    <3>3. Becomes(t, f) /\ Keeping(t, f)
      BY <1>0, <3>1, <3>2, ChangeBecomes DEF Keeping
    <3> QED
      BY <3>3, LockStep
  <2> QED
    BY <2>1, <2>2
<1>8. CASE Finish(t)
  BY <1>5, <1>8 DEF Finish, Fail
<1>9. CASE Measure(t)
  <2>1. PICK size \in Nat : ReadingStep(t, Measured(frame[t], size))
    BY <1>9, MeasureDoes
  <2>2. Reads(frame[t], "measure", TRUE) /\ Keeps(t)
    BY <1>9, MeasureDoes
  <2>3. Measured(frame[t], size).locked = frame[t].locked
    BY <2>2, MeasuredIs DEF Reads
  <2>4. Keeping(t, Measured(frame[t], size)) \/ Leaking(t, Measured(frame[t], size))
    BY <2>2, <2>3 DEF Keeps, Keeping, Leaking
  <2> QED
    BY <2>1, <2>4, ReadingLock
<1>10. CASE AllocateString(t)
  <2>1. Reads(frame[t], "measure", TRUE) /\ holder' = holder
    BY <1>10, AllocateDoes
  <2>2. ASSUME NEW digits \in 1..3, ReadingStep(t, ToWrite(frame[t], FieldsUsed(digits))), seen' = seen
        PROVE  LockInv'
    <3>1. FieldsUsed(digits) \in Nat
      BY DEF FieldsUsed, append_key_value_pair
    <3>2. ToWrite(frame[t], FieldsUsed(digits)).locked = frame[t].locked
      BY <2>1, <3>1, ToWriteIs DEF Reads
    <3>3. Keeping(t, ToWrite(frame[t], FieldsUsed(digits)))
      BY <2>1, <2>2, <3>2 DEF Keeping
    <3> QED
      BY <2>2, <3>3, ReadingLock
  <2>3. ASSUME ReadingStep(t, Idle), seen'.failed = seen.failed \cup {t} PROVE LockInv'
    <3>1. Leaking(t, Idle)
      BY <1>1, <2>1, <2>3 DEF Leaking
    <3> QED
      BY <2>3, <3>1, ReadingLock
  <2> QED
    BY <1>10, <2>2, <2>3, AllocateDoes
<1>11. CASE WriteElement(t)
  <2> DEFINE used == frame[t].used + ElementStringLength(entry[frame[t].i]) + (IF frame[t].i = 1 THEN 0 ELSE 1)
  <2>1. /\ Reads(frame[t], "write", TRUE) /\ Keeps(t)
        /\ \/ holder' = holder /\ seen' = seen /\ ReadingStep(t, Wrote(frame[t], used))
           \/ t \in seen'.failed /\ ReadingStep(t, CrashedFrame)
    BY <1>11, WriteDoes
  <2> HIDE DEF used
  <2>2. CASE holder' = holder /\ seen' = seen /\ ReadingStep(t, Wrote(frame[t], used))
    <3>1. Wrote(frame[t], used).locked = frame[t].locked
      BY <1>0 DEF Wrote, Frames
    <3>2. Keeping(t, Wrote(frame[t], used))
      BY <2>2, <3>1 DEF Keeping
    <3> QED
      BY <2>2, <3>2, ReadingLock
  <2>3. CASE t \in seen'.failed /\ ReadingStep(t, CrashedFrame)
    <3>1. Leaking(t, CrashedFrame)
      BY <2>1, <2>3, CrashedFrameIs DEF Keeps, Leaking, Reads
    <3> QED
      BY <2>3, <3>1, ReadingLock
  <2> QED
    BY <2>1, <2>2, <2>3
<1>12. CASE TerminateString(t)
  <2> DEFINE used == frame[t].used + (IF entry = <<>> THEN 0 ELSE 1)
  <2>1. Reads(frame[t], "write", TRUE) /\ Return(t) /\ seen' = seen /\ ReadingStep(t, Closed(frame[t], used))
    BY <1>12, TerminateDoes
  <2>2. Closed(frame[t], used).locked = FALSE
    BY <1>0 DEF Closed, Frames
  <2> HIDE DEF used
  <2>3. Returning(t, Closed(frame[t], used))
    BY <2>1, <2>2 DEF Returning
  <2> QED
    BY <2>1, <2>3, ReadingLock
<1>13. CASE CloseString(t) \/ TakeCopy(t)
  <2>1. ~frame[t].locked /\ holder' = holder /\ seen' = seen /\ ReadingStep(t, Idle)
    BY <1>13, CloseDoes
  <2>2. Keeping(t, Idle)
    BY <1>0, <1>1, <2>1 DEF Keeping
  <2> QED
    BY <2>1, <2>2, ReadingLock
<1>14. CASE stumpless_copy_element(t)
  <2> DEFINE v == ElementValue(entry[frame[t].i])
  <2>1. /\ seen' = seen
        /\ \/ ReadingStep(t, Copying(frame[t], v)) /\ holder' = holder
           \/ ReadingStep(t, Idle) /\ Return(t)
    BY <1>14, CopyElementDoes
  <2> HIDE DEF v
  <2>2. CASE ReadingStep(t, Copying(frame[t], v)) /\ holder' = holder
    <3>1. Copying(frame[t], v).locked = frame[t].locked
      BY <1>0 DEF Copying, Frames
    <3>2. Keeping(t, Copying(frame[t], v))
      BY <2>1, <2>2, <3>1 DEF Keeping
    <3> QED
      BY <2>2, <3>2, ReadingLock
  <2>3. CASE ReadingStep(t, Idle) /\ Return(t)
    <3>1. Returning(t, Idle)
      BY <1>1, <2>1, <2>3 DEF Returning
    <3> QED
      BY <2>3, <3>1, ReadingLock
  <2> QED
    BY <2>1, <2>2, <2>3
<1>15. CASE EndCopy(t)
  <2>1. Return(t) /\ seen' = seen /\ ReadingStep(t, Copied(frame[t]))
    BY <1>15, EndCopyDoes
  <2>2. Copied(frame[t]).locked = FALSE
    BY <1>0 DEF Copied, Frames
  <2>3. Returning(t, Copied(frame[t]))
    BY <2>1, <2>2 DEF Returning
  <2> QED
    BY <2>1, <2>3, ReadingLock
<1> QED
  BY <1>2, <1>3, <1>4, <1>6, <1>7, <1>8, <1>9, <1>10, <1>11, <1>12, <1>13, <1>14, <1>15 DEF Progress

\* Nothing is locked in the beginning.
LEMMA InitLock == Init => LockInv
<1> SUFFICES ASSUME Init PROVE LockInv
  OBVIOUS
<1>1. (\A t \in Threads : frame[t] = Idle) /\ \A o \in Elements \cup Params \cup {Entry} : holder[o] = NULL
  BY DEF Init
<1>2. Idle.locked = FALSE /\ NULL \notin Threads
  BY IdleFrame, ObjectsAssumption
<1> QED
  BY <1>1, <1>2 DEF LockInv

\* So the invariant of the mutexes is inductive.
LEMMA LockNext == BaseInv /\ LockInv /\ [Next]_vars => LockInv'
<1> SUFFICES ASSUME BaseInv, LockInv, [Next]_vars PROVE LockInv'
  OBVIOUS
<1>1. CASE Next
  BY <1>1, CallLock, ProgressLock DEF Next
<1>2. CASE UNCHANGED vars
  BY <1>2 DEF LockInv, vars
<1> QED
  BY <1>1, <1>2

\* And says what LocksReturned asks for.
LEMMA LocksAre ==
  ASSUME BaseInv, LockInv
  PROVE  LocksReturned
<1> SUFFICES ASSUME NEW t \in Threads \ seen.failed, NEW o \in DOMAIN holder, holder[o] = t
             PROVE  o = Entry /\ frame[t].step # "idle"
  BY DEF LocksReturned
<1>1. o \in Elements \cup Params \cup {Entry}
  BY DEF BaseInv, TypeOK
<1>2. o = Entry
  BY <1>1 DEF LockInv
<1>3. frame[t].locked /\ Placed(frame[t])
  BY <1>2 DEF LockInv, BaseInv, PlaceInv
<1> QED
  BY <1>2, <1>3 DEF Placed

(***************************************************************************)
(* The tree of an entry is sound between any two steps of its users, for   *)
(* any number of threads, elements and params and any number of calls: an  *)
(* allocated object is in exactly one place, a freed one in none, and a    *)
(* thread holds a mutex of the tree only while it is in the library, but   *)
(* for the two failures of stumpless_element_to_string and                 *)
(* stumpless_entry_to_string.                                              *)
(***************************************************************************)
THEOREM TreeIsAlwaysSound == Spec => []TreeSound
<1>1. Init => BaseInv /\ LockInv
  BY InitBase, InitLock
<1>2. BaseInv /\ LockInv /\ [Next]_vars => (BaseInv /\ LockInv)'
  BY BaseNext, LockNext
<1>3. BaseInv /\ LockInv => TreeSound
  BY TreeIsSound, LocksAre DEF BaseInv, TreeSound
<1> QED
  BY <1>1, <1>2, <1>3, PTL DEF Spec

-----------------------------------------------------------------------------
(***************************************************************************)
(* What a step of t does to the tree, as far as names, strings and copies  *)
(* are concerned.                                                          *)
(***************************************************************************)

\* What is in the entry stays as it is.
Quiet ==
  /\ entry' = entry
  /\ \A i \in DOMAIN entry :
       /\ el'[entry[i]] = el[entry[i]]
       /\ \A j \in DOMAIN el[entry[i]].params : par'[el[entry[i]].params[j]] = par[el[entry[i]].params[j]]

\* The other calls are told when it does not.
Told(t) ==
  \A u \in Threads : u # t /\ frame[u].step # "idle" =>
    frame'[u].disturbed \/ (Quiet /\ frame'[u].disturbed = frame[u].disturbed)

\* No element is added to an entry that is being copied, and none is removed.
Fixed(t) == \A u \in Threads : u # t /\ frame[u].step = "copy" => entry' = entry

\* Elements keep their names.
NamesKept == ~seen'.renamed => ~seen.renamed /\ \A e \in live \cap Elements : el'[e].name = el[e].name

\* An element that is added has a new name.
EntryGrows ==
  \/ entry' = entry
  \/ entry' = << >>
  \/ /\ el' = el
     /\ \E e \in Elements :
          /\ \A i \in DOMAIN entry : el[entry[i]].name # el[e].name
          /\ entry' = Append(entry, e) \/ \E k \in DOMAIN entry : entry' = [entry EXCEPT ![k] = e]

\* The params of an element keep their names, and only t can append one.
ParamsKept(t) ==
  ~seen'.added =>
    /\ ~seen.added
    /\ \A p \in live \cap Params : par'[p].name = par[p].name
    /\ \A e \in live' \cap Elements :
         \/ el'[e].params = << >>
         \/ e \in live /\ el'[e].params = el[e].params
         \/ /\ e \in live /\ frame[t].step = "append" /\ e = frame[t].e
            /\ el'[e].params = Append(el[e].params, frame[t].p)

\* And otherwise their frames stay as they are.
Others(t) == \A u \in Threads : u # t => Alike(frame'[u], frame[u])

Effect(t) ==
  Others(t) /\ Told(t) /\ Fixed(t) /\ NamesKept /\ EntryGrows /\ ParamsKept(t) /\ seen.failed \subseteq seen'.failed

\* A step that leaves the tree alone.
LEMMA QuietEffect ==
  ASSUME BaseInv, NEW t \in Threads,
         \A u \in Threads : u # t => frame'[u] = frame[u],
         entry' = entry,
         \A e \in live \cap Elements : el'[e] = el[e],
         \A p \in live \cap Params : par'[p] = par[p],
         \A e \in live' \cap Elements : e \in live \/ el'[e].params = << >>,
         seen'.renamed = seen.renamed, ~seen'.added => ~seen.added, seen.failed \subseteq seen'.failed
  PROVE  Effect(t)
<1>1. Quiet
  <2>1. \A i \in DOMAIN entry : entry[i] \in live \cap Elements
    BY InTree
  <2>2. \A e \in live \cap Elements : \A j \in DOMAIN el[e].params : el[e].params[j] \in live \cap Params
    BY InTree
  <2> QED
    BY <2>1, <2>2 DEF Quiet
<1>2. Told(t) /\ Fixed(t) /\ EntryGrows
  BY <1>1 DEF Told, Fixed, EntryGrows
<1>3. NamesKept /\ ParamsKept(t)
  BY DEF NamesKept, ParamsKept
<1>4. Others(t)
  BY DEF Others, Alike
<1> QED
  BY <1>2, <1>3, <1>4 DEF Effect

\* The same for a step that changes no object.
LEMMA StillEffect ==
  ASSUME BaseInv, NEW t \in Threads,
         \A u \in Threads : u # t => frame'[u] = frame[u],
         UNCHANGED << entry, el, par >>, live' \subseteq live,
         seen'.renamed = seen.renamed, ~seen'.added => ~seen.added, seen.failed \subseteq seen'.failed
  PROVE  Effect(t)
<1>1. /\ \A e \in live' \cap Elements : e \in live \/ el'[e].params = << >>
      /\ \A e \in live \cap Elements : el'[e] = el[e]
      /\ \A p \in live \cap Params : par'[p] = par[p]
  OBVIOUS
<1> QED
  BY <1>1, QuietEffect

\* The same for a call that only reads.
LEMMA ReadingEffect ==
  ASSUME BaseInv, NEW t \in Threads, NEW f, ReadingStep(t, f),
         seen'.renamed = seen.renamed, seen'.added = seen.added, seen.failed \subseteq seen'.failed
  PROVE  Effect(t)
<1>1. \A u \in Threads : u # t => frame'[u] = frame[u]
  BY StepBecomes DEF BaseInv, ReadingStep, Reading
<1>2. UNCHANGED << entry, el, par, live >>
  BY DEF ReadingStep
<1> QED
  BY <1>1, <1>2, StillEffect

\* The entry does not change under a copy.
LEMMA EntryFixed ==
  ASSUME BaseInv, LockInv, NEW t \in Threads, Free(Entry) \/ frame[t].locked
  PROVE  Fixed(t)
<1> SUFFICES ASSUME NEW u \in Threads, u # t, frame[u].step = "copy" PROVE FALSE
  BY DEF Fixed
<1>1. frame[u].locked
  BY DEF BaseInv, PlaceInv, Placed
<1>2. holder[Entry] = u /\ (frame[t].locked => holder[Entry] = t)
  BY <1>1 DEF LockInv
<1> QED
  BY <1>2, ObjectsAssumption DEF Free

\* An element is added to the entry.
LEMMA AddEffect ==
  ASSUME BaseInv, LockInv, NEW t \in Threads, Change(t, Idle), Free(Entry) \/ frame[t].locked,
         NEW e \in Elements, ~unchecked_entry_has_element(el[e].name),
         entry' = Append(entry, e) \/ (\E k \in DOMAIN entry : entry' = [entry EXCEPT ![k] = e]),
         UNCHANGED << el, par, live, seen >>
  PROVE  Effect(t)
<1>1. Told(t) /\ Others(t)
  BY ChangeBecomes, IdleFrame DEF BaseInv, Told, Others, Becomes
<1>2. Fixed(t)
  BY EntryFixed
<1>3. \A i \in DOMAIN entry : el[entry[i]].name # el[e].name
  BY DEF unchecked_entry_has_element, ToSet
<1>4. EntryGrows
  BY <1>3 DEF EntryGrows
<1>5. NamesKept /\ ParamsKept(t) /\ seen.failed \subseteq seen'.failed
  BY DEF NamesKept, ParamsKept
<1> QED
  BY <1>1, <1>2, <1>4, <1>5 DEF Effect

\* The entry keeps its elements, but one of the objects in it changes.
LEMMA ChangeEffect ==
  ASSUME BaseInv, NEW t \in Threads, NEW f \in Frames, Change(t, f), entry' = entry,
         NamesKept, ParamsKept(t), seen.failed \subseteq seen'.failed
  PROVE  Effect(t)
<1>1. Told(t) /\ Others(t)
  BY ChangeBecomes DEF BaseInv, Told, Others, Becomes
<1>2. Fixed(t) /\ EntryGrows
  BY DEF Fixed, EntryGrows
<1> QED
  BY <1>1, <1>2 DEF Effect

\* The calls.
LEMMA CallEffect ==
  ASSUME BaseInv, LockInv, NEW t \in Threads, Call(t)
  PROVE  Effect(t)
<1>0. TypeOK /\ Elements \cap Params = {} /\ live \subseteq Elements \cup Params
  BY ObjectsAssumption DEF BaseInv, TypeOK
<1>1. ASSUME NEW n \in Names, NEW e \in Elements \ live, entry' = entry, par' = par, seen.failed \subseteq seen'.failed,
             el' = [el EXCEPT ![e] = [name |-> n, params |-> <<>>]], live' = live \cup {e},
             seen'.renamed = seen.renamed, ~seen'.added => ~seen.added,
             \A u \in Threads : u # t => frame'[u] = frame[u]
      PROVE  Effect(t)
  <2>1. \A f \in Elements : el'[f] = IF f = e THEN [name |-> n, params |-> <<>>] ELSE el[f]
    BY <1>0, <1>1 DEF TypeOK
  <2>2. /\ \A f \in live \cap Elements : el'[f] = el[f]
        /\ \A f \in live' \cap Elements : f \in live \/ el'[f].params = << >>
    BY <1>1, <2>1
  <2> QED
    BY <1>1, <2>2, QuietEffect
<1>2. ASSUME NEW n \in Names, stumpless_new_element(t, n) PROVE Effect(t)
  BY <1>1, <1>2 DEF stumpless_new_element
<1>3. ASSUME NEW n \in Names, stumpless_add_new_element(t, n) PROVE Effect(t)
  <2>1. PICK e \in Elements \ live :
          /\ el' = [el EXCEPT ![e] = [name |-> n, params |-> <<>>]] /\ live' = live \cup {e}
          /\ Step(t, AttachFrame(e))
    BY <1>3, Zenon DEF stumpless_add_new_element, AttachFrame
  <2>2. UNCHANGED << entry, par, seen >>
    BY <1>3 DEF stumpless_add_new_element
  <2>3. \A u \in Threads : u # t => frame'[u] = frame[u]
    BY <1>0, <2>1, AttachFrameIs, StepBecomes
  <2> QED
    BY <1>1, <2>1, <2>2, <2>3
<1>4. ASSUME NEW n \in Names, NEW v \in Values, stumpless_new_param(t, n, v) PROVE Effect(t)
  <2>1. PICK p \in Params \ live : par' = [par EXCEPT ![p] = [name |-> n, value |-> v]] /\ live' = live \cup {p}
    BY <1>4 DEF stumpless_new_param
  <2>2. UNCHANGED << entry, el, seen, frame >>
    BY <1>4 DEF stumpless_new_param
  <2>3. /\ \A q \in live \cap Params : par'[q] = par[q]
        /\ \A f \in live' \cap Elements : f \in live
    BY <1>0, <2>1 DEF TypeOK
  <2> QED
    BY <2>2, <2>3, QuietEffect
<1>5. ASSUME UNCHANGED << entry, el, par, frame, seen >>, live' \subseteq live PROVE Effect(t)
  BY <1>5, StillEffect
<1>6. ASSUME NEW p \in Params, stumpless_destroy_param(t, p) PROVE Effect(t)
  BY <1>5, <1>6 DEF stumpless_destroy_param
<1>7. ASSUME NEW e \in Elements, stumpless_destroy_element_and_contents(t, e) PROVE Effect(t)
  BY <1>5, <1>7 DEF stumpless_destroy_element_and_contents
<1>8. ASSUME NEW e \in Elements, stumpless_destroy_element_only(t, e) PROVE Effect(t)
  BY <1>5, <1>8 DEF stumpless_destroy_element_only
<1>9. ASSUME entry' = <<>>, \A u \in Threads : frame[u].step = "idle", UNCHANGED << el, par, frame, seen >>,
             live' \subseteq live
      PROVE  Effect(t)
  <2>1. Told(t) /\ Fixed(t) /\ EntryGrows /\ Others(t)
    BY <1>9 DEF Told, Fixed, EntryGrows, Others, Alike
  <2>2. NamesKept /\ ParamsKept(t) /\ seen.failed \subseteq seen'.failed
    BY <1>9 DEF NamesKept, ParamsKept
  <2> QED
    BY <2>1, <2>2 DEF Effect
<1>10. ASSUME stumpless_destroy_entry_and_contents(t) PROVE Effect(t)
  BY <1>9, <1>10 DEF stumpless_destroy_entry_and_contents
<1>11. ASSUME stumpless_destroy_entry_only(t) PROVE Effect(t)
  BY <1>9, <1>11 DEF stumpless_destroy_entry_only
<1>12. ASSUME NEW e \in Elements, stumpless_add_element(t, e) PROVE Effect(t)
  BY <1>12, AddEffect DEF stumpless_add_element, locked_add_element
<1>13. ASSUME NEW e \in Elements, NEW i \in DOMAIN entry, stumpless_set_element(t, i, e) PROVE Effect(t)
  BY <1>13, AddEffect DEF stumpless_set_element
<1>14. ASSUME NEW e \in Elements, NEW n \in Names, stumpless_set_element_name(t, e, n) PROVE Effect(t)
  <2>1. /\ Change(t, Idle) /\ UNCHANGED << entry, par, live >>
        /\ seen' = [seen EXCEPT !.renamed = TRUE] /\ el' = [el EXCEPT ![e].name = n]
    BY <1>14 DEF stumpless_set_element_name
  <2>2. seen'.renamed /\ seen'.added = seen.added /\ seen'.failed = seen.failed
    BY <1>0, <2>1 DEF TypeOK
  <2>3. \A f \in Elements : el'[f].params = el[f].params
    BY <1>0, <2>1 DEF TypeOK, stumpless_element
  <2>4. NamesKept /\ ParamsKept(t)
    BY <2>1, <2>2, <2>3 DEF NamesKept, ParamsKept
  <2> QED
    BY <2>1, <2>2, <2>4, ChangeEffect, IdleFrame
<1>15. ASSUME Change(t, Idle), entry' = entry, \A f \in Elements : el'[f].name = el[f].name,
              seen' = [seen EXCEPT !.added = TRUE]
       PROVE  Effect(t)
  <2>1. seen'.added /\ seen'.renamed = seen.renamed /\ seen'.failed = seen.failed
    BY <1>0, <1>15 DEF TypeOK
  <2>2. NamesKept /\ ParamsKept(t)
    BY <1>15, <2>1 DEF NamesKept, ParamsKept
  <2> QED
    BY <1>15, <2>1, <2>2, ChangeEffect, IdleFrame
<1>16. ASSUME NEW e \in Elements, NEW p \in Params, stumpless_add_param(t, e, p) PROVE Effect(t)
  <2>1. el' = [el EXCEPT ![e].params = Append(@, p)]
    BY <1>16 DEF stumpless_add_param
  <2>2. \A f \in Elements : el'[f].name = el[f].name
    BY <1>0, <2>1 DEF TypeOK, stumpless_element
  <2> QED
    BY <1>15, <1>16, <2>2 DEF stumpless_add_param
<1>17. ASSUME NEW p \in Params, NEW n \in Names, stumpless_set_param_name(t, p, n) PROVE Effect(t)
  BY <1>15, <1>17 DEF stumpless_set_param_name
<1>18. ASSUME NEW f \in Frames, Step(t, f), UNCHANGED << entry, el, par, live >>, NEW b,
              seen' = [seen EXCEPT !.added = @ \/ b]
       PROVE  Effect(t)
  <2>1. seen'.renamed = seen.renamed /\ (~seen'.added => ~seen.added) /\ seen'.failed = seen.failed
    BY <1>0, <1>18 DEF TypeOK
  <2>2. \A u \in Threads : u # t => frame'[u] = frame[u]
    BY <1>0, <1>18, StepBecomes
  <2> QED
    BY <1>18, <2>1, <2>2, StillEffect
<1>19. ASSUME NEW e \in Elements, NEW f, Begun(f, e), CallElement(t, f) PROVE Effect(t)
  BY <1>18, <1>19 DEF CallElement, Begun
<1>20. ASSUME NEW e \in Elements, NEW p \in Params, NEW i \in 1..2, CallSetParam(t, e, p, i) PROVE Effect(t)
  <2>1. CallElement(t, SetParamFrame(e, p, i))
    BY <1>20 DEF CallSetParam, SetParamFrame
  <2> QED
    BY <1>19, <2>1, SetParamFrameIs
<1>21. ASSUME NEW e \in Elements, NEW v \in Values, NEW i \in 1..2, CallSetValueAt(t, e, v, i) PROVE Effect(t)
  <2>1. CallElement(t, SetValueFrame(e, v, i))
    BY <1>21 DEF CallSetValueAt, SetValueFrame
  <2> QED
    BY <1>19, <2>1, SetValueFrameIs
<1>22. ASSUME NEW e \in Elements, NEW n \in Names, NEW v \in Values, NEW step \in {"look", "make"},
              CallByName(t, e, n, v, step)
       PROVE  Effect(t)
  <2>1. CallElement(t, ByNameFrame(e, n, v, step))
    BY <1>22 DEF CallByName, ByNameFrame
  <2> QED
    BY <1>19, <2>1, ByNameFrameIs
<1>23. ASSUME NEW i \in DOMAIN entry, NEW p \in Params \cup {NULL}, NEW v \in Values,
              stumpless_set_entry_param_by_index(t, i, 1, p, v)
       PROVE  Effect(t)
  <2>1. Step(t, ByIndexFrame(i, p, v)) /\ ByIndexFrame(i, p, v) \in Frames
    BY <1>0, <1>23, ByIndexFrameIs, Zenon DEF stumpless_set_entry_param_by_index, ByIndexFrame
  <2>2. UNCHANGED << entry, el, par, live >> /\ seen' = [seen EXCEPT !.added = @ \/ p # NULL]
    BY <1>23 DEF stumpless_set_entry_param_by_index
  <2> QED
    BY <1>18, <2>1, <2>2
<1>24. ASSUME NEW en \in Names, NEW pn \in Names, NEW v \in Values, NEW step \in {"make", "look"},
              EntryCall(t, en, pn, v, step)
       PROVE  Effect(t)
  <2>1. step \in ByNameSteps
    BY DEF ByNameSteps
  <2>2. seen' = [seen EXCEPT !.added = @ \/ step = "make"] /\ UNCHANGED << entry, par >>
    BY <1>24, EntryCallDoes
  <2>3. seen'.renamed = seen.renamed /\ (~seen'.added => ~seen.added) /\ seen'.failed = seen.failed
    BY <1>0, <2>2 DEF TypeOK
  <2>4. ASSUME NEW e \in Elements, Step(t, FoundFrame(e, pn, v, step)), live' = live, el' = el PROVE Effect(t)
    <3>1. Looks(FoundFrame(e, pn, v, step), e, pn, step)
      BY <2>1, FoundFrameIs
    <3>2. FoundFrame(e, pn, v, step) \in Frames
      BY <3>1 DEF Looks
    <3> QED
      BY <1>18, <2>2, <2>4, <3>2
  <2>5. ASSUME NEW e \in Elements \ live, Step(t, MadeFrame(e, pn, v, step)), live' = live \cup {e},
               el' = [el EXCEPT ![e] = [name |-> en, params |-> <<>>]]
        PROVE  Effect(t)
    <3>1. Looks(MadeFrame(e, pn, v, step), e, pn, step)
      BY <2>1, MadeFrameIs
    <3>2. MadeFrame(e, pn, v, step) \in Frames
      BY <3>1 DEF Looks
    <3>3. \A u \in Threads : u # t => frame'[u] = frame[u]
      BY <1>0, <2>5, <3>2, StepBecomes
    <3> QED
      BY <1>1, <2>2, <2>3, <2>5, <3>3
  <2> QED
    BY <1>24, <2>4, <2>5, EntryCallDoes
<1>25. ASSUME NEW f, ReadingStep(t, f), Keeps(t) \/ seen' = seen PROVE Effect(t)
  BY <1>25, ReadingEffect DEF Keeps
<1>26. ASSUME NEW e \in Elements, ElementToStringFails(t, e) PROVE Effect(t)
  BY <1>25, <1>26, ToStringFailsDoes
<1>27. ASSUME stumpless_entry_to_string(t) PROVE Effect(t)
  BY <1>25, <1>27, EntryToStringDoes DEF stumpless_entry_to_string
<1>28. ASSUME stumpless_copy_entry(t) PROVE Effect(t)
  BY <1>25, <1>28, CopyEntryDoes DEF stumpless_copy_entry
<1> QED
  BY <1>2, <1>3, <1>4, <1>6, <1>7, <1>8, <1>10, <1>11, <1>12, <1>13, <1>14, <1>16,
     <1>17, <1>20, <1>21, <1>22, <1>23, <1>24, <1>26, <1>27, <1>28 DEF Call

\* The later steps.
LEMMA ProgressEffect ==
  ASSUME BaseInv, LockInv, NameInv, NEW t \in Threads, Progress(t)
  PROVE  Effect(t)
<1>0. TypeOK /\ frame[t] \in Frames /\ Placed(frame[t]) /\ Elements \cap Params = {} /\ live \subseteq Elements \cup Params
  BY InStep, ObjectsAssumption DEF TypeOK
<1>1. Idle \in Frames
  BY IdleFrame
<1>2. ASSUME NEW f \in Frames, Change(t, f), live' \subseteq live, UNCHANGED << entry, seen >>,
             \A e \in Elements : el'[e].name = el[e].name,
             \/ seen.added
             \/ /\ \A p \in live \cap Params : par'[p].name = par[p].name
                /\ \A e \in live' \cap Elements :
                     \/ el'[e].params = el[e].params
                     \/ /\ frame[t].step = "append" /\ e = frame[t].e
                        /\ el'[e].params = Append(el[e].params, frame[t].p)
      PROVE  Effect(t)
  <2>1. NamesKept
    BY <1>2 DEF NamesKept
  <2>2. ParamsKept(t)
    <3>1. CASE seen.added
      BY <1>2, <3>1 DEF ParamsKept
    <3>2. CASE ~seen.added
      BY <1>2, <3>2 DEF ParamsKept
    <3> QED
      BY <3>1, <3>2
  <2> QED
    BY <1>2, <2>1, <2>2, ChangeEffect
<1>3. ASSUME NEW f \in Frames, Step(t, f), live' \subseteq live, UNCHANGED << entry, el, par, seen >> PROVE Effect(t)
  <2>1. \A u \in Threads : u # t => frame'[u] = frame[u]
    BY <1>0, <1>3, StepBecomes
  <2> QED
    BY <1>3, <2>1, StillEffect
<1>4. CASE Attach(t)
  <2>1. Change(t, Idle) /\ Free(Entry) /\ UNCHANGED << el, par, seen >> /\ frame[t].e \in Elements
    <3>1. frame[t].e # NULL
      BY <1>4, InStep DEF Attach
    <3> QED
      BY <1>4, <3>1, Referring DEF Attach
  <2>2. CASE locked_add_element(frame[t].e) /\ live' = live
    BY <2>1, <2>2, AddEffect DEF locked_add_element
  <2>3. CASE AddElementFails /\ live' = live \ {frame[t].e}
    BY <1>1, <1>2, <2>1, <2>3 DEF AddElementFails
  <2> QED
    BY <1>4, <2>2, <2>3 DEF Attach
<1>5. CASE stumpless_set_param(t)
  <2>1. seen.added /\ UNCHANGED << entry, par, live, seen >>
    BY <1>5 DEF NameInv, Looking, stumpless_set_param
  <2>2. \/ Change(t, Idle) /\ el' = [el EXCEPT ![frame[t].e].params[frame[t].i] = frame[t].p]
        \/ Step(t, Idle) /\ el' = el
    BY <1>5 DEF stumpless_set_param
  <2>3. CASE Change(t, Idle) /\ el' = [el EXCEPT ![frame[t].e].params[frame[t].i] = frame[t].p]
    <3>1. \A e \in Elements : el'[e].name = el[e].name
      BY <1>0, <2>3 DEF TypeOK, stumpless_element
    <3> QED
      BY <1>1, <1>2, <2>1, <2>3, <3>1
  <2> QED
    BY <1>1, <1>3, <2>1, <2>2, <2>3
<1>6. ASSUME NEW q \in Params, NEW v, NEW f \in Frames, Change(t, f), par' = [par EXCEPT ![q].value = v],
             UNCHANGED << entry, el, live, seen >>
      PROVE  Effect(t)
  <2>1. \A p \in Params : par'[p].name = par[p].name
    BY <1>0, <1>6 DEF TypeOK, stumpless_param
  <2> QED
    BY <1>2, <1>6, <2>1
<1>7. CASE stumpless_set_param_value_by_index(t)
  <2>1. CASE frame[t].i \in DOMAIN el[frame[t].e].params
    <3>1. frame[t].e \in Elements
      BY <1>0, <1>7, Referring, Zenon DEF stumpless_set_param_value_by_index, Placed
    <3>2. el[frame[t].e].params[frame[t].i] \in Params
      BY <1>0, <2>1, <3>1, TypeFacts
    <3> QED
      BY <1>1, <1>6, <1>7, <2>1, <3>2, Zenon DEF stumpless_set_param_value_by_index
  <2>2. CASE frame[t].i \notin DOMAIN el[frame[t].e].params
    BY <1>1, <1>3, <1>7, <2>2 DEF stumpless_set_param_value_by_index
  <2> QED
    BY <2>1, <2>2
<1>8. CASE LookUpParam(t)
  <2> DEFINE p == stumpless_get_param_by_name(frame[t].e, frame[t].n)
             f == [frame[t] EXCEPT !.step = IF p = NULL THEN "make" ELSE "value", !.p = p]
  <2>1. Step(t, f) /\ UNCHANGED << entry, el, par, live, seen >>
    BY <1>8 DEF LookUpParam
  <2>2. frame[t].e \in Elements
    BY <1>0, <1>8, Referring DEF LookUpParam, Placed
  <2>3. p \in Params \cup {NULL}
    BY <1>0, <2>2, ParamFound, TypeFacts
  <2> HIDE DEF p
  <2>4. f \in Frames
    BY <1>0, <2>3 DEF Frames, Steps
  <2> HIDE DEF f
  <2> QED
    BY <1>3, <2>1, <2>4
<1>9. CASE stumpless_set_param_value(t)
  <2>1. frame[t].p \in Params
    BY <1>0, <1>9, FrameFields DEF stumpless_set_param_value, Placed
  <2>2. ToFinish(frame[t]) \in Frames
    BY <1>0 DEF ToFinish, Frames, Steps
  <2>3. /\ Change(t, ToFinish(frame[t])) /\ par' = [par EXCEPT ![frame[t].p].value = frame[t].v]
        /\ UNCHANGED << entry, el, live, seen >>
    BY <1>9 DEF stumpless_set_param_value, ToFinish
  <2> QED
    BY <1>6, <2>1, <2>2, <2>3
<1>10. ASSUME Fail(t), UNCHANGED << entry, el, par, seen >> PROVE Effect(t)
  BY <1>1, <1>3, <1>10 DEF Fail
<1>11. CASE stumpless_add_new_param(t)
  <2>1. CASE Fail(t) /\ UNCHANGED par
    BY <1>10, <1>11, <2>1 DEF stumpless_add_new_param
  <2>2. CASE ~(Fail(t) /\ UNCHANGED par)
    <3>1. PICK p \in Params \ live :
            /\ par' = [par EXCEPT ![p] = [name |-> frame[t].n, value |-> frame[t].v]]
            /\ live' = live \cup {p} /\ Step(t, ToAppend(frame[t], p))
      BY <1>11, <2>2, Zenon DEF stumpless_add_new_param, ToAppend
    <3>2. ToAppend(frame[t], p) \in Frames /\ UNCHANGED << entry, el, seen >>
      BY <1>0, <1>11, ToAppendIs, Zenon DEF stumpless_add_new_param
    <3>3. \A u \in Threads : u # t => frame'[u] = frame[u]
      BY <1>0, <3>1, <3>2, StepBecomes
    <3>4. /\ \A q \in live \cap Params : par'[q] = par[q]
          /\ \A f \in live' \cap Elements : f \in live
      BY <1>0, <3>1 DEF TypeOK
    <3> QED
      BY <3>2, <3>3, <3>4, QuietEffect
  <2> QED
    BY <2>1, <2>2
<1>12. CASE AppendParam(t)
  <2>1. UNCHANGED << entry, par, seen >> /\ frame[t].step = "append"
    BY <1>12 DEF AppendParam
  <2>2. CASE Step(t, Idle) /\ el' = el /\ live' = live \ (IF frame[t].created THEN {frame[t].e, frame[t].p} ELSE {frame[t].p})
    BY <1>1, <1>3, <2>1, <2>2
  <2>3. CASE Change(t, ToFinish(frame[t])) /\ el' = [el EXCEPT ![frame[t].e].params = Append(@, frame[t].p)] /\ live' = live
    <3>1. ToFinish(frame[t]) \in Frames
      BY <1>0, <2>1, ToFinishIs
    <3>2. /\ \A e \in Elements : el'[e].name = el[e].name
          /\ \A e \in Elements : \/ el'[e].params = el[e].params
                                 \/ e = frame[t].e /\ el'[e].params = Append(el[e].params, frame[t].p)
      BY <1>0, <2>3 DEF TypeOK, stumpless_element
    <3> QED
      BY <1>2, <2>1, <2>3, <3>1, <3>2
  <2> QED
    BY <1>12, <2>2, <2>3 DEF AppendParam, ToFinish
<1>13. CASE Finish(t)
  <2>1. UNCHANGED << el, par, seen >> /\ frame[t].step = "finish"
    BY <1>13 DEF Finish
  <2>2. CASE Fail(t) /\ UNCHANGED entry
    BY <1>10, <2>1, <2>2
  <2>3. CASE frame[t].created /\ locked_add_element(frame[t].e) /\ Change(t, Idle) /\ live' = live
    <3>1. frame[t].locked /\ frame[t].e \in Elements
      BY <1>0, <2>1, <2>3, Referring DEF Placed
    <3> QED
      BY <2>1, <2>3, <3>1, AddEffect DEF locked_add_element
  <2>4. CASE UNCHANGED entry /\ Change(t, Idle) /\ live' = live
    BY <1>1, <1>2, <2>1, <2>4
  <2> QED
    BY <1>13, <2>2, <2>3, <2>4 DEF Finish
<1>14. ASSUME NEW f, ReadingStep(t, f), Keeps(t) \/ seen' = seen PROVE Effect(t)
  BY <1>14, ReadingEffect DEF Keeps
<1>15. CASE Measure(t)
  BY <1>14, <1>15, MeasureDoes
<1>16. CASE AllocateString(t)
  <2>1. ASSUME ReadingStep(t, Idle), seen'.failed = seen.failed \cup {t}, seen'.renamed = seen.renamed,
               seen'.added = seen.added
        PROVE  Effect(t)
    BY <2>1, ReadingEffect
  <2> QED
    BY <1>14, <1>16, <2>1, AllocateDoes
<1>17. CASE WriteElement(t)
  BY <1>14, <1>17, WriteDoes
<1>18. CASE TerminateString(t)
  BY <1>14, <1>18, TerminateDoes
<1>19. CASE CloseString(t) \/ TakeCopy(t)
  BY <1>14, <1>19, CloseDoes
<1>20. CASE stumpless_copy_element(t)
  BY <1>14, <1>20, CopyElementDoes
<1>21. CASE EndCopy(t)
  BY <1>14, <1>21, EndCopyDoes
<1> QED
  BY <1>4, <1>5, <1>7, <1>8, <1>9, <1>11, <1>12, <1>13, <1>15, <1>16, <1>17, <1>18, <1>19, <1>20, <1>21 DEF Progress

-----------------------------------------------------------------------------
(***************************************************************************)
(* Names.                                                                  *)
(***************************************************************************)

\* No step gives an entry two elements of the same name.
LEMMA UniqueNamesStep ==
  ASSUME BaseInv, UniqueNames, NEW t \in Threads, Effect(t)
  PROVE  UniqueNames'
<1> SUFFICES ASSUME ~seen'.renamed
             PROVE  \A i, j \in DOMAIN entry' : el'[entry'[i]].name = el'[entry'[j]].name => i = j
  BY DEF UniqueNames
<1>1. \A i, j \in DOMAIN entry : el[entry[i]].name = el[entry[j]].name => i = j
  BY DEF UniqueNames, Effect, NamesKept
<1>2. \A i \in DOMAIN entry : el'[entry[i]].name = el[entry[i]].name
  BY InTree DEF Effect, NamesKept
<1>3. entry \in Seq(Elements) /\ DOMAIN entry = 1 .. Len(entry) /\ Len(entry) \in Nat
  BY TypeFacts DEF BaseInv
<1>4. CASE entry' = entry
  BY <1>1, <1>2, <1>4
<1>5. CASE entry' = << >>
  BY <1>5
<1>6. ASSUME el' = el, NEW e \in Elements, \A i \in DOMAIN entry : el[entry[i]].name # el[e].name,
             entry' = Append(entry, e) \/ \E k \in DOMAIN entry : entry' = [entry EXCEPT ![k] = e]
      PROVE  \A i, j \in DOMAIN entry' : el'[entry'[i]].name = el'[entry'[j]].name => i = j
  <2>1. CASE entry' = Append(entry, e)
    <3>1. /\ DOMAIN entry' = 1 .. Len(entry) + 1 /\ entry'[Len(entry) + 1] = e
          /\ \A i \in 1 .. Len(entry) : entry'[i] = entry[i]
      BY <1>3, <2>1
    <3> SUFFICES ASSUME NEW i \in DOMAIN entry', NEW j \in DOMAIN entry',
                        el'[entry'[i]].name = el'[entry'[j]].name
                 PROVE  i = j
      OBVIOUS
    <3>2. i \in DOMAIN entry \/ i = Len(entry) + 1
      BY <1>3, <3>1
    <3>3. j \in DOMAIN entry \/ j = Len(entry) + 1
      BY <1>3, <3>1
    <3>4. el' = el /\ \A k \in DOMAIN entry : entry'[k] = entry[k]
      BY <1>3, <1>6, <3>1, Zenon
    <3> QED
      BY <1>1, <1>6, <3>1, <3>2, <3>3, <3>4
  <2>2. ASSUME NEW k \in DOMAIN entry, entry' = [entry EXCEPT ![k] = e]
        PROVE  \A i, j \in DOMAIN entry' : el'[entry'[i]].name = el'[entry'[j]].name => i = j
    <3>1. DOMAIN entry' = DOMAIN entry /\ \A i \in DOMAIN entry : entry'[i] = IF i = k THEN e ELSE entry[i]
      BY <1>3, <2>2
    <3> QED
      BY <1>1, <1>6, <3>1
  <2> QED
    BY <1>6, <2>1, <2>2
<1> QED
  BY <1>4, <1>5, <1>6 DEF Effect, EntryGrows

\* The params of an element get no two names alike, if the step leaves its
\* call in a state where it knows what it must.
LEMMA NameStep ==
  ASSUME BaseInv, BaseInv', LockInv, NameInv, NEW t \in Threads, Effect(t),
         ~seen'.added => Looking(frame[t])'
  PROVE  NameInv'
<1> SUFFICES ASSUME ~seen'.added
             PROVE  DistinctParams' /\ \A u \in Threads : Looking(frame[u])'
  BY DEF NameInv
<1>1. /\ ~seen.added
      /\ \A p \in live \cap Params : par'[p].name = par[p].name
      /\ \A e \in live' \cap Elements :
           \/ el'[e].params = << >>
           \/ e \in live /\ el'[e].params = el[e].params
           \/ /\ e \in live /\ frame[t].step = "append" /\ e = frame[t].e
              /\ el'[e].params = Append(el[e].params, frame[t].p)
  BY DEF Effect, ParamsKept
<1>2. DistinctParams /\ \A u \in Threads : Looking(frame[u])
  BY <1>1 DEF NameInv
<1>3. ASSUME NEW e \in live \cap Elements
      PROVE  \A i \in DOMAIN el[e].params :
               /\ el[e].params[i] \in live \cap Params
               /\ par'[el[e].params[i]].name = par[el[e].params[i]].name
  BY <1>1, InTree
<1>4. ASSUME NEW u \in Threads, frame[u].step = "append"
      PROVE  frame[u].p \in live \cap Params /\ par'[frame[u].p].name = par[frame[u].p].name
  <2>1. frame[u].p \in Owned(u)
    BY <1>4 DEF Owned
  <2>2. frame[u].p \in Params
    BY <1>4, Objects DEF Placed
  <2> QED
    BY <1>1, <2>1, <2>2, Objects
<1>5. ASSUME NEW e \in live' \cap Elements,
             e \in live /\ frame[t].step = "append" /\ e = frame[t].e /\ el'[e].params = Append(el[e].params, frame[t].p)
      PROVE  /\ el[e].params \in Seq(Params) /\ Len(el[e].params) \in Nat
             /\ DOMAIN el[e].params = 1 .. Len(el[e].params)
             /\ DOMAIN el'[e].params = 1 .. Len(el[e].params) + 1
             /\ \A i \in 1 .. Len(el[e].params) : el'[e].params[i] = el[e].params[i]
             /\ el'[e].params[Len(el[e].params) + 1] = frame[t].p
  <2>1. el[e].params \in Seq(Params)
    BY TypeFacts DEF BaseInv
  <2> DEFINE s == el[e].params
  <2> HIDE DEF s
  <2>2. s \in Seq(Params) /\ el'[e].params = Append(s, frame[t].p)
    BY <1>5, <2>1 DEF s
  <2>3. /\ Len(s) \in Nat /\ DOMAIN s = 1 .. Len(s) /\ DOMAIN el'[e].params = 1 .. Len(s) + 1
        /\ \A i \in 1 .. Len(s) : el'[e].params[i] = s[i]
        /\ el'[e].params[Len(s) + 1] = frame[t].p
    BY <2>2
  <2> QED
    BY <2>2, <2>3 DEF s
<1>6. DistinctParams'
  <2> SUFFICES ASSUME NEW e \in live' \cap Elements, NEW i \in DOMAIN el'[e].params, NEW j \in DOMAIN el'[e].params,
                      par'[el'[e].params[i]].name = par'[el'[e].params[j]].name
               PROVE  i = j
    BY DEF DistinctParams
  <2>1. CASE e \in live /\ el'[e].params = el[e].params
    BY <1>2, <1>3, <2>1 DEF DistinctParams
  <2>2. CASE e \in live /\ frame[t].step = "append" /\ e = frame[t].e /\ el'[e].params = Append(el[e].params, frame[t].p)
    <3>1. par'[frame[t].p].name = frame[t].n
      BY <1>2, <1>4, <2>2, Zenon DEF Looking
    <3>0. \A k \in DOMAIN el[e].params : par'[el[e].params[k]].name = par[el[e].params[k]].name
      BY <1>3, <2>2, Zenon
    <3>2. \A k \in DOMAIN el[e].params : par'[el[e].params[k]].name # frame[t].n
      <4>1. Looking(frame[t]) /\ frame[t].step = "append" /\ e = frame[t].e
        BY <1>2, <2>2, Zenon
      <4>2. \A k \in DOMAIN el[e].params : par[el[e].params[k]].name # frame[t].n
        BY <4>1, Zenon DEF Looking
      <4> QED
        BY <3>0, <4>2
    <3>3. \A k, m \in DOMAIN el[e].params : par'[el[e].params[k]].name = par'[el[e].params[m]].name => k = m
      <4>1. \A k, m \in DOMAIN el[e].params : par[el[e].params[k]].name = par[el[e].params[m]].name => k = m
        BY <1>2, <2>2, Zenon DEF DistinctParams
      <4> QED
        BY <3>0, <4>1
    <3> DEFINE s == el[e].params
               w == el'[e].params
    <3>4. /\ Len(s) \in Nat /\ DOMAIN s = 1 .. Len(s) /\ DOMAIN w = 1 .. Len(s) + 1
          /\ \A k \in 1 .. Len(s) : w[k] = s[k]
          /\ w[Len(s) + 1] = frame[t].p
      BY <1>5, <2>2, Zenon
    <3>5. /\ \A k \in DOMAIN s : par'[s[k]].name # frame[t].n
          /\ \A k, m \in DOMAIN s : par'[s[k]].name = par'[s[m]].name => k = m
          /\ i \in DOMAIN w /\ j \in DOMAIN w /\ par'[w[i]].name = par'[w[j]].name
      BY <3>2, <3>3
    <3> HIDE DEF s, w
    <3>6. i \in 1 .. Len(s) \/ i = Len(s) + 1
      BY <3>4, <3>5
    <3>7. j \in 1 .. Len(s) \/ j = Len(s) + 1
      BY <3>4, <3>5
    <3> QED
      BY <3>1, <3>4, <3>5, <3>6, <3>7
  <2>3. CASE el'[e].params = << >>
    BY <2>3
  <2> QED
    BY <1>1, <2>1, <2>2, <2>3
<1>7. ASSUME NEW u \in Threads, u # t PROVE Looking(frame[u])'
  <2>1. Alike(frame'[u], frame[u])
    BY <1>7 DEF Effect, Others
  <2>2. /\ frame'[u].step = frame[u].step /\ frame'[u].locked = frame[u].locked /\ frame'[u].e = frame[u].e
        /\ frame'[u].n = frame[u].n /\ frame'[u].p = frame[u].p
    BY <2>1 DEF Alike
  <2>3. Looking(frame[u])
    BY <1>2
  <2>4. frame[u].step = "append" => par'[frame[u].p].name = frame[u].n
    BY <1>4, <2>3 DEF Looking
  <2>5. ASSUME frame[u].step \in {"make", "append"}
        PROVE  \A i \in DOMAIN el'[frame[u].e].params : par'[el'[frame[u].e].params[i]].name # frame[u].n
    <3>1. frame[u].e # NULL
      BY <2>5, Objects DEF Placed
    <3>2. frame[u].e \in live \cap Elements
      BY <3>1, Referring
    <3>3. frame[u].e \in live'
      BY <2>2, <3>1 DEF BaseInv, RefInv
    <3>4. ~(frame[t].step = "append")
      <4>1. frame[u].locked /\ (frame[t].step = "append" => frame[t].locked)
        BY <1>2, <2>3, <2>5 DEF Looking
      <4> QED
        BY <1>7, <4>1 DEF LockInv
    <3>5. el'[frame[u].e].params = << >> \/ el'[frame[u].e].params = el[frame[u].e].params
      BY <1>1, <3>2, <3>3, <3>4
    <3>6. \A i \in DOMAIN el[frame[u].e].params : par'[el[frame[u].e].params[i]].name # frame[u].n
      BY <1>3, <2>3, <2>5, <3>2 DEF Looking
    <3> QED
      BY <3>5, <3>6
  <2> QED
    BY <2>2, <2>3, <2>4, <2>5 DEF Looking
<1> QED
  BY <1>6, <1>7

\* A call that is about to look a param up, or does not.
Plain(f) == f.step \in {"replace", "look", "make", "append"} => f.step = "look" /\ f.locked

\* Such a call has nothing to know yet.
LEMMA PlainLooks ==
  ASSUME NEW t \in Threads, Plain(frame[t])'
  PROVE  Looking(frame[t])'
BY DEF Plain, Looking

\* A call that makes no copy and no string.
Apart(f) == f.step \notin {"measure", "write", "close", "copy", "copied"} /\ f.copy = << >>

\* A call that sets a param by name through the entry begins with the
\* lookup, under the mutex of the entry.
Starting(f) == Apart(f) /\ (~seen'.added => Plain(f))

\* How calls begin, apart from the two that read the whole tree.
LEMMA CallStarts ==
  ASSUME BaseInv, NEW t \in Threads, Call(t), ~stumpless_entry_to_string(t), ~stumpless_copy_entry(t)
  PROVE  Starting(frame'[t])
<1>0. TypeOK
  BY DEF BaseInv
<1>1. ASSUME NEW f \in Frames, Step(t, f) \/ Change(t, f), Starting(f) PROVE Starting(frame'[t])
  <2>1. frame'[t] = f
    BY <1>0, <1>1, StepBecomes, ChangeBecomes DEF Becomes
  <2> QED
    BY <1>1, <2>1
<1>2. ASSUME Calling(t), frame' = frame \/ Change(t, Idle) PROVE Starting(frame'[t])
  <2>1. Starting(frame[t]) /\ Starting(Idle) /\ Idle \in Frames
    BY <1>2, IdleFrame, CallBegins DEF Starting, Apart, Plain, Placed
  <2> QED
    BY <1>1, <1>2, <2>1
<1>3. ASSUME NEW n \in Names, stumpless_new_element(t, n) PROVE Starting(frame'[t])
  BY <1>2, <1>3 DEF stumpless_new_element
<1>4. ASSUME NEW n \in Names, stumpless_add_new_element(t, n) PROVE Starting(frame'[t])
  <2>1. PICK e \in Elements : Step(t, AttachFrame(e))
    BY <1>4, Zenon DEF stumpless_add_new_element, AttachFrame
  <2>2. AttachFrame(e) \in Frames /\ Starting(AttachFrame(e))
    BY AttachFrameIs DEF Starting, Apart, Plain
  <2> QED
    BY <1>1, <2>1, <2>2
<1>5. ASSUME NEW n \in Names, NEW v \in Values, stumpless_new_param(t, n, v) PROVE Starting(frame'[t])
  BY <1>2, <1>5 DEF stumpless_new_param
<1>6. ASSUME NEW p \in Params, stumpless_destroy_param(t, p) PROVE Starting(frame'[t])
  BY <1>2, <1>6 DEF stumpless_destroy_param
<1>7. ASSUME NEW e \in Elements, stumpless_destroy_element_and_contents(t, e) PROVE Starting(frame'[t])
  BY <1>2, <1>7 DEF stumpless_destroy_element_and_contents
<1>8. ASSUME NEW e \in Elements, stumpless_destroy_element_only(t, e) PROVE Starting(frame'[t])
  BY <1>2, <1>8 DEF stumpless_destroy_element_only
<1>9. ASSUME stumpless_destroy_entry_and_contents(t) \/ stumpless_destroy_entry_only(t) PROVE Starting(frame'[t])
  BY <1>2, <1>9 DEF stumpless_destroy_entry_and_contents, stumpless_destroy_entry_only
<1>10. ASSUME NEW e \in Elements, stumpless_add_element(t, e) PROVE Starting(frame'[t])
  BY <1>2, <1>10 DEF stumpless_add_element
<1>11. ASSUME NEW e \in Elements, NEW i \in DOMAIN entry, stumpless_set_element(t, i, e) PROVE Starting(frame'[t])
  BY <1>2, <1>11 DEF stumpless_set_element
<1>12. ASSUME NEW e \in Elements, NEW n \in Names, stumpless_set_element_name(t, e, n) PROVE Starting(frame'[t])
  BY <1>2, <1>12 DEF stumpless_set_element_name
<1>13. ASSUME NEW e \in Elements, NEW p \in Params, stumpless_add_param(t, e, p) PROVE Starting(frame'[t])
  BY <1>2, <1>13 DEF stumpless_add_param
<1>14. ASSUME NEW p \in Params, NEW n \in Names, stumpless_set_param_name(t, p, n) PROVE Starting(frame'[t])
  BY <1>2, <1>14 DEF stumpless_set_param_name
<1>15. ASSUME NEW e \in Elements, NEW f, Begun(f, e), CallElement(t, f), f.step \in {"replace", "value_at", "look", "make"}
       PROVE  Starting(frame'[t])
  <2>1. ~seen'.added => f.step = "value_at"
    BY <1>0, <1>15 DEF CallElement, TypeOK
  <2>2. f \in Frames /\ Starting(f) /\ Step(t, f)
    BY <1>15, <2>1 DEF Starting, Apart, Plain, Begun, CallElement
  <2> QED
    BY <1>1, <2>2
<1>16. ASSUME NEW e \in Elements, NEW p \in Params, NEW i \in 1..2, CallSetParam(t, e, p, i) PROVE Starting(frame'[t])
  <2>1. CallElement(t, SetParamFrame(e, p, i))
    BY <1>16 DEF CallSetParam, SetParamFrame
  <2> QED
    BY <1>15, <2>1, SetParamFrameIs
<1>17. ASSUME NEW e \in Elements, NEW v \in Values, NEW i \in 1..2, CallSetValueAt(t, e, v, i) PROVE Starting(frame'[t])
  <2>1. CallElement(t, SetValueFrame(e, v, i))
    BY <1>17 DEF CallSetValueAt, SetValueFrame
  <2> QED
    BY <1>15, <2>1, SetValueFrameIs
<1>18. ASSUME NEW e \in Elements, NEW n \in Names, NEW v \in Values, NEW step \in {"look", "make"},
              CallByName(t, e, n, v, step)
       PROVE  Starting(frame'[t])
  <2>1. CallElement(t, ByNameFrame(e, n, v, step))
    BY <1>18 DEF CallByName, ByNameFrame
  <2> QED
    BY <1>15, <2>1, ByNameFrameIs
<1>19. ASSUME NEW i \in DOMAIN entry, NEW p \in Params \cup {NULL}, NEW v \in Values,
              stumpless_set_entry_param_by_index(t, i, 1, p, v)
       PROVE  Starting(frame'[t])
  <2>1. ~seen'.added => p = NULL
    BY <1>0, <1>19 DEF stumpless_set_entry_param_by_index, TypeOK
  <2>2. Step(t, ByIndexFrame(i, p, v))
    BY <1>19 DEF stumpless_set_entry_param_by_index, ByIndexFrame
  <2>3. /\ ByIndexFrame(i, p, v) \in Frames /\ ByIndexFrame(i, p, v).copy = << >>
        /\ ByIndexFrame(i, p, v).step = IF p = NULL THEN "value_at" ELSE "replace"
    BY <1>0, ByIndexFrameIs
  <2>4. Starting(ByIndexFrame(i, p, v))
    BY <2>1, <2>3 DEF Starting, Apart, Plain
  <2> QED
    BY <1>1, <2>2, <2>3, <2>4
<1>20. ASSUME NEW en \in Names, NEW pn \in Names, NEW v \in Values, NEW step \in {"make", "look"},
              EntryCall(t, en, pn, v, step)
       PROVE  Starting(frame'[t])
  <2>1. seen' = [seen EXCEPT !.added = @ \/ step = "make"]
    BY <1>20, EntryCallDoes
  <2>2. (~seen'.added => step = "look") /\ step \in ByNameSteps
    BY <1>0, <2>1 DEF TypeOK, ByNameSteps
  <2>3. ASSUME NEW f, NEW e, Looks(f, e, pn, step), Step(t, f) PROVE Starting(frame'[t])
    <3>1. f \in Frames /\ Starting(f)
      BY <2>2, <2>3 DEF Looks, Starting, Apart, Plain
    <3> QED
      BY <1>1, <2>3, <3>1
  <2>4. \E e \in Elements : Step(t, FoundFrame(e, pn, v, step)) \/ Step(t, MadeFrame(e, pn, v, step))
    BY <1>20, EntryCallDoes
  <2>5. PICK e \in Elements : Step(t, FoundFrame(e, pn, v, step)) \/ Step(t, MadeFrame(e, pn, v, step))
    BY <2>4
  <2>6. Looks(FoundFrame(e, pn, v, step), e, pn, step)
    BY <2>2, FoundFrameIs
  <2>7. Looks(MadeFrame(e, pn, v, step), e, pn, step)
    BY <2>2, MadeFrameIs
  <2> QED
    BY <2>3, <2>5, <2>6, <2>7
<1>21. ASSUME NEW e \in Elements, ElementToStringFails(t, e) PROVE Starting(frame'[t])
  BY <1>2, <1>21 DEF ElementToStringFails
<1> QED
  BY <1>3, <1>4, <1>5, <1>6, <1>7, <1>8, <1>9, <1>10, <1>11, <1>12, <1>13, <1>14, <1>16, <1>17, <1>18, <1>19,
     <1>20, <1>21 DEF Call

\* In particular no call begins with a param to append.
LEMMA CallPlain ==
  ASSUME BaseInv, NEW t \in Threads, Call(t), ~seen'.added
  PROVE  Plain(frame[t])'
<1>1. CASE ~stumpless_entry_to_string(t) /\ ~stumpless_copy_entry(t)
  <2>1. Starting(frame'[t])
    BY <1>1, CallStarts
  <2> QED
    BY <2>1 DEF Starting, Plain
<1>2. ASSUME NEW f, Step(t, f), f \in Frames, f.step \in {"measure", "copy"} PROVE Plain(frame[t])'
  <2>1. frame'[t] = f
    BY <1>2, StepBecomes DEF Becomes, BaseInv
  <2> QED
    BY <1>2, <2>1 DEF Plain
<1>3. CASE stumpless_entry_to_string(t)
  <2>1. Step(t, MeasureFrame)
    BY <1>3, EntryToStringDoes DEF ReadingStep
  <2> QED
    BY <1>2, <2>1, MeasureFrameIs DEF Reads, Reading
<1>4. CASE stumpless_copy_entry(t)
  <2>1. Step(t, CopyFrame)
    BY <1>4, CopyEntryDoes DEF ReadingStep
  <2> QED
    BY <1>2, <2>1, CopyFrameIs DEF Reads, Reading
<1> QED
  BY <1>1, <1>3, <1>4

\* Only a param that the lookup did not find is made and appended.
LEMMA ProgressLooks ==
  ASSUME BaseInv, NameInv, NEW t \in Threads, Progress(t), ~seen'.added
  PROVE  Looking(frame[t])'
<1>0. TypeOK /\ frame[t] \in Frames /\ Placed(frame[t])
  BY InStep
<1>1. ASSUME NEW f \in Frames, Step(t, f) \/ Change(t, f), f.step \notin {"replace", "look", "make", "append"}
      PROVE  Looking(frame[t])'
  <2>1. frame'[t] = f
    BY <1>0, <1>1, StepBecomes, ChangeBecomes DEF Becomes
  <2>2. Plain(frame[t])'
    BY <1>1, <2>1 DEF Plain
  <2> QED
    BY <2>2, PlainLooks
<1>2. ASSUME Step(t, Idle) \/ Change(t, Idle) PROVE Looking(frame[t])'
  BY <1>1, <1>2, IdleFrame
<1>3. CASE Attach(t) \/ stumpless_set_param(t) \/ stumpless_set_param_value_by_index(t) \/ Finish(t)
  BY <1>2, <1>3, Zenon DEF Attach, stumpless_set_param, stumpless_set_param_value_by_index, Finish, Fail
<1>4. CASE LookUpParam(t)
  <2> DEFINE p == stumpless_get_param_by_name(frame[t].e, frame[t].n)
             f == [frame[t] EXCEPT !.step = IF p = NULL THEN "make" ELSE "value", !.p = p]
  <2>1. Step(t, f) /\ UNCHANGED << entry, el, par, live, seen >> /\ frame[t].step = "look"
    BY <1>4 DEF LookUpParam
  <2>2. frame[t].e \in Elements
    BY <1>0, <2>1, Referring DEF Placed
  <2>3. /\ p \in Params \cup {NULL}
        /\ p = NULL => \A i \in DOMAIN el[frame[t].e].params : par[el[frame[t].e].params[i]].name # frame[t].n
    BY <1>0, <2>2, ParamFound, TypeFacts
  <2>4. frame[t].locked
    BY <2>1 DEF NameInv, Looking
  <2> HIDE DEF p
  <2>5. /\ f \in Frames /\ f.locked = frame[t].locked /\ f.e = frame[t].e /\ f.n = frame[t].n
        /\ f.step = IF p = NULL THEN "make" ELSE "value"
    BY <1>0, <2>3 DEF Frames, Steps
  <2> HIDE DEF f
  <2>6. CASE p # NULL
    BY <1>1, <2>1, <2>5, <2>6
  <2>7. CASE p = NULL
    <3>1. frame'[t] = f
      BY <1>0, <2>1, <2>5, StepBecomes DEF Becomes
    <3>2. el' = el /\ par' = par
      BY <2>1
    <3> QED
      BY <2>3, <2>4, <2>5, <2>7, <3>1, <3>2 DEF Looking
  <2> QED
    BY <2>6, <2>7
<1>5. CASE stumpless_set_param_value(t)
  <2>1. ToFinish(frame[t]) \in Frames /\ ToFinish(frame[t]).step = "finish"
    BY <1>0 DEF ToFinish, Frames, Steps
  <2>2. Change(t, ToFinish(frame[t]))
    BY <1>5 DEF stumpless_set_param_value, ToFinish
  <2> QED
    BY <1>1, <2>1, <2>2
<1>6. CASE stumpless_add_new_param(t)
  <2>1. CASE Fail(t)
    BY <1>2, <2>1 DEF Fail
  <2>2. CASE ~Fail(t)
    <3>1. PICK p \in Params \ live :
            /\ par' = [par EXCEPT ![p] = [name |-> frame[t].n, value |-> frame[t].v]]
            /\ Step(t, ToAppend(frame[t], p))
      BY <1>6, <2>2, Zenon DEF stumpless_add_new_param, ToAppend
    <3>2. frame[t].step = "make" /\ UNCHANGED << el, seen >>
      BY <1>6, Zenon DEF stumpless_add_new_param
    <3> DEFINE f == ToAppend(frame[t], p)
    <3>3. /\ f \in Frames /\ f.step = "append" /\ f.e = frame[t].e /\ f.p = p
          /\ f.locked = frame[t].locked /\ f.n = frame[t].n
      BY <1>0, <3>2, ToAppendIs
    <3>4. Step(t, f)
      BY <3>1
    <3> HIDE DEF f
    <3>5. frame'[t] = f
      BY <1>0, <3>3, <3>4, StepBecomes DEF Becomes
    <3>6. Looking(frame[t])
      BY <3>2 DEF NameInv
    <3>7. frame[t].e \in live \cap Elements
      BY <1>0, <3>2, Referring DEF Placed
    <3>8. par'[p].name = frame[t].n /\ \A q \in live \cap Params : par'[q] = par[q]
      BY <1>0, <3>1 DEF TypeOK
    <3>9. \A i \in DOMAIN el[frame[t].e].params : el[frame[t].e].params[i] \in live \cap Params
      BY <3>7, InTree
    <3>10. frame[t].locked /\ \A i \in DOMAIN el[frame[t].e].params : par[el[frame[t].e].params[i]].name # frame[t].n
      BY <3>2, <3>6 DEF Looking
    <3>11. \A i \in DOMAIN el'[f.e].params : par'[el'[f.e].params[i]].name # f.n
      BY <3>2, <3>3, <3>8, <3>9, <3>10
    <3> QED
      BY <3>3, <3>5, <3>8, <3>10, <3>11 DEF Looking
  <2> QED
    BY <2>1, <2>2
<1>7. CASE AppendParam(t)
  <2>1. ToFinish(frame[t]) \in Frames /\ ToFinish(frame[t]).step = "finish"
    BY <1>0, <1>7, ToFinishIs DEF AppendParam
  <2>2. Change(t, ToFinish(frame[t])) \/ Step(t, Idle)
    BY <1>7 DEF AppendParam, ToFinish
  <2> QED
    BY <1>1, <1>2, <2>1, <2>2
<1>8. ASSUME NEW f, ReadingStep(t, f) PROVE Looking(frame[t])'
  <2>1. f \in Frames /\ Placed(f) /\ f.e = NULL /\ f.p = NULL /\ Step(t, f)
    BY <1>8 DEF ReadingStep, Reading
  <2>2. f.step \notin {"replace", "look", "make", "append"}
    BY <2>1 DEF Placed
  <2> QED
    BY <1>1, <2>1, <2>2
<1>9. CASE Measure(t) \/ AllocateString(t) \/ WriteElement(t)
  BY <1>8, <1>9, MeasureDoes, AllocateDoes, WriteDoes
<1>10. CASE TerminateString(t) \/ CloseString(t) \/ TakeCopy(t) \/ stumpless_copy_element(t) \/ EndCopy(t)
  BY <1>8, <1>10, TerminateDoes, CloseDoes, CopyElementDoes, EndCopyDoes
<1> QED
  BY <1>3, <1>4, <1>5, <1>6, <1>7, <1>9, <1>10 DEF Progress

\* No name is in use twice in the beginning.
LEMMA InitNames == Init => UniqueNames /\ NameInv
<1> SUFFICES ASSUME Init PROVE UniqueNames /\ NameInv
  OBVIOUS
<1>1. PICK a \in Elements, n \in Names, ps \in {<<>>} \cup {<< p >> : p \in Params} :
        /\ entry = << a >>
        /\ el = [e \in Elements |-> [name |-> n, params |-> IF e = a THEN ps ELSE <<>>]]
        /\ frame = [t \in Threads |-> Idle]
  BY DEF Init
<1>2. \A i, j \in DOMAIN ps : i = j
  <2>1. CASE ps = << >>
    BY <2>1
  <2>2. CASE \E p \in Params : ps = << p >>
    BY <2>2
  <2> QED
    BY <2>1, <2>2
<1>3. \A e \in Elements : el[e].params = ps \/ el[e].params = << >>
  BY <1>1
<1>4. DistinctParams
  BY <1>2, <1>3 DEF DistinctParams
<1>5. \A t \in Threads : Looking(frame[t])
  BY <1>1, IdleFrame DEF Looking
<1>6. UniqueNames
  BY <1>1 DEF UniqueNames
<1> QED
  BY <1>4, <1>5, <1>6 DEF NameInv

\* And by no step.
LEMMA NamesNext == BaseInv /\ LockInv /\ UniqueNames /\ NameInv /\ [Next]_vars => (UniqueNames /\ NameInv)'
<1> SUFFICES ASSUME BaseInv, LockInv, UniqueNames, NameInv, [Next]_vars PROVE UniqueNames' /\ NameInv'
  OBVIOUS
<1>1. BaseInv'
  BY BaseNext
<1>2. ASSUME NEW t \in Threads, Call(t) PROVE UniqueNames' /\ NameInv'
  <2>1. Effect(t)
    BY <1>2, CallEffect
  <2>2. ~seen'.added => Looking(frame[t])'
    BY <1>2, CallPlain, PlainLooks
  <2> QED
    BY <1>1, <2>1, <2>2, UniqueNamesStep, NameStep
<1>3. ASSUME NEW t \in Threads, Progress(t) PROVE UniqueNames' /\ NameInv'
  <2>1. Effect(t)
    BY <1>3, ProgressEffect
  <2>2. ~seen'.added => Looking(frame[t])'
    BY <1>3, ProgressLooks
  <2> QED
    BY <1>1, <2>1, <2>2, UniqueNamesStep, NameStep
<1>4. CASE UNCHANGED vars
  BY <1>4 DEF UniqueNames, NameInv, DistinctParams, Looking, vars
<1> QED
  BY <1>2, <1>3, <1>4 DEF Next

\* Then a name is counted once.
LEMMA CountsOnce ==
  ASSUME BaseInv, NameInv
  PROVE  ByNameUnique
<1> SUFFICES ASSUME ~seen.added, NEW e \in live \cap Elements, NEW n \in Names
             PROVE  stumpless_get_param_name_count(e, n) <= 1
  BY DEF ByNameUnique
<1> DEFINE I == FOR_EACH_PARAM_WITH_NAME(e, n)
<1>1. \A i, j \in I : i = j
  BY DEF FOR_EACH_PARAM_WITH_NAME, NameInv, DistinctParams
<1>2. stumpless_get_param_name_count(e, n) = Cardinality(I)
  BY DEF stumpless_get_param_name_count
<1> HIDE DEF I
<1>3. CASE I = {}
  BY <1>2, <1>3, FS_EmptySet
<1>4. CASE I # {}
  <2>1. PICK i \in I : TRUE
    BY <1>4
  <2>2. I = {i}
    BY <1>1, <2>1
  <2>3. Cardinality(I) = 1
    BY <2>2, FS_Singleton
  <2> QED
    BY <1>2, <2>3
<1> QED
  BY <1>3, <1>4

\* stumpless_get_element_index finds what stumpless_get_element_by_name does,
\* unless a name begins with the one that is looked for.
LEMMA IndexFound ==
  ASSUME TypeOK, NEW n, locked_get_element_by_name(n) # NULL,
         \A x \in ToSet(entry) : << n, el[x].name >> \notin Extends
  PROVE  \E k \in DOMAIN entry : stumpless_get_element_index(n) = k - 1 /\ locked_get_element_by_name(n) = entry[k]
<1> DEFINE I == {i \in 1 .. Len(entry) : el[entry[i]].name = n}
           J == {i \in 1 .. Len(entry) : el[entry[i]].name = n \/ << n, el[entry[i]].name >> \in Extends}
<1>1. SelectInSeq(entry, LAMBDA x : el[x].name = n) = IF I # {} THEN Min(I) ELSE 0
  BY DEF SelectInSeq
<1>2. SelectInSeq(entry, LAMBDA x : el[x].name = n \/ << n, el[x].name >> \in Extends) = IF J # {} THEN Min(J) ELSE 0
  BY DEF SelectInSeq
<1>3. DOMAIN entry = 1 .. Len(entry)
  BY TypeFacts
<1>4. I = J
  BY <1>3 DEF ToSet
<1>5. locked_get_element_by_name(n) = IF SelectInSeq(entry, LAMBDA x : el[x].name = n) = 0 THEN NULL
                                      ELSE entry[SelectInSeq(entry, LAMBDA x : el[x].name = n)]
  BY DEF locked_get_element_by_name
<1>6. stumpless_get_element_index(n) =
        IF SelectInSeq(entry, LAMBDA x : el[x].name = n \/ << n, el[x].name >> \in Extends) = 0 THEN 0
        ELSE SelectInSeq(entry, LAMBDA x : el[x].name = n \/ << n, el[x].name >> \in Extends) - 1
  BY DEF stumpless_get_element_index
<1>7. I # {}
  BY <1>1, <1>5
<1>8. Min(I) \in I
  BY <1>7, MinIsLeast
<1>9. Min(I) \in DOMAIN entry /\ Min(I) # 0
  BY <1>3, <1>8
<1>10. locked_get_element_by_name(n) = entry[Min(I)]
  BY <1>1, <1>5, <1>7, <1>9
<1>11. stumpless_get_element_index(n) = Min(I) - 1
  BY <1>2, <1>4, <1>6, <1>7, <1>9
<1> QED
  BY <1>9, <1>10, <1>11

\* The first param of a name is what each function that takes the name finds.
LEMMA ParamIndexFound ==
  ASSUME TypeOK, NEW e \in Elements, NEW m, stumpless_element_has_param(e, m)
  PROVE  \E k \in DOMAIN el[e].params :
           /\ stumpless_get_param_index(e, m) = k - 1
           /\ stumpless_get_param_by_name(e, m) = el[e].params[k]
           /\ stumpless_get_param_by_index(e, k - 1) = el[e].params[k]
           /\ par[el[e].params[k]].name = m /\ el[e].params[k] # NULL
<1> DEFINE I == FOR_EACH_PARAM_WITH_NAME(e, m)
           s == el[e].params
<1>1. I # {}
  BY DEF stumpless_element_has_param
<1>2. s \in Seq(Params) /\ DOMAIN s = 1 .. Len(s) /\ Len(s) \in Nat
  BY TypeFacts
<1>3. I = {i \in DOMAIN s : par[s[i]].name = m}
  BY DEF FOR_EACH_PARAM_WITH_NAME
<1>4. I \subseteq Nat
  BY <1>2, <1>3
<1>5. Min(I) \in I
  BY <1>1, <1>4, MinIsLeast
<1>6. stumpless_get_param_index(e, m) = Min(I) - 1 /\ stumpless_get_param_by_name(e, m) = s[Min(I)]
  BY <1>1 DEF stumpless_get_param_index, stumpless_get_param_by_name
<1>7. \A i : stumpless_get_param_by_index(e, i) = IF i >= Len(s) THEN NULL ELSE s[i + 1]
  BY DEF stumpless_get_param_by_index, stumpless_get_param_count
<1> HIDE DEF I, s
<1>8. PICK k \in DOMAIN s : k = Min(I) /\ par[s[k]].name = m
  BY <1>3, <1>5
<1>9. stumpless_get_param_by_index(e, k - 1) = s[k]
  BY <1>2, <1>7, <1>8
<1>10. s[k] # NULL
  BY <1>2, <1>8, ObjectsAssumption
<1> QED
  BY <1>6, <1>8, <1>9, <1>10 DEF s

\* So the lookups agree, in any state.
LEMMA LookupsDoAgree ==
  ASSUME TypeOK
  PROVE  LookupsAgree
<1> SUFFICES ASSUME NEW n \in Names
             PROVE  LET e == stumpless_get_element_by_name(n)
                        i == stumpless_get_element_index(n)
                    IN
                    /\ (e # NULL) = stumpless_entry_has_element(n)
                    /\ e # NULL /\ (\A x \in ToSet(entry) : << n, el[x].name >> \notin Extends) =>
                         /\ stumpless_get_element_by_index(i) = e
                         /\ \A m \in Names :
                              LET j == stumpless_get_param_index(e, m) IN
                              stumpless_element_has_param(e, m) =>
                                /\ stumpless_get_param_name_by_index(e, j) = m
                                /\ stumpless_get_entry_param_by_name(n, m) = stumpless_get_entry_param_by_index(i, j)
                                /\ stumpless_get_entry_param_value_by_name(n, m) =
                                     stumpless_get_entry_param_value_by_index(i, j)
  BY DEF LookupsAgree
<1> DEFINE e == stumpless_get_element_by_name(n)
           i == stumpless_get_element_index(n)
<1>1. e = locked_get_element_by_name(n)
  BY DEF stumpless_get_element_by_name
<1>2. DOMAIN entry = 1 .. Len(entry) /\ Len(entry) \in Nat /\ \A k \in DOMAIN entry : entry[k] \in Elements
  BY TypeFacts
<1>3. e # NULL <=> stumpless_entry_has_element(n)
  <2>1. stumpless_entry_has_element(n) <=> \E k \in DOMAIN entry : el[entry[k]].name = n
    BY DEF stumpless_entry_has_element, unchecked_entry_has_element, ToSet
  <2>2. /\ e = NULL => \A k \in DOMAIN entry : el[entry[k]].name # n
        /\ e # NULL => \E k \in DOMAIN entry : el[entry[k]].name = n
    BY <1>1, ElementFound
  <2> QED
    BY <2>1, <2>2
<1>4. ASSUME e # NULL, \A x \in ToSet(entry) : << n, el[x].name >> \notin Extends
      PROVE  /\ stumpless_get_element_by_index(i) = e
             /\ \A m \in Names :
                  LET j == stumpless_get_param_index(e, m) IN
                  stumpless_element_has_param(e, m) =>
                    /\ stumpless_get_param_name_by_index(e, j) = m
                    /\ stumpless_get_entry_param_by_name(n, m) = stumpless_get_entry_param_by_index(i, j)
                    /\ stumpless_get_entry_param_value_by_name(n, m) =
                         stumpless_get_entry_param_value_by_index(i, j)
  <2>1. PICK k \in DOMAIN entry : i = k - 1 /\ e = entry[k]
    BY <1>1, <1>4, IndexFound
  <2>2. locked_get_element_by_index(i) = e
    BY <1>2, <2>1 DEF locked_get_element_by_index, stumpless_get_element_count
  <2>3. e \in Elements
    BY <1>2, <2>1
  <2> HIDE DEF e, i
  <2>4. ASSUME NEW m \in Names, stumpless_element_has_param(e, m)
        PROVE  LET j == stumpless_get_param_index(e, m) IN
               /\ stumpless_get_param_name_by_index(e, j) = m
               /\ stumpless_get_entry_param_by_name(n, m) = stumpless_get_entry_param_by_index(i, j)
               /\ stumpless_get_entry_param_value_by_name(n, m) = stumpless_get_entry_param_value_by_index(i, j)
    <3>1. PICK h \in DOMAIN el[e].params :
            /\ stumpless_get_param_index(e, m) = h - 1
            /\ stumpless_get_param_by_name(e, m) = el[e].params[h]
            /\ stumpless_get_param_by_index(e, h - 1) = el[e].params[h]
            /\ par[el[e].params[h]].name = m /\ el[e].params[h] # NULL
      BY <2>3, <2>4, ParamIndexFound
    <3> DEFINE p == el[e].params[h]
    <3>2. stumpless_get_param_name_by_index(e, h - 1) = m
      BY <3>1 DEF stumpless_get_param_name_by_index
    <3>3. stumpless_get_entry_param_by_index(i, h - 1) = p
      BY <1>4, <2>2, <3>1 DEF stumpless_get_entry_param_by_index
    <3>4. stumpless_get_entry_param_value_by_index(i, h - 1) = ValueOf(p)
      BY <1>4, <2>2, <3>1 DEF stumpless_get_entry_param_value_by_index, stumpless_get_param_value_by_index
    <3>5. stumpless_get_element_by_name(n) = e /\ e # NULL
      BY <1>4 DEF e
    <3>6. stumpless_get_entry_param_by_name(n, m) = p
      BY <3>1, <3>5 DEF stumpless_get_entry_param_by_name
    <3>7. stumpless_get_entry_param_value_by_name(n, m) = ValueOf(p)
      BY <3>1, <3>5 DEF stumpless_get_entry_param_value_by_name, stumpless_get_param_value_by_name
    <3> QED
      BY <3>1, <3>2, <3>3, <3>4, <3>6, <3>7
  <2>5. stumpless_get_element_by_index(i) = e
    BY <2>2 DEF stumpless_get_element_by_index
  <2> QED
    BY <2>4, <2>5
<1>5. (e # NULL) = stumpless_entry_has_element(n)
  BY <1>3 DEF stumpless_entry_has_element, unchecked_entry_has_element
<1> QED
  BY <1>4, <1>5

(***************************************************************************)
(* Elements and params can be told apart by their names, for any number of *)
(* threads, elements and params: stumpless_add_element and                 *)
(* stumpless_set_element admit no second element of a name, the functions  *)
(* that set a param by name through the entry never append one that is     *)
(* there, because they look and append under the mutex of the entry, and   *)
(* all ways to look one up find the same.                                  *)
(***************************************************************************)
THEOREM NamesAreAlwaysSound == Spec => []NamesSound
<1> DEFINE Inv == BaseInv /\ LockInv /\ UniqueNames /\ NameInv
<1>1. Init => Inv
  BY InitBase, InitLock, InitNames
<1>2. Inv /\ [Next]_vars => Inv'
  BY BaseNext, LockNext, NamesNext
<1>3. Inv => NamesSound
  BY CountsOnce, LookupsDoAgree DEF BaseInv, NamesSound
<1> QED
  BY <1>1, <1>2, <1>3, PTL DEF Spec

-----------------------------------------------------------------------------
(***************************************************************************)
(* Copies and strings.                                                     *)
(***************************************************************************)

\* How many characters each element adds to the string of the entry, and
\* how many the first elements add.
Weights == [k \in DOMAIN entry |-> ElementStringLength(entry[k]) + 1]

IsSums(g, w) ==
  /\ g \in [0 .. Len(w) -> Nat]
  /\ \A k \in 0 .. Len(w) : g[k] = IF k = 0 THEN 0 ELSE g[k - 1] + w[k]

SumsOf(w) == CHOOSE g : IsSums(g, w)

\* What stumpless_copy_entry has copied so far.
CopyOK(t) ==
  LET f == frame[t] IN
  /\ f.step \notin {"copy", "copied"} => f.copy = << >>
  /\ f.step = "copy" =>
       /\ f.i = Len(f.copy) + 1 /\ Len(f.copy) <= Len(entry)
       /\ ~f.disturbed => \A k \in DOMAIN f.copy : f.copy[k] = ElementValue(entry[k])
       /\ ~seen.renamed => \A k \in DOMAIN f.copy : f.copy[k].name = el[entry[k]].name
  /\ f.step = "copied" =>
       /\ ~f.disturbed => f.copy = [k \in DOMAIN entry |-> ElementValue(entry[k])]
       /\ ~seen.renamed => \A i, j \in DOMAIN f.copy : f.copy[i].name = f.copy[j].name => i = j

\* What stumpless_entry_to_string has counted and written so far.
StringOK(t) ==
  LET f == frame[t]
      n == Len(entry)
  IN
  t \notin seen.failed /\ ~f.disturbed =>
    /\ f.step \in {"measure", "write"} => f.i \in 1 .. n + 1
    /\ f.step = "measure" => f.size = FieldsSize + SumsOf(Weights)[f.i - 1]
    /\ f.step = "write" =>
         /\ f.size = FieldsSize + SumsOf(Weights)[n]
         /\ \E d \in 1..3 : f.used = FieldsUsed(d) + SumsOf(Weights)[f.i - 1] - (IF f.i = 1 THEN 0 ELSE 1)
    /\ f.step = "close" => f.used <= f.size + 1

MakingInv == \A t \in Threads : CopyOK(t) /\ StringOK(t)

\* The sums are defined.
LEMMA SumsAre ==
  ASSUME TypeOK
  PROVE  /\ Weights \in Seq(Nat) /\ Len(Weights) = Len(entry)
         /\ \A k \in DOMAIN entry : Weights[k] = ElementStringLength(entry[k]) + 1
         /\ IsSums(SumsOf(Weights), Weights)
<1>1. DOMAIN entry = 1 .. Len(entry) /\ Len(entry) \in Nat /\ \A k \in DOMAIN entry : entry[k] \in Elements
  BY TypeFacts
<1>2. \A k \in DOMAIN entry : ElementStringLength(entry[k]) + 1 \in Nat
  BY <1>1, LengthIsNatural
<1>3. Weights \in [1 .. Len(entry) -> Nat]
  BY <1>1, <1>2 DEF Weights
<1>4. Weights \in Seq(Nat) /\ Len(Weights) = Len(entry)
  BY <1>1, <1>3
<1>5. \A k \in DOMAIN entry : Weights[k] = ElementStringLength(entry[k]) + 1
  BY DEF Weights
<1>6. \E g : IsSums(g, Weights)
  <2>1. Len(entry) \in 0 .. Len(entry)
    BY <1>1
  <2>2. \E g \in [0 .. Len(entry) -> Nat] :
          \A i \in 0 .. Len(entry) : g[i] = IF i = 0 THEN 0 ELSE g[i - 1] + Weights[i]
    BY <1>1, <1>3, <2>1, PartialSums
  <2> QED
    BY <1>4, <2>2 DEF IsSums
<1>7. IsSums(SumsOf(Weights), Weights)
  BY <1>6 DEF SumsOf
<1> QED
  BY <1>4, <1>5, <1>7

\* What they are.
LEMMA SumsGrow ==
  ASSUME TypeOK
  PROVE  LET s == SumsOf(Weights) IN
         /\ s[0] = 0
         /\ \A k \in 0 .. Len(entry) : s[k] \in Nat
         /\ \A k \in DOMAIN entry : s[k] = s[k - 1] + (ElementStringLength(entry[k]) + 1)
<1> DEFINE s == SumsOf(Weights)
<1>1. IsSums(s, Weights) /\ Len(Weights) = Len(entry) /\ \A k \in DOMAIN entry : Weights[k] = ElementStringLength(entry[k]) + 1
  BY SumsAre
<1>2. DOMAIN entry = 1 .. Len(entry) /\ Len(entry) \in Nat
  BY TypeFacts
<1> HIDE DEF s
<1>3. s \in [0 .. Len(entry) -> Nat] /\ \A k \in 0 .. Len(entry) : s[k] = IF k = 0 THEN 0 ELSE s[k - 1] + Weights[k]
  BY <1>1 DEF IsSums
<1>4. \A k \in 1 .. Len(entry) : s[k] = s[k - 1] + Weights[k]
  BY <1>2, <1>3
<1>5. s[0] = 0 /\ \A k \in 0 .. Len(entry) : s[k] \in Nat
  BY <1>2, <1>3
<1>6. \A k \in DOMAIN entry : s[k] = s[k - 1] + (ElementStringLength(entry[k]) + 1)
  BY <1>1, <1>2, <1>4
<1> QED
  BY <1>5, <1>6 DEF s

\* A step that leaves the entry as it is changes neither values nor lengths.
LEMMA QuietKeeps ==
  ASSUME Quiet
  PROVE  /\ \A k \in DOMAIN entry : ElementValue(entry[k])' = ElementValue(entry[k])
         /\ Weights' = Weights /\ entry' = entry
<1>1. entry' = entry
  BY DEF Quiet
<1>2. ASSUME NEW k \in DOMAIN entry
      PROVE  /\ el'[entry[k]] = el[entry[k]]
             /\ \A j \in DOMAIN el[entry[k]].params : par'[el[entry[k]].params[j]] = par[el[entry[k]].params[j]]
  BY DEF Quiet
<1>3. ASSUME NEW k \in DOMAIN entry PROVE ElementValue(entry[k])' = ElementValue(entry[k])
  BY <1>1, <1>2 DEF ElementValue
<1>4. ASSUME NEW k \in DOMAIN entry PROVE ElementStringLength(entry[k])' = ElementStringLength(entry[k])
  <2> DEFINE ps == el[entry[k]].params
             w == [i \in DOMAIN ps |-> locked_get_param_string_size(ps[i]) - 1]
             v == [i \in DOMAIN ps |-> (NameLength[par'[ps[i]].name] + par'[ps[i]].value + 4) - 1]
  <2>0. \A i \in DOMAIN ps : par'[ps[i]] = par[ps[i]]
    BY <1>2
  <2>1. v = w
    BY <2>0 DEF locked_get_param_string_size
  <2>2. ElementStringLength(entry[k]) =
          NameLength[el[entry[k]].name] + (IF ps = <<>> THEN 0 ELSE 3 + Len(ps) - 1 + Total(w))
    BY DEF ElementStringLength
  <2>3. ElementStringLength(entry[k])' =
          NameLength[el[entry[k]].name] + (IF ps = <<>> THEN 0 ELSE 3 + Len(ps) - 1 + Total(v))
    BY <1>1, <1>2 DEF ElementStringLength, locked_get_param_string_size
  <2> QED
    BY <2>1, <2>2, <2>3
<1>5. Weights' = Weights
  BY <1>1, <1>4 DEF Weights
<1> QED
  BY <1>1, <1>3, <1>5

\* What the others have made is not affected by a step of t, or they are told.
LEMMA MakingOthers ==
  ASSUME BaseInv, NEW t \in Threads, NEW u \in Threads, u # t, Effect(t), CopyOK(u), StringOK(u)
  PROVE  CopyOK(u)' /\ StringOK(u)'
<1> DEFINE f == frame[u]
           g == frame'[u]
<1>1. /\ g.step = f.step /\ g.i = f.i /\ g.copy = f.copy /\ g.size = f.size /\ g.used = f.used
  BY DEF Effect, Others, Alike
<1>2. f.step # "idle" => g.disturbed \/ (Quiet /\ g.disturbed = f.disturbed)
  BY DEF Effect, Told
<1>3. f.step = "copy" => entry' = entry
  BY DEF Effect, Fixed
<1>4. ~seen'.renamed => ~seen.renamed /\ \A e \in live \cap Elements : el'[e].name = el[e].name
  BY DEF Effect, NamesKept
<1>5. seen.failed \subseteq seen'.failed
  BY DEF Effect
<1>6. TypeOK /\ f \in Frames /\ \A k \in DOMAIN entry : entry[k] \in live \cap Elements
  BY InTree, InStep
<1>7. DOMAIN entry = 1 .. Len(entry) /\ Len(entry) \in Nat
  BY <1>6, TypeFacts
<1>8. f.copy \in Seq([name : Names, params : Seq(stumpless_param)])
  BY <1>6, FrameFields
<1>9. DOMAIN f.copy = 1 .. Len(f.copy) /\ Len(f.copy) \in Nat
  BY <1>8
<1>10. ASSUME Quiet PROVE Weights' = Weights /\ entry' = entry /\ \A k \in DOMAIN entry : ElementValue(entry[k])' = ElementValue(entry[k])
  BY <1>10, QuietKeeps
<1>11. StringOK(u)'
  <2> SUFFICES ASSUME u \notin seen'.failed, ~g.disturbed, g.step \in {"measure", "write", "close"}
               PROVE  /\ g.step \in {"measure", "write"} => g.i \in 1 .. Len(entry') + 1
                      /\ g.step = "measure" => g.size = FieldsSize + SumsOf(Weights')[g.i - 1]
                      /\ g.step = "write" =>
                           /\ g.size = FieldsSize + SumsOf(Weights')[Len(entry')]
                           /\ \E d \in 1..3 : g.used = FieldsUsed(d) + SumsOf(Weights')[g.i - 1] - (IF g.i = 1 THEN 0 ELSE 1)
                      /\ g.step = "close" => g.used <= g.size + 1
    BY DEF StringOK, IsSums, SumsOf
  <2>1. u \notin seen.failed /\ ~f.disturbed /\ Quiet
    BY <1>1, <1>2, <1>5
  <2>2. Weights' = Weights /\ entry' = entry
    BY <1>10, <2>1
  <2>3. /\ f.step \in {"measure", "write"} => f.i \in 1 .. Len(entry) + 1
        /\ f.step = "measure" => f.size = FieldsSize + SumsOf(Weights)[f.i - 1]
        /\ f.step = "write" =>
             /\ f.size = FieldsSize + SumsOf(Weights)[Len(entry)]
             /\ \E d \in 1..3 : f.used = FieldsUsed(d) + SumsOf(Weights)[f.i - 1] - (IF f.i = 1 THEN 0 ELSE 1)
        /\ f.step = "close" => f.used <= f.size + 1
    BY <2>1 DEF StringOK
  <2> HIDE DEF f, g
  <2> QED
    BY <1>1, <2>2, <2>3
<1>12. ASSUME f.step = "copy" PROVE CopyOK(u)'
  <2>1. /\ f.i = Len(f.copy) + 1 /\ Len(f.copy) <= Len(entry)
        /\ ~f.disturbed => \A k \in DOMAIN f.copy : f.copy[k] = ElementValue(entry[k])
        /\ ~seen.renamed => \A k \in DOMAIN f.copy : f.copy[k].name = el[entry[k]].name
    BY <1>12 DEF CopyOK
  <2>2. \A k \in DOMAIN f.copy : k \in DOMAIN entry
    BY <1>7, <1>9, <2>1
  <2>3. ~seen'.renamed => \A k \in DOMAIN f.copy : f.copy[k].name = el'[entry[k]].name
    BY <1>4, <1>6, <2>1, <2>2
  <2>4. ~g.disturbed => \A k \in DOMAIN f.copy : f.copy[k] = ElementValue(entry[k])'
    BY <1>2, <1>10, <1>12, <2>1, <2>2
  <2>5. entry' = entry
    BY <1>3, <1>12
  <2> SUFFICES /\ g.i = Len(g.copy) + 1 /\ Len(g.copy) <= Len(entry')
               /\ ~g.disturbed => \A k \in DOMAIN g.copy : g.copy[k] = ElementValue(entry[k])'
               /\ ~seen'.renamed => \A k \in DOMAIN g.copy : g.copy[k].name = el'[entry'[k]].name
    BY <1>1, <1>12 DEF CopyOK
  <2> HIDE DEF f, g
  <2> QED
    BY <1>1, <2>1, <2>3, <2>4, <2>5
<1>13. ASSUME f.step = "copied" PROVE CopyOK(u)'
  <2>1. /\ ~f.disturbed => f.copy = [k \in DOMAIN entry |-> ElementValue(entry[k])]
        /\ ~seen.renamed => \A i, j \in DOMAIN f.copy : f.copy[i].name = f.copy[j].name => i = j
    BY <1>13 DEF CopyOK
  <2>2. ~g.disturbed => f.copy = [k \in DOMAIN entry |-> ElementValue(entry[k])]'
    <3> SUFFICES ASSUME ~g.disturbed PROVE f.copy = [k \in DOMAIN entry |-> ElementValue(entry[k])]'
      OBVIOUS
    <3>1. Quiet /\ ~f.disturbed
      BY <1>2, <1>13
    <3> QED
      BY <1>10, <2>1, <3>1
  <2> SUFFICES /\ ~g.disturbed => g.copy = [k \in DOMAIN entry |-> ElementValue(entry[k])]'
               /\ ~seen'.renamed => \A i, j \in DOMAIN g.copy : g.copy[i].name = g.copy[j].name => i = j
    BY <1>1, <1>13 DEF CopyOK
  <2> QED
    BY <1>1, <1>4, <2>1, <2>2
<1>14. ASSUME f.step \notin {"copy", "copied"} PROVE CopyOK(u)'
  BY <1>1, <1>14 DEF CopyOK
<1> QED
  BY <1>11, <1>12, <1>13, <1>14

\* A call that makes no copy and no string has nothing to be wrong.
LEMMA ApartMakes ==
  ASSUME NEW t \in Threads, Apart(frame[t])'
  PROVE  CopyOK(t)' /\ StringOK(t)'
BY DEF Apart, CopyOK, StringOK

\* What the frame f of stumpless_entry_to_string says, of the tree as it is.
Counted(f) ==
  LET n == Len(entry)
      s == SumsOf(Weights)
  IN
  /\ f.step \in {"measure", "write"} => f.i \in 1 .. n + 1
  /\ f.step = "measure" => f.size = FieldsSize + s[f.i - 1]
  /\ f.step = "write" =>
       /\ f.size = FieldsSize + s[n]
       /\ \E d \in 1..3 : f.used = FieldsUsed(d) + s[f.i - 1] - (IF f.i = 1 THEN 0 ELSE 1)
  /\ f.step = "close" => f.used <= f.size + 1

\* Which it does, unless the call was disturbed.
LEMMA CountedIs ==
  ASSUME NEW t \in Threads, StringOK(t), t \notin seen.failed, ~frame[t].disturbed
  PROVE  Counted(frame[t])
BY DEF StringOK, Counted

\* A step that only reads leaves the tree as it is.
LEMMA ReadingQuiet ==
  ASSUME NEW t \in Threads, NEW f, ReadingStep(t, f)
  PROVE  Quiet /\ Weights' = Weights /\ entry' = entry /\ el' = el
<1>1. Quiet
  BY DEF ReadingStep, Quiet
<1> QED
  BY <1>1, QuietKeeps DEF ReadingStep

\* A step of stumpless_entry_to_string that leaves a frame of which this is
\* true.
LEMMA StringStep ==
  ASSUME BaseInv, NEW t \in Threads, NEW f, ReadingStep(t, f), f.copy = << >>, f.step \notin {"copy", "copied"},
         t \notin seen'.failed /\ ~f.disturbed => Counted(f)
  PROVE  CopyOK(t)' /\ StringOK(t)'
<1>1. frame'[t] = f
  BY StepBecomes DEF BaseInv, ReadingStep, Reading, Becomes
<1>2. Weights' = Weights /\ entry' = entry
  BY ReadingQuiet
<1>3. CopyOK(t)'
  BY <1>1 DEF CopyOK
<1>4. StringOK(t)'
  <2> SUFFICES ASSUME t \notin seen'.failed, ~frame'[t].disturbed
               PROVE  /\ f.step \in {"measure", "write"} => f.i \in 1 .. Len(entry') + 1
                      /\ f.step = "measure" => f.size = FieldsSize + SumsOf(Weights')[f.i - 1]
                      /\ f.step = "write" =>
                           /\ f.size = FieldsSize + SumsOf(Weights')[Len(entry')]
                           /\ \E d \in 1..3 : f.used = FieldsUsed(d) + SumsOf(Weights')[f.i - 1] - (IF f.i = 1 THEN 0 ELSE 1)
                      /\ f.step = "close" => f.used <= f.size + 1
    BY <1>1 DEF StringOK, SumsOf, IsSums
  <2>1. Counted(f)
    BY <1>1
  <2> QED
    BY <1>2, <2>1 DEF Counted
<1> QED
  BY <1>3, <1>4

\* The first pass counts every element.
LEMMA MeasureMakes ==
  ASSUME BaseInv, NEW t \in Threads, CopyOK(t), StringOK(t), Measure(t)
  PROVE  CopyOK(t)' /\ StringOK(t)'
<1> DEFINE i == frame[t].i
           s == SumsOf(Weights)
<1>1. Reads(frame[t], "measure", TRUE) /\ Keeps(t) /\ i \in DOMAIN entry
  BY MeasureDoes
<1>2. PICK size \in Nat : /\ ReadingStep(t, Measured(frame[t], size))
                          /\ t \notin seen'.failed => size = frame[t].size + (ElementStringLength(entry[i]) + 1)
  BY MeasureDoes
<1> DEFINE f == Measured(frame[t], size)
<1>3. f.step = "measure" /\ f.i = i + 1 /\ f.size = size /\ f.copy = frame[t].copy /\ f.disturbed = frame[t].disturbed
  BY <1>1, MeasuredIs DEF Reads
<1>4. frame[t].step = "measure" /\ frame[t].copy = << >>
  BY <1>1 DEF Reads, CopyOK
<1>5. seen.failed \subseteq seen'.failed
  BY <1>1 DEF Keeps
<1>6. ReadingStep(t, f)
  BY <1>2
<1>7. /\ DOMAIN entry = 1 .. Len(entry) /\ Len(entry) \in Nat
      /\ \A k \in 0 .. Len(entry) : s[k] \in Nat
      /\ \A k \in DOMAIN entry : s[k] = s[k - 1] + (ElementStringLength(entry[k]) + 1)
      /\ \A k \in DOMAIN entry : ElementStringLength(entry[k]) \in Nat
  <2>1. TypeOK
    BY DEF BaseInv
  <2>2. \A k \in DOMAIN entry : ElementStringLength(entry[k]) \in Nat
    BY <2>1, TypeFacts, LengthIsNatural
  <2> QED
    BY <2>1, <2>2, SumsGrow, TypeFacts
<1> HIDE DEF f, i, s
<1>8. ASSUME t \notin seen'.failed, ~f.disturbed PROVE Counted(f)
  <2>1. Counted(frame[t])
    BY <1>3, <1>5, <1>8, CountedIs
  <2>2. frame[t].size = FieldsSize + s[i - 1]
    BY <1>4, <2>1 DEF Counted, i, s
  <2>3. i + 1 \in 1 .. Len(entry) + 1 /\ i - 1 \in 0 .. Len(entry)
    BY <1>1, <1>7
  <2>4. size = FieldsSize + s[i]
    <3>1. size = frame[t].size + (ElementStringLength(entry[i]) + 1)
      BY <1>2, <1>8 DEF i
    <3>2. s[i] = s[i - 1] + (ElementStringLength(entry[i]) + 1) /\ s[i - 1] \in Nat /\ ElementStringLength(entry[i]) \in Nat
      BY <1>1, <1>7, <2>3
    <3>3. FieldsSize \in Nat
      BY DEF FieldsSize
    <3> QED
      BY <2>2, <3>1, <3>2, <3>3
  <2>5. (i + 1) - 1 = i
    BY <1>1, <1>7
  <2> QED
    BY <1>3, <2>3, <2>4, <2>5 DEF Counted, s
<1> QED
  BY <1>3, <1>4, <1>6, <1>8, StringStep

\* The second pass writes what the first one counted.
LEMMA AllocateMakes ==
  ASSUME BaseInv, NEW t \in Threads, CopyOK(t), StringOK(t), AllocateString(t)
  PROVE  CopyOK(t)' /\ StringOK(t)'
<1> DEFINE s == SumsOf(Weights)
           n == Len(entry)
<1>1. Reads(frame[t], "measure", TRUE) /\ frame[t].i > n /\ frame[t].step = "measure"
  BY AllocateDoes DEF Reads
<1>2. frame[t].copy = << >> /\ n \in Nat /\ s[0] = 0
  BY <1>1, SumsGrow, TypeFacts DEF CopyOK, BaseInv
<1> HIDE DEF s, n
<1>3. ASSUME ReadingStep(t, Idle) PROVE CopyOK(t)' /\ StringOK(t)'
  <2>1. Counted(Idle)
    BY IdleFrame DEF Counted
  <2> QED
    BY <1>3, <2>1, IdleFrame, StringStep
<1>4. ASSUME NEW d \in 1..3, ReadingStep(t, ToWrite(frame[t], FieldsUsed(d))), seen' = seen
      PROVE  CopyOK(t)' /\ StringOK(t)'
  <2>1. FieldsUsed(d) \in Nat
    BY DEF FieldsUsed, append_key_value_pair
  <2> DEFINE f == ToWrite(frame[t], FieldsUsed(d))
  <2>2. /\ f.step = "write" /\ f.i = 1 /\ f.size = frame[t].size /\ f.used = FieldsUsed(d)
        /\ f.copy = frame[t].copy /\ f.disturbed = frame[t].disturbed
    BY <1>1, <2>1, ToWriteIs DEF Reads
  <2>3. ReadingStep(t, f)
    BY <1>4
  <2> HIDE DEF f
  <2>4. ASSUME t \notin seen'.failed, ~f.disturbed PROVE Counted(f)
    <3>1. Counted(frame[t])
      BY <1>4, <2>2, <2>4, CountedIs
    <3>2. frame[t].i \in 1 .. n + 1 /\ frame[t].size = FieldsSize + s[frame[t].i - 1]
      BY <1>1, <3>1 DEF Counted, s, n
    <3>3. frame[t].i - 1 = n
      BY <1>1, <1>2, <3>2
    <3>4. f.size = FieldsSize + s[n]
      BY <2>2, <3>2, <3>3
    <3>5. f.used = FieldsUsed(d) + s[f.i - 1] - (IF f.i = 1 THEN 0 ELSE 1) /\ f.i \in 1 .. n + 1
      BY <1>2, <2>1, <2>2
    <3> QED
      BY <2>2, <3>4, <3>5 DEF Counted, s, n
  <2> QED
    BY <1>2, <2>2, <2>3, <2>4, StringStep
<1> QED
  BY <1>3, <1>4, AllocateDoes

\* Element by element.
LEMMA WriteMakes ==
  ASSUME BaseInv, NEW t \in Threads, CopyOK(t), StringOK(t), WriteElement(t)
  PROVE  CopyOK(t)' /\ StringOK(t)'
<1> DEFINE i == frame[t].i
           n == Len(entry)
           s == SumsOf(Weights)
           x == ElementStringLength(entry[i])
           used == frame[t].used + x + (IF i = 1 THEN 0 ELSE 1)
           f == Wrote(frame[t], used)
<1>1. Reads(frame[t], "write", TRUE) /\ i \in DOMAIN entry
  BY WriteDoes
<1>2. frame[t].step = "write" /\ frame[t].copy = << >> /\ frame[t].used \in Nat /\ TypeOK
  BY <1>1, FrameFields DEF Reads, Reading, CopyOK, BaseInv
<1>3. DOMAIN entry = 1 .. n /\ n \in Nat /\ entry[i] \in Elements
  BY <1>1, <1>2, TypeFacts
<1>4. x \in Nat
  BY <1>2, <1>3, LengthIsNatural
<1>5. s[i] = s[i - 1] + (x + 1) /\ s[0] = 0 /\ \A k \in 0 .. n : s[k] \in Nat
  BY <1>1, <1>2, SumsGrow
<1>6. \/ ReadingStep(t, f) /\ seen' = seen
      \/ ReadingStep(t, CrashedFrame)
  BY WriteDoes
<1> HIDE DEF s, x, n, i
<1>7. used \in Nat
  BY <1>2, <1>4
<1> HIDE DEF used
<1>8. /\ f.step = "write" /\ f.i = i + 1 /\ f.size = frame[t].size /\ f.used = used
      /\ f.copy = frame[t].copy /\ f.disturbed = frame[t].disturbed
  BY <1>1, <1>7, WroteIs DEF Reads, i
<1> HIDE DEF f
<1>9. CASE ReadingStep(t, CrashedFrame)
  <2>1. CrashedFrame.step = "crashed" /\ CrashedFrame.copy = << >>
    BY CrashedFrameIs DEF Reads
  <2>2. Counted(CrashedFrame)
    BY <2>1 DEF Counted
  <2> QED
    BY <1>9, <2>1, <2>2, StringStep
<1>10. CASE ReadingStep(t, f) /\ seen' = seen
  <2>1. ASSUME t \notin seen'.failed, ~f.disturbed PROVE Counted(f)
    <3>1. Counted(frame[t])
      BY <1>8, <1>10, <2>1, CountedIs
    <3>2. frame[t].size = FieldsSize + s[n]
      BY <1>2, <3>1 DEF Counted, s, n
    <3>3. PICK d \in 1..3 : frame[t].used = FieldsUsed(d) + s[i - 1] - (IF i = 1 THEN 0 ELSE 1)
      BY <1>2, <3>1 DEF Counted, s, i
    <3>4. FieldsUsed(d) \in Nat
      BY DEF FieldsUsed, append_key_value_pair
    <3>5. i \in Nat /\ i >= 1 /\ i <= n /\ i - 1 \in 0 .. n /\ i + 1 # 1 /\ (i + 1) - 1 = i
      BY <1>1, <1>3
    <3>6. s[i - 1] \in Nat
      BY <1>5, <3>5
    <3>7. used = FieldsUsed(d) + s[i] - 1
      <4> DEFINE a == s[i - 1]
                 b == s[i]
                 w == FieldsUsed(d)
                 o == frame[t].used
      <4>1. a \in Nat /\ b = a + (x + 1) /\ w \in Nat /\ x \in Nat /\ o \in Nat
        BY <1>2, <1>4, <1>5, <3>4, <3>6
      <4>2. (i = 1 => a = 0) /\ o = w + a - (IF i = 1 THEN 0 ELSE 1) /\ used = o + x + (IF i = 1 THEN 0 ELSE 1)
        <5>1. i = 1 => i - 1 = 0
          BY <3>5
        <5> QED
          BY <1>5, <3>3, <5>1 DEF used
      <4> HIDE DEF a, b, w, o
      <4>3. used = w + b - 1
        <5>1. CASE i = 1
          BY <4>1, <4>2, <5>1
        <5>2. CASE i # 1
          BY <4>1, <4>2, <5>2
        <5> QED
          BY <5>1, <5>2
      <4> QED
        BY <4>3 DEF b, w
    <3>8. f.used = FieldsUsed(d) + s[f.i - 1] - (IF f.i = 1 THEN 0 ELSE 1) /\ f.i \in 1 .. n + 1
      BY <1>3, <1>8, <3>5, <3>7
    <3>9. f.size = FieldsSize + s[n]
      BY <1>8, <3>2
    <3> QED
      BY <1>8, <3>8, <3>9 DEF Counted, s, n
  <2> QED
    BY <1>2, <1>8, <1>10, <2>1, StringStep
<1> QED
  BY <1>6, <1>9, <1>10

\* With the closing bracket or none, and the terminating byte.
LEMMA TerminateMakes ==
  ASSUME BaseInv, NEW t \in Threads, CopyOK(t), StringOK(t), TerminateString(t)
  PROVE  CopyOK(t)' /\ StringOK(t)'
<1> DEFINE i == frame[t].i
           n == Len(entry)
           s == SumsOf(Weights)
           used == frame[t].used + (IF entry = <<>> THEN 0 ELSE 1)
           f == Closed(frame[t], used)
<1>1. Reads(frame[t], "write", TRUE) /\ i > n /\ seen' = seen /\ ReadingStep(t, f)
  BY TerminateDoes
<1>2. frame[t].step = "write" /\ frame[t].copy = << >> /\ frame[t].used \in Nat /\ TypeOK
  BY <1>1, FrameFields DEF Reads, Reading, CopyOK, BaseInv
<1>3. n \in Nat /\ s[0] = 0 /\ s[n] \in Nat
  BY <1>2, SumsGrow, TypeFacts
<1>4. n = 0 => entry = << >>
  BY <1>2 DEF TypeOK
<1> HIDE DEF s, n, i
<1>5. used \in Nat /\ used <= frame[t].used + 1 /\ (n = 0 => used = frame[t].used)
  BY <1>2, <1>4
<1> HIDE DEF used
<1>6. f.step = "close" /\ f.size = frame[t].size /\ f.used = used /\ f.copy = frame[t].copy /\ f.disturbed = frame[t].disturbed
  BY <1>1, <1>5, ClosedIs DEF Reads
<1> HIDE DEF f
<1>7. ASSUME t \notin seen'.failed, ~f.disturbed PROVE Counted(f)
  <2>1. Counted(frame[t])
    BY <1>1, <1>6, <1>7, CountedIs
  <2>2. frame[t].size = FieldsSize + s[n] /\ i \in 1 .. n + 1
    BY <1>2, <2>1 DEF Counted, s, n, i
  <2>3. PICK d \in 1..3 : frame[t].used = FieldsUsed(d) + s[i - 1] - (IF i = 1 THEN 0 ELSE 1)
    BY <1>2, <2>1 DEF Counted, s, i
  <2>4. FieldsUsed(d) \in Nat /\ FieldsUsed(d) <= FieldsSize + 1 /\ FieldsSize \in Nat
    BY DEF FieldsUsed, append_key_value_pair, FieldsSize
  <2>5. i - 1 = n /\ (i = 1 <=> n = 0)
    BY <1>1, <1>3, <2>2
  <2>6. used <= f.size + 1
    <3>1. CASE n = 0
      BY <1>3, <1>5, <1>6, <2>2, <2>3, <2>4, <2>5, <3>1
    <3>2. CASE n # 0
      BY <1>2, <1>3, <1>5, <1>6, <2>2, <2>3, <2>4, <2>5, <3>2
    <3> QED
      BY <3>1, <3>2
  <2> QED
    BY <1>6, <2>6 DEF Counted
<1> QED
  BY <1>1, <1>2, <1>6, <1>7, StringStep

\* The copy grows by the element at its place.
LEMMA CopyElementMakes ==
  ASSUME BaseInv, NEW t \in Threads, CopyOK(t), stumpless_copy_element(t)
  PROVE  CopyOK(t)' /\ StringOK(t)'
<1> DEFINE i == frame[t].i
           c == frame[t].copy
           v == ElementValue(entry[i])
           f == Copying(frame[t], v)
<1>1. /\ Reads(frame[t], "copy", TRUE) /\ i \in DOMAIN entry /\ seen' = seen
      /\ ReadingStep(t, f) \/ ReadingStep(t, Idle)
  BY CopyElementDoes
<1>2. TypeOK /\ frame[t].step = "copy" /\ c \in Seq([name : Names, params : Seq(stumpless_param)])
  BY <1>1, FrameFields DEF Reads, Reading, BaseInv
<1>3. CASE ReadingStep(t, Idle)
  <2>1. Counted(Idle)
    BY IdleFrame DEF Counted
  <2> QED
    BY <1>3, <2>1, IdleFrame, StringStep
<1>4. CASE ReadingStep(t, f)
  <2>1. DOMAIN entry = 1 .. Len(entry) /\ Len(entry) \in Nat /\ entry[i] \in Elements
    BY <1>1, <1>2, TypeFacts
  <2>2. v \in [name : Names, params : Seq(stumpless_param)] /\ v.name = el[entry[i]].name
    BY <1>2, <2>1, ValueIs DEF ElementValue
  <2>3. /\ i = Len(c) + 1 /\ Len(c) <= Len(entry)
        /\ ~frame[t].disturbed => \A k \in DOMAIN c : c[k] = ElementValue(entry[k])
        /\ ~seen.renamed => \A k \in DOMAIN c : c[k].name = el[entry[k]].name
    BY <1>2 DEF CopyOK
  <2>4. \A k \in DOMAIN entry : ElementValue(entry[k])' = ElementValue(entry[k])
    BY <1>4, ReadingQuiet, QuietKeeps
  <2>5. entry' = entry /\ el' = el
    BY <1>4, ReadingQuiet
  <2> HIDE DEF v
  <2>6. f.step = "copy" /\ f.i = i + 1 /\ f.copy = Append(c, v) /\ f.disturbed = frame[t].disturbed
    BY <1>1, <2>2, CopyingIs DEF Reads
  <2>7. frame'[t] = f
    BY <1>2, <1>4, StepBecomes DEF ReadingStep, Reading, Becomes
  <2> HIDE DEF f, i, c
  <2>8. /\ Len(c) \in Nat /\ DOMAIN c = 1 .. Len(c) /\ DOMAIN f.copy = 1 .. Len(c) + 1 /\ Len(f.copy) = Len(c) + 1
        /\ f.copy[i] = v /\ \A k \in DOMAIN c : f.copy[k] = c[k]
    BY <1>2, <2>2, <2>3, <2>6
  <2>9. \A k \in DOMAIN f.copy : k \in DOMAIN entry /\ (k = i \/ k \in DOMAIN c)
    BY <1>1, <2>1, <2>3, <2>8
  <2>10. /\ ~f.disturbed => \A k \in DOMAIN f.copy : f.copy[k] = ElementValue(entry[k])
         /\ ~seen.renamed => \A k \in DOMAIN f.copy : f.copy[k].name = el[entry[k]].name
    BY <2>2, <2>3, <2>6, <2>8, <2>9 DEF v
  <2>11. f.i = Len(f.copy) + 1 /\ Len(f.copy) <= Len(entry)
    BY <1>1, <2>1, <2>3, <2>6, <2>8
  <2>12. ~f.disturbed => \A k \in DOMAIN f.copy : f.copy[k] = ElementValue(entry[k])'
    BY <2>4, <2>9, <2>10
  <2>13. CopyOK(t)'
    <3> SUFFICES /\ f.i = Len(f.copy) + 1 /\ Len(f.copy) <= Len(entry')
                 /\ ~f.disturbed => \A k \in DOMAIN f.copy : f.copy[k] = ElementValue(entry[k])'
                 /\ ~seen'.renamed => \A k \in DOMAIN f.copy : f.copy[k].name = el'[entry'[k]].name
      BY <2>6, <2>7 DEF CopyOK
    <3> QED
      BY <1>1, <2>5, <2>10, <2>11, <2>12
  <2>14. StringOK(t)'
    BY <2>6, <2>7 DEF StringOK
  <2> QED
    BY <2>13, <2>14
<1> QED
  BY <1>1, <1>3, <1>4

\* And is whole at the end.
LEMMA EndCopyMakes ==
  ASSUME BaseInv, UniqueNames, NEW t \in Threads, CopyOK(t), EndCopy(t)
  PROVE  CopyOK(t)' /\ StringOK(t)'
<1> DEFINE i == frame[t].i
           c == frame[t].copy
           f == Copied(frame[t])
<1>1. Reads(frame[t], "copy", TRUE) /\ i > Len(entry) /\ seen' = seen /\ ReadingStep(t, f)
  BY EndCopyDoes
<1>2. TypeOK /\ frame[t].step = "copy" /\ c \in Seq([name : Names, params : Seq(stumpless_param)])
  BY <1>1, FrameFields DEF Reads, Reading, BaseInv
<1>3. DOMAIN entry = 1 .. Len(entry) /\ Len(entry) \in Nat
  BY <1>2, TypeFacts
<1>4. /\ i = Len(c) + 1 /\ Len(c) <= Len(entry)
      /\ ~frame[t].disturbed => \A k \in DOMAIN c : c[k] = ElementValue(entry[k])
      /\ ~seen.renamed => \A k \in DOMAIN c : c[k].name = el[entry[k]].name
  BY <1>2 DEF CopyOK
<1>5. \A k \in DOMAIN entry : ElementValue(entry[k])' = ElementValue(entry[k])
  BY <1>1, ReadingQuiet, QuietKeeps
<1>6. entry' = entry
  BY <1>1, ReadingQuiet
<1>7. f.step = "copied" /\ f.copy = c /\ f.disturbed = frame[t].disturbed
  BY <1>1, CopiedIs DEF Reads
<1>8. frame'[t] = f
  BY <1>1, <1>2, StepBecomes DEF ReadingStep, Reading, Becomes
<1> HIDE DEF f, i, c
<1>9. DOMAIN c = DOMAIN entry /\ c = [k \in DOMAIN entry |-> c[k]]
  BY <1>1, <1>2, <1>3, <1>4
<1>10. ~f.disturbed => c = [k \in DOMAIN entry |-> ElementValue(entry[k])]'
  BY <1>4, <1>5, <1>6, <1>7, <1>9
<1>11. ~seen.renamed => \A j, k \in DOMAIN c : c[j].name = c[k].name => j = k
  BY <1>4, <1>9 DEF UniqueNames
<1>12. CopyOK(t)'
  <2> SUFFICES /\ ~f.disturbed => f.copy = [k \in DOMAIN entry |-> ElementValue(entry[k])]'
               /\ ~seen'.renamed => \A j, k \in DOMAIN f.copy : f.copy[j].name = f.copy[k].name => j = k
    BY <1>7, <1>8 DEF CopyOK
  <2> QED
    BY <1>1, <1>7, <1>10, <1>11
<1>13. StringOK(t)'
  BY <1>7, <1>8 DEF StringOK
<1> QED
  BY <1>12, <1>13

\* The steps of a call leave what it makes as it should be.
LEMMA CallMakes ==
  ASSUME BaseInv, NEW t \in Threads, Call(t)
  PROVE  CopyOK(t)' /\ StringOK(t)'
<1>1. CASE ~stumpless_entry_to_string(t) /\ ~stumpless_copy_entry(t)
  <2>1. Starting(frame'[t])
    BY <1>1, CallStarts
  <2>2. Apart(frame[t])'
    BY <2>1 DEF Starting, Apart
  <2> QED
    BY <2>2, ApartMakes
<1>2. CASE stumpless_entry_to_string(t)
  <2>1. ReadingStep(t, MeasureFrame)
    BY <1>2, EntryToStringDoes
  <2>2. /\ MeasureFrame.step = "measure" /\ MeasureFrame.size = FieldsSize /\ MeasureFrame.i = 1
        /\ MeasureFrame.copy = << >>
    BY MeasureFrameIs DEF Reads
  <2>3. Len(entry) \in Nat /\ SumsOf(Weights)[0] = 0 /\ FieldsSize \in Nat
    BY TypeFacts, SumsGrow DEF BaseInv, FieldsSize
  <2>4. Counted(MeasureFrame)
    BY <2>2, <2>3 DEF Counted
  <2> QED
    BY <2>1, <2>2, <2>4, StringStep
<1>3. CASE stumpless_copy_entry(t)
  <2>1. Step(t, CopyFrame) /\ entry' = entry
    BY <1>3, CopyEntryDoes DEF ReadingStep
  <2>2. CopyFrame \in Frames /\ CopyFrame.step = "copy" /\ CopyFrame.i = 1 /\ CopyFrame.copy = << >>
    BY CopyFrameIs DEF Reads, Reading
  <2>3. frame'[t] = CopyFrame
    BY <2>1, <2>2, StepBecomes DEF BaseInv, Becomes
  <2>4. Len(entry) \in Nat
    BY TypeFacts DEF BaseInv
  <2> QED
    BY <2>1, <2>2, <2>3, <2>4 DEF CopyOK, StringOK
<1> QED
  BY <1>1, <1>2, <1>3

\* And so do the later ones.
LEMMA ProgressMakes ==
  ASSUME BaseInv, UniqueNames, NEW t \in Threads, CopyOK(t), StringOK(t), Progress(t)
  PROVE  CopyOK(t)' /\ StringOK(t)'
<1>0. TypeOK /\ frame[t] \in Frames /\ Placed(frame[t])
  BY InStep
<1>1. ASSUME NEW f \in Frames, Step(t, f) \/ Change(t, f), Apart(f) PROVE CopyOK(t)' /\ StringOK(t)'
  <2>1. frame'[t] = f
    BY <1>0, <1>1, StepBecomes, ChangeBecomes DEF Becomes
  <2>2. Apart(frame[t])'
    BY <1>1, <2>1 DEF Apart
  <2> QED
    BY <2>2, ApartMakes
<1>2. ASSUME Step(t, Idle) \/ Change(t, Idle) PROVE CopyOK(t)' /\ StringOK(t)'
  BY <1>1, <1>2, IdleFrame DEF Apart
<1>3. frame[t].step \in {"look", "value", "make", "append"} => frame[t].copy = << >>
  BY DEF CopyOK
<1>4. CASE Attach(t) \/ stumpless_set_param(t) \/ stumpless_set_param_value_by_index(t) \/ Finish(t)
  BY <1>2, <1>4, Zenon DEF Attach, stumpless_set_param, stumpless_set_param_value_by_index, Finish, Fail
<1>5. CASE LookUpParam(t)
  <2> DEFINE p == stumpless_get_param_by_name(frame[t].e, frame[t].n)
             f == [frame[t] EXCEPT !.step = IF p = NULL THEN "make" ELSE "value", !.p = p]
  <2>1. Step(t, f) /\ frame[t].step = "look"
    BY <1>5 DEF LookUpParam
  <2>2. frame[t].e \in Elements
    BY <1>0, <2>1, Referring DEF Placed
  <2>3. p \in Params \cup {NULL}
    BY <1>0, <2>2, ParamFound, TypeFacts
  <2> HIDE DEF p
  <2>4. f \in Frames /\ f.copy = frame[t].copy /\ f.step \in {"make", "value"}
    BY <1>0, <2>3 DEF Frames, Steps
  <2> HIDE DEF f
  <2>5. Apart(f)
    BY <1>3, <2>1, <2>4 DEF Apart
  <2> QED
    BY <1>1, <2>1, <2>4, <2>5
<1>6. ASSUME frame[t].step \in {"value", "append"}, Change(t, ToFinish(frame[t])) PROVE CopyOK(t)' /\ StringOK(t)'
  <2>1. ToFinish(frame[t]) \in Frames /\ ToFinish(frame[t]).step = "finish" /\ ToFinish(frame[t]).copy = frame[t].copy
    BY <1>0 DEF ToFinish, Frames, Steps
  <2>2. Apart(ToFinish(frame[t]))
    BY <1>3, <1>6, <2>1 DEF Apart
  <2> QED
    BY <1>1, <1>6, <2>1, <2>2
<1>7. CASE stumpless_set_param_value(t)
  BY <1>6, <1>7 DEF stumpless_set_param_value, ToFinish
<1>8. CASE AppendParam(t)
  BY <1>2, <1>6, <1>8 DEF AppendParam, ToFinish
<1>9. CASE stumpless_add_new_param(t)
  <2>1. CASE Fail(t)
    BY <1>2, <2>1 DEF Fail
  <2>2. CASE ~Fail(t)
    <3>1. PICK p \in Params : Step(t, ToAppend(frame[t], p)) /\ frame[t].step = "make"
      BY <1>9, <2>2, Zenon DEF stumpless_add_new_param, ToAppend
    <3>2. /\ ToAppend(frame[t], p) \in Frames /\ ToAppend(frame[t], p).step = "append"
          /\ ToAppend(frame[t], p).copy = frame[t].copy
      BY <1>0 DEF ToAppend, Frames, Steps
    <3>3. Apart(ToAppend(frame[t], p))
      BY <1>3, <3>1, <3>2 DEF Apart
    <3> QED
      BY <1>1, <3>1, <3>2, <3>3
  <2> QED
    BY <2>1, <2>2
<1>10. CASE Measure(t)
  BY <1>10, MeasureMakes
<1>11. CASE AllocateString(t)
  BY <1>11, AllocateMakes
<1>12. CASE WriteElement(t)
  BY <1>12, WriteMakes
<1>13. CASE TerminateString(t)
  BY <1>13, TerminateMakes
<1>14. CASE CloseString(t) \/ TakeCopy(t)
  BY <1>2, <1>14 DEF CloseString, TakeCopy
<1>15. CASE stumpless_copy_element(t)
  BY <1>15, CopyElementMakes
<1>16. CASE EndCopy(t)
  BY <1>16, EndCopyMakes
<1> QED
  BY <1>4, <1>5, <1>7, <1>8, <1>9, <1>10, <1>11, <1>12, <1>13, <1>14, <1>15, <1>16 DEF Progress

\* Nothing is being made in the beginning.
LEMMA InitMaking == Init => MakingInv
<1> SUFFICES ASSUME Init, NEW t \in Threads PROVE CopyOK(t) /\ StringOK(t)
  BY DEF MakingInv
<1>1. frame[t] = Idle
  BY DEF Init
<1> QED
  BY <1>1, IdleFrame DEF CopyOK, StringOK

\* All steps leave copies and strings as they should be.
LEMMA MakingNext ==
  BaseInv /\ LockInv /\ UniqueNames /\ NameInv /\ MakingInv /\ [Next]_vars => MakingInv'
<1> SUFFICES ASSUME BaseInv, LockInv, UniqueNames, NameInv, MakingInv, [Next]_vars PROVE MakingInv'
  OBVIOUS
<1>1. ASSUME NEW t \in Threads, Effect(t), CopyOK(t)' /\ StringOK(t)' PROVE MakingInv'
  <2>1. ASSUME NEW u \in Threads, u # t PROVE CopyOK(u)' /\ StringOK(u)'
    <3>1. CopyOK(u) /\ StringOK(u)
      BY DEF MakingInv
    <3> QED
      BY <1>1, <2>1, <3>1, MakingOthers
  <2>2. \A u \in Threads : CopyOK(u)' /\ StringOK(u)'
    BY <1>1, <2>1
  <2> QED
    BY <2>2 DEF MakingInv
<1>2. ASSUME NEW t \in Threads, Call(t) PROVE MakingInv'
  BY <1>1, <1>2, CallEffect, CallMakes
<1>3. ASSUME NEW t \in Threads, Progress(t) PROVE MakingInv'
  <2>1. CopyOK(t) /\ StringOK(t)
    BY DEF MakingInv
  <2> QED
    BY <1>1, <1>3, <2>1, ProgressEffect, ProgressMakes
<1>4. CASE UNCHANGED vars
  <2>1. Weights' = Weights
    BY <1>4 DEF vars, Weights, ElementStringLength, locked_get_param_string_size
  <2> SUFFICES ASSUME NEW t \in Threads, CopyOK(t), StringOK(t) PROVE CopyOK(t)' /\ StringOK(t)'
    BY DEF MakingInv
  <2>2. CopyOK(t)'
    BY <1>4 DEF vars, CopyOK, ElementValue
  <2>3. StringOK(t)'
    BY <1>4, <2>1 DEF vars, StringOK, SumsOf, IsSums
  <2> QED
    BY <2>2, <2>3
<1> QED
  BY <1>2, <1>3, <1>4 DEF Next

\* Copies and strings are what the calls were to make.
LEMMA MadeWhole ==
  ASSUME BaseInv, UniqueNames, MakingInv
  PROVE  CopiesWhole
<1>1. StringFits
  BY DEF StringFits, MakingInv, StringOK
<1>2. CopyFaithful
  <2> SUFFICES ASSUME NEW t \in Threads
               PROVE  /\ frame[t].step = "copied" /\ ~frame[t].disturbed =>
                           frame[t].copy = [k \in DOMAIN entry |-> ElementValue(entry[k])]
                      /\ ~seen.renamed => \A i, j \in DOMAIN frame[t].copy :
                                            frame[t].copy[i].name = frame[t].copy[j].name => i = j
    BY DEF CopyFaithful
  <2>1. CopyOK(t)
    BY DEF MakingInv
  <2>2. CASE frame[t].step = "copied"
    BY <2>1, <2>2 DEF CopyOK
  <2>3. CASE frame[t].step = "copy"
    <3>1. /\ Len(frame[t].copy) <= Len(entry)
          /\ ~seen.renamed => \A k \in DOMAIN frame[t].copy : frame[t].copy[k].name = el[entry[k]].name
      BY <2>1, <2>3 DEF CopyOK
    <3>2. frame[t].copy \in Seq([name : Names, params : Seq(stumpless_param)])
      BY InStep, FrameFields
    <3>3. Len(entry) \in Nat /\ DOMAIN entry = 1 .. Len(entry)
      BY TypeFacts DEF BaseInv
    <3>4. \A k \in DOMAIN frame[t].copy : k \in DOMAIN entry
      BY <3>1, <3>2, <3>3
    <3> QED
      BY <2>3, <3>1, <3>4 DEF UniqueNames
  <2>4. CASE frame[t].step \notin {"copy", "copied"}
    BY <2>1, <2>4 DEF CopyOK
  <2> QED
    BY <2>2, <2>3, <2>4
<1> QED
  BY <1>1, <1>2 DEF CopiesWhole

(***************************************************************************)
(* stumpless_copy_entry and stumpless_entry_to_string, for any number of   *)
(* threads, elements and params and any lengths of names and values: a     *)
(* copy that was not disturbed is equal to the entry, one that was still   *)
(* has no two elements of a name unless one was renamed, and the string    *)
(* of an entry that was not changed between the two passes fits the memory *)
(* that the first pass computed.                                           *)
(***************************************************************************)
THEOREM CopiesAreAlwaysWhole == Spec => []CopiesWhole
<1> DEFINE Inv == BaseInv /\ LockInv /\ UniqueNames /\ NameInv /\ MakingInv
<1>1. Init => Inv
  BY InitBase, InitLock, InitNames, InitMaking
<1>2. Inv /\ [Next]_vars => Inv'
  BY BaseNext, LockNext, NamesNext, MakingNext
<1>3. Inv => CopiesWhole
  BY MadeWhole
<1> QED
  BY <1>1, <1>2, <1>3, PTL DEF Spec
=============================================================================
