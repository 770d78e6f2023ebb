------------------------- MODULE EntryFieldsProofs -------------------------
(***************************************************************************)
(* Proofs about EntryFields, for any number of threads, texts, buffers and *)
(* string builders.                                                        *)
(***************************************************************************)
EXTENDS EntryFields, FiniteSetTheorems, WellFoundedInduction, TLAPS

Texts == Seq(0..255)

Fields == {"app_name", "msgid", "hostname", "procid"}

EntryName == {s \in Names \cup {RFC_5424_NILVALUE, <<>>} : Len(s) <= MaxName /\ validate_printable_ascii(s)}

Header ==
  [prival : Int, hostname : Texts, app_name : EntryName, procid : Texts, msgid : EntryName,
   value : Texts \cup {NULL}, message : Texts \cup {NULL}]

EntryCopy ==
  [prival : Int, app_name : EntryName, msgid : EntryName, hostname : EntryName, procid : EntryName,
   message : Texts \cup {NULL}]

Steps ==
  {"idle", "free", "read", "copied", "field", "header", "value", "message", "formatted", "deliver"}

Locked == {"header", "value", "message", "formatted"}

Frame ==
  [step : Steps, mutex : {"entry", "param", NULL}, buffer : Buffers \cup {NULL},
   builder : Builders \cup {NULL}, record : Header \cup EntryCopy \cup {NULL},
   copy : EntryCopy \cup {NULL}]

(***************************************************************************)
(* The inductive invariant, in parts.                                      *)
(***************************************************************************)
TypeInv ==
  /\ entry = NULL \/ entry \in [prival : Int, app_name : EntryName, msgid : EntryName,
                                hostname : EntryName, procid : EntryName, message : Buffers \cup {NULL}]
  /\ param \in Buffers \cup {NULL}
  /\ memory \in [Buffers -> Messages \cup Values \cup {NULL}]
  /\ builder \in [Builders -> strbuilder]
  /\ holder \in [{"entry", "param"} -> Threads \cup {NULL}]
  /\ frame \in [Threads -> Frame]

EntryMessage == IF entry = NULL THEN NULL ELSE entry.message

\* The buffer that the call of t will free.
Held(f) == IF f.step \in {"free", "copied"} THEN f.buffer ELSE NULL

\* Every buffer that is allocated has one owner: the entry, which has m, the
\* param, which has p, or a call, which has h[t].
Owners(m, p, h, mem) ==
  /\ \A b \in Buffers : mem[b] # NULL <=> m = b \/ p = b \/ \E t \in Threads : h[t] = b
  /\ m # NULL => m # p /\ \A t \in Threads : h[t] # m
  /\ p # NULL => \A t \in Threads : h[t] # p
  /\ \A t, u \in Threads : h[t] # NULL /\ h[t] = h[u] => t = u

HeldBy == [t \in Threads |-> Held(frame[t])]

OwnInv == Owners(EntryMessage, param, HeldBy, memory)

\* Every builder that is out belongs to one call, which has k[t].
Lent(k, bl) ==
  /\ \A b \in Builders : bl[b].state = "out" <=> \E t \in Threads : k[t] = b
  /\ \A t, u \in Threads : k[t] # NULL /\ k[t] = k[u] => t = u

BuilderOf == [t \in Threads |-> frame[t].builder]

Fits(b) == b.used <= b.size /\ (b.state = "out" => b.size > 0)

BuilderInv ==
  /\ Lent(BuilderOf, builder)
  /\ \A b \in Builders : Fits(builder[b]) /\ (builder[b].state = "lost" => "lost" \in seen)

EntryInv ==
  entry # NULL =>
    /\ "emptied" \notin seen => entry.app_name # <<>> /\ entry.msgid # <<>>
    /\ "unchecked" \notin seen =>
         /\ entry.prival \in 0..191
         /\ get_severity(entry.prival) = asked[2]
         /\ get_facility(entry.prival) = asked[1]

ParamInv ==
  param # NULL => entry # NULL /\ ("unvalidated" \notin seen => validate_param_value(memory[param]))

\* What the header of a record has, compared with the entry.
AsEntry(r) ==
  /\ r \in Header
  /\ << r.prival, r.app_name, r.msgid >> = << entry.prival, entry.app_name, entry.msgid >>
  /\ entry.hostname # <<>> => r.hostname = entry.hostname
  /\ entry.procid # <<>> => r.procid \in {entry.procid, RFC_5424_NILVALUE}
  /\ \A f \in {"hostname", "procid"} : validate_printable_ascii(r[f]) /\ r[f] # <<>>

Message == IF entry.message = NULL THEN <<>> ELSE memory[entry.message]

ValueValid(r) ==
  r.value # NULL /\ seen \cap {"unvalidated", "revalued"} = {} => validate_param_value(r.value)

Copied(f) ==
  /\ f.record \in EntryCopy /\ f.copy \in EntryCopy
  /\ << f.copy.prival, f.copy.app_name, f.copy.msgid >>
       = << f.record.prival % 256, f.record.app_name, f.record.msgid >>
  /\ f.copy.message = f.record.message \/ 37 \in ToSet(f.record.message)

\* What a call of thread t in step f knows of the entry.
Placed(t, f) ==
  /\ f.step = "idle" => f = Idle
  /\ f.step # "idle" => entry # NULL
  /\ f.step = "read" =>
       /\ f.mutex \in {"entry", "param"} /\ holder[f.mutex] = t
       /\ f.buffer # NULL /\ f.buffer = (IF f.mutex = "entry" THEN entry.message ELSE param)
  /\ f.step \in Locked => holder["entry"] = t
  /\ f.step = "value" =>
       /\ f.buffer # NULL /\ f.record \in Header /\ f.record.value = NULL
       /\ "revalued" \notin seen => f.buffer = param
  /\ f.step \in {"value", "message", "formatted"} => AsEntry(f.record)
  /\ f.step \in {"message", "formatted"} => ValueValid(f.record)
  /\ f.step = "formatted" => f.record.message = Message
  /\ f.step = "copied" => Copied(f)
  /\ f.step \in {"idle", "free", "read", "copied"} => f.builder = NULL

FrameInv == \A t \in Threads : Placed(t, frame[t])

FieldsInv == TypeInv /\ OwnInv /\ BuilderInv /\ EntryInv /\ ParamInv /\ FrameInv

-----------------------------------------------------------------------------
(***************************************************************************)
(* Sets of numbers: least elements, and with them induction.               *)
(***************************************************************************)

\* A set of numbers that is not empty has a least one.
LEMMA Least ==
  ASSUME NEW T, T \subseteq Nat, T # {}
  PROVE  \E x \in T : \A y \in T : x <= y
<1> DEFINE R == {ss \in Nat \X Nat : ss[1] < ss[2]}
<1>1. IsWellFoundedOn(R, Nat)
  BY NatLessThanWellFounded DEF OpToRel
<1>2. \A a, b \in Nat : a < b => << a, b >> \in R
  OBVIOUS
<1> HIDE DEF R
<1>3. PICK x \in T : \A y \in T : ~(<< y, x >> \in R)
  BY <1>1, WFMin
<1>4. \A y \in T : ~(y < x)
  BY <1>2, <1>3
<1> QED
  BY <1>4

\* A set of numbers with 0 and with the successor of each has them all.
LEMMA AllNumbers ==
  ASSUME NEW T, 0 \in T, \A k \in Nat : k \in T => k + 1 \in T
  PROVE  \A k \in Nat : k \in T
<1> SUFFICES ASSUME NEW k \in Nat, k \notin T
             PROVE  FALSE
  OBVIOUS
<1>1. PICK x \in Nat \ T : \A y \in Nat \ T : x <= y
  <2>1. Nat \ T \subseteq Nat /\ Nat \ T # {}
    OBVIOUS
  <2> QED
    BY <2>1, Least
<1>2. x - 1 \in Nat /\ x - 1 \notin Nat \ T
  BY <1>1
<1> QED
  BY <1>1, <1>2

-----------------------------------------------------------------------------
(***************************************************************************)
(* How a string builder grows.                                             *)
(***************************************************************************)

\* The first k doublings of b, as a list.
GrownTo(g, b, k) ==
  g = [j \in 0..k |->
         IF j = 0 THEN [size |-> b.size, left |-> b.size - b.used]
         ELSE [size |-> 2 * g[j - 1].size, left |-> g[j - 1].left + increase_size(g[j - 1].size)]]

\* There is only one such list, whatever its length.
LEMMA GrownUnique ==
  ASSUME NEW b, NEW g, NEW h, NEW k \in Nat, NEW m \in Nat, GrownTo(g, b, k), GrownTo(h, b, m)
  PROVE  \A j \in Nat : j <= k /\ j <= m => g[j] = h[j]
<1> DEFINE T == {j \in Nat : j <= k /\ j <= m => g[j] = h[j]}
<1>1. 0 \in T
  BY DEF GrownTo
<1>2. ASSUME NEW j \in Nat, j \in T
      PROVE  j + 1 \in T
  <2> SUFFICES ASSUME j + 1 <= k, j + 1 <= m
               PROVE  g[j + 1] = h[j + 1]
    OBVIOUS
  <2>1. g[j] = h[j] /\ j + 1 \in 0..k /\ j + 1 \in 0..m /\ j + 1 # 0 /\ (j + 1) - 1 = j
    BY <1>2
  <2> QED
    BY <2>1 DEF GrownTo
<1> HIDE DEF T
<1>3. \A j \in Nat : j \in T
  BY <1>1, <1>2, AllNumbers
<1> QED
  BY <1>3 DEF T

\* And there is one.
LEMMA GrownExists ==
  ASSUME NEW b
  PROVE  \A k \in Nat : \E g : GrownTo(g, b, k)
<1> DEFINE T == {k \in Nat : \E g : GrownTo(g, b, k)}
<1>1. 0 \in T
  <2> DEFINE g == [j \in 0..0 |-> [size |-> b.size, left |-> b.size - b.used]]
  <2>1. GrownTo(g, b, 0)
    BY DEF GrownTo
  <2> QED
    BY <2>1
<1>2. ASSUME NEW k \in Nat, k \in T
      PROVE  k + 1 \in T
  <2>1. PICK g : GrownTo(g, b, k)
    BY <1>2
  <2> DEFINE next == [size |-> 2 * g[k].size, left |-> g[k].left + increase_size(g[k].size)]
             h == [j \in 0..(k + 1) |-> IF j = k + 1 THEN next ELSE g[j]]
  <2> HIDE DEF next
  <2>2. ASSUME NEW j \in 0..(k + 1)
        PROVE  h[j] = IF j = 0 THEN [size |-> b.size, left |-> b.size - b.used]
                      ELSE [size |-> 2 * h[j - 1].size, left |-> h[j - 1].left + increase_size(h[j - 1].size)]
    <3>1. CASE j = k + 1
      <4>1. h[j] = next /\ j # 0 /\ j - 1 = k /\ h[k] = g[k]
        BY <3>1
      <4> QED
        BY <4>1 DEF next
    <3>2. CASE j \in 0..k /\ j # 0
      <4>1. h[j] = g[j] /\ h[j - 1] = g[j - 1]
        BY <3>2
      <4> QED
        BY <2>1, <3>2, <4>1 DEF GrownTo
    <3>3. CASE j = 0
      <4>1. h[j] = g[j]
        BY <3>3
      <4> QED
        BY <2>1, <3>3, <4>1 DEF GrownTo
    <3> QED
      BY <3>1, <3>2, <3>3
  <2> HIDE DEF h
  <2>3. h = [j \in 0..(k + 1) |-> h[j]]
    BY DEF h
  <2>4. GrownTo(h, b, k + 1)
    BY <2>2, <2>3 DEF GrownTo
  <2> QED
    BY <2>4
<1> HIDE DEF T
<1>3. \A k \in Nat : k \in T
  BY <1>1, <1>2, AllNumbers
<1> QED
  BY <1>3 DEF T

\* What the recursive function of the model is.
LEMMA GrownIs ==
  ASSUME NEW b
  PROVE  /\ Grown(b)[0] = [size |-> b.size, left |-> b.size - b.used]
         /\ \A k \in Nat : Grown(b)[k + 1] = [size |-> 2 * Grown(b)[k].size,
                                              left |-> Grown(b)[k].left + increase_size(Grown(b)[k].size)]
<1> DEFINE first(k) == CHOOSE g : GrownTo(g, b, k)
           f == [k \in Nat |-> first(k)[k]]
           Is(ff) == ff = [k \in Nat |->
                           IF k = 0 THEN [size |-> b.size, left |-> b.size - b.used]
                           ELSE [size |-> 2 * ff[k - 1].size,
                                 left |-> ff[k - 1].left + increase_size(ff[k - 1].size)]]
<1>1. \A k \in Nat : GrownTo(first(k), b, k)
  BY GrownExists
<1> HIDE DEF first
<1>2. ASSUME NEW k \in Nat
      PROVE  f[k] = IF k = 0 THEN [size |-> b.size, left |-> b.size - b.used]
                    ELSE [size |-> 2 * f[k - 1].size,
                          left |-> f[k - 1].left + increase_size(f[k - 1].size)]
  <2>1. k \in 0..k
    OBVIOUS
  <2>2. CASE k = 0
    <3>1. f[k] = first(0)[0] /\ GrownTo(first(0), b, 0) /\ 0 \in 0..0
      BY <1>1, <2>2
    <3> QED
      BY <2>2, <3>1 DEF GrownTo
  <2>3. CASE k # 0
    <3>1. k - 1 \in Nat /\ k - 1 <= k
      BY <2>3
    <3>2. f[k] = first(k)[k] /\ f[k - 1] = first(k - 1)[k - 1]
      BY <3>1
    <3>3. first(k)[k - 1] = first(k - 1)[k - 1]
      BY <1>1, <3>1, GrownUnique
    <3>4. GrownTo(first(k), b, k)
      BY <1>1
    <3> QED
      BY <2>1, <2>3, <3>2, <3>3, <3>4 DEF GrownTo
  <2> QED
    BY <2>2, <2>3
<1>3. f = [k \in Nat |-> f[k]]
  OBVIOUS
<1> HIDE DEF f
<1>4. Is(f)
  BY <1>2, <1>3
<1>5. Grown(b) = CHOOSE ff : Is(ff)
  BY DEF Grown
<1> HIDE DEF Is
<1>6. Is(Grown(b))
  BY <1>4, <1>5
<1>7. ASSUME NEW k \in Nat
      PROVE  k + 1 # 0 /\ (k + 1) - 1 = k /\ k + 1 \in Nat
  OBVIOUS
<1> QED
  BY <1>6, <1>7 DEF Is

\* A builder that has memory: every doubling keeps what is used, and leaves more.
LEMMA GrownLeaves ==
  ASSUME NEW b \in strbuilder, b.used <= b.size, b.size > 0
  PROVE  \A k \in Nat : /\ Grown(b)[k].size \in Nat /\ Grown(b)[k].size > 0
                        /\ Grown(b)[k].left = Grown(b)[k].size - b.used
                        /\ Grown(b)[k].left >= k
<1> DEFINE g == Grown(b)
           T == {k \in Nat : g[k].size \in Nat /\ g[k].size > 0 /\ g[k].left = g[k].size - b.used /\ g[k].left >= k}
<1>0. /\ g[0] = [size |-> b.size, left |-> b.size - b.used]
      /\ \A k \in Nat : g[k + 1] = [size |-> 2 * g[k].size, left |-> g[k].left + increase_size(g[k].size)]
  BY GrownIs, Zenon
<1> HIDE DEF g
<1>1. 0 \in T
  <2>1. g[0].size = b.size /\ g[0].left = b.size - b.used
    BY <1>0
  <2> QED
    BY <2>1 DEF strbuilder
<1>2. ASSUME NEW k \in Nat, k \in T
      PROVE  k + 1 \in T
  <2>1. g[k + 1].size = 2 * g[k].size /\ g[k + 1].left = g[k].left + g[k].size
    <3>1. g[k + 1] = [size |-> 2 * g[k].size, left |-> g[k].left + g[k].size]
      BY <1>0, Zenon DEF increase_size
    <3> QED
      BY <3>1
  <2>2. b.used \in Nat
    BY DEF strbuilder
  <2> QED
    BY <1>2, <2>1, <2>2
<1> HIDE DEF T
<1>3. \A k \in Nat : k \in T
  BY <1>1, <1>2, AllNumbers
<1> QED
  BY <1>3 DEF T, g

\* What is appended fits, and the loop ends: strbuilder_append_buffer.
LEMMA AppendFits ==
  ASSUME NEW b \in strbuilder, b.used <= b.size, b.size > 0, NEW n \in Nat
  PROVE  /\ strbuilder_append_buffer(b, n) \in strbuilder
         /\ strbuilder_append_buffer(b, n).used <= strbuilder_append_buffer(b, n).size
         /\ strbuilder_append_buffer(b, n).size > 0
         /\ strbuilder_append_buffer(b, n).state = b.state
<1> DEFINE g == Grown(b)
           T == {k \in Nat : g[k].left >= n}
           d == Doublings(b, n)
<1>1. \A k \in Nat : g[k].size \in Nat /\ g[k].size > 0 /\ g[k].left = g[k].size - b.used /\ g[k].left >= k
  BY GrownLeaves
<1> HIDE DEF g
<1>2. n \in T
  BY <1>1
<1>3. PICK k \in T : \A j \in T : k <= j
  BY <1>2, Least
<1>4. k \in 0..n /\ g[k].left >= n /\ \A j \in 0..(k - 1) : g[j].left < n
  <2>0. b.used \in Nat
    BY DEF strbuilder
  <2>1. ASSUME NEW j \in 0..(k - 1)
        PROVE  g[j].left < n
    <3>1. j \in Nat /\ j < k
      BY <1>3
    <3>2. j \notin T
      BY <1>3, <3>1
    <3>3. g[j].left \in Int
      BY <1>1, <2>0, <3>1
    <3> QED
      BY <3>1, <3>2, <3>3
  <2> QED
    BY <1>2, <1>3, <2>1
<1>5. d \in 0..n /\ g[d].left >= n
  BY <1>4 DEF Doublings, g
<1> HIDE DEF d
<1>6. g[d].size \in Nat /\ g[d].size > 0 /\ g[d].size - b.used >= n
  BY <1>1, <1>5
<1>7. strbuilder_append_buffer(b, n) = [size |-> g[d].size, used |-> b.used + n, state |-> b.state]
  <2>1. b = [size |-> b.size, used |-> b.used, state |-> b.state]
    BY DEF strbuilder
  <2>2. strbuilder_append_buffer(b, n) = [b EXCEPT !.size = g[d].size, !.used = b.used + n]
    BY DEF strbuilder_append_buffer, g, d
  <2> HIDE DEF g
  <2> QED
    BY <2>1, <2>2
<1> QED
  BY <1>6, <1>7 DEF strbuilder

-----------------------------------------------------------------------------
(***************************************************************************)
(* Privals and names.                                                      *)
(***************************************************************************)

\* The eight bits of a byte.
LEMMA ByteIs ==
  ASSUME NEW x \in 0..255
  PROVE  x = (x % 2) + 2 * ((x \div 2) % 2) + 4 * ((x \div 4) % 2) + 8 * ((x \div 8) % 2)
               + 16 * ((x \div 16) % 2) + 32 * ((x \div 32) % 2) + 64 * ((x \div 64) % 2)
               + 128 * ((x \div 128) % 2)
OBVIOUS

\* A multiple of eight and a number below eight have no bit in common.
LEMMA OrAdds ==
  ASSUME NEW q \in 0..31, NEW s \in 0..7
  PROVE  OrByte(8 * q, s) = 8 * q + s
<1> DEFINE f == 8 * q
<1>1. f \in 0..255 /\ f % 2 = 0 /\ (f \div 2) % 2 = 0 /\ (f \div 4) % 2 = 0
  OBVIOUS
<1>2. /\ (s \div 8) % 2 = 0 /\ (s \div 16) % 2 = 0 /\ (s \div 32) % 2 = 0 /\ (s \div 64) % 2 = 0
      /\ (s \div 128) % 2 = 0
  OBVIOUS
<1>3. OrBit(f, s, 1) = s % 2
  BY <1>1 DEF OrBit
<1>4. OrBit(f, s, 2) = 2 * ((s \div 2) % 2) /\ OrBit(f, s, 4) = 4 * ((s \div 4) % 2)
  BY <1>1 DEF OrBit
<1>5. /\ OrBit(f, s, 8) = 8 * ((f \div 8) % 2)
      /\ OrBit(f, s, 16) = 16 * ((f \div 16) % 2)
  BY <1>1, <1>2 DEF OrBit
<1>6. /\ OrBit(f, s, 32) = 32 * ((f \div 32) % 2)
      /\ OrBit(f, s, 64) = 64 * ((f \div 64) % 2)
      /\ OrBit(f, s, 128) = 128 * ((f \div 128) % 2)
  BY <1>1, <1>2 DEF OrBit
<1>7. f = 8 * ((f \div 8) % 2) + 16 * ((f \div 16) % 2) + 32 * ((f \div 32) % 2) + 64 * ((f \div 64) % 2)
            + 128 * ((f \div 128) % 2)
  BY <1>1, ByteIs
<1>8. s = (s % 2) + 2 * ((s \div 2) % 2) + 4 * ((s \div 4) % 2)
  OBVIOUS
<1>0. /\ s % 2 \in Int /\ (s \div 2) % 2 \in Int /\ (s \div 4) % 2 \in Int
      /\ (f \div 8) % 2 \in Int /\ (f \div 16) % 2 \in Int /\ (f \div 32) % 2 \in Int
      /\ (f \div 64) % 2 \in Int /\ (f \div 128) % 2 \in Int
  OBVIOUS
<1> HIDE DEF f
<1>9. OrByte(f, s) = f + s
  <2>1. \A a, b, c, d, e, g, h, i \in Int :
          f = 8 * d + 16 * e + 32 * g + 64 * h + 128 * i /\ s = a + 2 * b + 4 * c =>
            a + 2 * b + 4 * c + 8 * d + 16 * e + 32 * g + 64 * h + 128 * i = f + s
    OBVIOUS
  <2>2. OrByte(f, s) = (s % 2) + 2 * ((s \div 2) % 2) + 4 * ((s \div 4) % 2) + 8 * ((f \div 8) % 2)
          + 16 * ((f \div 16) % 2) + 32 * ((f \div 32) % 2) + 64 * ((f \div 64) % 2)
          + 128 * ((f \div 128) % 2)
    BY <1>3, <1>4, <1>5, <1>6, Zenon DEF OrByte
  <2> QED
    BY <1>0, <1>7, <1>8, <2>1, <2>2
<1> QED
  BY <1>9 DEF f

\* get_prival of a facility and a severity, each in its bits.
LEMMA PrivalAdds ==
  ASSUME NEW q \in 0..31, NEW s \in 0..7
  PROVE  get_prival(8 * q, s) = 8 * q + s
<1> DEFINE f == 8 * q
<1>1. /\ (f \div 1) % 256 = f /\ (f \div 256) % 256 = 0 /\ (f \div 65536) % 256 = 0
      /\ (f \div 16777216) % 256 = 0
  OBVIOUS
<1>2. /\ (s \div 1) % 256 = s /\ (s \div 256) % 256 = 0 /\ (s \div 65536) % 256 = 0
      /\ (s \div 16777216) % 256 = 0
  OBVIOUS
<1>3. OrByte(f, s) = f + s
  BY OrAdds
<1>4. OrByte(0, 0) = 0
  <2>1. OrByte(8 * 0, 0) = 8 * 0 + 0
    BY OrAdds
  <2> QED
    BY <2>1
<1>5. f + s \in Int
  OBVIOUS
<1> HIDE DEF f
<1>6. get_prival(f, s) = f + s
  BY <1>1, <1>2, <1>3, <1>4, <1>5 DEF get_prival
<1> QED
  BY <1>6 DEF f

\* get_prival gives a number, whatever it is given.
LEMMA PrivalType ==
  ASSUME NEW f, NEW s
  PROVE  get_prival(f, s) \in Int
<1>1. \A a, b : OrByte(a, b) \in Int
  BY DEF OrByte, OrBit
<1> QED
  BY <1>1 DEF get_prival

\* Both parts of a prival are read back from it.
LEMMA PrivalParts ==
  ASSUME NEW f \in Int, NEW s \in Int, ~facility_is_invalid(f), ~severity_is_invalid(s)
  PROVE  /\ get_prival(f, s) \in 0..191
         /\ get_severity(get_prival(f, s)) = s
         /\ get_facility(get_prival(f, s)) = f
<1>1. f = 8 * (f \div 8) /\ (f \div 8) \in 0..23
  BY DEF facility_is_invalid
<1>2. s \in 0..7
  BY DEF severity_is_invalid
<1>3. get_prival(f, s) = f + s
  <2> DEFINE q == f \div 8
  <2>1. f = 8 * q /\ q \in 0..31
    BY <1>1
  <2> HIDE DEF q
  <2> QED
    BY <1>2, <2>1, PrivalAdds
<1> QED
  BY <1>1, <1>2, <1>3 DEF get_severity, get_facility

\* The parts of any prival.
LEMMA PartsType ==
  ASSUME NEW p \in Int
  PROVE  /\ get_severity(p) \in 0..7 /\ ~severity_is_invalid(get_severity(p))
         /\ get_facility(p) \in Int /\ get_facility(p) = 8 * ((p % 256) \div 8)
         /\ get_prival(get_facility(p), get_severity(p)) = p % 256
<1>1. (p % 8) \in 0..7 /\ (p % 256) \in 0..255
  OBVIOUS
<1>2. (p % 256) % 8 = (p % 8)
  OBVIOUS
<1>3. (p % 256) - (p % 8) = 8 * ((p % 256) \div 8) /\ ((p % 256) \div 8) \in 0..31
  BY <1>1, <1>2
<1>4. get_prival(8 * ((p % 256) \div 8), p % 8) = 8 * ((p % 256) \div 8) + (p % 8)
  BY <1>1, <1>3, PrivalAdds
<1> QED
  BY <1>1, <1>3, <1>4 DEF get_severity, get_facility, severity_is_invalid

\* A name of an entry is short enough and printable.
LEMMA NameIs ==
  ASSUME NEW s \in Names \cup {NULL}, IsName(s)
  PROVE  /\ Name(s) \in EntryName
         /\ (IF s = NULL THEN <<>> ELSE s) \in EntryName
         /\ s # <<>> => Name(s) # <<>>
<1>1. /\ Len(RFC_5424_NILVALUE) = 1 /\ RFC_5424_NILVALUE # <<>>
      /\ \A i \in DOMAIN RFC_5424_NILVALUE : RFC_5424_NILVALUE[i] \in 33..126
  BY DEF RFC_5424_NILVALUE
<1>2. Len(<<>>) = 0 /\ DOMAIN <<>> = {}
  OBVIOUS
<1>3. RFC_5424_NILVALUE \in EntryName /\ <<>> \in EntryName
  <2>1. 0 <= MaxName /\ 1 <= MaxName
    BY FieldsAssumption
  <2>2. validate_printable_ascii(RFC_5424_NILVALUE) /\ validate_printable_ascii(<<>>)
    BY <1>1, <1>2, Zenon DEF validate_printable_ascii
  <2> QED
    BY <1>1, <1>2, <2>1, <2>2 DEF EntryName
<1>4. ASSUME s # NULL
      PROVE  s \in EntryName
  BY <1>4 DEF EntryName, IsName, validate_app_name, validate_string_length
<1> QED
  BY <1>1, <1>3, <1>4 DEF Name

\* Names are texts.
LEMMA NameType ==
  ASSUME NEW s \in EntryName
  PROVE  s \in Texts /\ Len(s) \in Nat /\ Len(s) <= MaxName /\ validate_printable_ascii(s)
<1>1. Names \subseteq Texts
  BY FieldsAssumption DEF Texts
<1>2. RFC_5424_NILVALUE \in Texts /\ <<>> \in Texts
  BY DEF RFC_5424_NILVALUE, Texts
<1>3. s \in Texts
  BY <1>1, <1>2 DEF EntryName
<1>4. Len(s) \in Nat
  BY <1>3 DEF Texts
<1> QED
  BY <1>3, <1>4 DEF EntryName

-----------------------------------------------------------------------------
(***************************************************************************)
(* How buffers and builders change hands.                                  *)
(***************************************************************************)

\* A buffer is allocated for the entry, for the param or for a call.
LEMMA OwnNew ==
  ASSUME NEW m, NEW p, NEW h, NEW mem, NEW m2, NEW p2, NEW h2, NEW mem2, NEW t \in Threads,
         NEW b \in Buffers, Owners(m, p, h, mem), mem[b] = NULL, mem2[b] # NULL,
         \A c \in Buffers : c # b => mem2[c] = mem[c],
         \A u \in Threads : u # t => h2[u] = h[u],
         \/ m = NULL /\ m2 = b /\ p2 = p /\ h2[t] = h[t]
         \/ p = NULL /\ p2 = b /\ m2 = m /\ h2[t] = h[t]
         \/ h[t] = NULL /\ h2[t] = b /\ m2 = m /\ p2 = p
  PROVE  Owners(m2, p2, h2, mem2)
<1>1. b # NULL
  BY FieldsAssumption
<1>2. b # m /\ b # p /\ \A u \in Threads : h[u] # b
  BY DEF Owners
<1>3. \A c \in Buffers : mem2[c] # NULL <=> m2 = c \/ p2 = c \/ \E u \in Threads : h2[u] = c
  <2> SUFFICES ASSUME NEW c \in Buffers
               PROVE  mem2[c] # NULL <=> m2 = c \/ p2 = c \/ \E u \in Threads : h2[u] = c
    OBVIOUS
  <2>1. CASE c = b
    BY <2>1
  <2>2. CASE c # b
    <3>1. mem2[c] # NULL <=> m = c \/ p = c \/ \E u \in Threads : h[u] = c
      BY <2>2 DEF Owners
    <3>2. m = NULL \/ p = NULL \/ h[t] = NULL
      OBVIOUS
    <3>3. (m2 = c <=> m = c) /\ (p2 = c <=> p = c) /\ (h2[t] = c <=> h[t] = c)
      BY <2>2, FieldsAssumption
    <3> QED
      BY <3>1, <3>3
  <2> QED
    BY <2>1, <2>2
<1>4. m2 # NULL => m2 # p2 /\ \A u \in Threads : h2[u] # m2
  BY <1>1, <1>2 DEF Owners
<1>5. p2 # NULL => \A u \in Threads : h2[u] # p2
  BY <1>1, <1>2 DEF Owners
<1>6. \A u, v \in Threads : h2[u] # NULL /\ h2[u] = h2[v] => u = v
  BY <1>1, <1>2 DEF Owners
<1> QED
  BY <1>3, <1>4, <1>5, <1>6 DEF Owners

\* The call of t takes the buffer of the entry or of the param, to free it.
LEMMA OwnTake ==
  ASSUME NEW m, NEW p, NEW h, NEW mem, NEW m2, NEW p2, NEW h2, NEW t \in Threads,
         Owners(m, p, h, mem), h[t] = NULL,
         \A u \in Threads : u # t => h2[u] = h[u],
         \/ m2 = NULL /\ p2 = p /\ h2[t] = m
         \/ p2 = NULL /\ m2 = m /\ h2[t] = p
  PROVE  Owners(m2, p2, h2, mem)
<1>1. \A b \in Buffers : b # NULL
  BY FieldsAssumption
<1> QED
  BY <1>1 DEF Owners

\* A buffer is freed by the one that has it, or there is none to free.
LEMMA OwnFree ==
  ASSUME NEW m, NEW p, NEW h, NEW mem, NEW m2, NEW p2, NEW h2, NEW mem2, NEW t \in Threads,
         NEW b \in Buffers \cup {NULL}, Owners(m, p, h, mem),
         \A c \in Buffers : mem2[c] = IF c = b THEN NULL ELSE mem[c],
         \A u \in Threads : u # t => h2[u] = h[u],
         \/ m = b /\ m2 = NULL /\ p2 = p /\ h2[t] = h[t]
         \/ p = b /\ p2 = NULL /\ m2 = m /\ h2[t] = h[t]
         \/ h[t] = b /\ h2[t] = NULL /\ m2 = m /\ p2 = p
  PROVE  Owners(m2, p2, h2, mem2)
<1>1. \A c \in Buffers : c # NULL
  BY FieldsAssumption
<1>2. CASE b = NULL
  BY <1>1, <1>2 DEF Owners
<1>3. CASE b \in Buffers
  BY <1>1, <1>3 DEF Owners
<1> QED
  BY <1>2, <1>3

\* Nothing changes hands.
LEMMA OwnSame ==
  ASSUME OwnInv, EntryMessage' = EntryMessage, param' = param, memory' = memory,
         \A u \in Threads : Held(frame'[u]) = Held(frame[u])
  PROVE  OwnInv'
<1>1. HeldBy' = HeldBy
  BY DEF HeldBy, Held
<1> QED
  BY <1>1 DEF OwnInv, Owners

\* No builder changes.
LEMMA BuilderSame ==
  ASSUME BuilderInv, builder' = builder, seen \subseteq seen',
         \A u \in Threads : frame'[u].builder = frame[u].builder
  PROVE  BuilderInv'
<1>1. BuilderOf' = BuilderOf
  BY DEF BuilderOf
<1>2. Lent(BuilderOf', builder')
  BY <1>1 DEF BuilderInv
<1> QED
  BY <1>2 DEF BuilderInv, Fits, Lent

\* Nor the entry.
LEMMA EntrySame ==
  ASSUME EntryInv, entry' = entry, asked' = asked, seen \subseteq seen'
  PROVE  EntryInv'
BY DEF EntryInv

\* Nor the value of the param.
LEMMA ParamSame ==
  ASSUME ParamInv, param' = param, param # NULL => memory'[param] = memory[param] /\ entry' # NULL,
         seen \subseteq seen'
  PROVE  ParamInv'
BY DEF ParamInv

\* What a call knows stays true while others take steps.
LEMMA PlacedSame ==
  ASSUME NEW u \in Threads, TypeInv, Placed(u, frame[u]), frame'[u] = frame[u], seen \subseteq seen',
         \A m \in {"entry", "param"} : holder[m] = u => holder'[m] = u,
         frame[u].step # "idle" => entry' # NULL,
         holder["entry"] = u => entry' = entry,
         holder["entry"] = u /\ entry.message # NULL => memory'[entry.message] = memory[entry.message],
         holder["param"] = u => param' = param,
         frame[u].step = "value" => param' = param \/ "revalued" \in seen'
  PROVE  Placed(u, frame[u])'
<1> DEFINE f == frame[u]
<1>1. f \in Frame
  BY DEF TypeInv
<1>2. f.step = "read" => /\ f.mutex \in {"entry", "param"} /\ holder'[f.mutex] = u
                         /\ f.buffer # NULL /\ f.buffer = (IF f.mutex = "entry" THEN entry'.message ELSE param')
  BY <1>1 DEF Placed, Frame
<1>3. f.step \in Locked => holder'["entry"] = u
  BY DEF Placed
<1>4. f.step = "value" => /\ f.buffer # NULL /\ f.record \in Header /\ f.record.value = NULL
                          /\ "revalued" \notin seen' => f.buffer = param'
  BY DEF Placed
<1>5. f.step \in {"value", "message", "formatted"} => AsEntry(f.record)'
  <2>1. f.step \in {"value", "message", "formatted"} => AsEntry(f.record) /\ holder["entry"] = u
    BY DEF Placed, Locked
  <2> QED
    BY <2>1 DEF AsEntry
<1>6. f.step \in {"message", "formatted"} => ValueValid(f.record)'
  <2>1. f.step \in {"message", "formatted"} => ValueValid(f.record)
    BY DEF Placed
  <2> QED
    BY <2>1 DEF ValueValid
<1>7. f.step = "formatted" => f.record.message = Message'
  <2>1. f.step = "formatted" => f.record.message = Message /\ holder["entry"] = u
    BY DEF Placed, Locked
  <2>2. f.step = "formatted" => Message' = Message
    BY <2>1 DEF Message
  <2> QED
    BY <2>1, <2>2
<1>8. f.step = "copied" => Copied(f)
  BY DEF Placed
<1> QED
  BY <1>2, <1>3, <1>4, <1>5, <1>6, <1>7, <1>8 DEF Placed, Copied

\* The calls of all threads, when only t took a step.
LEMMA FramesKept ==
  ASSUME TypeInv, FrameInv, NEW t \in Threads, Placed(t, frame[t])', seen \subseteq seen',
         \A u \in Threads : u # t => frame'[u] = frame[u],
         \A m \in {"entry", "param"} : holder'[m] = holder[m] \/ holder[m] = NULL \/ holder[m] = t,
         \A u \in Threads : u # t /\ frame[u].step # "idle" => entry' # NULL,
         entry' = entry \/ holder["entry"] = NULL \/ holder["entry"] = t,
         \/ holder["entry"] = NULL \/ holder["entry"] = t
         \/ entry.message # NULL => memory'[entry.message] = memory[entry.message],
         param' = param \/ holder["param"] = NULL \/ holder["param"] = t,
         \A u \in Threads : u # t /\ frame[u].step = "value" => param' = param \/ "revalued" \in seen'
  PROVE  FrameInv'
<1> SUFFICES ASSUME NEW u \in Threads, u # t
             PROVE  Placed(u, frame[u])'
  BY DEF FrameInv
<1>1. Placed(u, frame[u]) /\ u # NULL
  BY FieldsAssumption DEF FrameInv
<1> QED
  BY <1>1, PlacedSame

\* A thread without a call has nothing to know.
LEMMA IdlePlaced ==
  ASSUME NEW u \in Threads, frame'[u] = Idle
  PROVE  Placed(u, frame[u])'
BY DEF Placed, Idle, Locked

-----------------------------------------------------------------------------
(***************************************************************************)
(* The first state, and steps that change nothing.                         *)
(***************************************************************************)

LEMMA FieldsInit ==
  ASSUME Init
  PROVE  FieldsInv
<1>1. TypeInv
  BY FieldsAssumption DEF Init, TypeInv, Idle, Frame, Steps, strbuilder
<1>2. OwnInv
  BY FieldsAssumption DEF Init, OwnInv, Owners, HeldBy, Held, EntryMessage, Idle
<1>3. BuilderInv
  BY FieldsAssumption DEF Init, BuilderInv, BuilderOf, Lent, Fits, Idle
<1>4. EntryInv /\ ParamInv
  BY DEF Init, EntryInv, ParamInv
<1>5. FrameInv
  BY DEF Init, FrameInv, Placed, Idle, Locked
<1> QED
  BY <1>1, <1>2, <1>3, <1>4, <1>5 DEF FieldsInv

LEMMA FieldsStutter ==
  ASSUME FieldsInv, UNCHANGED vars
  PROVE  FieldsInv'
<1>1. UNCHANGED << entry, param, memory, builder, holder, frame, asked, seen >>
  BY DEF vars
<1>2. TypeInv'
  BY <1>1 DEF TypeInv, FieldsInv
<1>3. OwnInv'
  BY <1>1, OwnSame DEF FieldsInv, EntryMessage
<1>4. BuilderInv' /\ EntryInv' /\ ParamInv'
  BY <1>1, BuilderSame, EntrySame DEF ParamInv, FieldsInv
<1>5. FrameInv'
  <2> SUFFICES ASSUME NEW u \in Threads
               PROVE  Placed(u, frame[u])'
    BY DEF FrameInv
  <2>1. Placed(u, frame[u])
    BY DEF FrameInv, FieldsInv
  <2>2. frame[u].step # "idle" => entry # NULL
    BY <2>1 DEF Placed
  <2> QED
    BY <1>1, <2>1, <2>2, PlacedSame DEF FieldsInv
<1> QED
  BY <1>2, <1>3, <1>4, <1>5 DEF FieldsInv

-----------------------------------------------------------------------------
(***************************************************************************)
(* Creating and destroying.                                                *)
(***************************************************************************)

\* Text is written to a buffer that is not allocated, or there is no text.
LEMMA AllocateIs ==
  ASSUME TypeInv, NEW text \in Messages \cup Values \cup {NULL}, NEW b \in Buffers \cup {NULL}, Allocate(text, b)
  PROVE  /\ Written(b, text) \in [Buffers -> Messages \cup Values \cup {NULL}]
         /\ b = NULL => text = NULL /\ Written(b, text) = memory
         /\ b # NULL => /\ b \in Buffers /\ text # NULL /\ memory[b] = NULL /\ Written(b, text)[b] = text
                        /\ \A c \in Buffers : c # b => Written(b, text)[c] = memory[c]
BY FieldsAssumption DEF Allocate, Written, TypeInv

\* What is left once a buffer has been freed.
LEMMA FreedIs ==
  ASSUME TypeInv, NEW b \in Buffers \cup {NULL}
  PROVE  /\ Freed(b) \in [Buffers -> Messages \cup Values \cup {NULL}]
         /\ \A c \in Buffers : Freed(b)[c] = IF c = b THEN NULL ELSE memory[c]
BY FieldsAssumption DEF Freed, TypeInv

\* While there is no entry, nothing is going on.
LEMMA NoEntryNoCall ==
  ASSUME FieldsInv, entry = NULL
  PROVE  /\ \A u \in Threads : frame[u] = Idle
         /\ param = NULL
<1>1. \A u \in Threads : Placed(u, frame[u])
  BY DEF FieldsInv, FrameInv
<1> QED
  BY <1>1 DEF FieldsInv, ParamInv, Placed

LEMMA NewEntryStep ==
  ASSUME FieldsInv, NEW t \in Threads, stumpless_new_entry(t)
  PROVE  FieldsInv'
<1>0. TypeInv /\ entry = NULL /\ UNCHANGED << param, builder, holder, frame >>
  BY DEF FieldsInv, stumpless_new_entry
<1>1. (\A u \in Threads : frame[u] = Idle) /\ param = NULL
  BY <1>0, NoEntryNoCall
<1>2. PICK fa \in Facilities, se \in Severities, n \in Names \cup {NULL}, i \in Names \cup {NULL},
           text \in Messages \cup {NULL}, b \in Buffers \cup {NULL} :
        /\ Allocate(text, b)
        /\ \/ /\ IsName(n) /\ IsName(i)
              /\ unchecked_load_entry(fa, se, n, i, b)
              /\ memory' = Written(b, text)
           \/ UNCHANGED << entry, asked, seen, memory >>
  BY DEF stumpless_new_entry
<1>3. FrameInv'
  BY <1>0, <1>1, IdlePlaced DEF FrameInv
<1>4. CASE UNCHANGED << entry, asked, seen, memory >>
  <2>1. UNCHANGED << entry, param, memory, builder, holder, frame, asked, seen >>
    BY <1>0, <1>4
  <2>2. TypeInv'
    BY <2>1 DEF TypeInv, FieldsInv
  <2>3. OwnInv'
    BY <2>1, OwnSame DEF FieldsInv, EntryMessage
  <2>4. BuilderInv' /\ EntryInv' /\ ParamInv'
    BY <2>1, BuilderSame, EntrySame DEF ParamInv, FieldsInv
  <2> QED
    BY <1>3, <2>2, <2>3, <2>4 DEF FieldsInv
<1>5. CASE /\ IsName(n) /\ IsName(i)
           /\ unchecked_load_entry(fa, se, n, i, b)
           /\ memory' = Written(b, text)
  <2> DEFINE e == [prival |-> get_prival(fa, se), app_name |-> Name(n), msgid |-> Name(i),
                   hostname |-> <<>>, procid |-> <<>>, message |-> b]
  <2>1. /\ entry' = e /\ asked' = << fa, se >> /\ seen \subseteq seen'
        /\ facility_is_invalid(fa) \/ severity_is_invalid(se) => "unchecked" \in seen'
        /\ << >> \in {n, i} => "emptied" \in seen'
    BY <1>5 DEF unchecked_load_entry
  <2>2. Name(n) \in EntryName /\ Name(i) \in EntryName /\ <<>> \in EntryName
    <3>1. IsName(NULL)
      BY DEF IsName
    <3> QED
      BY <1>5, <3>1, NameIs
  <2>3. fa \in Int /\ se \in Int
    BY FieldsAssumption
  <2>4. entry' \in [prival : Int, app_name : EntryName, msgid : EntryName,
                    hostname : EntryName, procid : EntryName, message : Buffers \cup {NULL}]
    BY <2>1, <2>2, PrivalType
  <2>5. entry' # NULL /\ EntryMessage' = b
    <3>1. entry' \in stumpless_entry
      BY <2>4, NameType DEF stumpless_entry, Texts
    <3>2. entry' # NULL
      BY <3>1, FieldsAssumption
    <3> QED
      BY <2>1, <3>2 DEF EntryMessage
  <2>6. TypeInv'
    BY <1>0, <1>2, <1>5, <2>4, AllocateIs DEF TypeInv
  <2>7. OwnInv'
    <3>1. Owners(NULL, param, HeldBy, memory)
      BY <1>0 DEF FieldsInv, OwnInv, EntryMessage
    <3>2. HeldBy' = HeldBy
      BY <1>0 DEF HeldBy
    <3>3. CASE b = NULL
      <4>1. memory' = memory
        BY <1>0, <1>2, <1>5, <3>3, AllocateIs
      <4>2. Owners(EntryMessage', param', HeldBy', memory')
        BY <1>0, <2>5, <3>1, <3>2, <3>3, <4>1
      <4> QED
        BY <4>2 DEF OwnInv, Owners
    <3>4. CASE b # NULL
      <4>1. /\ b \in Buffers /\ memory[b] = NULL /\ memory'[b] # NULL
            /\ \A c \in Buffers : c # b => memory'[c] = memory[c]
        BY <1>0, <1>2, <1>5, <3>4, AllocateIs
      <4>2. Owners(EntryMessage', param', HeldBy', memory')
        BY <1>0, <2>5, <3>1, <3>2, <4>1, OwnNew, SMTT(60)
      <4> QED
        BY <4>2 DEF OwnInv, Owners
    <3> QED
      BY <3>3, <3>4
  <2>8. BuilderInv'
    BY <1>0, <2>1, BuilderSame DEF FieldsInv
  <2>9. EntryInv'
    <3>1. "emptied" \notin seen' => entry'.app_name # <<>> /\ entry'.msgid # <<>>
      BY <1>5, <2>1, NameIs
    <3>2. "unchecked" \notin seen' =>
            /\ entry'.prival \in 0..191
            /\ get_severity(entry'.prival) = asked'[2]
            /\ get_facility(entry'.prival) = asked'[1]
      BY <2>1, <2>3, PrivalParts
    <3> QED
      BY <3>1, <3>2 DEF EntryInv
  <2>10. ParamInv'
    BY <1>0, <1>1 DEF ParamInv
  <2> QED
    BY <1>3, <2>6, <2>7, <2>8, <2>9, <2>10 DEF FieldsInv
<1> QED
  BY <1>2, <1>4, <1>5

LEMMA UnloadEntryStep ==
  ASSUME FieldsInv, NEW t \in Threads, unchecked_unload_entry(t)
  PROVE  FieldsInv'
<1>0. /\ TypeInv /\ entry # NULL /\ param = NULL /\ entry' = NULL /\ memory' = Freed(entry.message)
      /\ UNCHANGED << param, builder, holder, frame, asked, seen >>
      /\ \A u \in Threads : frame[u] = Idle
  BY DEF FieldsInv, unchecked_unload_entry, AllIdle
<1>1. entry.message \in Buffers \cup {NULL} /\ EntryMessage = entry.message /\ EntryMessage' = NULL
  BY <1>0 DEF TypeInv, EntryMessage
<1>2. TypeInv'
  BY <1>0, <1>1, FreedIs DEF TypeInv
<1>3. OwnInv'
  <2>1. HeldBy' = HeldBy
    BY <1>0 DEF HeldBy
  <2>2. \A c \in Buffers : memory'[c] = IF c = entry.message THEN NULL ELSE memory[c]
    BY <1>0, <1>1, FreedIs
  <2>3. Owners(EntryMessage', param', HeldBy', memory')
    BY <1>0, <1>1, <2>1, <2>2, OwnFree, SMTT(60) DEF FieldsInv, OwnInv
  <2> QED
    BY <2>3 DEF OwnInv, Owners
<1>4. BuilderInv'
  BY <1>0, BuilderSame DEF FieldsInv
<1>5. EntryInv' /\ ParamInv'
  BY <1>0 DEF EntryInv, ParamInv
<1>6. FrameInv'
  BY <1>0, IdlePlaced DEF FrameInv
<1> QED
  BY <1>2, <1>3, <1>4, <1>5, <1>6 DEF FieldsInv

LEMMA AddParamStep ==
  ASSUME FieldsInv, NEW t \in Threads, NEW text \in Values, AddParam(t, text), seen \subseteq seen',
         "unvalidated" \notin seen' => validate_param_value(text)
  PROVE  FieldsInv'
<1>1. PICK b \in Buffers :
        /\ entry # NULL /\ param = NULL /\ (\A u \in Threads : frame[u] = Idle)
        /\ Allocate(text, b) /\ memory' = Written(b, text) /\ param' = b
        /\ UNCHANGED << entry, builder, holder, frame, asked >>
  BY DEF AddParam, AllIdle
<1>2. TypeInv /\ b # NULL
  BY FieldsAssumption DEF FieldsInv
<1>3. /\ memory' \in [Buffers -> Messages \cup Values \cup {NULL}]
      /\ memory[b] = NULL /\ memory'[b] # NULL /\ memory'[b] = text
      /\ \A c \in Buffers : c # b => memory'[c] = memory[c]
  BY <1>1, <1>2, AllocateIs
<1>4. TypeInv'
  BY <1>1, <1>2, <1>3 DEF TypeInv
<1>5. OwnInv'
  <2>1. HeldBy' = HeldBy /\ EntryMessage' = EntryMessage
    BY <1>1 DEF HeldBy, EntryMessage
  <2>2. Owners(EntryMessage', param', HeldBy', memory')
    BY <1>1, <1>3, <2>1, OwnNew, SMTT(60) DEF FieldsInv, OwnInv
  <2> QED
    BY <2>2 DEF OwnInv, Owners
<1>6. BuilderInv'
  BY <1>1, BuilderSame DEF FieldsInv
<1>7. EntryInv' /\ ParamInv'
  BY <1>1, <1>3, EntrySame DEF FieldsInv, ParamInv
<1>8. FrameInv'
  BY <1>1, IdlePlaced DEF FrameInv
<1> QED
  BY <1>4, <1>5, <1>6, <1>7, <1>8 DEF FieldsInv

LEMMA UnloadParamStep ==
  ASSUME FieldsInv, NEW t \in Threads, stumpless_unload_param(t)
  PROVE  FieldsInv'
<1>0. /\ TypeInv /\ param # NULL /\ param' = NULL /\ memory' = Freed(param)
      /\ UNCHANGED << entry, builder, holder, frame, asked, seen >>
      /\ \A u \in Threads : frame[u] = Idle
  BY DEF FieldsInv, stumpless_unload_param, AllIdle
<1>1. param \in Buffers \cup {NULL}
  BY <1>0 DEF TypeInv
<1>2. TypeInv'
  BY <1>0, <1>1, FreedIs DEF TypeInv
<1>3. OwnInv'
  <2>1. HeldBy' = HeldBy /\ EntryMessage' = EntryMessage
    BY <1>0 DEF HeldBy, EntryMessage
  <2>2. \A c \in Buffers : memory'[c] = IF c = param THEN NULL ELSE memory[c]
    BY <1>0, <1>1, FreedIs
  <2>3. Owners(EntryMessage, param, HeldBy, memory)
    BY DEF FieldsInv, OwnInv
  <2>4. Owners(EntryMessage, NULL, HeldBy, memory')
    BY <1>1, <2>2, <2>3, OwnFree, SMTT(60)
  <2>5. Owners(EntryMessage', param', HeldBy', memory')
    BY <1>0, <2>1, <2>4
  <2> QED
    BY <2>5 DEF OwnInv, Owners
<1>4. BuilderInv'
  BY <1>0, BuilderSame DEF FieldsInv
<1>5. EntryInv' /\ ParamInv'
  BY <1>0, EntrySame DEF FieldsInv, ParamInv
<1>6. FrameInv'
  BY <1>0, IdlePlaced DEF FrameInv
<1> QED
  BY <1>2, <1>3, <1>4, <1>5, <1>6 DEF FieldsInv

-----------------------------------------------------------------------------
(***************************************************************************)
(* Setting fields of the entry.                                            *)
(***************************************************************************)

\* A record of an entry with one field set.
StoredEntry ==
  [prival : Int, app_name : EntryName, msgid : EntryName, hostname : EntryName, procid : EntryName,
   message : Buffers \cup {NULL}]

\* What is stored is an entry.
LEMMA StoredIs ==
  ASSUME NEW e \in StoredEntry
  PROVE  e # NULL
<1>1. e \in stumpless_entry
  BY NameType DEF StoredEntry, stumpless_entry, Texts
<1> QED
  BY <1>1, FieldsAssumption

\* Everything but what EntryInv says of the field that is set.
LEMMA SetFieldStep ==
  ASSUME FieldsInv, NEW t \in Threads, NEW f \in {"prival"} \cup Fields, NEW value, SetField(t, f, value),
         seen \subseteq seen', IF f = "prival" THEN value \in Int ELSE value \in EntryName
  PROVE  /\ TypeInv' /\ OwnInv' /\ BuilderInv' /\ ParamInv' /\ FrameInv'
         /\ entry # NULL /\ entry \in StoredEntry /\ entry' = [entry EXCEPT ![f] = value]
<1>0. /\ TypeInv /\ entry # NULL /\ holder["entry"] = NULL /\ entry' = [entry EXCEPT ![f] = value]
      /\ UNCHANGED << param, memory, builder, holder, frame >>
  BY DEF FieldsInv, SetField, Free
<1>1. entry \in StoredEntry
  BY <1>0 DEF TypeInv, StoredEntry
<1>2. entry' \in StoredEntry /\ entry'.message = entry.message
  <2>1. CASE f = "prival"
    BY <1>0, <1>1, <2>1 DEF StoredEntry
  <2>2. CASE f # "prival"
    BY <1>0, <1>1, <2>2 DEF StoredEntry, Fields
  <2> QED
    BY <2>1, <2>2
<1>3. entry' # NULL
  BY <1>2, StoredIs
<1>4. TypeInv'
  BY <1>0, <1>2 DEF TypeInv, StoredEntry
<1>5. OwnInv'
  BY <1>0, <1>2, <1>3, OwnSame DEF FieldsInv, EntryMessage
<1>6. BuilderInv'
  BY <1>0, BuilderSame DEF FieldsInv
<1>7. ParamInv'
  BY <1>0, <1>3, ParamSame DEF FieldsInv
<1>8. FrameInv'
  <2> SUFFICES ASSUME NEW u \in Threads
               PROVE  Placed(u, frame[u])'
    BY DEF FrameInv
  <2>1. Placed(u, frame[u]) /\ u # NULL
    BY FieldsAssumption DEF FrameInv, FieldsInv
  <2> QED
    BY <1>0, <1>3, <2>1, PlacedSame
<1> QED
  BY <1>0, <1>1, <1>4, <1>5, <1>6, <1>7, <1>8

LEMMA SetNameStep ==
  ASSUME FieldsInv, NEW t \in Threads, stumpless_set_entry_app_name(t)
  PROVE  FieldsInv'
<1>1. PICK s \in Names \cup {NULL}, f \in {"app_name", "msgid"} :
        /\ IsName(s) /\ SetField(t, f, Name(s)) /\ asked' = asked
        /\ seen' = IF s = <<>> THEN seen \cup {"emptied"} ELSE seen
  BY DEF stumpless_set_entry_app_name
<1>2. seen \subseteq seen' /\ Name(s) \in EntryName
  BY <1>1, NameIs
<1>3. /\ TypeInv' /\ OwnInv' /\ BuilderInv' /\ ParamInv' /\ FrameInv'
      /\ entry # NULL /\ entry \in StoredEntry /\ entry' = [entry EXCEPT ![f] = Name(s)]
  BY <1>1, <1>2, SetFieldStep DEF Fields
<1>4. entry'.prival = entry.prival
  BY <1>3 DEF StoredEntry
<1>5. "emptied" \notin seen' => entry'.app_name # <<>> /\ entry'.msgid # <<>>
  <2>1. "emptied" \notin seen' => s # <<>> /\ "emptied" \notin seen
    BY <1>1
  <2>2. "emptied" \notin seen' => Name(s) # <<>> /\ entry.app_name # <<>> /\ entry.msgid # <<>>
    BY <1>1, <1>3, <2>1, NameIs DEF FieldsInv, EntryInv
  <2> QED
    BY <1>3, <2>2 DEF StoredEntry
<1>6. EntryInv'
  BY <1>1, <1>2, <1>3, <1>4, <1>5 DEF FieldsInv, EntryInv
<1> QED
  BY <1>3, <1>6 DEF FieldsInv

LEMMA SetHostnameStep ==
  ASSUME FieldsInv, NEW t \in Threads, stumpless_set_entry_hostname(t)
  PROVE  FieldsInv'
<1>1. PICK s \in Names \cup {NULL}, f \in {"hostname", "procid"} :
        /\ IsName(s) /\ SetField(t, f, IF s = NULL THEN <<>> ELSE s) /\ asked' = asked /\ seen' = seen
  BY DEF stumpless_set_entry_hostname
<1> DEFINE value == IF s = NULL THEN <<>> ELSE s
<1>2. value \in EntryName
  BY <1>1, NameIs
<1> HIDE DEF value
<1>3. SetField(t, f, value)
  BY <1>1 DEF value
<1>4. /\ TypeInv' /\ OwnInv' /\ BuilderInv' /\ ParamInv' /\ FrameInv'
      /\ entry # NULL /\ entry \in StoredEntry /\ entry' = [entry EXCEPT ![f] = value]
  BY <1>1, <1>2, <1>3, SetFieldStep DEF Fields
<1>5. entry'.prival = entry.prival /\ entry'.app_name = entry.app_name /\ entry'.msgid = entry.msgid
  BY <1>4 DEF StoredEntry
<1>6. EntryInv'
  BY <1>1, <1>4, <1>5 DEF FieldsInv, EntryInv
<1> QED
  BY <1>4, <1>6 DEF FieldsInv

\* A prival is set, from a facility and a severity that agree with what was asked.
LEMMA SetPrivalStep ==
  ASSUME FieldsInv, NEW t \in Threads, NEW fa \in Int, NEW se \in Int,
         SetField(t, "prival", get_prival(fa, se)), seen' = seen,
         "unchecked" \notin seen => /\ ~facility_is_invalid(fa) /\ ~severity_is_invalid(se)
                                    /\ asked' = << fa, se >>
  PROVE  FieldsInv'
<1> DEFINE p == get_prival(fa, se)
<1>1. p \in Int
  BY PrivalType
<1>2. "unchecked" \notin seen => /\ p \in 0..191 /\ get_severity(p) = asked'[2] /\ get_facility(p) = asked'[1]
  BY PrivalParts
<1> HIDE DEF p
<1>3. SetField(t, "prival", p)
  BY DEF p
<1>4. /\ TypeInv' /\ OwnInv' /\ BuilderInv' /\ ParamInv' /\ FrameInv'
      /\ entry # NULL /\ entry \in StoredEntry /\ entry' = [entry EXCEPT !["prival"] = p]
  BY <1>1, <1>3, SetFieldStep
<1>5. entry'.prival = p /\ entry'.app_name = entry.app_name /\ entry'.msgid = entry.msgid
  BY <1>4 DEF StoredEntry
<1>6. EntryInv'
  BY <1>2, <1>4, <1>5 DEF FieldsInv, EntryInv
<1> QED
  BY <1>4, <1>6 DEF FieldsInv

LEMMA SetFacilityStep ==
  ASSUME FieldsInv, NEW t \in Threads, stumpless_set_entry_facility(t)
  PROVE  FieldsInv'
<1>1. PICK fa \in Facilities :
        /\ ~facility_is_invalid(fa) /\ SetField(t, "prival", get_prival(fa, get_severity(entry.prival)))
        /\ asked' = << fa, asked[2] >> /\ seen' = seen
  BY DEF stumpless_set_entry_facility
<1>2. entry # NULL /\ entry.prival \in Int /\ fa \in Int
  BY <1>1, FieldsAssumption DEF SetField, FieldsInv, TypeInv
<1>3. get_severity(entry.prival) \in Int /\ ~severity_is_invalid(get_severity(entry.prival))
  BY <1>2, PartsType
<1>4. "unchecked" \notin seen => get_severity(entry.prival) = asked[2]
  BY <1>2 DEF FieldsInv, EntryInv
<1> QED
  BY <1>1, <1>2, <1>3, <1>4, SetPrivalStep

LEMMA SetSeverityStep ==
  ASSUME FieldsInv, NEW t \in Threads, stumpless_set_entry_severity(t)
  PROVE  FieldsInv'
<1>1. PICK se \in Severities :
        /\ ~severity_is_invalid(se) /\ SetField(t, "prival", get_prival(get_facility(entry.prival), se))
        /\ asked' = << asked[1], se >> /\ seen' = seen
  BY DEF stumpless_set_entry_severity
<1>2. entry # NULL /\ entry.prival \in Int /\ se \in Int
  BY <1>1, FieldsAssumption DEF SetField, FieldsInv, TypeInv
<1>3. get_facility(entry.prival) \in Int
  BY <1>2, PartsType
<1>4. "unchecked" \notin seen => /\ get_facility(entry.prival) = asked[1]
                                 /\ ~facility_is_invalid(get_facility(entry.prival))
  <2>1. \A p \in 0..191 : ~facility_is_invalid(8 * ((p % 256) \div 8))
    BY DEF facility_is_invalid
  <2>2. get_facility(entry.prival) = 8 * ((entry.prival % 256) \div 8)
    BY <1>2, PartsType
  <2> QED
    BY <1>2, <2>1, <2>2 DEF FieldsInv, EntryInv
<1> QED
  BY <1>1, <1>2, <1>3, <1>4, SetPrivalStep

LEMMA SetWholePrivalStep ==
  ASSUME FieldsInv, NEW t \in Threads, stumpless_set_entry_prival(t)
  PROVE  FieldsInv'
<1>1. PICK p \in Privals :
        /\ ~facility_is_invalid(get_facility(p)) /\ ~severity_is_invalid(get_severity(p))
        /\ SetField(t, "prival", get_prival(get_facility(p), get_severity(p)))
        /\ asked' = << ((p % 256) \div 8) * 8, p % 8 >> /\ seen' = seen
  BY DEF stumpless_set_entry_prival, stumpless_set_entry_priority
<1>2. p \in Int
  BY FieldsAssumption
<1>3. get_facility(p) \in Int /\ get_severity(p) \in Int
  BY <1>2, PartsType
<1>4. asked' = << get_facility(p), get_severity(p) >>
  <2>1. get_facility(p) = 8 * ((p % 256) \div 8) /\ get_severity(p) = p % 8
    BY <1>2, PartsType DEF get_severity
  <2>2. ((p % 256) \div 8) * 8 = 8 * ((p % 256) \div 8)
    BY <1>2
  <2> QED
    BY <1>1, <2>1, <2>2
<1> QED
  BY <1>1, <1>3, <1>4, SetPrivalStep

-----------------------------------------------------------------------------
(***************************************************************************)
(* Setting and reading the memory of messages and values.                  *)
(***************************************************************************)

\* Thread t, in a call f, sets what its call has; the others do not.
OneFrame(t, f) ==
  /\ frame'[t] = f /\ f \in Frame /\ frame' \in [Threads -> Frame]
  /\ \A u \in Threads : u # t => frame'[u] = frame[u]

\* The functions that the invariant is stated with, when the call of t has changed.
LEMMA OneFrameIs ==
  ASSUME TypeInv, NEW t \in Threads, NEW f, OneFrame(t, f)
  PROVE  /\ HeldBy'[t] = Held(f) /\ HeldBy[t] = Held(frame[t])
         /\ BuilderOf'[t] = f.builder /\ BuilderOf[t] = frame[t].builder
         /\ \A u \in Threads : u # t => HeldBy'[u] = HeldBy[u] /\ BuilderOf'[u] = BuilderOf[u]
BY DEF OneFrame, HeldBy, BuilderOf, Held

\* The buffer of an old message or value, or of a copy, is freed by the call.
LEMMA FreeHeld ==
  ASSUME FieldsInv, NEW t \in Threads, Held(frame[t]) = frame[t].buffer, memory' = Freed(frame[t].buffer),
         frame' = [frame EXCEPT ![t] = Idle], frame[t].builder = NULL,
         UNCHANGED << entry, param, builder, holder, asked, seen >>
  PROVE  FieldsInv'
<1> DEFINE b == frame[t].buffer
<1>0. TypeInv /\ b \in Buffers \cup {NULL} /\ Idle \in Frame
  BY DEF FieldsInv, TypeInv, Frame, Idle, Steps
<1>1. OneFrame(t, Idle)
  BY <1>0 DEF OneFrame, TypeInv
<1>2. \A c \in Buffers : memory'[c] = IF c = b THEN NULL ELSE memory[c]
  BY <1>0, FreedIs
<1>3. TypeInv'
  BY <1>0, <1>1, FreedIs DEF TypeInv, OneFrame
<1>4. EntryMessage' = EntryMessage
  BY DEF EntryMessage
<1>5. OwnInv'
  <2>1. HeldBy[t] = b /\ HeldBy'[t] = NULL /\ \A u \in Threads : u # t => HeldBy'[u] = HeldBy[u]
    BY <1>0, <1>1, OneFrameIs DEF Held, Idle
  <2>2. Owners(EntryMessage, param, HeldBy, memory)
    BY DEF FieldsInv, OwnInv
  <2>3. Owners(EntryMessage, param, HeldBy', memory')
    BY <1>0, <1>2, <2>1, <2>2, OwnFree, SMTT(60)
  <2> QED
    BY <1>4, <2>3 DEF OwnInv, Owners
<1>6. BuilderInv'
  <2>1. \A u \in Threads : frame'[u].builder = frame[u].builder
    BY <1>1 DEF OneFrame, Idle
  <2> QED
    BY <2>1, BuilderSame DEF FieldsInv
<1>7. EntryInv'
  BY EntrySame DEF FieldsInv
<1>8. /\ param # NULL => param # b
      /\ EntryMessage # NULL => EntryMessage # b
  BY <1>0, <1>1, OneFrameIs DEF FieldsInv, OwnInv, Owners
<1>9. ParamInv'
  <2>1. param # NULL => memory'[param] = memory[param] /\ entry' # NULL
    BY <1>0, <1>2, <1>8 DEF FieldsInv, TypeInv, ParamInv
  <2> QED
    BY <2>1, ParamSame DEF FieldsInv
<1>10. FrameInv'
  <2>1. Placed(t, frame[t])'
    BY <1>1, IdlePlaced DEF OneFrame
  <2>2. entry # NULL /\ entry.message # NULL => memory'[entry.message] = memory[entry.message]
    BY <1>0, <1>2, <1>8 DEF TypeInv, EntryMessage
  <2>3. \A u \in Threads : frame[u].step # "idle" => entry # NULL
    BY DEF FieldsInv, FrameInv, Placed
  <2> SUFFICES ASSUME NEW u \in Threads, u # t
               PROVE  Placed(u, frame[u])'
    BY <2>1 DEF FrameInv
  <2>4. Placed(u, frame[u]) /\ frame'[u] = frame[u]
    BY <1>1 DEF FieldsInv, FrameInv, OneFrame
  <2>5. CASE entry = NULL
    <3>1. frame'[u] = Idle
      BY <2>3, <2>4, <2>5 DEF Placed
    <3> QED
      BY <3>1, IdlePlaced
  <2>6. CASE entry # NULL
    BY <1>0, <2>2, <2>4, <2>6, PlacedSame
  <2> QED
    BY <2>5, <2>6
<1> QED
  BY <1>3, <1>5, <1>6, <1>7, <1>9, <1>10 DEF FieldsInv

LEMMA FreeOldStep ==
  ASSUME FieldsInv, NEW t \in Threads, FreeOld(t)
  PROVE  FieldsInv'
<1>1. /\ frame[t].step = "free" /\ memory' = Freed(frame[t].buffer) /\ frame' = [frame EXCEPT ![t] = Idle]
      /\ UNCHANGED << entry, param, builder, holder, asked, seen >>
  BY DEF FreeOld
<1>2. Held(frame[t]) = frame[t].buffer /\ frame[t].builder = NULL
  BY <1>1 DEF FieldsInv, FrameInv, Placed, Held
<1> QED
  BY <1>1, <1>2, FreeHeld

LEMMA DestroyCopyStep ==
  ASSUME FieldsInv, NEW t \in Threads, DestroyCopy(t)
  PROVE  FieldsInv'
<1>1. /\ frame[t].step = "copied" /\ memory' = Freed(frame[t].buffer) /\ frame' = [frame EXCEPT ![t] = Idle]
      /\ UNCHANGED << entry, param, builder, holder, asked, seen >>
  BY DEF DestroyCopy
<1>2. Held(frame[t]) = frame[t].buffer /\ frame[t].builder = NULL
  BY <1>1 DEF FieldsInv, FrameInv, Placed, Held
<1> QED
  BY <1>1, <1>2, FreeHeld

\* What a thread without a call has.
LEMMA IdleIs ==
  /\ Idle \in Frame /\ Idle.step = "idle" /\ Idle.mutex = NULL /\ Idle.buffer = NULL
  /\ Idle.builder = NULL /\ Idle.record = NULL /\ Idle.copy = NULL
BY DEF Idle, Frame, Steps

LEMMA FrameGoes ==
  ASSUME TypeInv, NEW t \in Threads, NEW g \in Frame, frame' = [frame EXCEPT ![t] = g]
  PROVE  OneFrame(t, g)
BY DEF OneFrame, TypeInv

\* A call sets a message or a value, and has the old one to free.
LEMMA FreeingFrame ==
  ASSUME TypeInv, NEW t \in Threads, frame[t] = Idle, NEW b \in Buffers \cup {NULL},
         frame' = [frame EXCEPT ![t].step = "free", ![t].buffer = b]
  PROVE  \E g : OneFrame(t, g) /\ g.step = "free" /\ g.builder = NULL /\ Held(g) = b
<1> DEFINE f == frame[t]
           g == [f EXCEPT !.step = "free", !.buffer = b]
<1>1. frame' = [frame EXCEPT ![t] = g]
  OBVIOUS
<1>2. f \in Frame /\ f.builder = NULL /\ "free" \in Steps
  BY IdleIs DEF Steps
<1> HIDE DEF f
<1>3. g \in Frame
  BY <1>2 DEF Frame
<1>4. g.step = "free" /\ g.buffer = b /\ g.builder = NULL
  BY <1>2 DEF Frame
<1> HIDE DEF g
<1>5. OneFrame(t, g) /\ Held(g) = b
  BY <1>1, <1>3, <1>4, FrameGoes DEF Held
<1> QED
  BY <1>4, <1>5

LEMMA SetMessageStep ==
  ASSUME FieldsInv, NEW t \in Threads, stumpless_set_entry_message(t)
  PROVE  FieldsInv'
<1>1. PICK text \in Messages \cup {NULL}, b \in Buffers \cup {NULL} :
        /\ frame[t] = Idle /\ entry # NULL /\ Allocate(text, b) /\ holder["entry"] = NULL
        /\ memory' = Written(b, text) /\ entry' = [entry EXCEPT !.message = b]
        /\ frame' = [frame EXCEPT ![t].step = "free", ![t].buffer = entry.message]
        /\ UNCHANGED << param, builder, holder, asked, seen >>
  BY DEF stumpless_set_entry_message, Call, Free
<1>0. TypeInv
  BY DEF FieldsInv
<1>2. entry \in StoredEntry
  BY <1>0, <1>1 DEF TypeInv, StoredEntry
<1>3. /\ entry' \in StoredEntry /\ entry'.message = b /\ entry'.prival = entry.prival
      /\ entry'.app_name = entry.app_name /\ entry'.msgid = entry.msgid
      /\ entry.message \in Buffers \cup {NULL}
  BY <1>1, <1>2 DEF StoredEntry
<1>4. entry' # NULL /\ EntryMessage = entry.message /\ EntryMessage' = b
  BY <1>1, <1>3, StoredIs DEF EntryMessage
<1>5. PICK g : OneFrame(t, g) /\ g.step = "free" /\ g.builder = NULL /\ Held(g) = entry.message
  BY <1>0, <1>1, <1>3, FreeingFrame
<1>6. /\ memory' \in [Buffers -> Messages \cup Values \cup {NULL}]
      /\ b = NULL => memory' = memory
      /\ b # NULL => /\ b \in Buffers /\ memory[b] = NULL /\ memory'[b] # NULL
                     /\ \A c \in Buffers : c # b => memory'[c] = memory[c]
  BY <1>0, <1>1, AllocateIs
<1>7. TypeInv'
  BY <1>0, <1>1, <1>3, <1>5, <1>6 DEF TypeInv, OneFrame, StoredEntry
<1>8. OwnInv'
  <2>1. /\ HeldBy[t] = NULL /\ HeldBy'[t] = EntryMessage
        /\ \A u \in Threads : u # t => HeldBy'[u] = HeldBy[u]
    BY <1>0, <1>1, <1>4, <1>5, OneFrameIs, IdleIs DEF Held
  <2>2. Owners(EntryMessage, param, HeldBy, memory)
    BY DEF FieldsInv, OwnInv
  <2>3. Owners(NULL, param, HeldBy', memory)
    BY <2>1, <2>2, OwnTake, SMTT(60)
  <2>4. Owners(b, param, HeldBy', memory')
    <3>1. CASE b = NULL
      BY <1>6, <2>3, <3>1
    <3>2. CASE b # NULL
      BY <1>6, <2>3, <3>2, OwnNew, SMTT(60)
    <3> QED
      BY <3>1, <3>2
  <2>5. Owners(EntryMessage', param', HeldBy', memory')
    BY <1>1, <1>4, <2>4
  <2> QED
    BY <2>5 DEF OwnInv, Owners
<1>9. BuilderInv'
  <2>1. \A u \in Threads : frame'[u].builder = frame[u].builder
    BY <1>1, <1>5, IdleIs DEF OneFrame
  <2> QED
    BY <1>1, <2>1, BuilderSame DEF FieldsInv
<1>10. EntryInv'
  BY <1>1, <1>3 DEF FieldsInv, EntryInv
<1>11. ParamInv'
  <2>1. param # NULL => memory[param] # NULL /\ param \in Buffers
    BY <1>0 DEF FieldsInv, OwnInv, Owners, TypeInv
  <2>2. param # NULL => memory'[param] = memory[param]
    BY <1>6, <2>1
  <2> QED
    BY <1>1, <1>4, <2>2, ParamSame DEF FieldsInv
<1>12. FrameInv'
  <2>1. Placed(t, frame[t])'
    BY <1>4, <1>5 DEF Placed, OneFrame, Locked
  <2> QED
    BY <1>0, <1>1, <1>4, <1>5, <2>1, FramesKept DEF FieldsInv, OneFrame
<1> QED
  BY <1>7, <1>8, <1>9, <1>10, <1>11, <1>12 DEF FieldsInv

LEMMA SetValueStep ==
  ASSUME FieldsInv, NEW t \in Threads, stumpless_set_param_value(t)
  PROVE  FieldsInv'
<1>1. PICK text \in Values, b \in Buffers :
        /\ frame[t] = Idle /\ param # NULL /\ validate_param_value(text) /\ Allocate(text, b)
        /\ holder["param"] = NULL /\ memory' = Written(b, text) /\ param' = b
        /\ frame' = [frame EXCEPT ![t].step = "free", ![t].buffer = param]
        /\ seen' = IF \E u \in Threads : frame[u].step = "value" THEN seen \cup {"revalued"} ELSE seen
        /\ UNCHANGED << entry, builder, holder, asked >>
  BY DEF stumpless_set_param_value, Call, Free
<1>0. TypeInv /\ entry # NULL /\ b # NULL /\ seen \subseteq seen'
  BY <1>1, FieldsAssumption DEF FieldsInv, ParamInv
<1>2. param \in Buffers \cup {NULL} /\ EntryMessage' = EntryMessage
  BY <1>0, <1>1 DEF TypeInv, EntryMessage
<1>3. PICK g : OneFrame(t, g) /\ g.step = "free" /\ g.builder = NULL /\ Held(g) = param
  BY <1>0, <1>1, <1>2, FreeingFrame
<1>4. /\ memory' \in [Buffers -> Messages \cup Values \cup {NULL}]
      /\ memory[b] = NULL /\ memory'[b] # NULL /\ memory'[b] = text
      /\ \A c \in Buffers : c # b => memory'[c] = memory[c]
  BY <1>0, <1>1, AllocateIs
<1>5. TypeInv'
  BY <1>0, <1>1, <1>3, <1>4 DEF TypeInv, OneFrame
<1>6. OwnInv'
  <2>1. /\ HeldBy[t] = NULL /\ HeldBy'[t] = param
        /\ \A u \in Threads : u # t => HeldBy'[u] = HeldBy[u]
    BY <1>0, <1>1, <1>3, OneFrameIs, IdleIs DEF Held
  <2>2. Owners(EntryMessage, param, HeldBy, memory)
    BY DEF FieldsInv, OwnInv
  <2>3. Owners(EntryMessage, NULL, HeldBy', memory)
    BY <2>1, <2>2, OwnTake, SMTT(60)
  <2>4. Owners(EntryMessage, b, HeldBy', memory')
    <3>1. \A u \in Threads : u # t => HeldBy'[u] = HeldBy'[u]
      OBVIOUS
    <3>2. memory[b] = NULL /\ memory'[b] # NULL /\ \A c \in Buffers : c # b => memory'[c] = memory[c]
      BY <1>4
    <3> QED
      BY <2>3, <3>1, <3>2, OwnNew, SMTT(60)
  <2>5. Owners(EntryMessage', param', HeldBy', memory')
    BY <1>1, <1>2, <2>4
  <2> QED
    BY <2>5 DEF OwnInv, Owners
<1>7. BuilderInv'
  <2>1. \A u \in Threads : frame'[u].builder = frame[u].builder
    BY <1>1, <1>3, IdleIs DEF OneFrame
  <2> QED
    BY <1>0, <1>1, <2>1, BuilderSame DEF FieldsInv
<1>8. EntryInv'
  BY <1>0, <1>1, EntrySame DEF FieldsInv
<1>9. ParamInv'
  BY <1>0, <1>1, <1>4 DEF ParamInv
<1>10. FrameInv'
  <2>1. Placed(t, frame[t])'
    <3>1. entry' # NULL /\ frame'[t] = g
      BY <1>0, <1>1, <1>3 DEF OneFrame
    <3> QED
      BY <1>3, <3>1 DEF Placed, Locked
  <2>2. entry.message # NULL => memory'[entry.message] = memory[entry.message]
    <3>1. entry.message # NULL => entry.message \in Buffers /\ memory[entry.message] # NULL
      BY <1>0 DEF FieldsInv, OwnInv, Owners, TypeInv, EntryMessage
    <3> QED
      BY <1>4, <3>1
  <2>3. \A u \in Threads : frame[u].step = "value" => "revalued" \in seen'
    BY <1>1
  <2> QED
    BY <1>0, <1>1, <1>3, <2>1, <2>2, <2>3, FramesKept DEF FieldsInv, OneFrame
<1> QED
  BY <1>5, <1>6, <1>7, <1>8, <1>9, <1>10 DEF FieldsInv

\* A call goes on, and may take or give back a mutex or a builder.
LEMMA FrameStep ==
  ASSUME FieldsInv, NEW t \in Threads, NEW g, OneFrame(t, g), Held(g) = Held(frame[t]),
         UNCHANGED << entry, param, memory, asked >>, seen \subseteq seen',
         builder' \in [Builders -> strbuilder], BuilderInv',
         holder' \in [{"entry", "param"} -> Threads \cup {NULL}], Placed(t, frame[t])',
         \A m \in {"entry", "param"} : holder'[m] = holder[m] \/ holder[m] = NULL \/ holder[m] = t
  PROVE  FieldsInv'
<1>1. TypeInv'
  BY DEF FieldsInv, TypeInv, OneFrame
<1>2. OwnInv'
  <2>1. \A u \in Threads : Held(frame'[u]) = Held(frame[u])
    BY DEF OneFrame
  <2>2. EntryMessage' = EntryMessage
    BY DEF EntryMessage
  <2> QED
    BY <2>1, <2>2, OwnSame DEF FieldsInv
<1>3. EntryInv'
  BY EntrySame DEF FieldsInv
<1>4. ParamInv'
  BY ParamSame DEF FieldsInv, ParamInv
<1>5. FrameInv'
  <2>1. \A u \in Threads : frame[u].step # "idle" => entry # NULL
    BY DEF FieldsInv, FrameInv, Placed
  <2> QED
    BY <2>1, FramesKept DEF FieldsInv, OneFrame
<1> QED
  BY <1>1, <1>2, <1>3, <1>4, <1>5 DEF FieldsInv

\* A call goes on with the builder it has.
LEMMA FrameOnly ==
  ASSUME FieldsInv, NEW t \in Threads, NEW g, OneFrame(t, g), Held(g) = Held(frame[t]),
         g.builder = frame[t].builder, UNCHANGED << entry, param, memory, builder, asked, seen >>,
         holder' \in [{"entry", "param"} -> Threads \cup {NULL}], Placed(t, frame[t])',
         \A m \in {"entry", "param"} : holder'[m] = holder[m] \/ holder[m] = NULL \/ holder[m] = t
  PROVE  FieldsInv'
<1>1. \A u \in Threads : frame'[u].builder = frame[u].builder
  BY DEF OneFrame
<1>2. BuilderInv' /\ builder' \in [Builders -> strbuilder]
  BY <1>1, BuilderSame DEF FieldsInv, TypeInv
<1> QED
  BY <1>2, FrameStep

LEMMA ReadStep ==
  ASSUME FieldsInv, NEW t \in Threads, NEW m \in {"entry", "param"}, NEW b, Read(t, m, b),
         entry # NULL, b = (IF m = "entry" THEN entry.message ELSE param)
  PROVE  FieldsInv'
<1>0. /\ TypeInv /\ frame[t] = Idle /\ holder[m] = NULL /\ b # NULL /\ holder' = [holder EXCEPT ![m] = t]
      /\ frame' = [frame EXCEPT ![t].step = "read", ![t].mutex = m, ![t].buffer = b]
      /\ UNCHANGED << entry, param, memory, builder, asked, seen >>
  BY DEF Read, Call, Free, FieldsInv
<1>1. b \in Buffers \cup {NULL}
  BY <1>0 DEF TypeInv
<1> DEFINE f == frame[t]
           g == [f EXCEPT !.step = "read", !.mutex = m, !.buffer = b]
<1>2. frame' = [frame EXCEPT ![t] = g]
  BY <1>0
<1>3. f \in Frame /\ f.builder = NULL /\ f.step = "idle" /\ "read" \in Steps
  BY <1>0, IdleIs DEF Steps
<1> HIDE DEF f
<1>4. g \in Frame
  BY <1>1, <1>3 DEF Frame
<1>5. g.step = "read" /\ g.mutex = m /\ g.buffer = b /\ g.builder = NULL
  BY <1>3 DEF Frame
<1> HIDE DEF g
<1>6. OneFrame(t, g)
  BY <1>0, <1>2, <1>4, FrameGoes
<1>8. Placed(t, frame[t])'
  <2>1. holder'[m] = t /\ entry' = entry /\ param' = param /\ frame'[t] = g
    BY <1>0, <1>6 DEF TypeInv, OneFrame
  <2> QED
    BY <1>0, <1>5, <2>1 DEF Placed, Locked
<1>9. Held(g) = Held(frame[t]) /\ g.builder = frame[t].builder
  BY <1>3, <1>5 DEF Held, f
<1>10. /\ holder' \in [{"entry", "param"} -> Threads \cup {NULL}]
       /\ \A x \in {"entry", "param"} : holder'[x] = holder[x] \/ holder[x] = NULL \/ holder[x] = t
  BY <1>0 DEF TypeInv
<1> QED
  BY <1>0, <1>6, <1>8, <1>9, <1>10, FrameOnly

LEMMA ReadMessageStep ==
  ASSUME FieldsInv, NEW t \in Threads, stumpless_get_entry_message(t)
  PROVE  FieldsInv'
BY ReadStep DEF stumpless_get_entry_message

LEMMA ReadValueStep ==
  ASSUME FieldsInv, NEW t \in Threads, stumpless_get_param_value(t)
  PROVE  FieldsInv'
<1>1. Read(t, "param", param) /\ param # NULL
  BY DEF stumpless_get_param_value, Read
<1>2. entry # NULL
  BY <1>1 DEF FieldsInv, ParamInv
<1> QED
  BY <1>1, <1>2, ReadStep

LEMMA CopyOutStep ==
  ASSUME FieldsInv, NEW t \in Threads, CopyOut(t)
  PROVE  FieldsInv'
<1>0. /\ TypeInv /\ frame[t].step = "read" /\ holder' = [holder EXCEPT ![frame[t].mutex] = NULL]
      /\ frame' = [frame EXCEPT ![t] = Idle] /\ UNCHANGED << entry, param, memory, builder, asked, seen >>
  BY DEF CopyOut, FieldsInv
<1>1. OneFrame(t, Idle)
  BY <1>0, IdleIs, FrameGoes
<1>2. holder[frame[t].mutex] = t /\ frame[t].builder = NULL
  BY <1>0 DEF FieldsInv, FrameInv, Placed
<1>3. Held(Idle) = Held(frame[t]) /\ Idle.builder = frame[t].builder
  BY <1>0, <1>2, IdleIs DEF Held
<1>4. Placed(t, frame[t])'
  BY <1>1, IdlePlaced DEF OneFrame
<1>5. /\ holder' \in [{"entry", "param"} -> Threads \cup {NULL}]
      /\ \A x \in {"entry", "param"} : holder'[x] = holder[x] \/ holder[x] = NULL \/ holder[x] = t
  BY <1>0, <1>2 DEF TypeInv
<1> QED
  BY <1>0, <1>1, <1>3, <1>4, <1>5, FrameOnly

\* The text of an entry that is allocated.
LEMMA MessageType ==
  ASSUME FieldsInv, entry # NULL
  PROVE  (IF entry.message = NULL THEN NULL ELSE memory[entry.message]) \in Texts \cup {NULL}
<1>1. entry.message # NULL => memory[entry.message] \in Messages \cup Values \cup {NULL}
  BY DEF FieldsInv, TypeInv
<1> QED
  BY <1>1, FieldsAssumption DEF Texts

LEMMA CopyEntryStep ==
  ASSUME FieldsInv, NEW t \in Threads, stumpless_copy_entry(t)
  PROVE  FieldsInv'
<1> DEFINE message == IF entry.message = NULL THEN NULL ELSE memory[entry.message]
<1>1. PICK text \in Messages \cup {NULL}, b \in Buffers \cup {NULL} :
        /\ frame[t] = Idle /\ entry # NULL /\ holder["entry"] = NULL
        /\ text = message \/ (message # NULL /\ text # NULL /\ 37 \in ToSet(message))
        /\ Allocate(text, b) /\ memory' = Written(b, text)
        /\ frame' = [frame EXCEPT ![t].step = "copied", ![t].buffer = b,
                      ![t].record = [entry EXCEPT !.message = message],
                      ![t].copy = CopyOf(entry, text)]
        /\ UNCHANGED << entry, param, builder, holder, asked, seen >>
  BY DEF stumpless_copy_entry, Call, Free
<1>0. TypeInv /\ message \in Texts \cup {NULL} /\ text \in Texts \cup {NULL}
  BY <1>1, MessageType, FieldsAssumption DEF FieldsInv, Texts
<1> HIDE DEF message
<1> DEFINE f == frame[t]
           r == [entry EXCEPT !.message = message]
           c == CopyOf(entry, text)
           g == [f EXCEPT !.step = "copied", !.buffer = b, !.record = r, !.copy = c]
<1>2. frame' = [frame EXCEPT ![t] = g]
  BY <1>1
<1>3. f \in Frame /\ f.builder = NULL /\ f.step = "idle" /\ "copied" \in Steps
  BY <1>1, IdleIs DEF Steps
<1>4. entry \in StoredEntry /\ <<>> \in EntryName
  <2>1. IsName(NULL)
    BY DEF IsName
  <2> QED
    BY <1>0, <1>1, <2>1, NameIs DEF TypeInv, StoredEntry
<1>5. r \in EntryCopy /\ r.prival = entry.prival /\ r.app_name = entry.app_name /\ r.msgid = entry.msgid /\ r.message = message
  BY <1>0, <1>4 DEF StoredEntry, EntryCopy
<1>6. /\ c \in EntryCopy /\ c.prival = entry.prival % 256 /\ c.app_name = entry.app_name /\ c.msgid = entry.msgid
      /\ c.message = text
  <2> DEFINE p == get_prival(get_facility(entry.prival), get_severity(entry.prival))
  <2>1. p = entry.prival % 256 /\ entry.prival % 256 \in Int
    <3>1. entry.prival \in Int
      BY <1>4 DEF StoredEntry
    <3> QED
      BY <3>1, PartsType
  <2>2. c = [entry EXCEPT !.prival = p, !.hostname = <<>>, !.procid = <<>>, !.message = text]
    BY DEF CopyOf
  <2> HIDE DEF p, c
  <2> QED
    <3>1. c \in EntryCopy
      <4> DEFINE none == <<>>
      <4>1. c = [entry EXCEPT !.prival = p, !.hostname = none, !.procid = none, !.message = text]
        BY <2>2
      <4>2. none \in EntryName
        BY <1>4
      <4> HIDE DEF none
      <4> QED
        BY <1>0, <1>4, <2>1, <4>1, <4>2 DEF StoredEntry, EntryCopy
    <3>2. c.prival = p /\ c.app_name = entry.app_name /\ c.msgid = entry.msgid /\ c.message = text
      BY <1>4, <2>2 DEF StoredEntry
    <3> QED
      BY <2>1, <3>1, <3>2
<1> HIDE DEF f, r, c
<1>7. g \in Frame
  BY <1>3, <1>5, <1>6 DEF Frame
<1>8. g.step = "copied" /\ g.buffer = b /\ g.builder = NULL /\ g.record = r /\ g.copy = c
  BY <1>3 DEF Frame
<1> HIDE DEF g
<1>9. OneFrame(t, g) /\ Held(g) = b /\ Held(f) = NULL
  BY <1>0, <1>2, <1>3, <1>7, <1>8, FrameGoes DEF Held
<1>10. /\ memory' \in [Buffers -> Messages \cup Values \cup {NULL}]
       /\ b = NULL => memory' = memory
       /\ b # NULL => /\ b \in Buffers /\ memory[b] = NULL /\ memory'[b] # NULL
                      /\ \A x \in Buffers : x # b => memory'[x] = memory[x]
  BY <1>0, <1>1, AllocateIs
<1>11. TypeInv'
  BY <1>0, <1>1, <1>9, <1>10 DEF TypeInv, OneFrame
<1>12. OwnInv'
  <2>1. /\ HeldBy[t] = NULL /\ HeldBy'[t] = b
        /\ \A u \in Threads : u # t => HeldBy'[u] = HeldBy[u]
    BY <1>0, <1>9, OneFrameIs DEF f
  <2>2. Owners(EntryMessage, param, HeldBy, memory)
    BY DEF FieldsInv, OwnInv
  <2>3. Owners(EntryMessage, param, HeldBy', memory')
    <3>1. CASE b = NULL
      <4>1. \A u \in Threads : HeldBy'[u] = HeldBy[u]
        BY <2>1, <3>1
      <4>2. memory' = memory
        BY <1>10, <3>1
      <4> QED
        BY <2>2, <4>1, <4>2 DEF Owners
    <3>2. CASE b # NULL
      BY <1>10, <2>1, <2>2, <3>2, OwnNew, SMTT(60)
    <3> QED
      BY <3>1, <3>2
  <2>4. EntryMessage' = EntryMessage /\ param' = param
    BY <1>1 DEF EntryMessage
  <2>5. Owners(EntryMessage', param', HeldBy', memory')
    BY <2>3, <2>4
  <2> QED
    BY <2>5 DEF OwnInv, Owners
<1>13. BuilderInv'
  <2>1. \A u \in Threads : frame'[u].builder = frame[u].builder
    BY <1>3, <1>8, <1>9 DEF OneFrame, f
  <2> QED
    BY <1>1, <2>1, BuilderSame DEF FieldsInv
<1>14. EntryInv'
  BY <1>1, EntrySame DEF FieldsInv
<1>15. /\ param # NULL => memory'[param] = memory[param]
       /\ entry.message # NULL => memory'[entry.message] = memory[entry.message]
  <2>1. /\ param # NULL => param \in Buffers /\ memory[param] # NULL
        /\ entry.message # NULL => entry.message \in Buffers /\ memory[entry.message] # NULL
    BY <1>0, <1>1 DEF FieldsInv, OwnInv, Owners, TypeInv, EntryMessage
  <2> QED
    BY <1>10, <2>1
<1>16. ParamInv'
  BY <1>1, <1>15, ParamSame DEF FieldsInv
<1>17. FrameInv'
  <2>1. Copied(g)
    BY <1>1, <1>5, <1>6, <1>8 DEF Copied
  <2>2. Placed(t, frame[t])'
    <3>1. frame'[t] = g /\ entry' # NULL
      BY <1>1, <1>9 DEF OneFrame
    <3> QED
      BY <1>8, <2>1, <3>1 DEF Placed, Locked
  <2> QED
    BY <1>0, <1>1, <1>9, <1>15, <2>2, FramesKept DEF FieldsInv, OneFrame
<1> QED
  BY <1>11, <1>12, <1>13, <1>14, <1>16, <1>17 DEF FieldsInv

-----------------------------------------------------------------------------
(***************************************************************************)
(* Steps on string builders.                                               *)
(***************************************************************************)

\* The call of t goes on with builder b, once only b has changed or none.
LEMMA BuilderOne ==
  ASSUME FieldsInv, NEW t \in Threads, NEW g, OneFrame(t, g), NEW b \in Builders, NEW x \in strbuilder,
         Fits(x), builder' = [builder EXCEPT ![b] = x], seen \subseteq seen', x.state = "lost" => "lost" \in seen',
         \/ builder[b].state # "out" /\ x.state = "out" /\ frame[t].builder = NULL /\ g.builder = b
         \/ x.state # "out" /\ frame[t].builder = b /\ g.builder = NULL
         \/ x.state = "out" /\ frame[t].builder = b /\ g.builder = b
  PROVE  BuilderInv' /\ builder' \in [Builders -> strbuilder]
<1>0. TypeInv /\ builder \in [Builders -> strbuilder]
  BY DEF FieldsInv, TypeInv
<1>1. builder'[b] = x /\ \A c \in Builders : c # b => builder'[c] = builder[c]
  BY <1>0
<1>2. /\ BuilderOf'[t] = g.builder /\ BuilderOf[t] = frame[t].builder
      /\ \A u \in Threads : u # t => BuilderOf'[u] = BuilderOf[u]
  BY <1>0, OneFrameIs
<1>3. Lent(BuilderOf, builder)
  BY DEF FieldsInv, BuilderInv
<1>4. \A c \in Builders : c # NULL
  BY FieldsAssumption
<1>5. Lent(BuilderOf', builder')
  <2>1. CASE builder[b].state # "out" /\ x.state = "out" /\ frame[t].builder = NULL /\ g.builder = b
    <3>1. \A c \in Builders : c # b => (builder'[c].state = "out" <=> builder[c].state = "out")
      BY <1>1
    <3>2. builder[b].state # "out" /\ builder'[b].state = "out" /\ BuilderOf[t] = NULL /\ BuilderOf'[t] = b
      BY <1>1, <1>2, <2>1
    <3> QED
      BY <1>2, <1>3, <3>1, <1>4, <3>2 DEF Lent
  <2>2. CASE x.state # "out" /\ frame[t].builder = b /\ g.builder = NULL
    <3>1. \A c \in Builders : c # b => (builder'[c].state = "out" <=> builder[c].state = "out")
      BY <1>1
    <3>2. builder'[b].state # "out" /\ BuilderOf[t] = b /\ BuilderOf'[t] = NULL
      BY <1>1, <1>2, <2>2
    <3> QED
      BY <1>2, <1>3, <3>1, <1>4, <3>2 DEF Lent
  <2>3. CASE x.state = "out" /\ frame[t].builder = b /\ g.builder = b
    <3>1. \A u \in Threads : BuilderOf'[u] = BuilderOf[u]
      BY <1>2, <2>3
    <3>2. builder[b].state = "out"
      BY <1>2, <1>3, <2>3 DEF Lent
    <3>3. \A c \in Builders : builder'[c].state = "out" <=> builder[c].state = "out"
      BY <1>1, <2>3, <3>2
    <3> QED
      BY <1>3, <3>1, <3>3 DEF Lent
  <2> QED
    BY <2>1, <2>2, <2>3
<1>6. \A c \in Builders : Fits(builder'[c]) /\ (builder'[c].state = "lost" => "lost" \in seen')
  BY <1>1 DEF FieldsInv, BuilderInv
<1>7. BuilderInv'
  <2>1. Lent(BuilderOf, builder)'
    BY <1>5 DEF Lent
  <2> QED
    BY <1>6, <2>1 DEF BuilderInv, Fits
<1> QED
  BY <1>0, <1>7

\* No builder changes, and the call keeps having none, or the one it has.
LEMMA BuilderNone ==
  ASSUME FieldsInv, NEW t \in Threads, NEW g, OneFrame(t, g), g.builder = frame[t].builder,
         UNCHANGED builder, seen \subseteq seen'
  PROVE  BuilderInv' /\ builder' \in [Builders -> strbuilder]
<1>1. \A u \in Threads : frame'[u].builder = frame[u].builder
  BY DEF OneFrame
<1> QED
  BY <1>1, BuilderSame DEF FieldsInv, TypeInv

\* A builder that a call has is out, and can take more.
LEMMA BuilderHad ==
  ASSUME FieldsInv, NEW t \in Threads, frame[t].builder # NULL
  PROVE  /\ frame[t].builder \in Builders /\ builder[frame[t].builder] \in strbuilder
         /\ builder[frame[t].builder].state = "out"
         /\ builder[frame[t].builder].used <= builder[frame[t].builder].size
         /\ builder[frame[t].builder].size > 0
<1>1. frame[t].builder \in Builders /\ builder \in [Builders -> strbuilder]
  BY DEF FieldsInv, TypeInv, Frame
<1>2. builder[frame[t].builder].state = "out"
  BY <1>1 DEF FieldsInv, BuilderInv, Lent, BuilderOf
<1> QED
  BY <1>1, <1>2 DEF FieldsInv, BuilderInv, Fits

\* strbuilder_new, which may give none.
LEMMA NewBuilderStep ==
  ASSUME FieldsInv, NEW t \in Threads, NEW g, OneFrame(t, g), NEW b \in Builders \cup {NULL}, NewBuilder(b),
         frame[t].builder = NULL, g.builder = b, seen' = seen
  PROVE  BuilderInv' /\ builder' \in [Builders -> strbuilder]
<1>1. CASE b = NULL
  BY <1>1, BuilderNone DEF NewBuilder
<1>2. CASE b # NULL
  <2> DEFINE x == [size |-> IF builder[b].size = 0 THEN PageSize ELSE builder[b].size, used |-> 0, state |-> "out"]
  <2>1. b \in Builders /\ builder[b].state = "cached" /\ builder' = [builder EXCEPT ![b] = x]
    BY <1>2 DEF NewBuilder, strbuilder_new
  <2>2. builder[b] \in strbuilder
    BY <2>1 DEF FieldsInv, TypeInv
  <2>3. x \in strbuilder /\ x.state = "out" /\ Fits(x)
    BY <2>2, FieldsAssumption DEF strbuilder, Fits
  <2> HIDE DEF x
  <2>4. builder[b].state # "out" /\ x.state # "lost"
    BY <2>1, <2>3
  <2> QED
    BY <2>1, <2>3, <2>4, BuilderOne
<1> QED
  BY <1>1, <1>2

\* An append, which may fail, and lose the builder.
LEMMA AppendedStep ==
  ASSUME FieldsInv, NEW t \in Threads, NEW g, OneFrame(t, g), NEW n \in Nat,
         NEW b \in Builders \cup {NULL}, Appended(frame[t].builder, n, b), g.builder = b,
         seen' = IF frame[t].builder # b THEN seen \cup {"lost"} ELSE seen
  PROVE  BuilderInv' /\ builder' \in [Builders -> strbuilder]
<1> DEFINE o == frame[t].builder
<1>0. seen \subseteq seen' /\ (o # b => "lost" \in seen')
  OBVIOUS
<1>1. CASE o = NULL /\ b = NULL /\ UNCHANGED builder
  BY <1>0, <1>1, BuilderNone
<1>2. CASE o # NULL /\ b = o /\ builder' = [builder EXCEPT ![o] = strbuilder_append_buffer(@, n)]
  <2>1. /\ o \in Builders /\ builder[o] \in strbuilder /\ builder[o].state = "out"
        /\ builder[o].used <= builder[o].size /\ builder[o].size > 0
    BY <1>2, BuilderHad
  <2> DEFINE x == strbuilder_append_buffer(builder[o], n)
  <2>2. x \in strbuilder /\ x.used <= x.size /\ x.size > 0 /\ x.state = "out"
    BY <2>1, AppendFits
  <2>3. builder' = [builder EXCEPT ![o] = x]
    BY <1>2
  <2> HIDE DEF x
  <2>4. Fits(x) /\ x.state # "lost"
    BY <2>2 DEF Fits
  <2> QED
    <3>1. x.state = "lost" => "lost" \in seen'
      BY <2>4
    <3>2. x.state = "out" /\ frame[t].builder = o /\ g.builder = o
      BY <1>2, <2>2
    <3> QED
      BY <1>0, <2>1, <2>2, <2>3, <2>4, <3>1, <3>2, BuilderOne
<1>3. CASE o # NULL /\ b = NULL /\ builder' = [builder EXCEPT ![o].state = "lost"]
  <2>1. /\ o \in Builders /\ builder[o] \in strbuilder /\ builder[o].used <= builder[o].size
    BY <1>3, BuilderHad
  <2> DEFINE x == [builder[o] EXCEPT !.state = "lost"]
  <2>2. x \in strbuilder /\ x.state = "lost" /\ Fits(x)
    BY <2>1 DEF strbuilder, Fits
  <2>3. builder' = [builder EXCEPT ![o] = x]
    BY <1>3
  <2> HIDE DEF x
  <2> QED
    BY <1>0, <1>3, <2>1, <2>2, <2>3, BuilderOne
<1> QED
  BY <1>1, <1>2, <1>3 DEF Appended

\* A call that ends gives its builder back.
LEMMA ReturnedStep ==
  ASSUME FieldsInv, NEW t \in Threads, OneFrame(t, Idle), seen' = seen, frame[t].builder # NULL,
         NEW x \in strbuilder, x.used <= x.size, x.state = "cached",
         builder' = [builder EXCEPT ![frame[t].builder] = x]
  PROVE  BuilderInv' /\ builder' \in [Builders -> strbuilder]
<1>1. frame[t].builder \in Builders
  BY BuilderHad
<1>2. Fits(x) /\ x.state # "lost" /\ x.state # "out"
  BY DEF Fits
<1> QED
  BY <1>1, <1>2, IdleIs, BuilderOne

-----------------------------------------------------------------------------
(***************************************************************************)
(* Reading fields and formatting.                                          *)
(***************************************************************************)

LEMMA GetHostnameStep ==
  ASSUME FieldsInv, NEW t \in Threads, stumpless_get_entry_hostname(t)
  PROVE  FieldsInv'
<1>1. PICK b \in Builders \cup {NULL} :
        /\ frame[t] = Idle /\ entry # NULL /\ NewBuilder(b)
        /\ frame' = [frame EXCEPT ![t].step = "field", ![t].builder = b]
        /\ UNCHANGED << entry, param, memory, holder, asked, seen >>
  BY DEF stumpless_get_entry_hostname, Call
<1>0. TypeInv
  BY DEF FieldsInv
<1> DEFINE f == frame[t]
           g == [f EXCEPT !.step = "field", !.builder = b]
<1>2. frame' = [frame EXCEPT ![t] = g]
  BY <1>1
<1>3. f \in Frame /\ f.builder = NULL /\ f.step = "idle" /\ "field" \in Steps
  BY <1>1, IdleIs DEF Steps
<1> HIDE DEF f
<1>4. g \in Frame
  BY <1>3 DEF Frame
<1>5. g.step = "field" /\ g.builder = b
  BY <1>3 DEF Frame
<1> HIDE DEF g
<1>6. OneFrame(t, g) /\ Held(g) = Held(frame[t]) /\ frame'[t] = g
  BY <1>0, <1>2, <1>3, <1>4, <1>5, FrameGoes DEF Held, OneFrame, f
<1>7. BuilderInv' /\ builder' \in [Builders -> strbuilder]
  BY <1>1, <1>3, <1>5, <1>6, NewBuilderStep DEF f
<1>8. Placed(t, frame[t])'
  BY <1>1, <1>5, <1>6 DEF Placed, Locked
<1>9. holder' \in [{"entry", "param"} -> Threads \cup {NULL}]
  BY <1>0, <1>1 DEF TypeInv
<1> QED
  BY <1>1, <1>6, <1>7, <1>8, <1>9, FrameStep

LEMMA FieldToStringStep ==
  ASSUME FieldsInv, NEW t \in Threads, FieldToString(t)
  PROVE  FieldsInv'
<1> DEFINE b == frame[t].builder
<1>1. PICK n \in {0, Len(entry.hostname), Len(entry.procid), Len(Host), Len(Pid)} :
        /\ frame[t].step = "field" /\ frame' = [frame EXCEPT ![t] = Idle]
        /\ IF b = NULL THEN UNCHANGED builder
           ELSE builder' = [builder EXCEPT ![b] = [strbuilder_append_buffer(@, n) EXCEPT !.state = "cached"]]
        /\ UNCHANGED << entry, param, memory, holder, asked, seen >>
  BY DEF FieldToString
<1>0. TypeInv /\ entry # NULL
  BY <1>1 DEF FieldsInv, FrameInv, Placed
<1>2. n \in Nat
  <2>1. Len(entry.hostname) \in Nat /\ Len(entry.procid) \in Nat
    BY <1>0, NameType DEF TypeInv
  <2>2. Len(Host) \in Nat /\ Len(Pid) \in Nat
    BY FieldsAssumption
  <2> QED
    BY <2>1, <2>2
<1>3. OneFrame(t, Idle) /\ Held(Idle) = Held(frame[t])
  BY <1>0, <1>1, FrameGoes, IdleIs DEF Held
<1>4. BuilderInv' /\ builder' \in [Builders -> strbuilder]
  <2>1. CASE b = NULL
    BY <1>1, <1>3, <2>1, BuilderNone, IdleIs
  <2>2. CASE b # NULL
    <3>1. /\ b \in Builders /\ builder[b] \in strbuilder /\ builder[b].used <= builder[b].size
          /\ builder[b].size > 0
      BY <2>2, BuilderHad
    <3> DEFINE y == strbuilder_append_buffer(builder[b], n)
               x == [y EXCEPT !.state = "cached"]
    <3>2. y \in strbuilder /\ y.used <= y.size
      BY <1>2, <3>1, AppendFits
    <3>3. builder' = [builder EXCEPT ![b] = x]
      BY <1>1, <2>2
    <3> HIDE DEF y
    <3>4. x \in strbuilder /\ x.used <= x.size /\ x.state = "cached"
      BY <3>2 DEF strbuilder
    <3> HIDE DEF x
    <3> QED
      BY <1>1, <1>3, <2>2, <3>3, <3>4, ReturnedStep
  <2> QED
    BY <2>1, <2>2
<1>5. Placed(t, frame[t])'
  BY <1>3, IdlePlaced DEF OneFrame
<1>6. holder' \in [{"entry", "param"} -> Threads \cup {NULL}]
  BY <1>0, <1>1 DEF TypeInv
<1> QED
  BY <1>1, <1>3, <1>4, <1>5, <1>6, FrameStep

LEMMA DeliverStep ==
  ASSUME FieldsInv, NEW t \in Threads, Deliver(t)
  PROVE  FieldsInv'
<1> DEFINE b == frame[t].builder
<1>1. /\ frame[t].step = "deliver" /\ frame' = [frame EXCEPT ![t] = Idle]
      /\ IF b = NULL THEN UNCHANGED builder ELSE builder' = [builder EXCEPT ![b].state = "cached"]
      /\ UNCHANGED << entry, param, memory, holder, asked, seen >>
  BY DEF Deliver, strbuilder_destroy
<1>0. TypeInv
  BY DEF FieldsInv
<1>2. OneFrame(t, Idle) /\ Held(Idle) = Held(frame[t])
  BY <1>0, <1>1, FrameGoes, IdleIs DEF Held
<1>3. BuilderInv' /\ builder' \in [Builders -> strbuilder]
  <2>1. CASE b = NULL
    BY <1>1, <1>2, <2>1, BuilderNone, IdleIs
  <2>2. CASE b # NULL
    <3>1. b \in Builders /\ builder[b] \in strbuilder /\ builder[b].used <= builder[b].size
      BY <2>2, BuilderHad
    <3> DEFINE x == [builder[b] EXCEPT !.state = "cached"]
    <3>2. builder' = [builder EXCEPT ![b] = x]
      BY <1>1, <2>2
    <3>3. x \in strbuilder /\ x.used <= x.size /\ x.state = "cached"
      BY <3>1 DEF strbuilder
    <3> HIDE DEF x
    <3> QED
      BY <1>1, <1>2, <2>2, <3>2, <3>3, ReturnedStep
  <2> QED
    BY <2>1, <2>2
<1>4. Placed(t, frame[t])'
  BY <1>2, IdlePlaced DEF OneFrame
<1>5. holder' \in [{"entry", "param"} -> Threads \cup {NULL}]
  BY <1>0, <1>1 DEF TypeInv
<1> QED
  BY <1>1, <1>2, <1>3, <1>4, <1>5, FrameStep

LEMMA FormatStep ==
  ASSUME FieldsInv, NEW t \in Threads, format_entry(t)
  PROVE  FieldsInv'
<1>1. PICK b \in Builders \cup {NULL} :
        /\ frame[t] = Idle /\ entry # NULL /\ holder["entry"] = NULL /\ NewBuilder(b)
        /\ holder' = [holder EXCEPT !["entry"] = t]
        /\ frame' = [frame EXCEPT ![t].step = "header", ![t].builder = b]
        /\ UNCHANGED << entry, param, memory, asked, seen >>
  BY DEF format_entry, Call, Free
<1>0. TypeInv
  BY DEF FieldsInv
<1> DEFINE f == frame[t]
           g == [f EXCEPT !.step = "header", !.builder = b]
<1>2. frame' = [frame EXCEPT ![t] = g]
  BY <1>1
<1>3. f \in Frame /\ f.builder = NULL /\ f.step = "idle" /\ "header" \in Steps
  BY <1>1, IdleIs DEF Steps
<1> HIDE DEF f
<1>4. g \in Frame
  BY <1>3 DEF Frame
<1>5. g.step = "header" /\ g.builder = b
  BY <1>3 DEF Frame
<1> HIDE DEF g
<1>6. OneFrame(t, g) /\ Held(g) = Held(frame[t]) /\ frame'[t] = g
  BY <1>0, <1>2, <1>3, <1>4, <1>5, FrameGoes DEF Held, OneFrame, f
<1>7. BuilderInv' /\ builder' \in [Builders -> strbuilder]
  BY <1>1, <1>3, <1>5, <1>6, NewBuilderStep DEF f
<1>8. /\ holder' \in [{"entry", "param"} -> Threads \cup {NULL}] /\ holder'["entry"] = t
      /\ \A m \in {"entry", "param"} : holder'[m] = holder[m] \/ holder[m] = NULL \/ holder[m] = t
  BY <1>0, <1>1 DEF TypeInv
<1>9. Placed(t, frame[t])'
  BY <1>1, <1>5, <1>6, <1>8 DEF Placed, Locked
<1> QED
  BY <1>1, <1>6, <1>7, <1>8, <1>9, FrameStep

LEMMA UnlockStep ==
  ASSUME FieldsInv, NEW t \in Threads, FormatUnlock(t)
  PROVE  FieldsInv'
<1>0. /\ TypeInv /\ frame[t].step = "formatted" /\ holder' = [holder EXCEPT !["entry"] = NULL]
      /\ frame' = [frame EXCEPT ![t].step = "deliver", ![t].record = NULL]
      /\ UNCHANGED << entry, param, memory, builder, asked, seen >>
  BY DEF FormatUnlock, FieldsInv
<1> DEFINE f == frame[t]
           g == [f EXCEPT !.step = "deliver", !.record = NULL]
<1>1. frame' = [frame EXCEPT ![t] = g]
  BY <1>0
<1>2. f \in Frame /\ f.step = "formatted" /\ "deliver" \in Steps
  BY <1>0 DEF TypeInv, Steps
<1>3. holder["entry"] = t /\ entry # NULL
  BY <1>0 DEF FieldsInv, FrameInv, Placed, Locked
<1> HIDE DEF f
<1>4. g \in Frame
  BY <1>2 DEF Frame
<1>5. g.step = "deliver" /\ g.builder = f.builder
  BY <1>2 DEF Frame
<1> HIDE DEF g
<1>6. OneFrame(t, g) /\ Held(g) = Held(frame[t]) /\ g.builder = frame[t].builder /\ frame'[t] = g
  BY <1>0, <1>1, <1>2, <1>4, <1>5, FrameGoes DEF Held, OneFrame, f
<1>7. Placed(t, frame[t])'
  BY <1>0, <1>3, <1>5, <1>6 DEF Placed, Locked
<1>8. /\ holder' \in [{"entry", "param"} -> Threads \cup {NULL}]
      /\ \A m \in {"entry", "param"} : holder'[m] = holder[m] \/ holder[m] = NULL \/ holder[m] = t
  BY <1>0, <1>3 DEF TypeInv
<1> QED
  BY <1>0, <1>6, <1>7, <1>8, FrameOnly

LEMMA NineFinite == IsFiniteSet(1..9)
<1>1. 1 \in Int /\ 9 \in Int
  OBVIOUS
<1> QED
  BY <1>1, FS_Interval, Zenon

\* The header that is made of an entry agrees with it, and is printable.
LEMMA HeaderIs ==
  ASSUME FieldsInv, entry # NULL, NEW r \in Headers
  PROVE  AsEntry(r) /\ r.value = NULL /\ r.message = NULL /\ HeaderSize(r) \in Nat
<1>1. PICK h \in IF entry.hostname # <<>> THEN {entry.hostname} ELSE {Host, RFC_5424_NILVALUE},
           i \in {RFC_5424_NILVALUE, IF entry.procid # <<>> THEN entry.procid ELSE Pid} :
        r = [prival |-> entry.prival, hostname |-> h, app_name |-> entry.app_name, procid |-> i,
             msgid |-> entry.msgid, value |-> NULL, message |-> NULL]
  BY DEF Headers
<1>2. entry \in StoredEntry
  BY DEF FieldsInv, TypeInv, StoredEntry
<1>3. /\ RFC_5424_NILVALUE \in Texts /\ validate_printable_ascii(RFC_5424_NILVALUE) /\ RFC_5424_NILVALUE # <<>>
      /\ Host \in Texts /\ validate_printable_ascii(Host) /\ Host # <<>>
      /\ Pid \in Texts /\ validate_printable_ascii(Pid) /\ Pid # <<>>
  <2>1. IsName(NULL)
    BY DEF IsName
  <2>2. Name(NULL) \in EntryName
    BY <2>1, NameIs
  <2>3. RFC_5424_NILVALUE # <<>>
    BY DEF RFC_5424_NILVALUE
  <2> QED
    BY <2>2, <2>3, NameType, FieldsAssumption DEF Name, Texts
<1>4. /\ entry.hostname \in Texts /\ validate_printable_ascii(entry.hostname)
      /\ entry.procid \in Texts /\ validate_printable_ascii(entry.procid)
      /\ entry.app_name \in EntryName /\ entry.msgid \in EntryName /\ entry.prival \in Int
  BY <1>2, NameType DEF StoredEntry
<1>5. /\ h \in Texts /\ validate_printable_ascii(h) /\ h # <<>>
      /\ i \in Texts /\ validate_printable_ascii(i) /\ i # <<>>
      /\ entry.hostname # <<>> => h = entry.hostname
      /\ entry.procid # <<>> => i \in {entry.procid, RFC_5424_NILVALUE}
  BY <1>3, <1>4
<1>6. r \in Header
  BY <1>1, <1>4, <1>5 DEF Header
<1>7. /\ r.prival = entry.prival /\ r.hostname = h /\ r.app_name = entry.app_name /\ r.procid = i
      /\ r.msgid = entry.msgid /\ r.value = NULL /\ r.message = NULL
  BY <1>1
<1>8. AsEntry(r)
  <2>1. \A f \in {"hostname", "procid"} : validate_printable_ascii(r[f]) /\ r[f] # <<>>
    BY <1>5, <1>7
  <2> QED
    BY <1>5, <1>6, <1>7, <2>1 DEF AsEntry
<1>9. HeaderSize(r) \in Nat
  <2>1. Digits(r.prival) \in Nat
    <3> DEFINE S == {k \in 1..9 : 10^k <= (IF r.prival < 0 THEN -r.prival ELSE r.prival)}
    <3>1. IsFiniteSet(1..9)
      BY NineFinite
    <3>2. S \subseteq 1..9
      OBVIOUS
    <3> HIDE DEF S
    <3>3. Cardinality(S) \in Nat
      BY <3>1, <3>2, FS_Subset, FS_CardinalityType
    <3>4. Digits(r.prival) = 1 + Cardinality(S)
      BY Zenon DEF Digits, S
    <3> QED
      BY <3>3, <3>4
  <2>2. Len(r.hostname) \in Nat /\ Len(r.procid) \in Nat
    BY <1>5, <1>7 DEF Texts
  <2>3. Len(r.app_name) \in Nat /\ Len(r.msgid) \in Nat
    BY <1>4, <1>7, NameType
  <2>4. FixedSize \in Nat
    BY FieldsAssumption
  <2> DEFINE a == Digits(r.prival)
             b == Len(r.hostname)
             c == Len(r.app_name)
             d == Len(r.procid)
             e == Len(r.msgid)
  <2>5. HeaderSize(r) = FixedSize + a + b + c + d + e
    BY Zenon DEF HeaderSize
  <2>6. a \in Nat /\ b \in Nat /\ c \in Nat /\ d \in Nat /\ e \in Nat
    BY <2>1, <2>2, <2>3
  <2> HIDE DEF a, b, c, d, e
  <2> QED
    BY <2>4, <2>5, <2>6
<1> QED
  BY <1>7, <1>8, <1>9

LEMMA HeaderStep ==
  ASSUME FieldsInv, NEW t \in Threads, strbuilder_append_app_name(t)
  PROVE  FieldsInv'
<1>1. PICK r \in Headers, b \in Builders \cup {NULL} :
        /\ frame[t].step = "header" /\ Appended(frame[t].builder, HeaderSize(r), b)
        /\ frame' = [frame EXCEPT ![t].builder = b, ![t].record = r, ![t].buffer = param,
                                  ![t].step = IF param = NULL THEN "message" ELSE "value"]
        /\ seen' = IF frame[t].builder # b THEN seen \cup {"lost"} ELSE seen
        /\ UNCHANGED << entry, param, memory, holder, asked >>
  BY DEF strbuilder_append_app_name
<1>0. TypeInv /\ holder["entry"] = t /\ entry # NULL
  BY <1>1 DEF FieldsInv, FrameInv, Placed, Locked
<1>2. AsEntry(r) /\ r.value = NULL /\ r.message = NULL /\ HeaderSize(r) \in Nat /\ r \in Header
  BY <1>0, HeaderIs DEF AsEntry
<1> DEFINE f == frame[t]
           s == IF param = NULL THEN "message" ELSE "value"
           g == [f EXCEPT !.builder = b, !.record = r, !.buffer = param, !.step = s]
<1>3. frame' = [frame EXCEPT ![t] = g]
  BY <1>1
<1>4. f \in Frame /\ f.step = "header" /\ s \in Steps /\ param \in Buffers \cup {NULL}
  BY <1>0, <1>1 DEF TypeInv, Steps
<1>5. s \in {"message", "value"} /\ (s = "value" => param # NULL)
  OBVIOUS
<1> HIDE DEF f, s
<1>6. g \in Frame
  BY <1>2, <1>4 DEF Frame
<1>7. g.step = s /\ g.builder = b /\ g.record = r /\ g.buffer = param
  BY <1>4 DEF Frame
<1> HIDE DEF g
<1>8. OneFrame(t, g) /\ Held(g) = Held(frame[t]) /\ frame'[t] = g
  BY <1>0, <1>3, <1>4, <1>5, <1>6, <1>7, FrameGoes DEF Held, OneFrame, f
<1>9. BuilderInv' /\ builder' \in [Builders -> strbuilder]
  BY <1>1, <1>2, <1>7, <1>8, AppendedStep
<1>10. Placed(t, frame[t])'
  <2>1. AsEntry(r)' /\ ValueValid(r)'
    BY <1>1, <1>2 DEF AsEntry, ValueValid
  <2>2. entry' # NULL /\ holder'["entry"] = t /\ param' = param
    BY <1>0, <1>1
  <2> QED
    BY <1>2, <1>5, <1>7, <1>8, <2>1, <2>2 DEF Placed, Locked
<1>11. holder' \in [{"entry", "param"} -> Threads \cup {NULL}]
  BY <1>0, <1>1 DEF TypeInv
<1> QED
  BY <1>1, <1>8, <1>9, <1>10, <1>11, FrameStep

LEMMA ValueStep ==
  ASSUME FieldsInv, NEW t \in Threads, strbuilder_append_structured_data(t)
  PROVE  FieldsInv'
<1>1. PICK b \in Builders \cup {NULL}, text \in Values :
        /\ frame[t].step = "value"
        /\ memory[frame[t].buffer] # NULL => text = memory[frame[t].buffer]
        /\ Appended(frame[t].builder, Len(text), b)
        /\ frame' = [frame EXCEPT ![t].builder = b, ![t].record.value = text,
                                  ![t].buffer = entry.message, ![t].step = "message"]
        /\ seen' = IF frame[t].builder # b THEN seen \cup {"lost"} ELSE seen
        /\ UNCHANGED << entry, param, memory, holder, asked >>
  BY DEF strbuilder_append_structured_data
<1>0. /\ TypeInv /\ holder["entry"] = t /\ entry # NULL /\ AsEntry(frame[t].record)
      /\ frame[t].buffer # NULL /\ ("revalued" \notin seen => frame[t].buffer = param)
  BY <1>1 DEF FieldsInv, FrameInv, Placed, Locked
<1>2. text \in Texts /\ Len(text) \in Nat
  BY FieldsAssumption DEF Texts
<1>15. PICK r : r = [frame[t].record EXCEPT !.value = text]
  OBVIOUS
<1> DEFINE f == frame[t]
           o == f.record
           g == [f EXCEPT !.builder = b, !.record = r, !.buffer = entry.message, !.step = "message"]
<1>3. frame' = [frame EXCEPT ![t] = g]
  BY <1>1, <1>15
<1>16. r = [o EXCEPT !.value = text]
  BY <1>15
<1>4. /\ f \in Frame /\ f.step = "value" /\ "message" \in Steps /\ entry.message \in Buffers \cup {NULL}
      /\ o \in Header
  BY <1>0, <1>1 DEF TypeInv, Steps, AsEntry
<1> HIDE DEF o
<1>5. /\ r \in Header /\ r.value = text /\ r.prival = o.prival /\ r.hostname = o.hostname
      /\ r.app_name = o.app_name /\ r.procid = o.procid /\ r.msgid = o.msgid
  BY <1>2, <1>4, <1>16 DEF Header
<1> HIDE DEF f
<1>6. g \in Frame
  BY <1>4, <1>5 DEF Frame
<1>7. g.step = "message" /\ g.builder = b /\ g.record = r
  BY <1>4 DEF Frame
<1> HIDE DEF g
<1>8. OneFrame(t, g) /\ Held(g) = Held(frame[t]) /\ frame'[t] = g
  BY <1>0, <1>3, <1>4, <1>6, <1>7, FrameGoes DEF Held, OneFrame, f
<1>9. BuilderInv' /\ builder' \in [Builders -> strbuilder]
  BY <1>1, <1>2, <1>7, <1>8, AppendedStep
<1>10. AsEntry(r)'
  <2>1. \A x \in {"hostname", "procid"} : r[x] = o[x]
    BY <1>5
  <2>2. AsEntry(o)
    BY <1>0 DEF o, f
  <2>3. AsEntry(r)
    BY <1>5, <2>1, <2>2 DEF AsEntry
  <2> QED
    BY <1>1, <2>3 DEF AsEntry
<1>11. ValueValid(r)'
  <2> SUFFICES ASSUME seen' \cap {"unvalidated", "revalued"} = {}
               PROVE  validate_param_value(text)
    BY <1>5 DEF ValueValid
  <2>1. "unvalidated" \notin seen /\ "revalued" \notin seen
    BY <1>1
  <2>2. frame[t].buffer = param /\ param # NULL /\ param \in Buffers
    BY <1>0, <2>1 DEF TypeInv
  <2>3. memory[param] # NULL
    BY <2>2 DEF FieldsInv, OwnInv, Owners
  <2>4. validate_param_value(memory[param])
    BY <2>1, <2>2 DEF FieldsInv, ParamInv
  <2> QED
    BY <1>1, <2>2, <2>3, <2>4
<1>12. Placed(t, frame[t])'
  <2>1. entry' # NULL /\ holder'["entry"] = t
    BY <1>0, <1>1
  <2> QED
    BY <1>7, <1>8, <1>10, <1>11, <2>1 DEF Placed, Locked
<1>13. holder' \in [{"entry", "param"} -> Threads \cup {NULL}]
  BY <1>0, <1>1 DEF TypeInv
<1> QED
  BY <1>1, <1>8, <1>9, <1>12, <1>13, FrameStep

LEMMA MessageStep ==
  ASSUME FieldsInv, NEW t \in Threads, strbuilder_append_message(t)
  PROVE  FieldsInv'
<1>1. PICK b \in Builders \cup {NULL} :
        /\ frame[t].step = "message" /\ Appended(frame[t].builder, Len(Message), b)
        /\ frame' = [frame EXCEPT ![t].builder = b, ![t].record.message = Message,
                                  ![t].buffer = NULL, ![t].step = "formatted"]
        /\ seen' = IF frame[t].builder # b THEN seen \cup {"lost"} ELSE seen
        /\ UNCHANGED << entry, param, memory, holder, asked >>
  BY DEF strbuilder_append_message, Message
<1>0. TypeInv /\ holder["entry"] = t /\ entry # NULL /\ AsEntry(frame[t].record) /\ ValueValid(frame[t].record)
  BY <1>1 DEF FieldsInv, FrameInv, Placed, Locked
<1> DEFINE text == Message
<1>2. text \in Texts /\ Len(text) \in Nat
  <2>1. CASE entry.message = NULL
    BY <2>1 DEF Message, Texts
  <2>2. CASE entry.message # NULL
    <3>1. entry.message \in Buffers /\ memory[entry.message] # NULL
      BY <1>0, <2>2 DEF FieldsInv, OwnInv, Owners, TypeInv, EntryMessage
    <3>2. memory[entry.message] \in Texts
      BY <1>0, <2>2, <3>1, MessageType
    <3> QED
      BY <2>2, <3>2 DEF Message, Texts
  <2> QED
    BY <2>1, <2>2
<1>15. PICK r : r = [frame[t].record EXCEPT !.message = Message]
  OBVIOUS
<1> DEFINE f == frame[t]
           o == f.record
           g == [f EXCEPT !.builder = b, !.record = r, !.buffer = NULL, !.step = "formatted"]
<1>3. frame' = [frame EXCEPT ![t] = g]
  BY <1>1, <1>15
<1>16. r = [o EXCEPT !.message = text]
  BY <1>15
<1>4. f \in Frame /\ f.step = "message" /\ "formatted" \in Steps /\ o \in Header
  BY <1>0, <1>1 DEF TypeInv, Steps, AsEntry
<1> HIDE DEF o, text
<1>5. /\ r \in Header /\ r.message = text /\ r.value = o.value /\ r.prival = o.prival /\ r.hostname = o.hostname
      /\ r.app_name = o.app_name /\ r.procid = o.procid /\ r.msgid = o.msgid
  BY <1>2, <1>4, <1>16 DEF Header
<1> HIDE DEF f
<1>6. g \in Frame
  BY <1>4, <1>5 DEF Frame
<1>7. g.step = "formatted" /\ g.builder = b /\ g.record = r
  BY <1>4 DEF Frame
<1> HIDE DEF g
<1>8. OneFrame(t, g) /\ Held(g) = Held(frame[t]) /\ frame'[t] = g
  BY <1>0, <1>3, <1>4, <1>6, <1>7, FrameGoes DEF Held, OneFrame, f
<1>9. BuilderInv' /\ builder' \in [Builders -> strbuilder]
  BY <1>1, <1>2, <1>7, <1>8, AppendedStep DEF text
<1>10. AsEntry(r)'
  <2>1. \A x \in {"hostname", "procid"} : r[x] = o[x]
    BY <1>5
  <2>2. AsEntry(o)
    BY <1>0 DEF o, f
  <2>3. AsEntry(r)
    BY <1>5, <2>1, <2>2 DEF AsEntry
  <2> QED
    BY <1>1, <2>3 DEF AsEntry
<1>11. ValueValid(r)'
  <2>1. ValueValid(o) /\ seen \subseteq seen'
    BY <1>0, <1>1 DEF o, f
  <2> QED
    BY <1>5, <2>1 DEF ValueValid
<1>12. r.message = Message'
  BY <1>1, <1>5 DEF text, Message
<1>13. Placed(t, frame[t])'
  <2>1. entry' # NULL /\ holder'["entry"] = t
    BY <1>0, <1>1
  <2> QED
    BY <1>7, <1>8, <1>10, <1>11, <1>12, <2>1 DEF Placed, Locked
<1>14. holder' \in [{"entry", "param"} -> Threads \cup {NULL}]
  BY <1>0, <1>1 DEF TypeInv
<1> QED
  BY <1>1, <1>8, <1>9, <1>13, <1>14, FrameStep

\* Every step keeps the invariant.
LEMMA FieldsStep ==
  ASSUME FieldsInv, [Next]_vars
  PROVE  FieldsInv'
<1>1. CASE UNCHANGED vars
  BY <1>1, FieldsStutter
<1>2. ASSUME NEW t \in Threads,
             \/ stumpless_new_entry(t) \/ unchecked_unload_entry(t)
             \/ stumpless_new_param(t) \/ stumpless_load_param(t) \/ stumpless_unload_param(t)
      PROVE  FieldsInv'
  <2>1. CASE stumpless_new_entry(t)
    BY <2>1, NewEntryStep
  <2>2. CASE unchecked_unload_entry(t)
    BY <2>2, UnloadEntryStep
  <2>3. CASE stumpless_new_param(t)
    <3>1. PICK text \in Values : validate_param_value(text) /\ AddParam(t, text) /\ UNCHANGED seen
      BY <2>3 DEF stumpless_new_param
    <3> QED
      BY <3>1, AddParamStep
  <2>4. CASE stumpless_load_param(t)
    <3>1. PICK text \in Values : AddParam(t, text) /\ seen' = seen \cup {"unvalidated"}
      BY <2>4 DEF stumpless_load_param
    <3> QED
      BY <3>1, AddParamStep
  <2>5. CASE stumpless_unload_param(t)
    BY <2>5, UnloadParamStep
  <2> QED
    BY <1>2, <2>1, <2>2, <2>3, <2>4, <2>5
<1>3. ASSUME NEW t \in Threads,
             \/ stumpless_set_entry_app_name(t) \/ stumpless_set_entry_hostname(t)
             \/ stumpless_set_entry_facility(t) \/ stumpless_set_entry_severity(t)
             \/ stumpless_set_entry_prival(t)
             \/ stumpless_set_entry_message(t) \/ stumpless_set_param_value(t) \/ FreeOld(t)
      PROVE  FieldsInv'
  BY <1>3, SetNameStep, SetHostnameStep, SetFacilityStep, SetSeverityStep, SetWholePrivalStep,
     SetMessageStep, SetValueStep, FreeOldStep
<1>4. ASSUME NEW t \in Threads,
             \/ stumpless_get_entry_message(t) \/ stumpless_get_param_value(t) \/ CopyOut(t)
             \/ stumpless_copy_entry(t) \/ DestroyCopy(t)
             \/ stumpless_get_entry_hostname(t) \/ FieldToString(t)
      PROVE  FieldsInv'
  BY <1>4, ReadMessageStep, ReadValueStep, CopyOutStep, CopyEntryStep, DestroyCopyStep, GetHostnameStep,
     FieldToStringStep
<1>5. ASSUME NEW t \in Threads,
             \/ format_entry(t) \/ strbuilder_append_app_name(t) \/ strbuilder_append_structured_data(t)
             \/ strbuilder_append_message(t) \/ FormatUnlock(t) \/ Deliver(t)
      PROVE  FieldsInv'
  BY <1>5, FormatStep, HeaderStep, ValueStep, MessageStep, UnlockStep, DeliverStep
<1> QED
  BY <1>1, <1>2, <1>3, <1>4, <1>5 DEF Next

-----------------------------------------------------------------------------
(***************************************************************************)
(* What the invariant says of texts and builders.                          *)
(***************************************************************************)

\* How many of the calls have one thing, if no two of them have the same.
LEMMA OneHas ==
  ASSUME NEW S, \A t, u \in S : t = u
  PROVE  Cardinality(S) = IF S = {} THEN 0 ELSE 1
<1>1. CASE S = {}
  BY <1>1, FS_EmptySet
<1>2. ASSUME NEW t \in S
      PROVE  Cardinality(S) = 1
  <2>1. S = {t}
    BY <1>2
  <2> QED
    BY <2>1, FS_Singleton
<1> QED
  BY <1>1, <1>2

LEMMA TypesHold ==
  ASSUME FieldsInv
  PROVE  TypeOK
<1>1. TypeInv
  BY DEF FieldsInv
<1>2. ASSUME entry # NULL
      PROVE  /\ entry \in stumpless_entry
             /\ \A f \in {"app_name", "msgid", "hostname", "procid"} :
                  entry[f] \in Names \cup {RFC_5424_NILVALUE, <<>>} /\ Len(entry[f]) <= MaxName
  <2>1. entry \in StoredEntry
    BY <1>1, <1>2 DEF TypeInv, StoredEntry
  <2>2. \A s \in EntryName : s \in Seq(0..255) /\ Len(s) <= MaxName
                             /\ s \in Names \cup {RFC_5424_NILVALUE, <<>>}
    BY NameType DEF Texts, EntryName
  <2>3. \A f \in {"app_name", "msgid", "hostname", "procid"} : entry[f] \in EntryName
    BY <2>1 DEF StoredEntry
  <2>4. entry \in stumpless_entry
    BY <2>1, <2>2 DEF StoredEntry, stumpless_entry
  <2> QED
    BY <2>2, <2>3, <2>4
<1> QED
  BY <1>1, <1>2 DEF TypeInv, TypeOK

LEMMA BuffersAreOwned ==
  ASSUME FieldsInv
  PROVE  BuffersOwned
<1> SUFFICES ASSUME NEW b \in Buffers
             PROVE  Cardinality({t \in Threads : frame[t].step \in {"free", "copied"} /\ frame[t].buffer = b})
                      + (IF entry # NULL /\ entry.message = b THEN 1 ELSE 0)
                      + (IF param = b THEN 1 ELSE 0) = (IF memory[b] = NULL THEN 0 ELSE 1)
  BY DEF BuffersOwned
<1> DEFINE S == {t \in Threads : frame[t].step \in {"free", "copied"} /\ frame[t].buffer = b}
           m == EntryMessage
<1>0. b # NULL
  BY FieldsAssumption
<1>1. Owners(m, param, HeldBy, memory)
  BY DEF FieldsInv, OwnInv
<1>2. S = {t \in Threads : HeldBy[t] = b}
  BY <1>0 DEF HeldBy, Held
<1>3. entry # NULL /\ entry.message = b <=> m = b
  BY <1>0 DEF EntryMessage
<1> HIDE DEF S, m
<1>4. Cardinality(S) = IF S = {} THEN 0 ELSE 1
  <2>1. \A t, u \in S : t = u
    BY <1>0, <1>1, <1>2 DEF Owners
  <2> QED
    BY <2>1, OneHas
<1>5. memory[b] # NULL <=> m = b \/ param = b \/ S # {}
  BY <1>1, <1>2 DEF Owners
<1>6. (m = b => param # b /\ S = {}) /\ (param = b => S = {})
  BY <1>0, <1>1, <1>2 DEF Owners
<1>7. Cardinality(S) + (IF m = b THEN 1 ELSE 0) + (IF param = b THEN 1 ELSE 0) = (IF memory[b] = NULL THEN 0 ELSE 1)
  BY <1>4, <1>5, <1>6
<1> QED
  BY <1>3, <1>7 DEF S

LEMMA BuildersComeBack ==
  ASSUME FieldsInv
  PROVE  BuilderFits /\ BuildersReturned
<1>1. Lent(BuilderOf, builder) /\ \A b \in Builders : Fits(builder[b]) /\ (builder[b].state = "lost" => "lost" \in seen)
  BY DEF FieldsInv, BuilderInv
<1>2. ASSUME NEW b \in Builders
      PROVE  Cardinality({t \in Threads : frame[t].builder = b}) = (IF builder[b].state = "out" THEN 1 ELSE 0)
  <2> DEFINE S == {t \in Threads : frame[t].builder = b}
  <2>0. b # NULL
    BY FieldsAssumption
  <2>1. S = {t \in Threads : BuilderOf[t] = b}
    BY DEF BuilderOf
  <2> HIDE DEF S
  <2>2. \A t, u \in S : t = u
    BY <1>1, <2>0, <2>1 DEF Lent
  <2>3. Cardinality(S) = IF S = {} THEN 0 ELSE 1
    BY <2>2, OneHas
  <2>4. builder[b].state = "out" <=> S # {}
    BY <1>1, <2>1 DEF Lent
  <2>5. Cardinality(S) = (IF builder[b].state = "out" THEN 1 ELSE 0)
    BY <2>3, <2>4
  <2> QED
    BY <2>5 DEF S
<1> QED
  BY <1>1, <1>2 DEF BuilderFits, BuildersReturned, Fits

LEMMA ReadsAreLive ==
  ASSUME FieldsInv
  PROVE  ReadsLive
<1> SUFFICES ASSUME NEW t \in Threads
             PROVE  /\ frame[t].step = "read" => memory[frame[t].buffer] # NULL
                    /\ frame[t].step = "value" /\ "revalued" \notin seen => memory[frame[t].buffer] # NULL
  BY DEF ReadsLive
<1>1. Placed(t, frame[t]) /\ TypeInv /\ Owners(EntryMessage, param, HeldBy, memory)
  BY DEF FieldsInv, FrameInv, OwnInv
<1>2. frame[t].buffer \in Buffers \cup {NULL}
  BY <1>1 DEF TypeInv, Frame
<1>3. CASE frame[t].step = "read"
  <2>1. frame[t].buffer \in Buffers /\ (frame[t].buffer = EntryMessage \/ frame[t].buffer = param)
    BY <1>1, <1>2, <1>3 DEF Placed, EntryMessage
  <2> QED
    BY <1>1, <1>3, <2>1 DEF Owners
<1>4. CASE frame[t].step = "value" /\ "revalued" \notin seen
  <2>1. frame[t].buffer \in Buffers /\ frame[t].buffer = param
    BY <1>1, <1>2, <1>4 DEF Placed
  <2> QED
    BY <1>1, <1>4, <2>1 DEF Owners
<1> QED
  BY <1>3, <1>4

LEMMA FieldsOwn ==
  ASSUME FieldsInv
  PROVE  TextOwned
BY TypesHold, ReadsAreLive, BuffersAreOwned, BuildersComeBack DEF TextOwned

LEMMA FieldsFaithful ==
  ASSUME FieldsInv
  PROVE  RecordFaithful
<1>1. PrivalAsked
  BY DEF FieldsInv, EntryInv, PrivalAsked
<1>2. \A t \in Threads : Placed(t, frame[t])
  BY DEF FieldsInv, FrameInv
<1>3. FormatAtomic
  <2> SUFFICES ASSUME NEW t \in Threads, frame[t].step \in {"value", "message", "formatted"}
               PROVE  LET r == frame[t].record IN
                      /\ << r.prival, r.app_name, r.msgid >> = << entry.prival, entry.app_name, entry.msgid >>
                      /\ entry.hostname # <<>> => r.hostname = entry.hostname
                      /\ entry.procid # <<>> => r.procid \in {entry.procid, RFC_5424_NILVALUE}
                      /\ frame[t].step = "formatted" =>
                           r.message = (IF entry.message = NULL THEN <<>> ELSE memory[entry.message])
    BY Zenon DEF FormatAtomic
  <2>1. AsEntry(frame[t].record) /\ (frame[t].step = "formatted" => frame[t].record.message = Message)
    BY <1>2 DEF Placed
  <2> QED
    BY <2>1 DEF AsEntry, Message
<1>4. RecordWellFormed
  <2> SUFFICES ASSUME NEW t \in Threads, frame[t].step = "formatted", NEW r, r = frame[t].record
               PROVE  /\ "unchecked" \notin seen => r.prival \in 0..191
                      /\ \A f \in {"hostname", "app_name", "procid", "msgid"} :
                           validate_printable_ascii(r[f]) /\ ("emptied" \notin seen => r[f] # <<>>)
                      /\ r.value # NULL /\ seen \cap {"unvalidated", "revalued"} = {} => validate_param_value(r.value)
    BY Zenon DEF RecordWellFormed
  <2>1. entry # NULL /\ AsEntry(r) /\ ValueValid(r)
    BY <1>2 DEF Placed
  <2>2. r.prival = entry.prival /\ r.app_name = entry.app_name /\ r.msgid = entry.msgid
    BY <2>1 DEF AsEntry
  <2>3. /\ "emptied" \notin seen => entry.app_name # <<>> /\ entry.msgid # <<>>
        /\ "unchecked" \notin seen => entry.prival \in 0..191
    BY <2>1 DEF FieldsInv, EntryInv
  <2>4. r.app_name \in EntryName /\ r.msgid \in EntryName
    BY <2>1 DEF AsEntry, Header
  <2>5. validate_printable_ascii(r.app_name) /\ validate_printable_ascii(r.msgid)
    BY <2>4, NameType
  <2>6. \A f \in {"hostname", "procid"} : validate_printable_ascii(r[f]) /\ r[f] # <<>>
    BY <2>1 DEF AsEntry
  <2> QED
    BY <2>1, <2>2, <2>3, <2>5, <2>6 DEF ValueValid
<1>5. CopyAgrees
  <2> SUFFICES ASSUME NEW t \in Threads, frame[t].step = "copied"
               PROVE  LET r == frame[t].record  c == frame[t].copy IN
                      /\ << c.prival, c.app_name, c.msgid >> = << r.prival % 256, r.app_name, r.msgid >>
                      /\ c.message = r.message \/ 37 \in ToSet(r.message)
    BY Zenon DEF CopyAgrees
  <2>1. Copied(frame[t])
    BY <1>2 DEF Placed
  <2> QED
    BY <2>1 DEF Copied
<1> QED
  BY <1>1, <1>3, <1>4, <1>5 DEF RecordFaithful

-----------------------------------------------------------------------------

LEMMA FieldsAlways == Spec => []FieldsInv
<1>1. Init => FieldsInv
  BY FieldsInit
<1>2. FieldsInv /\ [Next]_vars => FieldsInv'
  BY FieldsStep
<1> QED
  BY <1>1, <1>2, PTL DEF Spec

(***************************************************************************)
(* However many threads set, read, copy and format an entry: its texts and *)
(* the string builders have one owner each, none is leaked or freed twice, *)
(* none is read after it has been freed as long as no value of a param is  *)
(* replaced while an entry is formatted, and no byte is written past the   *)
(* end of a builder (src/src/entry.c, param.c, strbuilder.c).              *)
(***************************************************************************)
THEOREM FieldsAreOwned == Spec => []TextOwned
BY FieldsAlways, FieldsOwn, PTL

(***************************************************************************)
(* And what is formatted, or copied, is the entry as it was set, and as it *)
(* was at one moment: the prival asked for last, header fields that are    *)
(* printable and not empty, and a value in UTF-8, except where an          *)
(* application went around the checks (src/src/formatter.c, entry.c).      *)
(***************************************************************************)
THEOREM RecordsAreFaithful == Spec => []RecordFaithful
BY FieldsAlways, FieldsFaithful, PTL

-----------------------------------------------------------------------------

LEMMA SignIs ==
  ASSUME NEW d \in Int, d # 0
  PROVE  Sign(d) = IF d > 0 THEN 1 ELSE -1
<1>1. CASE d > 0
  <2>1. d \div d = 1
    BY <1>1
  <2> QED
    BY <1>1, <2>1 DEF Sign
<1>2. CASE d < 0
  <2>1. d \div (-d) = -1
    BY <1>2
  <2> QED
    BY <1>2, <2>1 DEF Sign
<1> QED
  BY <1>1, <1>2

(***************************************************************************)
(* stumpless_version_cmp orders versions by the first part that differs,   *)
(* whatever their parts are, and the other way round when its arguments    *)
(* are exchanged (src/src/version.c).                                      *)
(***************************************************************************)
THEOREM VersionsCompare ==
  ASSUME NEW x \in [1..3 -> Int], NEW y \in [1..3 -> Int]
  PROVE  /\ stumpless_version_cmp(x, y) = 0 <=> x = y
         /\ stumpless_version_cmp(x, y) > 0
              <=> \E i \in 1..3 : x[i] > y[i] /\ \A j \in 1..(i - 1) : x[j] = y[j]
         /\ stumpless_version_cmp(x, y) + stumpless_version_cmp(y, x) = 0
<1>1. x[1] \in Int /\ x[2] \in Int /\ x[3] \in Int /\ y[1] \in Int /\ y[2] \in Int /\ y[3] \in Int
  OBVIOUS
<1>2. ASSUME NEW a \in Int, NEW b \in Int, a # b
      PROVE  Sign(a - b) = IF a > b THEN 1 ELSE -1
  BY <1>2, SignIs
<1>3. x = y <=> x[1] = y[1] /\ x[2] = y[2] /\ x[3] = y[3]
  OBVIOUS
<1> DEFINE Above == \E i \in 1..3 : x[i] > y[i] /\ \A j \in 1..(i - 1) : x[j] = y[j]
           c == stumpless_version_cmp(x, y)
           d == stumpless_version_cmp(y, x)
<1>4. Above <=> \/ x[1] > y[1]
                \/ x[1] = y[1] /\ x[2] > y[2]
                \/ x[1] = y[1] /\ x[2] = y[2] /\ x[3] > y[3]
  OBVIOUS
<1> SUFFICES (c = 0 <=> x = y) /\ (c > 0 <=> Above) /\ c + d = 0
  OBVIOUS
<1> HIDE DEF Above
<1>5. CASE x[1] # y[1]
  <2>1. c = Sign(x[1] - y[1]) * 100 /\ d = Sign(y[1] - x[1]) * 100
    BY <1>5 DEF stumpless_version_cmp
  <2> HIDE DEF c, d
  <2>2. (x[1] > y[1] /\ c = 100 /\ d = -100) \/ (x[1] < y[1] /\ c = -100 /\ d = 100)
    <3>1. /\ Sign(x[1] - y[1]) = IF x[1] > y[1] THEN 1 ELSE -1
          /\ Sign(y[1] - x[1]) = IF y[1] > x[1] THEN 1 ELSE -1
      BY <1>1, <1>2, <1>5
    <3> QED
      BY <1>1, <1>5, <2>1, <3>1
  <2> QED
    BY <1>1, <1>3, <1>4, <1>5, <2>2
<1>6. CASE x[1] = y[1] /\ x[2] # y[2]
  <2>1. c = Sign(x[2] - y[2]) * 10 /\ d = Sign(y[2] - x[2]) * 10
    BY <1>6 DEF stumpless_version_cmp
  <2> HIDE DEF c, d
  <2>2. (x[2] > y[2] /\ c = 10 /\ d = -10) \/ (x[2] < y[2] /\ c = -10 /\ d = 10)
    <3>1. /\ Sign(x[2] - y[2]) = IF x[2] > y[2] THEN 1 ELSE -1
          /\ Sign(y[2] - x[2]) = IF y[2] > x[2] THEN 1 ELSE -1
      BY <1>1, <1>2, <1>6
    <3> QED
      BY <1>1, <1>6, <2>1, <3>1
  <2> QED
    BY <1>1, <1>3, <1>4, <1>6, <2>2
<1>7. CASE x[1] = y[1] /\ x[2] = y[2] /\ x[3] # y[3]
  <2>1. c = Sign(x[3] - y[3]) /\ d = Sign(y[3] - x[3])
    BY <1>7 DEF stumpless_version_cmp
  <2> HIDE DEF c, d
  <2>2. (x[3] > y[3] /\ c = 1 /\ d = -1) \/ (x[3] < y[3] /\ c = -1 /\ d = 1)
    BY <1>1, <1>2, <1>7, <2>1
  <2> QED
    BY <1>1, <1>3, <1>4, <1>7, <2>2
<1>8. CASE x[1] = y[1] /\ x[2] = y[2] /\ x[3] = y[3]
  <2>1. c = 0 /\ d = 0
    BY <1>8 DEF stumpless_version_cmp
  <2> HIDE DEF c, d
  <2>2. x = y
    BY <1>3, <1>8
  <2>3. ~(x[1] > y[1]) /\ ~(x[2] > y[2]) /\ ~(x[3] > y[3])
    BY <1>1, <1>8
  <2>4. ~Above
    BY <1>4, <2>3, Zenon
  <2>5. c + d = 0 /\ ~(c > 0)
    BY <2>1
  <2> QED
    BY <2>1, <2>2, <2>4, <2>5, Zenon
<1> QED
  BY <1>5, <1>6, <1>7, <1>8
=============================================================================
