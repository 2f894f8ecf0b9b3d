---------------------------- MODULE ConsumersProofs ---------------------------
(***************************************************************************)
(* What programs that consume the trace do, for any input.                 *)
(*                                                                         *)
(* The caches of module Caches implement LruSets, for any number of sets,  *)
(* ways and bytes per block: what they find by comparing counters is the   *)
(* line at the front of a sequence.  Both keep a set as places with a tag  *)
(* and a counter, ways or positions in a deque.  The proof goes through    *)
(* the sequence of these entries, the smallest counter first.              *)
(*                                                                         *)
(* The tracker of module CommTracker records the communication in the      *)
(* history of module BackEnds: its table of owners and sharers is what the *)
(* history says of each byte, and its records number the first reads.      *)
(*                                                                         *)
(* The clocks of module RaceDetector name of each context the last task    *)
(* on a path to theirs, and a clock is there while a task to come may      *)
(* need it: the counts are the edges to the tasks not read yet.            *)
(* What it reports is compared with the history by what it remembers of a  *)
(* byte: an access of the block, and if there was a write the last one.    *)
(***************************************************************************)
EXTENDS BackEnds, Caches, CacheSet, SequenceTheorems, FiniteSetTheorems, WellFoundedInduction,
        TLAPS

-------------------------------------------------------------------------------
(* Addresses. *)

\* A quotient and a remainder are those of the division.
LEMMA Quotient ==
  ASSUME NEW d \in Nat \ {0}, NEW q \in Int, NEW r \in 0 .. d - 1
  PROVE  (q * d + r) \div d = q /\ (q * d + r) % d = r
<1>1. PICK a \in Int : a = q * d + r OBVIOUS
<1>2. a = d * (a \div d) + (a % d) /\ a % d \in 0 .. d - 1 /\ a \div d \in Int
  BY <1>1
<1>3. PICK p \in Int, m \in 0 .. d - 1 : p = a \div d /\ m = a % d BY <1>2
<1>4. a = d * p + m BY <1>2, <1>3
<1>5. p = q
  <2>1. d * (p - q) = r - m BY <1>1, <1>4
  <2>2. CASE p >= q + 1
    <3>1. d * (p - q) >= d BY <2>2
    <3> QED BY <2>1, <3>1
  <2>3. CASE p <= q - 1
    <3>1. d * (p - q) <= -d BY <2>3
    <3> QED BY <2>1, <3>1
  <2> QED BY <2>2, <2>3
<1>6. m = r BY <1>1, <1>4, <1>5
<1> QED BY <1>1, <1>3, <1>5, <1>6

\* ... of a natural number.
LEMMA Division ==
  ASSUME NEW d \in Nat \ {0}, NEW a \in Nat
  PROVE  \E q \in Nat, r \in 0 .. d - 1 : (q = a \div d /\ r = a % d) /\ a = q * d + r
<1>1. a = d * (a \div d) + (a % d) /\ a % d \in 0 .. d - 1 /\ a \div d \in Int OBVIOUS
<1>2. PICK q \in Int, r \in 0 .. d - 1 : q = a \div d /\ r = a % d BY <1>1
<1>3. a = q * d + r BY <1>1, <1>2
<1>4. q >= 0
  <2>1. SUFFICES ASSUME q <= -1 PROVE FALSE OBVIOUS
  <2>2. q * d <= -d BY <2>1
  <2> QED BY <1>3, <2>2
<1>5. q \in Nat BY <1>4
<1>6. WITNESS q \in Nat, r \in 0 .. d - 1
<1> QED BY <1>2, <1>3

\* An address is the place in the block, the set and the tag.
LEMMA AddressParts ==
  ASSUME NEW addr \in Nat
  PROVE  \E r \in 0 .. BlockSize - 1 :
           /\ TagOf(addr) \in Nat /\ SetIdx(addr) \in SetIndices
           /\ addr \div BlockSize = LineOf(SetIdx(addr), TagOf(addr))
           /\ addr = LineOf(SetIdx(addr), TagOf(addr)) * BlockSize + r
           /\ addr % BlockSize = r
           /\ addr % (NumSets * BlockSize) = SetIdx(addr) * BlockSize + r
<1>1. PICK B \in Nat \ {0}, N \in Nat \ {0} : B = BlockSize /\ N = NumSets BY GeometryAssumption
<1>2. PICK q \in Nat, r \in 0 .. B - 1 : (q = addr \div B /\ r = addr % B) /\ addr = q * B + r
  BY Division
<1>3. PICK t \in Nat, u \in 0 .. N - 1 : (t = q \div N /\ u = q % N) /\ q = t * N + u
  BY Division
<1>4. PICK D \in Nat \ {0}, v \in Nat : D = N * B /\ v = u * B + r
  <2>1. N * B \in Nat \ {0} BY <1>1
  <2>2. u * B + r \in Nat BY <1>1, <1>2, <1>3
  <2> QED BY <2>1, <2>2
<1>5. v \in 0 .. D - 1
  <2>1. u * B <= (N - 1) * B BY <1>1, <1>3
  <2>2. (N - 1) * B = D - B BY <1>4
  <2>3. u * B \in Int BY <1>3
  <2> QED BY <1>2, <1>4, <2>1, <2>2, <2>3
<1>6. addr = t * D + v
  <2>1. addr = (t * N + u) * B + r BY <1>2, <1>3
  <2>2. (t * N + u) * B = t * (N * B) + u * B OBVIOUS
  <2> QED BY <1>4, <2>1, <2>2
<1>7. addr \div D = t /\ addr % D = v BY <1>5, <1>6, Quotient
<1>8. TagOf(addr) = t /\ SetIdx(addr) = u
  BY <1>1, <1>2, <1>3, <1>4, <1>7 DEF TagOf, SetIdx
<1> QED BY <1>1, <1>2, <1>3, <1>4, <1>7, <1>8 DEF SetIndices, LineOf

\* The address an eviction reports lies in the line of the victim.
LEMMA EvictionLine ==
  ASSUME NEW addr \in Nat, NEW tag \in Nat,
         NEW e, e = (addr % (NumSets * BlockSize)) + tag * (NumSets * BlockSize)
  PROVE  e \in Nat /\ e \div BlockSize = LineOf(SetIdx(addr), tag)
<1>1. PICK B \in Nat \ {0}, N \in Nat \ {0} : B = BlockSize /\ N = NumSets BY GeometryAssumption
<1>2. PICK u \in Nat, r \in 0 .. B - 1 : u = SetIdx(addr) /\ addr % (N * B) = u * B + r
  <2>1. PICK r \in 0 .. BlockSize - 1 :
          /\ SetIdx(addr) \in SetIndices
          /\ addr % (NumSets * BlockSize) = SetIdx(addr) * BlockSize + r
    BY AddressParts
  <2>2. SetIdx(addr) \in Nat BY <1>1, <2>1 DEF SetIndices
  <2> QED BY <1>1, <2>1, <2>2
<1>3. e = u * B + r + tag * (N * B) BY <1>1, <1>2
<1>4. PICK q \in Nat : q = tag * N + u BY <1>1, <1>2
<1>5. q * B = tag * (N * B) + u * B
  <2>1. (tag * N + u) * B = tag * (N * B) + u * B BY <1>2
  <2> QED BY <1>4, <2>1
<1>6. PICK x \in Nat, y \in Nat : x = tag * (N * B) /\ y = u * B
  <2>1. N * B \in Nat BY <1>1
  <2>2. tag * (N * B) \in Nat BY <2>1
  <2>3. u * B \in Nat BY <1>2
  <2> QED BY <2>2, <2>3
<1>7. e = q * B + r /\ e \in Nat BY <1>3, <1>5, <1>6
<1>8. (q * B + r) \div B = q BY Quotient
<1>9. e \div B = q BY <1>7, <1>8
<1> QED BY <1>1, <1>2, <1>4, <1>7, <1>9 DEF LineOf

\* A line has one set and one tag.
LEMMA LineIs ==
  ASSUME NEW idx \in SetIndices, NEW tag \in Nat
  PROVE  /\ LineOf(idx, tag) \in Nat
         /\ LineOf(idx, tag) % NumSets = idx
         /\ LineOf(idx, tag) \div NumSets = tag
<1>1. PICK N \in Nat \ {0} : N = NumSets BY GeometryAssumption
<1>2. PICK q : q = tag * N + idx OBVIOUS
<1>3. q \in Nat BY <1>1, <1>2 DEF SetIndices
<1>4. q \div N = tag /\ q % N = idx BY <1>1, <1>2, Quotient DEF SetIndices
<1> QED BY <1>1, <1>2, <1>3, <1>4 DEF LineOf

-------------------------------------------------------------------------------
(* Sequences of entries, the smallest counter first. *)

Entry == [tag : Nat, key : Nat]
InSeq(e, x) == \E k \in 1 .. Len(e) : e[k] = x

Sorted(e) ==
  /\ e \in Seq(Entry)
  /\ \A j, k \in 1 .. Len(e) : j < k => e[j].key < e[k].key
  /\ \A j, k \in 1 .. Len(e) : j # k => e[j].tag # e[k].tag

Dropped(e, k) == SubSeq(e, 1, k - 1) \o SubSeq(e, k + 1, Len(e))

\* What is left without the k-th.
LEMMA DroppedIs ==
  ASSUME NEW S, NEW e \in Seq(S), NEW k \in 1 .. Len(e), NEW f, f = Dropped(e, k)
  PROVE  /\ f \in Seq(S) /\ Len(f) = Len(e) - 1
         /\ \A i \in 1 .. Len(f) : f[i] = IF i < k THEN e[i] ELSE e[i + 1]
<1>1. Len(e) \in Nat /\ \A i \in 1 .. Len(e) : e[i] \in S BY LenProperties, ElementOfSeq
<1>2. PICK n \in Nat : n = Len(e) BY <1>1
<1>3. PICK a, b : a = SubSeq(e, 1, k - 1) /\ b = SubSeq(e, k + 1, n) OBVIOUS
<1>4. /\ a \in Seq(S) /\ Len(a) = k - 1
      /\ \A i \in 1 .. k - 1 : a[i] = e[i]
  <2>1. \A i \in 1 .. k - 1 : e[i] \in S BY <1>1, <1>2
  <2> QED BY <1>2, <1>3, <2>1, SubSeqProperties
<1>5. /\ b \in Seq(S) /\ Len(b) = n - k
      /\ \A i \in 1 .. n - k : b[i] = e[k + i]
  <2>1. \A i \in k + 1 .. n : e[i] \in S BY <1>1, <1>2
  <2> QED BY <1>2, <1>3, <2>1, SubSeqProperties
<1>6. /\ a \o b \in Seq(S) /\ Len(a \o b) = Len(a) + Len(b)
      /\ \A i \in 1 .. Len(a) + Len(b) : (a \o b)[i] = IF i <= Len(a) THEN a[i] ELSE b[i - Len(a)]
  BY <1>4, <1>5, ConcatProperties
<1>7. f = a \o b BY <1>2, <1>3 DEF Dropped
<1>8. f \in Seq(S) /\ Len(f) = n - 1
  <2>1. Len(a) + Len(b) = n - 1 BY <1>2, <1>4, <1>5
  <2> QED BY <1>6, <1>7, <2>1
<1>9. ASSUME NEW i \in 1 .. n - 1 PROVE f[i] = IF i < k THEN e[i] ELSE e[i + 1]
  <2>1. CASE i < k BY <1>2, <1>4, <1>5, <1>6, <1>7, <2>1
  <2>2. CASE i >= k
    <3>1. f[i] = b[i - (k - 1)] BY <1>2, <1>4, <1>5, <1>6, <1>7, <2>2
    <3>2. i - (k - 1) \in 1 .. n - k BY <1>2, <2>2
    <3>3. b[i - (k - 1)] = e[k + (i - (k - 1))] BY <1>5, <3>2
    <3>4. k + (i - (k - 1)) = i + 1 OBVIOUS
    <3> QED BY <2>2, <3>1, <3>3, <3>4
  <2> QED BY <2>1, <2>2
<1> QED BY <1>2, <1>8, <1>9

\* It is still sorted, ...
LEMMA DropSorted ==
  ASSUME NEW e, Sorted(e), NEW k \in 1 .. Len(e), NEW f, f = Dropped(e, k)
  PROVE  /\ Sorted(f)
         /\ \A x : InSeq(f, x) <=> InSeq(e, x) /\ x # e[k]
         /\ \A x : InSeq(f, x) => x.tag # e[k].tag
<1>1. e \in Seq(Entry) /\ Len(e) \in Nat BY LenProperties DEF Sorted
<1>2. /\ f \in Seq(Entry) /\ Len(f) = Len(e) - 1
      /\ \A i \in 1 .. Len(f) : f[i] = IF i < k THEN e[i] ELSE e[i + 1]
  BY <1>1, DroppedIs
<1>3. PICK g \in [1 .. Len(f) -> 1 .. Len(e)] : \A i \in 1 .. Len(f) : g[i] = IF i < k THEN i ELSE i + 1
  <2>1. \A i \in 1 .. Len(f) : (IF i < k THEN i ELSE i + 1) \in 1 .. Len(e) BY <1>1, <1>2
  <2>2. [i \in 1 .. Len(f) |-> IF i < k THEN i ELSE i + 1] \in [1 .. Len(f) -> 1 .. Len(e)] BY <2>1
  <2> QED BY <2>2
<1>4. \A i \in 1 .. Len(f) : f[i] = e[g[i]] /\ g[i] # k BY <1>2, <1>3
<1>5. \A i, j \in 1 .. Len(f) : i < j => g[i] < g[j] BY <1>3
<1>6. \A j \in 1 .. Len(e) : j # k => \E i \in 1 .. Len(f) : g[i] = j
  <2>1. SUFFICES ASSUME NEW j \in 1 .. Len(e), j # k PROVE \E i \in 1 .. Len(f) : g[i] = j OBVIOUS
  <2>2. CASE j < k
    <3>1. j \in 1 .. Len(f) BY <1>1, <1>2, <2>2
    <3> QED BY <1>3, <2>2, <3>1
  <2>3. CASE j > k
    <3>1. j - 1 \in 1 .. Len(f) /\ ~(j - 1 < k) /\ (j - 1) + 1 = j BY <1>1, <1>2, <2>3
    <3> QED BY <1>3, <3>1
  <2> QED BY <2>1, <2>2, <2>3
<1>7. Sorted(f)
  <2>1. ASSUME NEW i \in 1 .. Len(f), NEW j \in 1 .. Len(f), i < j PROVE f[i].key < f[j].key
    <3>1. g[i] < g[j] BY <1>5, <2>1
    <3>2. PICK p \in 1 .. Len(e), q \in 1 .. Len(e) : p = g[i] /\ q = g[j] BY <1>3
    <3>3. e[p].key < e[q].key BY <3>1, <3>2 DEF Sorted
    <3> QED BY <1>4, <3>2, <3>3
  <2>2. ASSUME NEW i \in 1 .. Len(f), NEW j \in 1 .. Len(f), i # j PROVE f[i].tag # f[j].tag
    <3>1. g[i] # g[j]
      <4>1. CASE i < j BY <1>3, <1>5, <4>1
      <4>2. CASE j < i BY <1>3, <1>5, <4>2
      <4> QED BY <2>2, <4>1, <4>2
    <3>2. PICK p \in 1 .. Len(e), q \in 1 .. Len(e) : p = g[i] /\ q = g[j] BY <1>3
    <3>3. e[p].tag # e[q].tag BY <3>1, <3>2 DEF Sorted
    <3> QED BY <1>4, <3>2, <3>3
  <2> QED BY <1>2, <2>1, <2>2 DEF Sorted
<1>8. \A j \in 1 .. Len(e) : j # k => e[j].tag # e[k].tag BY DEF Sorted
<1>9. \A x : InSeq(f, x) => InSeq(e, x) /\ x # e[k] /\ x.tag # e[k].tag
  BY <1>3, <1>4, <1>8 DEF InSeq
<1>10. \A x : InSeq(e, x) /\ x # e[k] => InSeq(f, x)
  <2>1. SUFFICES ASSUME NEW j \in 1 .. Len(e), e[j] # e[k] PROVE InSeq(f, e[j]) BY DEF InSeq
  <2>2. PICK i \in 1 .. Len(f) : g[i] = j BY <1>6, <2>1
  <2>3. f[i] = e[j] BY <1>4, <2>2
  <2> QED BY <2>3 DEF InSeq
<1> QED BY <1>7, <1>9, <1>10

\* An entry with a line that is not there and a counter above all.
Newer(new, e) == \A x : InSeq(e, x) => x.key < new.key /\ x.tag # new.tag

\* ... and so it is with a newer entry at the end.
LEMMA AppendSorted ==
  ASSUME NEW e, Sorted(e), NEW new \in Entry, Newer(new, e), NEW f, f = Append(e, new)
  PROVE  Sorted(f) /\ \A x : InSeq(f, x) <=> InSeq(e, x) \/ x = new
<1>1. e \in Seq(Entry) /\ Len(e) \in Nat BY LenProperties DEF Sorted
<1>2. /\ f \in Seq(Entry) /\ Len(f) = Len(e) + 1
      /\ f[Len(e) + 1] = new /\ \A i \in 1 .. Len(e) : f[i] = e[i]
  BY <1>1, AppendProperties
<1>3. \A i \in 1 .. Len(e) : e[i].key < new.key /\ e[i].tag # new.tag BY DEF InSeq, Newer
<1>4. ASSUME NEW i \in 1 .. Len(f), NEW j \in 1 .. Len(f), i < j
      PROVE  f[i].key < f[j].key /\ f[i].tag # f[j].tag
  <2>1. i \in 1 .. Len(e) BY <1>1, <1>2, <1>4
  <2>2. CASE j = Len(e) + 1 BY <1>2, <1>3, <2>1, <2>2
  <2>3. CASE j # Len(e) + 1
    <3>1. j \in 1 .. Len(e) BY <1>1, <1>2, <2>3
    <3> QED BY <1>2, <1>4, <2>1, <3>1 DEF Sorted
  <2> QED BY <2>2, <2>3
<1>5. ASSUME NEW i \in 1 .. Len(f), NEW j \in 1 .. Len(f), i # j PROVE f[i].tag # f[j].tag
  <2>1. CASE i < j BY <1>4, <2>1
  <2>2. CASE j < i BY <1>4, <2>2
  <2> QED BY <1>1, <1>2, <1>5, <2>1, <2>2
<1>6. Sorted(f) BY <1>2, <1>4, <1>5 DEF Sorted
<1>7. \A x : InSeq(f, x) => InSeq(e, x) \/ x = new
  <2>1. SUFFICES ASSUME NEW i \in 1 .. Len(f) PROVE InSeq(e, f[i]) \/ f[i] = new BY DEF InSeq
  <2>2. CASE i = Len(e) + 1 BY <1>2, <2>2
  <2>3. CASE i # Len(e) + 1
    <3>1. i \in 1 .. Len(e) BY <1>1, <1>2, <2>3
    <3> QED BY <1>2, <3>1 DEF InSeq
  <2> QED BY <2>2, <2>3
<1>8. \A x : InSeq(e, x) \/ x = new => InSeq(f, x)
  <2>1. \A i \in 1 .. Len(e) : i \in 1 .. Len(f) BY <1>1, <1>2
  <2>2. Len(e) + 1 \in 1 .. Len(f) BY <1>1, <1>2
  <2> QED BY <1>2, <2>1, <2>2 DEF InSeq
<1> QED BY <1>6, <1>7, <1>8

-------------------------------------------------------------------------------
(* The lines of a set, from its entries. *)

LinesOf(idx, e) == [k \in 1 .. Len(e) |-> LineOf(idx, e[k].tag)]

\* The lines of entries, one by one.
LEMMA LinesIn ==
  ASSUME NEW idx \in SetIndices, NEW e \in Seq(Entry), NEW s, s = LinesOf(idx, e)
  PROVE  /\ s \in Seq(Nat) /\ Len(s) = Len(e) /\ Len(e) \in Nat
         /\ \A k \in 1 .. Len(e) : s[k] = LineOf(idx, e[k].tag)
<1>1. Len(e) \in Nat /\ \A k \in 1 .. Len(e) : e[k] \in Entry BY LenProperties, ElementOfSeq
<1>2. s \in [1 .. Len(e) -> Nat] BY <1>1, LineIs DEF LinesOf, Entry
<1>3. s \in Seq(Nat) BY <1>1, <1>2
<1> QED BY <1>1, <1>2, <1>3, LenProperties DEF LinesOf

\* The set holds a line if it has an entry with its tag.
LEMMA LinesHold ==
  ASSUME NEW idx \in SetIndices, NEW e \in Seq(Entry), NEW tag \in Nat, NEW s, s = LinesOf(idx, e)
  PROVE  /\ \A k \in 1 .. Len(e) : s[k] = LineOf(idx, tag) <=> e[k].tag = tag
         /\ Holds(s, LineOf(idx, tag)) <=> \E k \in 1 .. Len(e) : e[k].tag = tag
<1>1. /\ Len(s) = Len(e)
      /\ \A k \in 1 .. Len(e) : s[k] = LineOf(idx, e[k].tag)
  BY LinesIn
<1>2. ASSUME NEW k \in 1 .. Len(e) PROVE s[k] = LineOf(idx, tag) <=> e[k].tag = tag
  <2>1. e[k] \in Entry BY ElementOfSeq
  <2>2. e[k].tag \in Nat BY <2>1 DEF Entry
  <2>3. LineOf(idx, e[k].tag) \div NumSets = e[k].tag /\ LineOf(idx, tag) \div NumSets = tag
    BY <2>2, LineIs
  <2> QED BY <1>1, <2>3
<1> QED BY <1>1, <1>2 DEF Holds

\* The lines without the k-th entry and with a new one at the end.
LEMMA LinesMoved ==
  ASSUME NEW idx \in SetIndices, NEW e \in Seq(Entry), NEW k \in 1 .. Len(e), NEW new \in Entry,
         NEW s, s = LinesOf(idx, e)
  PROVE  LinesOf(idx, Append(Dropped(e, k), new)) = Append(Dropped(s, k), LineOf(idx, new.tag))
<1>1. PICK f, t : f = Dropped(e, k) /\ t = Dropped(s, k) OBVIOUS
<1>2. PICK g, u, v : /\ g = Append(f, new) /\ u = LinesOf(idx, g)
                     /\ v = Append(t, LineOf(idx, new.tag))
  OBVIOUS
<1>3. /\ s \in Seq(Nat) /\ Len(s) = Len(e) /\ Len(e) \in Nat
      /\ \A i \in 1 .. Len(e) : s[i] = LineOf(idx, e[i].tag)
  BY LinesIn
<1>4. /\ f \in Seq(Entry) /\ Len(f) = Len(e) - 1
      /\ \A i \in 1 .. Len(f) : f[i] = IF i < k THEN e[i] ELSE e[i + 1]
  BY <1>1, DroppedIs
<1>5. /\ t \in Seq(Nat) /\ Len(t) = Len(e) - 1
      /\ \A i \in 1 .. Len(t) : t[i] = IF i < k THEN s[i] ELSE s[i + 1]
  <2>1. k \in 1 .. Len(s) BY <1>3
  <2>2. s \in Seq(Nat) /\ t = Dropped(s, k) BY <1>1, <1>3
  <2>3. /\ t \in Seq(Nat) /\ Len(t) = Len(s) - 1
        /\ \A i \in 1 .. Len(t) : t[i] = IF i < k THEN s[i] ELSE s[i + 1]
    BY ONLY <2>1, <2>2, DroppedIs
  <2> QED BY <1>3, <2>3
<1>6. ASSUME NEW i \in 1 .. Len(e) - 1 PROVE t[i] = LineOf(idx, f[i].tag)
  <2>1. i \in 1 .. Len(e) /\ i + 1 \in 1 .. Len(e) BY <1>3
  <2> QED BY <1>3, <1>4, <1>5, <2>1
<1>7. LineOf(idx, new.tag) \in Nat BY LineIs DEF Entry
<1>8. /\ g \in Seq(Entry) /\ Len(g) = Len(e) - 1 + 1
      /\ g[Len(e) - 1 + 1] = new /\ \A i \in 1 .. Len(e) - 1 : g[i] = f[i]
  BY <1>2, <1>4, AppendProperties
<1>9. /\ v \in Seq(Nat) /\ Len(v) = Len(e) - 1 + 1
      /\ v[Len(e) - 1 + 1] = LineOf(idx, new.tag) /\ \A i \in 1 .. Len(e) - 1 : v[i] = t[i]
  BY <1>2, <1>5, <1>7, AppendProperties
<1>10. /\ u \in Seq(Nat) /\ Len(u) = Len(g)
       /\ \A i \in 1 .. Len(g) : u[i] = LineOf(idx, g[i].tag)
  BY <1>2, <1>8, LinesIn
<1>11. ASSUME NEW i \in 1 .. Len(u) PROVE u[i] = v[i]
  <2>1. CASE i = Len(e) - 1 + 1 BY <1>8, <1>9, <1>10, <2>1
  <2>2. CASE i # Len(e) - 1 + 1
    <3>1. i \in 1 .. Len(e) - 1 BY <1>3, <1>8, <1>10, <2>2
    <3>2. u[i] = LineOf(idx, g[i].tag) BY <1>10
    <3> QED BY <1>6, <1>8, <1>9, <3>1, <3>2
  <2> QED BY <2>1, <2>2
<1>12. Len(u) = Len(v) BY <1>8, <1>9, <1>10
<1>13. u = v BY <1>9, <1>10, <1>11, <1>12, SeqEqual
<1> QED BY <1>1, <1>2, <1>13

\* A hit moves the line to the end, ...
LEMMA LinesHit ==
  ASSUME NEW idx \in SetIndices, NEW e, Sorted(e), NEW new \in Entry,
         NEW k \in 1 .. Len(e), e[k].tag = new.tag, NEW l, l = LineOf(idx, new.tag)
  PROVE  LET s == LinesOf(idx, e)
         IN  /\ Holds(s, l) /\ ~Evicts(s, l, Ways)
             /\ UpdateLine(s, l, Ways) = LinesOf(idx, Append(Dropped(e, k), new))
<1>1. PICK s : s = LinesOf(idx, e) OBVIOUS
<1>2. e \in Seq(Entry) /\ new.tag \in Nat BY DEF Sorted, Entry
<1>3. /\ Len(s) = Len(e) /\ Len(e) \in Nat /\ s \in Seq(Nat)
      /\ \A j \in 1 .. Len(e) : s[j] = l <=> e[j].tag = new.tag
      /\ Holds(s, l)
  BY <1>1, <1>2, LinesIn, LinesHold
<1>4. \A j \in 1 .. Len(s) : s[j] = l <=> j = k BY <1>3 DEF Sorted
<1>5. (CHOOSE j \in 1 .. Len(s) : s[j] = l) = k BY <1>3, <1>4
<1>6. Touch(s, l) = Dropped(s, k) \o <<l>> BY <1>5 DEF Touch, Dropped
<1>7. Dropped(s, k) \in Seq(Nat) /\ l \in Nat BY <1>2, <1>3, DroppedIs, LineIs
<1>8. Touch(s, l) = Append(Dropped(s, k), l) BY <1>6, <1>7, AppendIsConcat
<1>9. Touch(s, l) = LinesOf(idx, Append(Dropped(e, k), new)) BY <1>1, <1>2, <1>8, LinesMoved
<1>10. UpdateLine(s, l, Ways) = Touch(s, l) /\ ~Evicts(s, l, Ways)
  BY <1>3 DEF UpdateLine, Evicts
<1> QED BY <1>1, <1>3, <1>9, <1>10

\* ... a full set gives up the line in front, ...
LEMMA LinesEvicted ==
  ASSUME NEW idx \in SetIndices, NEW e, Sorted(e), NEW new \in Entry,
         \A k \in 1 .. Len(e) : e[k].tag # new.tag, Len(e) = Ways,
         NEW l, l = LineOf(idx, new.tag)
  PROVE  LET s == LinesOf(idx, e)
         IN  /\ ~Holds(s, l) /\ Evicts(s, l, Ways)
             /\ Victim(s) = LineOf(idx, e[1].tag)
             /\ UpdateLine(s, l, Ways) = LinesOf(idx, Append(Dropped(e, 1), new))
<1>1. PICK s : s = LinesOf(idx, e) OBVIOUS
<1>2. e \in Seq(Entry) /\ new.tag \in Nat BY DEF Sorted, Entry
<1>3. /\ Len(s) = Len(e) /\ Len(e) \in Nat /\ s \in Seq(Nat)
      /\ \A j \in 1 .. Len(e) : s[j] = LineOf(idx, e[j].tag)
      /\ ~Holds(s, l)
  <2>1. /\ Len(s) = Len(e) /\ Len(e) \in Nat /\ s \in Seq(Nat)
        /\ \A j \in 1 .. Len(e) : s[j] = LineOf(idx, e[j].tag)
    BY <1>1, <1>2, LinesIn
  <2>2. Holds(s, l) <=> \E j \in 1 .. Len(e) : e[j].tag = new.tag BY <1>1, <1>2, LinesHold
  <2> QED BY <2>1, <2>2
<1>4. 1 \in 1 .. Len(e) /\ s # <<>> BY <1>3, GeometryAssumption
<1>5. Victim(s) = s[1] BY <1>3, <1>4 DEF Victim
<1>6. Tail(s) = Dropped(s, 1)
  <2>1. Tail(s) = SubSeq(s, 2, Len(s)) BY <1>3, <1>4, TailIsSubSeq
  <2>2. SubSeq(s, 1, 0) = <<>> BY SubSeqEmpty
  <2>3. Tail(s) \in Seq(Nat) BY <1>3, <1>4, HeadTailProperties
  <2>4. <<>> \o Tail(s) = Tail(s) BY <2>3, ConcatEmptySeq
  <2> QED BY <2>1, <2>2, <2>4 DEF Dropped
<1>7. Append(Tail(s), l) = LinesOf(idx, Append(Dropped(e, 1), new))
  BY <1>1, <1>2, <1>4, <1>6, LinesMoved
<1>8. Evicts(s, l, Ways) /\ UpdateLine(s, l, Ways) = Append(Tail(s), l)
  BY <1>3, GeometryAssumption DEF UpdateLine, Evicts
<1> QED BY <1>1, <1>3, <1>4, <1>5, <1>7, <1>8

\* ... and a set with room takes one more.
LEMMA LinesAdded ==
  ASSUME NEW idx \in SetIndices, NEW e, Sorted(e), NEW new \in Entry,
         \A k \in 1 .. Len(e) : e[k].tag # new.tag, Len(e) < Ways,
         NEW l, l = LineOf(idx, new.tag)
  PROVE  LET s == LinesOf(idx, e)
         IN  /\ ~Holds(s, l) /\ ~Evicts(s, l, Ways)
             /\ UpdateLine(s, l, Ways) = LinesOf(idx, Append(e, new))
<1>1. PICK s, g, u : s = LinesOf(idx, e) /\ g = Append(e, new) /\ u = LinesOf(idx, g) OBVIOUS
<1>2. e \in Seq(Entry) /\ new.tag \in Nat BY DEF Sorted, Entry
<1>3. /\ Len(s) = Len(e) /\ Len(e) \in Nat /\ s \in Seq(Nat)
      /\ \A j \in 1 .. Len(e) : s[j] = LineOf(idx, e[j].tag)
      /\ ~Holds(s, l)
  <2>1. /\ Len(s) = Len(e) /\ Len(e) \in Nat /\ s \in Seq(Nat)
        /\ \A j \in 1 .. Len(e) : s[j] = LineOf(idx, e[j].tag)
    BY <1>1, <1>2, LinesIn
  <2>2. Holds(s, l) <=> \E j \in 1 .. Len(e) : e[j].tag = new.tag BY <1>1, <1>2, LinesHold
  <2> QED BY <2>1, <2>2
<1>4. /\ g \in Seq(Entry) /\ Len(g) = Len(e) + 1
      /\ g[Len(e) + 1] = new /\ \A j \in 1 .. Len(e) : g[j] = e[j]
  BY <1>1, <1>2, AppendProperties
<1>5. /\ u \in Seq(Nat) /\ Len(u) = Len(g)
      /\ \A j \in 1 .. Len(g) : u[j] = LineOf(idx, g[j].tag)
  BY ONLY <1>1, <1>4, idx \in SetIndices, LinesIn
<1>6. l \in Nat BY <1>2, LineIs
<1>7. PICK v : v = Append(s, l) OBVIOUS
<1>8. /\ v \in Seq(Nat) /\ Len(v) = Len(e) + 1
      /\ v[Len(e) + 1] = l /\ \A j \in 1 .. Len(e) : v[j] = s[j]
  BY <1>3, <1>6, <1>7, AppendProperties
<1>9. ASSUME NEW j \in 1 .. Len(u) PROVE u[j] = v[j]
  <2>1. CASE j = Len(e) + 1 BY <1>4, <1>5, <1>8, <2>1
  <2>2. CASE j # Len(e) + 1
    <3>1. j \in 1 .. Len(e) BY <1>3, <1>4, <1>5, <2>2
    <3> QED BY <1>3, <1>4, <1>5, <1>8, <3>1
  <2> QED BY <2>1, <2>2
<1>10. Len(u) = Len(v) BY <1>4, <1>5, <1>8
<1>11. u = v BY <1>5, <1>8, <1>9, <1>10, SeqEqual
<1>12. ~Evicts(s, l, Ways) /\ UpdateLine(s, l, Ways) = v
  BY <1>3, <1>7, GeometryAssumption DEF UpdateLine, Evicts
<1> QED BY <1>1, <1>3, <1>11, <1>12

-------------------------------------------------------------------------------
(* Places with entries: g is a function from the places of a set that are used. *)

Lists(e, g) ==
  /\ Sorted(e)
  /\ \A i \in DOMAIN g : InSeq(e, g[i])
  /\ \A k \in 1 .. Len(e) : \E i \in DOMAIN g : g[i] = e[k]
  /\ \A i, j \in DOMAIN g : g[i] = g[j] => i = j

\* The places of the first m entries.
FirstPlaces(e, g, m) == {i \in DOMAIN g : \E k \in 1 .. m : g[i] = e[k]}

\* There is one place for each of the first entries.
LEMMA PlacesCounted ==
  ASSUME NEW e, NEW g, Lists(e, g), NEW m \in 0 .. Len(e)
  PROVE  IsFiniteSet(FirstPlaces(e, g, m)) /\ Cardinality(FirstPlaces(e, g, m)) = m
<1>1. e \in Seq(Entry) /\ Len(e) \in Nat BY LenProperties DEF Lists, Sorted
<1>2. PICK S : S = FirstPlaces(e, g, m) OBVIOUS
<1>3. PICK p : p = [k \in 1 .. m |-> CHOOSE i \in DOMAIN g : g[i] = e[k]] OBVIOUS
<1>4. ASSUME NEW k \in 1 .. m PROVE p[k] \in S /\ g[p[k]] = e[k]
  <2>1. \E i \in DOMAIN g : g[i] = e[k] BY <1>1 DEF Lists
  <2> QED BY <1>2, <1>3, <2>1 DEF FirstPlaces
<1>5. p \in [1 .. m -> S] BY <1>3, <1>4
<1>6. \A k, j \in 1 .. m : k # j => e[k] # e[j] BY <1>1 DEF Lists, Sorted
<1>7. IsInjective(p) BY <1>4, <1>5, <1>6 DEF IsInjective
<1>8. \A i \in S : \E k \in 1 .. m : p[k] = i
  <2>1. SUFFICES ASSUME NEW i \in S PROVE \E k \in 1 .. m : p[k] = i OBVIOUS
  <2>2. PICK k \in 1 .. m : g[i] = e[k] /\ i \in DOMAIN g BY <1>2 DEF FirstPlaces
  <2>3. p[k] \in DOMAIN g /\ g[p[k]] = e[k] BY <1>2, <1>4 DEF FirstPlaces
  <2> QED BY <2>2, <2>3 DEF Lists
<1>9. ExistsBijection(1 .. m, S)
  BY <1>5, <1>7, <1>8 DEF ExistsBijection, Bijection, Injection, Surjection
<1>10. IsFiniteSet(1 .. m) /\ Cardinality(1 .. m) = m
  <2>1. IsFiniteSet(1 .. m) /\ Cardinality(1 .. m) = IF 1 > m THEN 0 ELSE m - 1 + 1 BY FS_Interval
  <2> QED BY <1>1, <2>1
<1> QED BY <1>2, <1>9, <1>10, FS_Bijection

\* Counters are numbers.
LEMMA KeysNat ==
  ASSUME NEW e, NEW g, Lists(e, g), NEW x, InSeq(e, x)
  PROVE  x.key \in Nat
<1>1. x \in Entry BY ElementOfSeq DEF InSeq, Lists, Sorted
<1> QED BY <1>1 DEF Entry

Older(g, i) == {j \in DOMAIN g : g[j].key < g[i].key}

\* So many places are used as there are entries, and the k-th has k - 1 older ones.
LEMMA RankIs ==
  ASSUME NEW e, NEW g, Lists(e, g)
  PROVE  /\ IsFiniteSet(DOMAIN g) /\ Cardinality(DOMAIN g) = Len(e)
         /\ \A k \in 1 .. Len(e), i \in DOMAIN g :
              Cardinality(Older(g, i)) = k - 1 <=> g[i] = e[k]
<1>1. e \in Seq(Entry) /\ Len(e) \in Nat BY LenProperties DEF Lists, Sorted
<1>2. DOMAIN g = FirstPlaces(e, g, Len(e)) BY DEF Lists, InSeq, FirstPlaces
<1>3. ASSUME NEW k \in 1 .. Len(e), NEW i \in DOMAIN g, g[i] = e[k]
      PROVE  Cardinality(Older(g, i)) = k - 1
  <2>1. \A j \in 1 .. Len(e) : e[j].key \in Nat
    <3>1. \A j \in 1 .. Len(e) : e[j] \in Entry BY <1>1, ElementOfSeq
    <3> QED BY <3>1 DEF Entry
  <2>2. \A j \in 1 .. Len(e) : e[j].key < e[k].key <=> j \in 1 .. k - 1
    <3>1. SUFFICES ASSUME NEW j \in 1 .. Len(e) PROVE e[j].key < e[k].key <=> j \in 1 .. k - 1
      OBVIOUS
    <3>2. CASE j < k BY <3>2 DEF Lists, Sorted
    <3>3. CASE j = k BY <2>1, <3>3
    <3>4. CASE j > k
      <4>1. e[k].key < e[j].key BY <3>4 DEF Lists, Sorted
      <4> QED BY <2>1, <3>4, <4>1
    <3> QED BY <3>2, <3>3, <3>4
  <2>3. Older(g, i) = FirstPlaces(e, g, k - 1)
    <3>1. ASSUME NEW j \in DOMAIN g PROVE g[j].key < g[i].key <=> \E n \in 1 .. k - 1 : g[j] = e[n]
      <4>1. PICK n \in 1 .. Len(e) : g[j] = e[n] BY DEF Lists, InSeq
      <4>2. \A x \in 1 .. k - 1 : x \in 1 .. Len(e) BY <1>1
      <4> QED BY <1>3, <2>2, <4>1, <4>2
    <3> QED BY <3>1 DEF Older, FirstPlaces
  <2>4. k - 1 \in 0 .. Len(e) BY <1>1
  <2> QED BY <2>3, <2>4, PlacesCounted
<1>4. ASSUME NEW k \in 1 .. Len(e), NEW i \in DOMAIN g, Cardinality(Older(g, i)) = k - 1
      PROVE  g[i] = e[k]
  <2>1. PICK n \in 1 .. Len(e) : g[i] = e[n] BY DEF Lists, InSeq
  <2>2. n - 1 = k - 1 BY <1>3, <1>4, <2>1
  <2> QED BY <2>1, <2>2
<1>5. Len(e) \in 0 .. Len(e) BY <1>1
<1> QED BY <1>2, <1>3, <1>4, <1>5, PlacesCounted

\* f is e without the entry of place p, and h is g but for place p, which has a new one.
Without(f, e, g, p) == \A x : InSeq(f, x) <=> InSeq(e, x) /\ ~(p \in DOMAIN g /\ x = g[p])
TakenBy(g, h, p, new) ==
  /\ DOMAIN h = DOMAIN g \cup {p}
  /\ \A i \in DOMAIN h : h[i] = IF i = p THEN new ELSE g[i]

\* A place takes a newer entry; if it was used, its old one is dropped.
LEMMA PlaceTaken ==
  ASSUME NEW e, NEW g, Lists(e, g), NEW f, Sorted(f), NEW new \in Entry, NEW p, NEW h,
         Without(f, e, g, p), Newer(new, f), TakenBy(g, h, p, new)
  PROVE  Lists(Append(f, new), h)
<1>1. PICK a : a = Append(f, new) OBVIOUS
<1>2. Sorted(a) /\ \A x : InSeq(a, x) <=> InSeq(f, x) \/ x = new BY <1>1, AppendSorted
<1>3. ASSUME NEW i \in DOMAIN h, i # p PROVE i \in DOMAIN g /\ h[i] = g[i] /\ InSeq(f, g[i])
  <2>1. i \in DOMAIN g /\ h[i] = g[i] BY <1>3 DEF TakenBy
  <2>2. InSeq(e, g[i]) BY <2>1 DEF Lists
  <2>3. p \in DOMAIN g => g[i] # g[p] BY <1>3, <2>1 DEF Lists
  <2> QED BY <2>1, <2>2, <2>3 DEF Without
<1>4. h[p] = new /\ p \in DOMAIN h BY DEF TakenBy
<1>5. \A i \in DOMAIN h : InSeq(a, h[i]) BY <1>2, <1>3, <1>4
<1>6. \A x : InSeq(a, x) => \E i \in DOMAIN h : h[i] = x
  <2>1. SUFFICES ASSUME NEW x, InSeq(a, x), x # new PROVE \E i \in DOMAIN h : h[i] = x BY <1>4
  <2>2. InSeq(e, x) /\ ~(p \in DOMAIN g /\ x = g[p]) BY <1>2, <2>1 DEF Without
  <2>3. PICK j \in DOMAIN g : g[j] = x BY <2>2 DEF Lists, InSeq
  <2>4. j # p /\ j \in DOMAIN h BY <2>2, <2>3 DEF TakenBy
  <2> QED BY <2>3, <2>4 DEF TakenBy
<1>7. \A i, j \in DOMAIN h : h[i] = h[j] => i = j
  <2>1. SUFFICES ASSUME NEW i \in DOMAIN h, NEW j \in DOMAIN h, h[i] = h[j] PROVE i = j OBVIOUS
  <2>2. ASSUME NEW n \in DOMAIN h, n # p PROVE h[n] # new
    <3>1. InSeq(f, h[n]) BY <1>3, <2>2
    <3> QED BY <3>1 DEF Newer
  <2>3. CASE i # p /\ j # p BY <1>3, <2>1, <2>3 DEF Lists
  <2> QED BY <1>4, <2>1, <2>2, <2>3
<1>8. \A k \in 1 .. Len(a) : \E i \in DOMAIN h : h[i] = a[k] BY <1>6 DEF InSeq
<1> QED BY <1>1, <1>2, <1>5, <1>7, <1>8 DEF Lists

\* The places may be given other names.
LEMMA PlacesRenamed ==
  ASSUME NEW e, NEW g, Lists(e, g), NEW h, NEW r \in [DOMAIN h -> DOMAIN g],
         \A i, j \in DOMAIN h : r[i] = r[j] => i = j,
         \A i \in DOMAIN g : \E j \in DOMAIN h : r[j] = i,
         \A i \in DOMAIN h : h[i] = g[r[i]]
  PROVE  Lists(e, h)
<1>1. \A i \in DOMAIN h : InSeq(e, h[i]) BY DEF Lists
<1>2. ASSUME NEW k \in 1 .. Len(e) PROVE \E i \in DOMAIN h : h[i] = e[k]
  <2>1. PICK i \in DOMAIN g : g[i] = e[k] BY DEF Lists
  <2>2. PICK j \in DOMAIN h : r[j] = i OBVIOUS
  <2> QED BY <2>1, <2>2
<1>3. \A i, j \in DOMAIN h : h[i] = h[j] => r[i] = r[j] BY DEF Lists
<1> QED BY <1>1, <1>2, <1>3 DEF Lists

-------------------------------------------------------------------------------
(* A use of a line, on the entries of its set. *)

\* f lists the places after the use for which new was made, and is what LruSets says.
Updated(idx, e, f, h, new) ==
  /\ Lists(f, h)
  /\ \A x : InSeq(f, x) => x.key <= new.key
  /\ LinesOf(idx, f) = UpdateLine(LinesOf(idx, e), LineOf(idx, new.tag), Ways)

\* A newer entry at the end has the largest counter.
LEMMA KeysKept ==
  ASSUME NEW f, Sorted(f), NEW new \in Entry,
         Newer(new, f)
  PROVE  \A x : InSeq(Append(f, new), x) => x.key <= new.key
<1>1. \A x : InSeq(Append(f, new), x) <=> InSeq(f, x) \/ x = new BY AppendSorted
<1>2. new.key \in Nat BY DEF Entry
<1>3. \A x : InSeq(f, x) => x \in Entry BY ElementOfSeq DEF InSeq, Sorted
<1>4. \A x : InSeq(f, x) => x.key \in Nat BY <1>3 DEF Entry
<1>5. SUFFICES ASSUME NEW x, InSeq(f, x) \/ x = new PROVE x.key <= new.key BY <1>1
<1>6. CASE x = new BY <1>2, <1>6
<1>7. CASE InSeq(f, x)
  <2>1. x.key < new.key /\ x.key \in Nat BY <1>4, <1>7 DEF Newer
  <2> QED BY <1>2, <2>1
<1> QED BY <1>5, <1>6, <1>7

\* The line is there: its entry becomes the last.
LEMMA EntriesHit ==
  ASSUME NEW idx \in SetIndices, NEW e, NEW g, Lists(e, g), NEW new \in Entry,
         \A x : InSeq(e, x) => x.key < new.key,
         NEW p \in DOMAIN g, g[p].tag = new.tag, NEW h, TakenBy(g, h, p, new)
  PROVE  /\ Holds(LinesOf(idx, e), LineOf(idx, new.tag))
         /\ ~Evicts(LinesOf(idx, e), LineOf(idx, new.tag), Ways)
         /\ \E f : Updated(idx, e, f, h, new)
<1>1. Sorted(e) BY DEF Lists
<1>2. PICK k \in 1 .. Len(e) : e[k] = g[p] BY DEF Lists, InSeq
<1>3. PICK d, f : d = Dropped(e, k) /\ f = Append(d, new) OBVIOUS
<1>4. /\ Sorted(d)
      /\ \A x : InSeq(d, x) <=> InSeq(e, x) /\ x # e[k]
      /\ \A x : InSeq(d, x) => x.tag # e[k].tag
  BY <1>1, <1>3, DropSorted
<1>5. Newer(new, d) BY <1>2, <1>4 DEF Newer
<1>6. Without(d, e, g, p) BY <1>2, <1>4 DEF Without
<1>7. Lists(f, h) BY <1>3, <1>4, <1>5, <1>6, PlaceTaken
<1>8. \A x : InSeq(f, x) => x.key <= new.key BY <1>3, <1>4, <1>5, KeysKept
<1>9. PICK l : l = LineOf(idx, new.tag) OBVIOUS
<1>10. /\ Holds(LinesOf(idx, e), l) /\ ~Evicts(LinesOf(idx, e), l, Ways)
       /\ UpdateLine(LinesOf(idx, e), l, Ways) = LinesOf(idx, f)
  <2>1. e[k].tag = new.tag BY <1>2
  <2> QED BY <1>1, <1>3, <1>9, <2>1, LinesHit
<1> QED BY <1>7, <1>8, <1>9, <1>10 DEF Updated

\* It is not, and there is no room: the entry with the smallest counter goes.
LEMMA EntriesEvict ==
  ASSUME NEW idx \in SetIndices, NEW e, NEW g, Lists(e, g), NEW new \in Entry,
         \A x : InSeq(e, x) => x.key < new.key,
         \A i \in DOMAIN g : g[i].tag # new.tag, Len(e) = Ways,
         NEW p \in DOMAIN g, \A i \in DOMAIN g : g[p].key <= g[i].key,
         NEW h, TakenBy(g, h, p, new)
  PROVE  /\ ~Holds(LinesOf(idx, e), LineOf(idx, new.tag))
         /\ Evicts(LinesOf(idx, e), LineOf(idx, new.tag), Ways)
         /\ Victim(LinesOf(idx, e)) = LineOf(idx, g[p].tag)
         /\ \E f : Updated(idx, e, f, h, new)
<1>1. Sorted(e) /\ 1 \in 1 .. Len(e) BY GeometryAssumption DEF Lists
<1>2. PICK q \in DOMAIN g : g[q] = e[1] BY <1>1 DEF Lists
<1>3. g[p] = e[1]
  <2>1. PICK k \in 1 .. Len(e) : e[k] = g[p] BY DEF Lists, InSeq
  <2>2. e[k].key <= e[1].key BY <1>2, <2>1
  <2>3. e[k] \in Entry /\ e[1] \in Entry BY <1>1, ElementOfSeq DEF Sorted
  <2>4. k = 1
    <3>1. SUFFICES ASSUME 1 < k PROVE FALSE BY <1>1
    <3>2. e[1].key < e[k].key BY <1>1, <3>1 DEF Sorted
    <3> QED BY <2>2, <2>3, <3>2 DEF Entry
  <2> QED BY <2>1, <2>4
<1>4. PICK d, f : d = Dropped(e, 1) /\ f = Append(d, new) OBVIOUS
<1>5. /\ Sorted(d)
      /\ \A x : InSeq(d, x) <=> InSeq(e, x) /\ x # e[1]
  BY <1>1, <1>4, DropSorted
<1>6. \A x : InSeq(e, x) => x.tag # new.tag BY DEF Lists, InSeq
<1>7. Newer(new, d) BY <1>5, <1>6 DEF Newer
<1>8. Without(d, e, g, p) BY <1>3, <1>5 DEF Without
<1>9. Lists(f, h) BY <1>4, <1>5, <1>7, <1>8, PlaceTaken
<1>10. \A x : InSeq(f, x) => x.key <= new.key BY <1>4, <1>5, <1>7, KeysKept
<1>11. PICK l : l = LineOf(idx, new.tag) OBVIOUS
<1>12. /\ ~Holds(LinesOf(idx, e), l) /\ Evicts(LinesOf(idx, e), l, Ways)
       /\ Victim(LinesOf(idx, e)) = LineOf(idx, e[1].tag)
       /\ UpdateLine(LinesOf(idx, e), l, Ways) = LinesOf(idx, f)
  <2>1. \A k \in 1 .. Len(e) : e[k].tag # new.tag BY <1>6 DEF InSeq
  <2> QED BY <1>1, <1>4, <1>11, <2>1, LinesEvicted
<1> QED BY <1>3, <1>9, <1>10, <1>11, <1>12 DEF Updated

\* It is not, and there is room: the entry is one more.
LEMMA EntriesAdd ==
  ASSUME NEW idx \in SetIndices, NEW e, NEW g, Lists(e, g), NEW new \in Entry,
         \A x : InSeq(e, x) => x.key < new.key,
         \A i \in DOMAIN g : g[i].tag # new.tag, Len(e) < Ways,
         NEW p, p \notin DOMAIN g, NEW h, TakenBy(g, h, p, new)
  PROVE  /\ ~Holds(LinesOf(idx, e), LineOf(idx, new.tag))
         /\ ~Evicts(LinesOf(idx, e), LineOf(idx, new.tag), Ways)
         /\ \E f : Updated(idx, e, f, h, new)
<1>1. Sorted(e) BY DEF Lists
<1>2. PICK f : f = Append(e, new) OBVIOUS
<1>3. \A x : InSeq(e, x) => x.tag # new.tag BY DEF Lists, InSeq
<1>4. Newer(new, e) BY <1>3 DEF Newer
<1>5. Without(e, e, g, p) BY DEF Without
<1>6. Lists(f, h) BY <1>1, <1>2, <1>4, <1>5, PlaceTaken
<1>7. \A x : InSeq(f, x) => x.key <= new.key BY <1>1, <1>2, <1>4, KeysKept
<1>8. PICK l : l = LineOf(idx, new.tag) OBVIOUS
<1>9. /\ ~Holds(LinesOf(idx, e), l) /\ ~Evicts(LinesOf(idx, e), l, Ways)
      /\ UpdateLine(LinesOf(idx, e), l, Ways) = LinesOf(idx, f)
  <2>1. \A k \in 1 .. Len(e) : e[k].tag # new.tag BY <1>3 DEF InSeq
  <2> QED BY <1>1, <1>2, <1>8, <2>1, LinesAdded
<1> QED BY <1>6, <1>7, <1>8, <1>9 DEF Updated

-------------------------------------------------------------------------------
(* The ways of a set. *)

WaysOfSet == [Way -> [valid : BOOLEAN, tag : Nat, lru : Nat]]

WayEntries(set) ==
  [i \in {j \in Way : set[j].valid} |-> [tag |-> set[i].tag, key |-> set[i].lru]]

\* WaysLines, of any set.
ValidWays(set) == {i \in Way : set[i].valid}
WayOfRank(set, k) ==
  CHOOSE i \in ValidWays(set) :
    Cardinality({j \in ValidWays(set) : set[j].lru < set[i].lru}) = k - 1
LinesOfWays(idx, set) ==
  [k \in 1 .. Cardinality(ValidWays(set)) |-> LineOf(idx, set[WayOfRank(set, k)].tag)]

\* The lines of the ways by their counters are those of the listing.
LEMMA WaysListed ==
  ASSUME NEW idx, NEW set, NEW e, Lists(e, WayEntries(set))
  PROVE  LinesOfWays(idx, set) = LinesOf(idx, e)
<1>1. PICK g : g = WayEntries(set) OBVIOUS
<1>2. /\ DOMAIN g = ValidWays(set)
      /\ \A i \in ValidWays(set) : g[i] = [tag |-> set[i].tag, key |-> set[i].lru]
  BY <1>1 DEF WayEntries, ValidWays
<1>3. ASSUME NEW i \in ValidWays(set)
      PROVE  {j \in ValidWays(set) : set[j].lru < set[i].lru} = Older(g, i)
  BY <1>2 DEF Older
<1>4. Lists(e, g) BY <1>1
<1>5. Cardinality(ValidWays(set)) = Len(e) BY <1>2, <1>4, RankIs
<1>6. ASSUME NEW k \in 1 .. Len(e)
      PROVE  set[WayOfRank(set, k)].tag = e[k].tag
  <2>1. PICK i : i = WayOfRank(set, k) OBVIOUS
  <2>2. PICK n \in ValidWays(set) : g[n] = e[k] BY <1>2, <1>4 DEF Lists
  <2>3. Cardinality(Older(g, n)) = k - 1 BY <1>2, <1>4, <2>2, RankIs
  <2>4. i \in ValidWays(set) /\ Cardinality({j \in ValidWays(set) : set[j].lru < set[i].lru}) = k - 1
    BY <1>2, <1>3, <2>1, <2>2, <2>3 DEF WayOfRank
  <2>5. Cardinality(Older(g, i)) = k - 1 BY <1>3, <2>4
  <2>6. g[i] = e[k] BY <1>2, <1>4, <2>4, <2>5, RankIs
  <2> QED BY <1>2, <2>1, <2>4, <2>6
<1> QED BY <1>5, <1>6 DEF LinesOfWays, LinesOf

\* Way i of the set takes the line with this tag; the set is then h.
TakesLine(set, h, i, tag, c) ==
  h = [set EXCEPT ![i] = [valid |-> TRUE, tag |-> tag, lru |-> c]]

\* A way that takes a line.
LEMMA WayTaken ==
  ASSUME NEW set \in WaysOfSet, NEW i \in Way, NEW tag \in Nat, NEW c \in Nat, NEW h,
         TakesLine(set, h, i, tag, c)
  PROVE  /\ h \in WaysOfSet /\ [tag |-> tag, key |-> c] \in Entry
         /\ TakenBy(WayEntries(set), WayEntries(h), i, [tag |-> tag, key |-> c])
<1>1. h \in WaysOfSet BY DEF WaysOfSet, TakesLine
<1>2. /\ \A j \in Way : j # i => h[j] = set[j]
      /\ h[i].valid /\ h[i].tag = tag /\ h[i].lru = c
  BY DEF WaysOfSet, TakesLine
<1>3. DOMAIN WayEntries(h) = DOMAIN WayEntries(set) \cup {i} BY <1>2 DEF WayEntries
<1>4. ASSUME NEW j \in DOMAIN WayEntries(h)
      PROVE  WayEntries(h)[j] = IF j = i THEN [tag |-> tag, key |-> c] ELSE WayEntries(set)[j]
  <2>1. j \in Way /\ h[j].valid /\ WayEntries(h)[j] = [tag |-> h[j].tag, key |-> h[j].lru]
    BY DEF WayEntries
  <2>2. CASE j = i BY <1>2, <2>1, <2>2
  <2>3. CASE j # i
    <3>1. h[j] = set[j] BY <1>2, <2>1, <2>3
    <3>2. WayEntries(set)[j] = [tag |-> set[j].tag, key |-> set[j].lru] BY <2>1, <3>1 DEF WayEntries
    <3> QED BY <2>1, <2>3, <3>1, <3>2
  <2> QED BY <2>2, <2>3
<1> QED BY <1>1, <1>3, <1>4 DEF TakenBy, Entry

\* The entries are as many as the ways that are valid.
LEMMA WaysCounted ==
  ASSUME NEW set, NEW e, Lists(e, WayEntries(set))
  PROVE  /\ (\A i \in Way : set[i].valid) => Len(e) = Ways
         /\ (\E i \in Way : ~set[i].valid) => Len(e) < Ways
<1>1. PICK V : V = {i \in Way : set[i].valid} OBVIOUS
<1>2. Cardinality(V) = Len(e) /\ IsFiniteSet(V)
  <2>1. DOMAIN WayEntries(set) = V BY <1>1 DEF WayEntries
  <2> QED BY <2>1, RankIs
<1>3. IsFiniteSet(Way) /\ Cardinality(Way) = Ways
  <2>1. IsFiniteSet(1 .. Ways) /\ Cardinality(1 .. Ways) = IF 1 > Ways THEN 0 ELSE Ways - 1 + 1
    BY GeometryAssumption, FS_Interval
  <2> QED BY <2>1, GeometryAssumption DEF Way
<1>4. ASSUME \A i \in Way : set[i].valid PROVE Len(e) = Ways
  <2>1. V = Way BY <1>1, <1>4
  <2> QED BY <1>2, <1>3, <2>1
<1>5. ASSUME NEW i \in Way, ~set[i].valid PROVE Len(e) < Ways
  <2>1. V \in SUBSET Way /\ V # Way BY <1>1, <1>5
  <2>2. Cardinality(V) <= Ways /\ Cardinality(V) # Ways BY <1>3, <2>1, FS_Subset
  <2>3. Cardinality(V) \in Nat BY <1>2, FS_CardinalityType
  <2> QED BY <1>2, <2>2, <2>3, GeometryAssumption
<1> QED BY <1>4, <1>5

\* The first of some ways is one of them.
LEMMA FirstOfIn ==
  ASSUME NEW S, S \subseteq Nat, S # {}
  PROVE  FirstOf(S) \in S
<1>1. \E c \in S : \A d \in S : c <= d
  <2>1. \E c \in S : \A d \in S : ~(<<d, c>> \in OpToRel(<, Nat))
    BY NatLessThanWellFounded, WFMin, Zenon
  <2>2. PICK c \in S : \A d \in S : ~(<<d, c>> \in OpToRel(<, Nat)) BY <2>1
  <2>3. ASSUME NEW d \in S PROVE c <= d
    <3>1. ~(d < c) BY <2>2, <2>3, Zenon DEF OpToRel
    <3> QED BY <3>1
  <2> QED BY <2>3
<1>2. (CHOOSE c \in S : \A d \in S : c <= d) \in S BY <1>1, Zenon
<1> QED BY <1>2 DEF FirstOf

\* The set is listed, with counters below c.
WaysListedBelow(set, c) ==
  \E e : Lists(e, WayEntries(set)) /\ \A x : InSeq(e, x) => x.key < c

Chosen(set, tag, i) ==
  \/ set[i].valid /\ set[i].tag = tag
  \/ /\ \A j \in Way : ~(set[j].valid /\ set[j].tag = tag)
     /\ \/ ~set[i].valid
        \/ \A j \in Way : set[j].valid /\ set[i].lru <= set[j].lru

\* A way takes line l: one that has it, else an empty one, else the one with the smallest
\* counter.  The lines of the set are then those that LruSets says.
LEMMA WaysUse ==
  ASSUME NEW idx \in SetIndices, NEW set \in WaysOfSet, NEW c \in Nat, WaysListedBelow(set, c),
         NEW tag \in Nat, NEW i \in Way, NEW l, l = LineOf(idx, tag), NEW h,
         TakesLine(set, h, i, tag, c),
         Chosen(set, tag, i), NEW s, s = LinesOfWays(idx, set)
  PROVE  /\ h \in WaysOfSet /\ WaysListedBelow(h, c + 1)
         /\ LinesOfWays(idx, h) = UpdateLine(s, l, Ways)
         /\ Holds(s, l) <=> set[i].valid /\ set[i].tag = tag
         /\ Evicts(s, l, Ways) <=> set[i].valid /\ set[i].tag # tag
         /\ Evicts(s, l, Ways) => Victim(s) = LineOf(idx, set[i].tag)
<1>1. PICK e : Lists(e, WayEntries(set)) /\ \A x : InSeq(e, x) => x.key < c BY DEF WaysListedBelow
<1>2. PICK g, k, new : g = WayEntries(set) /\ k = WayEntries(h) /\ new = [tag |-> tag, key |-> c]
  OBVIOUS
<1>3. h \in WaysOfSet /\ new \in Entry /\ TakenBy(g, k, i, new) BY <1>2, WayTaken
<1>4. Lists(e, g) /\ new.key = c /\ new.tag = tag /\ \A x : InSeq(e, x) => x.key < new.key
  BY <1>1, <1>2
<1>6. s = LinesOf(idx, e) BY <1>1, WaysListed
<1>7. \A j : j \in DOMAIN g <=> j \in Way /\ set[j].valid BY <1>2 DEF WayEntries
<1>8. \A j \in DOMAIN g : g[j].tag = set[j].tag /\ g[j].key = set[j].lru
  BY <1>2 DEF WayEntries
<1>9. ASSUME NEW f, Updated(idx, e, f, k, new)
      PROVE  WaysListedBelow(h, c + 1) /\ LinesOfWays(idx, h) = UpdateLine(s, l, Ways)
  <2>1. Lists(f, WayEntries(h)) /\ \A x : InSeq(f, x) => x.key <= c BY <1>2, <1>4, <1>9 DEF Updated
  <2>2. \A x : InSeq(f, x) => x.key \in Nat BY <2>1, KeysNat
  <2>3. \A x : InSeq(f, x) => x.key < c + 1 BY <2>1, <2>2
  <2>4. LinesOfWays(idx, h) = LinesOf(idx, f) BY <2>1, WaysListed
  <2> QED BY <1>4, <1>6, <1>9, <2>1, <2>3, <2>4 DEF Updated, WaysListedBelow
<1>10. CASE set[i].valid /\ set[i].tag = tag
  <2>1. i \in DOMAIN g /\ g[i].tag = new.tag BY <1>4, <1>7, <1>8, <1>10
  <2>2. /\ Holds(s, l) /\ ~Evicts(s, l, Ways) /\ \E f : Updated(idx, e, f, k, new)
    BY <1>3, <1>4, <1>6, <2>1, EntriesHit
  <2> QED BY <1>3, <1>9, <1>10, <2>2
<1>11. CASE /\ \A j \in Way : ~(set[j].valid /\ set[j].tag = tag)
            /\ ~set[i].valid
  <2>1. i \notin DOMAIN g /\ \A j \in DOMAIN g : g[j].tag # new.tag BY <1>4, <1>7, <1>8, <1>11
  <2>2. Len(e) < Ways BY <1>1, <1>11, WaysCounted
  <2>3. ~Holds(s, l) /\ ~Evicts(s, l, Ways) /\ \E f : Updated(idx, e, f, k, new)
    BY <1>3, <1>4, <1>6, <2>1, <2>2, EntriesAdd
  <2> QED BY <1>3, <1>9, <1>11, <2>3
<1>12. CASE /\ \A j \in Way : ~(set[j].valid /\ set[j].tag = tag)
            /\ \A j \in Way : set[j].valid /\ set[i].lru <= set[j].lru
  <2>1. /\ i \in DOMAIN g /\ \A j \in DOMAIN g : g[j].tag # new.tag
        /\ \A j \in DOMAIN g : g[i].key <= g[j].key
    BY <1>4, <1>7, <1>8, <1>12
  <2>2. Len(e) = Ways BY <1>1, <1>12, WaysCounted
  <2>3. /\ ~Holds(s, l) /\ Evicts(s, l, Ways) /\ Victim(s) = LineOf(idx, g[i].tag)
        /\ \E f : Updated(idx, e, f, k, new)
    BY <1>3, <1>4, <1>6, <2>1, <2>2, EntriesEvict
  <2> QED BY <1>3, <1>7, <1>8, <1>9, <1>12, <2>1, <2>3
<1> QED BY <1>10, <1>11, <1>12 DEF Chosen

-------------------------------------------------------------------------------
(* The simulator's cache. *)

WaysInv ==
  /\ globalCounter \in 0 .. MaxCounter
  /\ ways \in [SetIndices -> WaysOfSet]
  /\ \A s \in SetIndices : WaysListedBelow(ways[s], globalCounter)

\* The listing of a set is one for a larger counter too.
LEMMA ListedBelowNext ==
  ASSUME NEW set, NEW c \in Nat, WaysListedBelow(set, c)
  PROVE  WaysListedBelow(set, c + 1)
<1>1. PICK e : Lists(e, WayEntries(set)) /\ \A x : InSeq(e, x) => x.key < c BY DEF WaysListedBelow
<1>2. \A x : InSeq(e, x) => x.key \in Nat BY <1>1, KeysNat
<1>3. \A x : InSeq(e, x) => x.key < c + 1 BY <1>1, <1>2
<1> QED BY <1>1, <1>3 DEF WaysListedBelow

\* The victim is a way with the smallest counter, which is below INT_MAX.
LEMMA VictimIs ==
  ASSUME NEW set \in WaysOfSet, NEW c \in 0 .. IntMax, WaysListedBelow(set, c),
         \A i \in Way : set[i].valid,
         NEW S, S = {i \in Way : set[i].lru < IntMax /\ \A j \in Way : set[i].lru <= set[j].lru}
  PROVE  /\ FirstOf(S) \in Way
         /\ \A j \in Way : set[FirstOf(S)].lru <= set[j].lru
<1>1. PICK e : Lists(e, WayEntries(set)) /\ \A x : InSeq(e, x) => x.key < c BY DEF WaysListedBelow
<1>2. PICK g : g = WayEntries(set) OBVIOUS
<1>3. DOMAIN g = Way /\ \A j \in Way : g[j].key = set[j].lru
  BY <1>2 DEF WayEntries
<1>4. Lists(e, g) /\ e \in Seq(Entry) /\ Len(e) = Ways BY <1>1, <1>2, WaysCounted DEF Lists, Sorted
<1>5. 1 \in 1 .. Len(e) /\ Len(e) \in Nat BY <1>4, GeometryAssumption
<1>6. PICK i \in Way : g[i] = e[1] BY <1>3, <1>4, <1>5 DEF Lists
<1>7. ASSUME NEW j \in Way PROVE set[i].lru <= set[j].lru
  <2>1. PICK k \in 1 .. Len(e) : e[k] = g[j] BY <1>3, <1>4 DEF Lists, InSeq
  <2>2. e[1].key = set[i].lru /\ e[k].key = set[j].lru BY <1>3, <1>6, <2>1
  <2>3. set[i].lru \in Nat /\ set[j].lru \in Nat BY DEF WaysOfSet
  <2>4. k = 1 \/ e[1].key < e[k].key BY <1>4, <1>5 DEF Lists, Sorted
  <2> QED BY <2>2, <2>3, <2>4
<1>8. set[i].lru < IntMax
  <2>1. InSeq(e, g[i]) BY <1>3, <1>4 DEF Lists
  <2>2. set[i].lru < c BY <1>1, <1>3, <2>1
  <2>3. set[i].lru \in Nat BY DEF WaysOfSet
  <2> QED BY <2>2, <2>3, CachesAssumption
<1>9. i \in S /\ S \subseteq Nat BY <1>7, <1>8, GeometryAssumption DEF Way
<1>10. FirstOf(S) \in S BY <1>9, FirstOfIn
<1> QED BY <1>10

\* The way that updateLine gives the line.
LEMMA WayChosen ==
  ASSUME WaysInv, NEW addr \in Nat, UpdateWays(addr), NEW set, set = ways[SetIdx(addr)],
         NEW tag, tag = TagOf(addr), NEW c, c = globalCounter
  PROVE  \E i \in Way :
           /\ ways' = [ways EXCEPT ![SetIdx(addr)][i] = [valid |-> TRUE, tag |-> tag, lru |-> c]]
           /\ Chosen(set, tag, i)
           /\ waysReply'.missed = ~(set[i].valid /\ set[i].tag = tag)
           /\ waysReply'.eviction = IF set[i].valid /\ set[i].tag # tag
                                    THEN EvictionAddr(addr, i) ELSE NoEviction
<1>1. /\ SetIdx(addr) \in SetIndices /\ set \in WaysOfSet /\ c \in 0 .. IntMax
      /\ WaysListedBelow(set, c)
  <2>1. SetIdx(addr) \in SetIndices BY AddressParts
  <2> QED BY <2>1, CachesAssumption DEF WaysInv
<1>2. /\ \A j : j \in Hits(addr) <=> j \in Way /\ set[j].valid /\ set[j].tag = tag
      /\ \A j : j \in Empty(addr) <=> j \in Way /\ ~set[j].valid
  BY DEF Hits, Empty
<1>3. Way \subseteq Nat BY GeometryAssumption DEF Way
<1>4. CASE /\ Hits(addr) # {}
           /\ ways' = Take(addr, FirstOf(Hits(addr)), TagOf(addr))
           /\ waysReply' = [missed |-> FALSE, eviction |-> NoEviction]
  <2>1. PICK i : i = FirstOf(Hits(addr)) OBVIOUS
  <2>2. Hits(addr) \subseteq Nat BY <1>2, <1>3
  <2>3. i \in Hits(addr) BY <1>4, <2>1, <2>2, FirstOfIn
  <2>4. i \in Way /\ set[i].valid /\ set[i].tag = tag BY <1>2, <2>3
  <2>5. ways' = [ways EXCEPT ![SetIdx(addr)][i] = [valid |-> TRUE, tag |-> tag, lru |-> c]]
    BY <1>4, <2>1 DEF Take
  <2> QED BY <1>4, <2>4, <2>5 DEF Chosen
<1>5. CASE /\ Hits(addr) = {} /\ Empty(addr) # {}
           /\ ways' = Take(addr, FirstOf(Empty(addr)), TagOf(addr))
           /\ waysReply' = [missed |-> TRUE, eviction |-> NoEviction]
  <2>1. PICK i : i = FirstOf(Empty(addr)) OBVIOUS
  <2>2. Empty(addr) \subseteq Nat BY <1>2, <1>3
  <2>3. i \in Empty(addr) BY <1>5, <2>1, <2>2, FirstOfIn
  <2>4. i \in Way /\ ~set[i].valid BY <1>2, <2>3
  <2>5. ways' = [ways EXCEPT ![SetIdx(addr)][i] = [valid |-> TRUE, tag |-> tag, lru |-> c]]
    BY <1>5, <2>1 DEF Take
  <2>6. \A j \in Way : ~(set[j].valid /\ set[j].tag = tag) BY <1>2, <1>5
  <2> QED BY <1>5, <2>4, <2>5, <2>6 DEF Chosen
<1>6. CASE /\ Hits(addr) = {} /\ Empty(addr) = {}
           /\ ways' = Take(addr, EvictionIdx(addr), TagOf(addr))
           /\ waysReply' = [missed |-> TRUE, eviction |-> EvictionAddr(addr, EvictionIdx(addr))]
  <2>1. PICK i : i = EvictionIdx(addr) OBVIOUS
  <2>2. \A j \in Way : set[j].valid BY <1>2, <1>6
  <2>3. i \in Way /\ \A j \in Way : set[i].lru <= set[j].lru
    BY <1>1, <2>1, <2>2, VictimIs DEF EvictionIdx
  <2>4. ways' = [ways EXCEPT ![SetIdx(addr)][i] = [valid |-> TRUE, tag |-> tag, lru |-> c]]
    BY <1>6, <2>1 DEF Take
  <2>5. \A j \in Way : ~(set[j].valid /\ set[j].tag = tag) BY <1>2, <1>6
  <2> QED BY <1>6, <2>1, <2>2, <2>3, <2>4, <2>5 DEF Chosen
<1> QED BY <1>4, <1>5, <1>6 DEF UpdateWays

\* The operators of CacheSet are those of LruSets.
LEMMA SameSets ==
  /\ \A s, l : WaysLru!Holds(s, l) <=> Holds(s, l)
  /\ \A s, l, n : WaysLru!Evicts(s, l, n) <=> Evicts(s, l, n)
  /\ \A s : WaysLru!Victim(s) = Victim(s)
  /\ \A s, l, n : WaysLru!UpdateLine(s, l, n) = UpdateLine(s, l, n)
  /\ \A s, l : SimpleLru!Holds(s, l) <=> Holds(s, l)
  /\ \A s, l, n : SimpleLru!Evicts(s, l, n) <=> Evicts(s, l, n)
  /\ \A s : SimpleLru!Victim(s) = Victim(s)
  /\ \A s, l, n : SimpleLru!UpdateLine(s, l, n) = UpdateLine(s, l, n)
BY DEF WaysLru!Holds, WaysLru!Evicts, WaysLru!Victim, WaysLru!UpdateLine, WaysLru!Touch,
       SimpleLru!Holds, SimpleLru!Evicts, SimpleLru!Victim, SimpleLru!UpdateLine, SimpleLru!Touch,
       Holds, Evicts, Victim, UpdateLine, Touch

\* WaysLines is the definition for the ways of one set, before and after a step.
LEMMA WaysLinesAre ==
  ASSUME NEW idx \in SetIndices
  PROVE  /\ WaysLines(idx) = LinesOfWays(idx, ways[idx])
         /\ WaysLines(idx)' = LinesOfWays(idx, ways'[idx])
BY DEF WaysLines, LinesOfWays, WayOfRank, ValidWays

\* updateLine keeps the sets listed and does what LruSets says.
LEMMA UpdateWaysStep ==
  ASSUME WaysInv, globalCounter < MaxCounter, NEW addr \in Nat, UpdateWays(addr),
         NEW idx, idx = SetIdx(addr), NEW l, l = addr \div BlockSize,
         NEW s, s = WaysLines(idx)
  PROVE  /\ WaysInv'
         /\ WaysLines(idx)' = UpdateLine(s, l, Ways)
         /\ \A i \in SetIndices : i # idx => WaysLines(i)' = WaysLines(i)
         /\ waysReply'.missed = ~Holds(s, l)
         /\ IF Evicts(s, l, Ways)
            THEN /\ waysReply'.eviction # NoEviction
                 /\ waysReply'.eviction \div BlockSize = Victim(s)
            ELSE waysReply'.eviction = NoEviction
<1>1. PICK set, tag, c : set = ways[idx] /\ tag = TagOf(addr) /\ c = globalCounter OBVIOUS
<1>2. /\ idx \in SetIndices /\ tag \in Nat /\ l = LineOf(idx, tag)
      /\ set \in WaysOfSet /\ c \in Nat /\ c + 1 \in 0 .. MaxCounter /\ WaysListedBelow(set, c)
      /\ globalCounter' = c + 1
  <2>1. idx \in SetIndices /\ tag \in Nat /\ l = LineOf(idx, tag) BY <1>1, AddressParts
  <2>2. set \in WaysOfSet /\ WaysListedBelow(set, c) BY <1>1, <2>1 DEF WaysInv
  <2>3. c \in 0 .. MaxCounter /\ MaxCounter \in Int /\ c < MaxCounter
    BY <1>1, CachesAssumption DEF WaysInv
  <2>4. globalCounter' = c + 1 BY <1>1 DEF UpdateWays
  <2> QED BY <2>1, <2>2, <2>3, <2>4
<1>3. PICK i \in Way :
        /\ ways' = [ways EXCEPT ![idx][i] = [valid |-> TRUE, tag |-> tag, lru |-> c]]
        /\ Chosen(set, tag, i)
        /\ waysReply'.missed = ~(set[i].valid /\ set[i].tag = tag)
        /\ waysReply'.eviction = IF set[i].valid /\ set[i].tag # tag
                                 THEN EvictionAddr(addr, i) ELSE NoEviction
  BY <1>1, WayChosen
<1>4. PICK h : TakesLine(set, h, i, tag, c) BY DEF TakesLine
<1>5. /\ ways' \in [SetIndices -> WaysOfSet] \/ h \notin WaysOfSet
      /\ ways'[idx] = h /\ \A n \in SetIndices : n # idx => ways'[n] = ways[n]
  BY <1>1, <1>2, <1>3, <1>4 DEF WaysInv, TakesLine
<1>6. s = LinesOfWays(idx, set) BY <1>1, <1>2, WaysLinesAre
<1>7. /\ h \in WaysOfSet /\ WaysListedBelow(h, c + 1)
      /\ LinesOfWays(idx, h) = UpdateLine(s, l, Ways)
      /\ Holds(s, l) <=> set[i].valid /\ set[i].tag = tag
      /\ Evicts(s, l, Ways) <=> set[i].valid /\ set[i].tag # tag
      /\ Evicts(s, l, Ways) => Victim(s) = LineOf(idx, set[i].tag)
  <2>1. idx \in SetIndices /\ l = LineOf(idx, tag) BY <1>2
  <2>2. set \in WaysOfSet /\ WaysListedBelow(set, c) BY <1>2
  <2>3. c \in Nat /\ tag \in Nat BY <1>2
  <2>4. i \in Way /\ Chosen(set, tag, i) BY <1>3
  <2> QED BY ONLY <1>4, <1>6, <2>1, <2>2, <2>3, <2>4, WaysUse
<1>8. WaysInv'
  <2>1. ASSUME NEW n \in SetIndices, n # idx PROVE WaysListedBelow(ways'[n], c + 1)
    <3>1. ways'[n] = ways[n] BY <1>5, <2>1
    <3>2. WaysListedBelow(ways[n], c) BY <1>1 DEF WaysInv
    <3> QED BY <1>2, <3>1, <3>2, ListedBelowNext
  <2>2. \A n \in SetIndices : WaysListedBelow(ways'[n], c + 1) BY <1>5, <1>7, <2>1
  <2> QED BY <1>2, <1>5, <1>7, <2>2 DEF WaysInv
<1>9. WaysLines(idx)' = UpdateLine(s, l, Ways) BY <1>2, <1>5, <1>7, WaysLinesAre
<1>10. \A n \in SetIndices : n # idx => WaysLines(n)' = WaysLines(n) BY <1>5, WaysLinesAre
<1>11. set[i].tag \in Nat BY <1>2 DEF WaysOfSet
<1>12. EvictionAddr(addr, i) \in Nat /\ EvictionAddr(addr, i) \div BlockSize = LineOf(idx, set[i].tag)
  BY <1>1, <1>11, EvictionLine DEF EvictionAddr
<1>13. EvictionAddr(addr, i) # NoEviction BY <1>12 DEF NoEviction
<1> QED BY <1>3, <1>7, <1>8, <1>9, <1>10, <1>12, <1>13

\* Where no place is used, nothing is listed.
LEMMA NoneListed ==
  ASSUME NEW g, DOMAIN g = {}
  PROVE  Lists(<<>>, g) /\ \A x : ~InSeq(<<>>, x)
BY DEF Lists, InSeq, Sorted

\* Empty ways are listed by the empty sequence.
LEMMA WaysStart ==
  ASSUME CachesInit
  PROVE  WaysInv /\ WaysLru!Init
<1>1. WaysInit /\ asked = {} BY DEF CachesInit
<1>2. ASSUME NEW s \in SetIndices
      PROVE  WaysListedBelow(ways[s], 0) /\ WaysLines(s) = <<>>
  <2>1. DOMAIN WayEntries(ways[s]) = {} BY <1>1 DEF WaysInit, WayEntries
  <2>2. Lists(<<>>, WayEntries(ways[s])) /\ \A x : ~InSeq(<<>>, x) BY <2>1, NoneListed
  <2>3. WaysLines(s) = LinesOf(s, <<>>) BY <2>2, WaysListed, WaysLinesAre
  <2>4. LinesOf(s, <<>>) = <<>> BY DEF LinesOf
  <2> QED BY <2>2, <2>3, <2>4 DEF WaysListedBelow
<1>3. WaysInv
  <2>1. globalCounter = 0 /\ ways \in [SetIndices -> WaysOfSet] BY <1>1 DEF WaysInit, WaysOfSet
  <2>2. 0 \in 0 .. MaxCounter BY CachesAssumption
  <2> QED BY <1>2, <2>1, <2>2 DEF WaysInv
<1>4. WaysLru!Init
  <2>1. [s \in SetIndices |-> WaysLines(s)] = [s \in SetIndices |-> <<>>] BY <1>2
  <2>2. waysReply.missed = FALSE /\ waysReply.eviction = NoEviction BY <1>1 DEF WaysInit
  <2> QED BY <1>1, <2>1, <2>2 DEF WaysLru!Init, WaysLru!Sets, SetIndices
<1> QED BY <1>3, <1>4

\* A read or a fetch raises the counter and nothing that LruSets knows of.
LEMMA LookupStep ==
  ASSUME WaysInv, NEW addr \in Nat, Lookup(addr)
  PROVE  WaysInv' /\ UNCHANGED WaysLru!lruVars
<1>1. /\ globalCounter < MaxCounter /\ globalCounter' = globalCounter + 1
      /\ UNCHANGED <<ways, waysReply, asked>>
  BY DEF Lookup, ReadOrFetch
<1>2. globalCounter' \in 0 .. MaxCounter /\ globalCounter \in Nat
  BY <1>1, CachesAssumption DEF WaysInv
<1>3. \A s \in SetIndices : WaysListedBelow(ways[s], globalCounter + 1)
  BY <1>2, ListedBelowNext DEF WaysInv
<1>4. WaysInv' BY <1>1, <1>2, <1>3 DEF WaysInv
<1>5. \A s \in SetIndices : WaysLines(s)' = WaysLines(s) BY <1>1, WaysLinesAre
<1>6. [s \in SetIndices |-> WaysLines(s)]' = [s \in SetIndices |-> WaysLines(s)] BY <1>5
<1> QED BY <1>1, <1>4, <1>6 DEF WaysLru!lruVars

\* A request asks for the line of its first byte.
LEMMA WaysRequestStep ==
  ASSUME WaysInv, NEW addr \in Address, NEW size \in Sizes, Request(addr, size)
  PROVE  WaysInv' /\ WaysLru!Next
<1>1. /\ globalCounter < MaxCounter /\ UpdateWays(addr) /\ asked' = {addr, addr + size - 1}
      /\ addr \in Nat /\ size \in Nat /\ size >= 1 /\ addr \div BlockSize \in Line
  BY CachesAssumption, GeometryAssumption DEF Request
<1>2. PICK idx, l, s : idx = SetIdx(addr) /\ l = addr \div BlockSize /\ s = WaysLines(idx) OBVIOUS
<1>3. idx \in SetIndices /\ l % NumSets = idx
  <2>1. idx \in SetIndices /\ TagOf(addr) \in Nat /\ l = LineOf(idx, TagOf(addr))
    BY <1>1, <1>2, AddressParts
  <2> QED BY <2>1, LineIs
<1>4. /\ WaysInv'
      /\ WaysLines(idx)' = UpdateLine(s, l, Ways)
      /\ \A i \in SetIndices : i # idx => WaysLines(i)' = WaysLines(i)
      /\ waysReply'.missed = ~Holds(s, l)
      /\ IF Evicts(s, l, Ways)
         THEN /\ waysReply'.eviction # NoEviction
              /\ waysReply'.eviction \div BlockSize = Victim(s)
         ELSE waysReply'.eviction = NoEviction
  BY <1>1, <1>2, UpdateWaysStep
<1>5. {b \div BlockSize : b \in {c \in asked : \A d \in asked : c <= d}}' = {l}
  <2>1. addr <= addr /\ addr <= addr + size - 1 /\ (addr + size - 1 <= addr => addr + size - 1 = addr)
    BY <1>1
  <2>2. {c \in asked' : \A d \in asked' : c <= d} = {addr} BY <1>1, <2>1
  <2> QED BY <1>2, <2>2
<1>6. PICK old, new : /\ old = [i \in SetIndices |-> WaysLines(i)]
                      /\ new = [i \in SetIndices |-> WaysLines(i)]'
  OBVIOUS
<1>7. new = [i \in SetIndices |-> IF i = idx THEN UpdateLine(old[i], l, Ways) ELSE old[i]]
  BY <1>2, <1>3, <1>4, <1>6
<1>8. old[idx] = s BY <1>2, <1>3, <1>6
<1>9. WaysLru!Use({l})
  <2>1. \A i : (\E m \in {l} : WaysLru!SetOf(m) = i) <=> i = idx BY <1>3 DEF WaysLru!SetOf
  <2>2. (CHOOSE m \in {l} : WaysLru!SetOf(m) = idx) = l BY <1>3 DEF WaysLru!SetOf
  <2>3. WaysLru!SetOf(l) = idx BY <1>3 DEF WaysLru!SetOf
  <2>4. new = [i \in WaysLru!Sets |->
                IF \E m \in {l} : WaysLru!SetOf(m) = i
                THEN WaysLru!UpdateLine(old[i], CHOOSE m \in {l} : WaysLru!SetOf(m) = i, Ways)
                ELSE old[i]]
    BY <1>7, <2>1, <2>2, SameSets DEF WaysLru!Sets, SetIndices
  <2>5. waysReply'.missed = \E m \in {l} : ~WaysLru!Holds(old[WaysLru!SetOf(m)], m)
    BY <1>4, <1>8, <2>3, SameSets
  <2>6. (IF waysReply.eviction = NoEviction THEN {} ELSE {waysReply.eviction \div BlockSize})' =
          {WaysLru!Victim(old[WaysLru!SetOf(m)]) :
            m \in {n \in {l} : WaysLru!Evicts(old[WaysLru!SetOf(n)], n, Ways)}}
    <3>1. CASE Evicts(s, l, Ways)
      <4>1. {n \in {l} : WaysLru!Evicts(old[WaysLru!SetOf(n)], n, Ways)} = {l}
        BY <1>8, <2>3, <3>1, SameSets
      <4>2. WaysLru!Victim(old[WaysLru!SetOf(l)]) = Victim(s) BY <1>8, <2>3, SameSets
      <4> QED BY <1>4, <3>1, <4>1, <4>2
    <3>2. CASE ~Evicts(s, l, Ways)
      <4>1. {n \in {l} : WaysLru!Evicts(old[WaysLru!SetOf(n)], n, Ways)} = {}
        BY <1>8, <2>3, <3>2, SameSets
      <4> QED BY <1>4, <3>2, <4>1
    <3> QED BY <3>1, <3>2
  <2> QED BY <1>5, <1>6, <2>4, <2>5, <2>6 DEF WaysLru!Use
<1> QED BY <1>1, <1>2, <1>4, <1>9 DEF WaysLru!Next

\* The cache of a simulated node, with its ways and counters, is the sequences of lines
\* that LruSets keeps: it holds, misses and evicts the same (WaysImplementLru).
THEOREM WaysLruImplemented == CachesSpec => WaysImplementLru
<1>1. CachesInit => WaysInv /\ WaysLru!Init BY WaysStart
<1>2. WaysInv /\ [CachesNext]_cachesVars => WaysInv' /\ [WaysLru!Next]_(WaysLru!lruVars)
  <2>1. SUFFICES ASSUME WaysInv, [CachesNext]_cachesVars
                 PROVE  WaysInv' /\ (WaysLru!Next \/ UNCHANGED WaysLru!lruVars)
    OBVIOUS
  <2>2. CASE UNCHANGED cachesVars
    <3>1. UNCHANGED <<ways, globalCounter, waysReply, asked>> BY <2>2 DEF cachesVars, waysVars
    <3>2. WaysInv' BY <2>1, <3>1 DEF WaysInv
    <3>3. \A s \in SetIndices : WaysLines(s)' = WaysLines(s) BY <3>1, WaysLinesAre
    <3>4. [s \in SetIndices |-> WaysLines(s)]' = [s \in SetIndices |-> WaysLines(s)] BY <3>3
    <3> QED BY <3>1, <3>2, <3>4 DEF WaysLru!lruVars
  <2>3. CASE CachesNext
    <3>1. PICK addr \in Address : Lookup(addr) \/ \E n \in Sizes : Request(addr, n)
      BY <2>3 DEF CachesNext
    <3>2. addr \in Nat BY CachesAssumption
    <3> QED BY <2>1, <3>1, <3>2, LookupStep, WaysRequestStep
  <2> QED BY <2>1, <2>2, <2>3
<1> QED BY <1>1, <1>2, PTL DEF CachesSpec, WaysImplementLru, WaysLru!Spec

-------------------------------------------------------------------------------
(* The deque of a set. *)

BlockLine == [tag : Nat, lastAccess : Nat]
Blocks == Seq(BlockLine)

BlockEntries(block) ==
  [i \in DOMAIN block |-> [tag |-> block[i].tag, key |-> block[i].lastAccess]]

\* SimpleLines, of any deque.
PlaceOfRank(block, k) ==
  CHOOSE i \in DOMAIN block :
    Cardinality({j \in DOMAIN block : block[j].lastAccess < block[i].lastAccess}) = k - 1
LinesOfBlock(idx, block) ==
  [k \in 1 .. Len(block) |-> LineOf(idx, block[PlaceOfRank(block, k)].tag)]

\* The deque has no more lines than the set has ways and is listed, with numbers below c.
BlockListedBelow(block, c) ==
  /\ block \in Blocks /\ Len(block) <= Ways
  /\ \E e : Lists(e, BlockEntries(block)) /\ \A x : InSeq(e, x) => x.key < c

\* A deque is a sequence of lines.
LEMMA BlockIs ==
  ASSUME NEW block \in Blocks
  PROVE  /\ Len(block) \in Nat /\ DOMAIN block = 1 .. Len(block)
         /\ \A i \in 1 .. Len(block) : block[i] \in BlockLine
BY ElementOfSeq DEF Blocks

\* A deque has as many entries as lines.
LEMMA BlockCounted ==
  ASSUME NEW block \in Blocks, NEW e, Lists(e, BlockEntries(block))
  PROVE  Len(e) = Len(block)
<1>0. PICK g : g = BlockEntries(block) OBVIOUS
<1>1. PICK n \in Nat : n = Len(block) BY DEF Blocks
<1>2. DOMAIN g = 1 .. n BY <1>0, <1>1 DEF BlockEntries, Blocks
<1>3. Cardinality(1 .. n) = Len(e) BY <1>0, <1>2, RankIs
<1>4. Cardinality(1 .. n) = IF 1 > n THEN 0 ELSE n - 1 + 1 BY FS_Interval
<1> QED BY <1>1, <1>3, <1>4

\* The lines by their numbers are those of the listing.
LEMMA BlockListed ==
  ASSUME NEW idx, NEW block \in Blocks, NEW e, Lists(e, BlockEntries(block))
  PROVE  LinesOfBlock(idx, block) = LinesOf(idx, e)
<1>1. PICK g : g = BlockEntries(block) OBVIOUS
<1>2. /\ DOMAIN g = DOMAIN block
      /\ \A i \in DOMAIN block : g[i] = [tag |-> block[i].tag, key |-> block[i].lastAccess]
  BY <1>1 DEF BlockEntries
<1>3. ASSUME NEW i \in DOMAIN block
      PROVE  {j \in DOMAIN block : block[j].lastAccess < block[i].lastAccess} = Older(g, i)
  BY <1>2 DEF Older
<1>4. Lists(e, g) BY <1>1
<1>5. Len(block) = Len(e) BY BlockCounted
<1>6. ASSUME NEW k \in 1 .. Len(e)
      PROVE  block[PlaceOfRank(block, k)].tag = e[k].tag
  <2>1. PICK i : i = PlaceOfRank(block, k) OBVIOUS
  <2>2. PICK n \in DOMAIN block : g[n] = e[k] BY <1>2, <1>4 DEF Lists
  <2>3. Cardinality(Older(g, n)) = k - 1 BY <1>2, <1>4, <2>2, RankIs
  <2>4. /\ i \in DOMAIN block
        /\ Cardinality({j \in DOMAIN block : block[j].lastAccess < block[i].lastAccess}) = k - 1
    BY <1>2, <1>3, <2>1, <2>2, <2>3 DEF PlaceOfRank
  <2>5. Cardinality(Older(g, i)) = k - 1 BY <1>3, <2>4
  <2>6. g[i] = e[k] BY <1>2, <1>4, <2>4, <2>5, RankIs
  <2> QED BY <1>2, <2>1, <2>4, <2>6
<1> QED BY <1>1, <1>5, <1>6 DEF LinesOfBlock, LinesOf

\* No two places have the same line.
LEMMA OnePlace ==
  ASSUME NEW e, NEW g, Lists(e, g), NEW i \in DOMAIN g, NEW j \in DOMAIN g, g[i].tag = g[j].tag
  PROVE  i = j
<1>1. PICK k \in 1 .. Len(e) : e[k] = g[i] BY DEF Lists, InSeq
<1>2. PICK n \in 1 .. Len(e) : e[n] = g[j] BY DEF Lists, InSeq
<1>3. k = n BY <1>1, <1>2 DEF Lists, Sorted
<1> QED BY <1>1, <1>2, <1>3 DEF Lists

\* The scan finds the place of the first entry, of which the number is the smallest.
LEMMA OldestIs ==
  ASSUME NEW block \in Blocks, NEW e, Lists(e, BlockEntries(block)), Len(block) >= 1,
         NEW p, p = Oldest(block)
  PROVE  p \in DOMAIN block /\ \A j \in DOMAIN block : block[p].lastAccess <= block[j].lastAccess
<1>1. PICK g : g = BlockEntries(block) OBVIOUS
<1>2. DOMAIN g = DOMAIN block /\ \A j \in DOMAIN g : g[j].key = block[j].lastAccess
  BY <1>1 DEF BlockEntries
<1>3. Lists(e, g) /\ e \in Seq(Entry) /\ Len(e) = Len(block) /\ Len(e) \in Nat
  BY <1>1, BlockCounted DEF Lists, Sorted
<1>4. 1 \in 1 .. Len(e) BY <1>3
<1>5. PICK i \in DOMAIN g : g[i] = e[1] BY <1>3, <1>4 DEF Lists
<1>6. \A j \in DOMAIN block : block[j].lastAccess \in Nat
  <2>1. \A j \in DOMAIN block : block[j] \in BlockLine BY BlockIs
  <2> QED BY <2>1 DEF BlockLine
<1>7. ASSUME NEW j \in DOMAIN g, j # i PROVE block[i].lastAccess < block[j].lastAccess
  <2>1. PICK k \in 1 .. Len(e) : e[k] = g[j] BY <1>3 DEF Lists, InSeq
  <2>2. k # 1
    <3>1. g[i] # g[j] BY <1>3, <1>5, <1>7 DEF Lists
    <3> QED BY <1>5, <2>1, <3>1
  <2>3. e[1].key < e[k].key BY <1>3, <1>4, <2>2 DEF Lists, Sorted
  <2> QED BY <1>2, <1>5, <2>1, <2>3
<1>8. i \in DOMAIN block /\ \A j \in DOMAIN block :
        block[i].lastAccess < block[j].lastAccess
          \/ (block[i].lastAccess = block[j].lastAccess /\ i <= j)
  BY <1>2, <1>3, <1>7 DEF Blocks
<1>9. p \in DOMAIN block /\ \A j \in DOMAIN block :
        block[p].lastAccess < block[j].lastAccess
          \/ (block[p].lastAccess = block[j].lastAccess /\ p <= j)
  BY <1>8, Zenon DEF Oldest
<1> QED BY <1>6, <1>9

\* A hit changes one place.
LEMMA BlockHit ==
  ASSUME NEW block \in Blocks, NEW e, Lists(e, BlockEntries(block)), NEW p \in DOMAIN block,
         NEW tag \in Nat, block[p].tag = tag, NEW c \in Nat,
         NEW h, h = UpdateCacheLine(block, tag, c)
  PROVE  /\ h \in Blocks /\ Len(h) = Len(block)
         /\ TakenBy(BlockEntries(block), BlockEntries(h), p, [tag |-> tag, key |-> c])
<1>1. PICK n \in Nat : n = Len(block) BY DEF Blocks
<1>2. DOMAIN block = 1 .. n /\ \A i \in 1 .. n : block[i] \in BlockLine
  BY <1>1, BlockIs
<1>3. PICK new \in BlockLine : new = [tag |-> tag, lastAccess |-> c] BY DEF BlockLine
<1>4. PICK g : g = BlockEntries(block) OBVIOUS
<1>5. DOMAIN g = 1 .. n /\ \A i \in 1 .. n : g[i] = [tag |-> block[i].tag, key |-> block[i].lastAccess]
  BY <1>2, <1>4 DEF BlockEntries
<1>6. At(block, tag) = {p}
  <2>1. \A i \in 1 .. n : block[i].tag = tag => i = p
    <3>1. SUFFICES ASSUME NEW i \in 1 .. n, block[i].tag = tag PROVE i = p OBVIOUS
    <3>2. g[i].tag = g[p].tag BY <1>2, <1>5, <3>1
    <3> QED BY <1>2, <1>4, <1>5, <3>2, OnePlace
  <2> QED BY <1>2, <2>1 DEF At
<1>7. h = [i \in 1 .. n |-> IF i = p THEN new ELSE block[i]]
  BY <1>2, <1>3, <1>6 DEF UpdateCacheLine
<1>8. h \in [1 .. n -> BlockLine] BY <1>2, <1>7
<1>9. h \in Blocks /\ Len(h) = n /\ DOMAIN h = 1 .. n BY <1>8, SeqDef DEF Blocks
<1>10. TakenBy(g, BlockEntries(h), p, [tag |-> tag, key |-> c])
  <2>1. DOMAIN BlockEntries(h) = DOMAIN g \cup {p} BY <1>2, <1>5, <1>9 DEF BlockEntries
  <2>2. \A i \in DOMAIN BlockEntries(h) :
          BlockEntries(h)[i] = IF i = p THEN [tag |-> tag, key |-> c] ELSE g[i]
    BY <1>3, <1>5, <1>7, <1>9 DEF BlockEntries
  <2> QED BY <2>1, <2>2 DEF TakenBy
<1> QED BY <1>1, <1>4, <1>9, <1>10

\* A line that comes in takes the next place.
LEMMA BlockAppend ==
  ASSUME NEW block \in Blocks, NEW tag \in Nat, NEW c \in Nat,
         NEW h, h = Append(block, [tag |-> tag, lastAccess |-> c])
  PROVE  /\ h \in Blocks /\ Len(h) = Len(block) + 1
         /\ Len(block) + 1 \notin DOMAIN BlockEntries(block)
         /\ TakenBy(BlockEntries(block), BlockEntries(h), Len(block) + 1, [tag |-> tag, key |-> c])
<1>1. PICK n \in Nat : n = Len(block) BY DEF Blocks
<1>2. PICK new \in BlockLine : new = [tag |-> tag, lastAccess |-> c] BY DEF BlockLine
<1>3. /\ h \in Blocks /\ Len(h) = n + 1 /\ DOMAIN h = 1 .. n + 1 /\ DOMAIN block = 1 .. n
      /\ \A i \in 1 .. n + 1 : h[i] = IF i = n + 1 THEN new ELSE block[i]
  BY <1>1, <1>2, AppendProperties DEF Blocks
<1>4. PICK g : g = BlockEntries(block) OBVIOUS
<1>5. DOMAIN g = 1 .. n /\ \A i \in 1 .. n : g[i] = [tag |-> block[i].tag, key |-> block[i].lastAccess]
  BY <1>3, <1>4 DEF BlockEntries
<1>6. n + 1 \notin DOMAIN g BY <1>5
<1>7. TakenBy(g, BlockEntries(h), n + 1, [tag |-> tag, key |-> c])
  <2>1. DOMAIN BlockEntries(h) = DOMAIN g \cup {n + 1} BY <1>3, <1>5 DEF BlockEntries
  <2>2. \A i \in DOMAIN BlockEntries(h) :
          BlockEntries(h)[i] = IF i = n + 1 THEN [tag |-> tag, key |-> c] ELSE g[i]
    BY <1>2, <1>3, <1>5 DEF BlockEntries
  <2> QED BY <2>1, <2>2 DEF TakenBy
<1> QED BY <1>1, <1>3, <1>4, <1>6, <1>7

\* The victim's place goes, the places behind it move up, and the new line is last: where
\* the victim was, and with the places named as after the move.
LEMMA BlockEvict ==
  ASSUME NEW block \in Blocks, NEW p \in DOMAIN block, NEW tag \in Nat, NEW c \in Nat,
         NEW h, h = Append(Dropped(block, p), [tag |-> tag, lastAccess |-> c])
  PROVE  \E k : /\ h \in Blocks /\ Len(h) = Len(block)
               /\ TakenBy(BlockEntries(block), k, p, [tag |-> tag, key |-> c])
               /\ \A f : Lists(f, k) => Lists(f, BlockEntries(h))
<1>1. PICK n \in Nat : n = Len(block) BY DEF Blocks
<1>2. PICK new \in BlockLine : new = [tag |-> tag, lastAccess |-> c] BY DEF BlockLine
<1>3. DOMAIN block = 1 .. n /\ p \in 1 .. n BY <1>1 DEF Blocks
<1>4. PICK d : d = Dropped(block, p) OBVIOUS
<1>5. /\ d \in Blocks /\ Len(d) = n - 1
      /\ \A i \in 1 .. n - 1 : d[i] = IF i < p THEN block[i] ELSE block[i + 1]
  <2>1. block \in Seq(BlockLine) /\ p \in 1 .. Len(block) BY <1>1, <1>3 DEF Blocks
  <2>2. /\ d \in Seq(BlockLine) /\ Len(d) = Len(block) - 1
        /\ \A i \in 1 .. Len(d) : d[i] = IF i < p THEN block[i] ELSE block[i + 1]
    BY <1>4, <2>1, DroppedIs
  <2> QED BY <1>1, <2>2 DEF Blocks
<1>6. /\ h \in Blocks /\ Len(h) = n /\ DOMAIN h = 1 .. n
      /\ \A i \in 1 .. n : h[i] = IF i = n THEN new ELSE d[i]
  BY <1>2, <1>4, <1>5, AppendProperties DEF Blocks
<1>7. PICK g, k, m : /\ g = BlockEntries(block) /\ m = BlockEntries(h)
                     /\ k = [i \in 1 .. n |-> IF i = p THEN [tag |-> tag, key |-> c] ELSE g[i]]
  OBVIOUS
<1>8. DOMAIN g = 1 .. n /\ \A i \in 1 .. n : g[i] = [tag |-> block[i].tag, key |-> block[i].lastAccess]
  BY <1>3, <1>7 DEF BlockEntries
<1>9. DOMAIN m = 1 .. n /\ \A i \in 1 .. n : m[i] = [tag |-> h[i].tag, key |-> h[i].lastAccess]
  BY <1>6, <1>7 DEF BlockEntries
<1>10. TakenBy(g, k, p, [tag |-> tag, key |-> c]) BY <1>3, <1>7, <1>8 DEF TakenBy
<1>11. PICK r : r = [i \in 1 .. n |-> IF i = n THEN p ELSE IF i < p THEN i ELSE i + 1] OBVIOUS
<1>12. DOMAIN k = 1 .. n BY <1>7
<1>13. r \in [DOMAIN m -> DOMAIN k] BY <1>3, <1>9, <1>11, <1>12
<1>14. \A i, j \in DOMAIN m : r[i] = r[j] => i = j BY <1>3, <1>9, <1>11
<1>15. ASSUME NEW i \in DOMAIN k PROVE \E j \in DOMAIN m : r[j] = i
  <2>1. CASE i = p
    <3>1. n \in DOMAIN m /\ r[n] = p BY <1>3, <1>9, <1>11
    <3> QED BY <2>1, <3>1
  <2>2. CASE i < p BY <1>3, <1>9, <1>11, <1>12, <2>2
  <2>3. CASE i > p
    <3>1. i - 1 \in DOMAIN m /\ r[i - 1] = i BY <1>3, <1>9, <1>11, <1>12, <2>3
    <3> QED BY <3>1
  <2> QED BY <1>3, <1>12, <2>1, <2>2, <2>3
<1>16. ASSUME NEW i \in DOMAIN m PROVE m[i] = k[r[i]]
  <2>1. CASE i = n
    <3>1. r[i] = p /\ h[i] = new BY <1>6, <1>9, <1>11, <2>1
    <3>2. k[p] = [tag |-> tag, key |-> c] BY <1>3, <1>7
    <3>3. m[i] = [tag |-> h[i].tag, key |-> h[i].lastAccess] BY <1>9
    <3>4. h[i].tag = tag /\ h[i].lastAccess = c
      <4>1. new.tag = tag /\ new.lastAccess = c BY ONLY <1>2
      <4>2. h[i] = new BY <3>1
      <4> QED BY ONLY <4>1, <4>2
    <3> QED BY <3>1, <3>2, <3>3, <3>4
  <2>2. CASE i # n
    <3>1. PICK j \in 1 .. n : j = (IF i < p THEN i ELSE i + 1) /\ j # p BY <1>3, <1>9, <2>2
    <3>2. r[i] = j BY <1>9, <1>11, <2>2, <3>1
    <3>3. h[i] = block[j] BY <1>5, <1>6, <1>9, <2>2, <3>1
    <3>4. k[j] = g[j] BY <1>7, <3>1
    <3>5. m[i] = [tag |-> h[i].tag, key |-> h[i].lastAccess] BY <1>9
    <3>6. g[j] = [tag |-> block[j].tag, key |-> block[j].lastAccess] BY <1>8
    <3> QED BY <3>2, <3>3, <3>4, <3>5, <3>6
  <2> QED BY <2>1, <2>2
<1>17. \A f : Lists(f, k) => Lists(f, m) BY <1>13, <1>14, <1>15, <1>16, PlacesRenamed
<1> QED BY <1>1, <1>6, <1>7, <1>10, <1>17

\* updateCacheLine on one set keeps it listed and does to its lines what LruSets says.
LEMMA BlockUse ==
  ASSUME NEW idx \in SetIndices, NEW c \in Nat, NEW block, BlockListedBelow(block, c),
         NEW tag \in Nat, NEW l, l = LineOf(idx, tag),
         NEW h, h = UpdateCacheLine(block, tag, c), NEW s, s = LinesOfBlock(idx, block)
  PROVE  /\ BlockListedBelow(h, c + 1)
         /\ LinesOfBlock(idx, h) = UpdateLine(s, l, Ways)
         /\ Holds(s, l) <=> At(block, tag) # {}
         /\ Evicts(s, l, Ways) <=> At(block, tag) = {} /\ Len(block) >= Ways
         /\ Evicts(s, l, Ways) => Victim(s) = LineOf(idx, block[Oldest(block)].tag)
<1>1. block \in Blocks /\ Len(block) <= Ways BY DEF BlockListedBelow
<1>2. PICK e : Lists(e, BlockEntries(block)) /\ \A x : InSeq(e, x) => x.key < c
  BY DEF BlockListedBelow
<1>3. PICK g, k, new : g = BlockEntries(block) /\ k = BlockEntries(h) /\ new = [tag |-> tag, key |-> c]
  OBVIOUS
<1>4. new \in Entry /\ new.key = c /\ new.tag = tag BY <1>3 DEF Entry
<1>5. Lists(e, g) /\ \A x : InSeq(e, x) => x.key < new.key BY <1>2, <1>3, <1>4
<1>6. s = LinesOf(idx, e) BY <1>1, <1>2, BlockListed
<1>7. /\ DOMAIN g = DOMAIN block
      /\ \A j \in DOMAIN g : g[j].tag = block[j].tag /\ g[j].key = block[j].lastAccess
  BY <1>3 DEF BlockEntries
<1>8. Len(e) = Len(block) /\ Len(block) \in Nat BY <1>1, <1>2, BlockCounted, BlockIs
<1>9. \A j : j \in At(block, tag) <=> j \in DOMAIN block /\ block[j].tag = tag BY DEF At
<1>10. ASSUME NEW f, Updated(idx, e, f, k, new), h \in Blocks, Len(h) <= Ways
       PROVE  BlockListedBelow(h, c + 1) /\ LinesOfBlock(idx, h) = UpdateLine(s, l, Ways)
  <2>1. Lists(f, BlockEntries(h)) /\ \A x : InSeq(f, x) => x.key <= c
    BY <1>3, <1>4, <1>10 DEF Updated
  <2>2. \A x : InSeq(f, x) => x.key \in Nat BY <2>1, KeysNat
  <2>3. \A x : InSeq(f, x) => x.key < c + 1 BY <2>1, <2>2
  <2>4. LinesOfBlock(idx, h) = LinesOf(idx, f) BY <1>10, <2>1, BlockListed
  <2> QED BY <1>4, <1>6, <1>10, <2>1, <2>3, <2>4 DEF Updated, BlockListedBelow
<1>11. CASE At(block, tag) # {}
  <2>1. PICK p \in DOMAIN block : block[p].tag = tag BY <1>9, <1>11
  <2>2. h \in Blocks /\ Len(h) = Len(block) /\ TakenBy(g, k, p, new)
    BY <1>1, <1>2, <1>3, <2>1, BlockHit
  <2>3. p \in DOMAIN g /\ g[p].tag = new.tag BY <1>4, <1>7, <2>1
  <2>4. Holds(s, l) /\ ~Evicts(s, l, Ways) /\ \E f : Updated(idx, e, f, k, new)
    BY <1>4, <1>5, <1>6, <2>2, <2>3, EntriesHit
  <2> QED BY <1>1, <1>10, <1>11, <2>2, <2>4
<1>12. CASE At(block, tag) = {}
  <2>1. \A j \in DOMAIN g : g[j].tag # new.tag BY <1>4, <1>7, <1>9, <1>12
  <2>2. CASE Len(block) < Ways
    <3>1. h = Append(block, [tag |-> tag, lastAccess |-> c])
      BY <1>12, <2>2 DEF UpdateCacheLine
    <3>2. PICK p : p = Len(block) + 1 OBVIOUS
    <3>3. h \in Blocks /\ Len(h) = p /\ p \notin DOMAIN g /\ TakenBy(g, k, p, new)
      BY <1>1, <1>3, <3>1, <3>2, BlockAppend
    <3>4. ~Holds(s, l) /\ ~Evicts(s, l, Ways) /\ \E f : Updated(idx, e, f, k, new)
      BY <1>4, <1>5, <1>6, <1>8, <2>1, <2>2, <3>3, EntriesAdd
    <3>5. Len(h) <= Ways /\ ~(Len(block) >= Ways) BY <1>8, <2>2, <3>2, <3>3, GeometryAssumption
    <3> QED BY <1>10, <1>12, <3>3, <3>4, <3>5
  <2>3. CASE Len(block) >= Ways
    <3>1. Len(block) = Ways /\ Len(block) >= 1 BY <1>1, <1>8, <2>3, GeometryAssumption
    <3>2. PICK p : p = Oldest(block) OBVIOUS
    <3>3. p \in DOMAIN block /\ \A j \in DOMAIN block : block[p].lastAccess <= block[j].lastAccess
      BY <1>1, <1>2, <3>1, <3>2, OldestIs
    <3>4. h = Append(Dropped(block, p), [tag |-> tag, lastAccess |-> c])
      <4>1. ~(Len(block) < Ways) BY <1>8, <3>1
      <4> QED BY <1>12, <3>2, <4>1 DEF UpdateCacheLine, Dropped
    <3>5. PICK m : /\ h \in Blocks /\ Len(h) = Len(block)
                   /\ TakenBy(BlockEntries(block), m, p, [tag |-> tag, key |-> c])
                   /\ \A f : Lists(f, m) => Lists(f, BlockEntries(h))
      BY <1>1, <3>3, <3>4, BlockEvict
    <3>7. TakenBy(g, m, p, new) /\ \A f : Lists(f, m) => Lists(f, k) BY <1>3, <3>5
    <3>8. p \in DOMAIN g /\ \A j \in DOMAIN g : g[p].key <= g[j].key BY <1>7, <3>3
    <3>9. /\ ~Holds(s, l) /\ Evicts(s, l, Ways) /\ Victim(s) = LineOf(idx, g[p].tag)
          /\ \E f : Updated(idx, e, f, m, new)
      BY <1>4, <1>5, <1>6, <1>8, <2>1, <3>1, <3>7, <3>8, EntriesEvict
    <3>10. \E f : Updated(idx, e, f, k, new) BY <3>7, <3>9 DEF Updated
    <3> QED BY <1>1, <1>7, <1>10, <1>12, <2>3, <3>2, <3>5, <3>8, <3>9, <3>10
  <2> QED BY <1>8, <2>2, <2>3, GeometryAssumption
<1> QED BY <1>11, <1>12

-------------------------------------------------------------------------------
(* SimpleCache. *)

PartLine(p) == LineOf(p.idx, p.tag)

\* The line behind the one with this tag in set idx, past the last set too.
LEMMA NextPartIs ==
  ASSUME NEW idx \in SetIndices, NEW tag \in Nat, NEW p, p = NextPart(idx, tag)
  PROVE  p.idx \in SetIndices /\ p.tag \in Nat /\ p.idx # idx /\ PartLine(p) = LineOf(idx, tag) + 1
<1>1. PICK N \in Nat : N = NumSets /\ N > 1 BY GeometryAssumption, CachesAssumption
<1>2. idx \in Nat /\ idx <= N - 1 BY <1>1 DEF SetIndices
<1>3. CASE idx + 1 >= N
  <2>1. p.idx = idx + 1 - N /\ p.tag = tag + 1 BY <1>1, <1>3 DEF NextPart
  <2>2. (tag + 1) * N + (idx + 1 - N) = tag * N + idx + 1 BY <1>1, <1>2
  <2> QED BY <1>1, <1>2, <1>3, <2>1, <2>2 DEF PartLine, LineOf, SetIndices
<1>4. CASE ~(idx + 1 >= N)
  <2>1. p.idx = idx + 1 /\ p.tag = tag BY <1>1, <1>4 DEF NextPart
  <2>2. tag * N + (idx + 1) = tag * N + idx + 1 BY <1>1, <1>2
  <2> QED BY <1>1, <1>2, <1>4, <2>1, <2>2 DEF PartLine, LineOf, SetIndices
<1> QED BY <1>3, <1>4

\* Parts of the lines l and m, which are one or two in a row, lie in different sets.
AreParts(parts, l, m) ==
  /\ \A p \in parts : p.idx \in SetIndices /\ p.tag \in Nat
  /\ \A p, q \in parts : p.idx = q.idx => p = q
  /\ {PartLine(p) : p \in parts} = {l, m}
  /\ m = l \/ m = l + 1

\* The parts of a request are the lines of its first and of its last byte.
LEMMA PartsAre ==
  ASSUME NEW addr \in Nat, NEW size \in 1 .. BlockSize, NEW parts, parts = Parts(addr, size),
         NEW l, l = addr \div BlockSize, NEW m, m = (addr + size - 1) \div BlockSize
  PROVE  AreParts(parts, l, m)
<1>0. SUFFICES /\ \A p \in parts : p.idx \in SetIndices /\ p.tag \in Nat
               /\ \A p, q \in parts : p.idx = q.idx => p = q
               /\ {PartLine(p) : p \in parts} = {l, m}
               /\ m = l \/ m = l + 1
  BY DEF AreParts
<1>1. PICK B \in Nat \ {0} : B = BlockSize BY GeometryAssumption
<1>2. PICK idx, tag, first : /\ idx = SetIdx(addr) /\ tag = TagOf(addr)
                             /\ first = [idx |-> idx, tag |-> tag]
  OBVIOUS
<1>3. PICK r \in 0 .. B - 1 : /\ tag \in Nat /\ idx \in SetIndices /\ l = LineOf(idx, tag)
                              /\ addr = l * B + r /\ addr % BlockSize = r
  BY <1>1, <1>2, AddressParts
<1>4. first.idx = idx /\ first.tag = tag /\ PartLine(first) = l BY <1>2, <1>3 DEF PartLine
<1>5. l \in Nat BY <1>3, LineIs
<1>6. size \in 1 .. B BY <1>1
<1>7. parts = {first} \cup (IF r + size > B THEN {NextPart(idx, tag)} ELSE {})
  BY <1>1, <1>2, <1>3 DEF Parts
<1>8. CASE ~(r + size > B)
  <2>1. parts = {first} BY <1>7, <1>8
  <2>2. PICK q \in 0 .. B - 1 : q = r + size - 1 BY <1>6, <1>8
  <2>3. addr + size - 1 = l * B + q BY <1>3, <1>5, <1>6, <2>2
  <2>4. (l * B + q) \div B = l
    <3>1. B \in Nat \ {0} /\ l \in Int /\ q \in 0 .. B - 1 BY <1>5
    <3> QED BY ONLY <3>1, Quotient
  <2>5. m = l BY <1>1, <2>3, <2>4
  <2> QED BY <1>3, <1>4, <2>1, <2>5
<1>9. CASE r + size > B
  <2>1. PICK p : p = NextPart(idx, tag) OBVIOUS
  <2>2. p.idx \in SetIndices /\ p.tag \in Nat /\ p.idx # idx /\ PartLine(p) = l + 1
    BY <1>3, <2>1, NextPartIs
  <2>3. parts = {first, p} BY <1>7, <1>9, <2>1
  <2>4. PICK q \in 0 .. B - 1 : q = r + size - 1 - B BY <1>6, <1>9
  <2>5. PICK n \in Nat : n = l + 1 BY <1>5
  <2>6. n * B = l * B + B /\ l * B \in Nat BY <1>5, <2>5
  <2>7. addr + size - 1 = n * B + q BY <1>3, <1>5, <1>6, <2>4, <2>6
  <2>8. (n * B + q) \div B = n
    <3>1. B \in Nat \ {0} /\ n \in Int /\ q \in 0 .. B - 1 OBVIOUS
    <3> QED BY ONLY <3>1, Quotient
  <2>9. m = l + 1 BY <1>1, <2>5, <2>7, <2>8
  <2>10. {PartLine(x) : x \in parts} = {l, m} BY <1>4, <2>2, <2>3, <2>9
  <2>11. \A x, y \in parts : x.idx = y.idx => x = y BY <1>4, <2>2, <2>3
  <2>12. \A x \in parts : x.idx \in SetIndices /\ x.tag \in Nat BY <1>3, <1>4, <2>2, <2>3
  <2> QED BY <2>9, <2>10, <2>11, <2>12
<1> QED BY <1>8, <1>9

SimpleInv ==
  /\ accesses \in Nat
  /\ cacheBlocks = [s \in SetIndices |-> cacheBlocks[s]]
  /\ \A s \in SetIndices : BlockListedBelow(cacheBlocks[s], accesses + 1)

\* SimpleLines is the definition for the deque of one set, before and after a step.
LEMMA SimpleLinesAre ==
  ASSUME NEW idx \in SetIndices
  PROVE  /\ SimpleLines(idx) = LinesOfBlock(idx, cacheBlocks[idx])
         /\ SimpleLines(idx)' = LinesOfBlock(idx, cacheBlocks'[idx])
BY DEF SimpleLines, LinesOfBlock, PlaceOfRank

\* The listing of a deque is one for a larger number too.
LEMMA BlockBelowNext ==
  ASSUME NEW block, NEW c \in Nat, BlockListedBelow(block, c)
  PROVE  BlockListedBelow(block, c + 1)
<1>1. PICK e : Lists(e, BlockEntries(block)) /\ \A x : InSeq(e, x) => x.key < c
  BY DEF BlockListedBelow
<1>2. \A x : InSeq(e, x) => x.key \in Nat BY <1>1, KeysNat
<1>3. \A x : InSeq(e, x) => x.key < c + 1 BY <1>1, <1>2
<1> QED BY <1>1, <1>3 DEF BlockListedBelow

\* Empty deques are listed by the empty sequence.
LEMMA SimpleStart ==
  ASSUME CachesInit
  PROVE  SimpleInv /\ SimpleLru!Init
<1>1. SimpleInit /\ asked = {} BY DEF CachesInit
<1>2. ASSUME NEW s \in SetIndices
      PROVE  BlockListedBelow(cacheBlocks[s], 1) /\ SimpleLines(s) = <<>>
  <2>1. cacheBlocks[s] = <<>> BY <1>1 DEF SimpleInit
  <2>2. <<>> \in Blocks /\ Len(<<>>) = 0 /\ DOMAIN <<>> = {} BY DEF Blocks
  <2>3. DOMAIN BlockEntries(<<>>) = {} BY <2>2 DEF BlockEntries
  <2>4. Lists(<<>>, BlockEntries(<<>>)) /\ \A x : ~InSeq(<<>>, x) BY <2>3, NoneListed
  <2>5. LinesOfBlock(s, <<>>) = <<>> BY <2>2 DEF LinesOfBlock
  <2>6. 0 <= Ways BY GeometryAssumption
  <2> QED BY <2>1, <2>2, <2>4, <2>5, <2>6, SimpleLinesAre DEF BlockListedBelow
<1>3. SimpleInv
  <2>1. accesses = 0 /\ cacheBlocks = [s \in SetIndices |-> cacheBlocks[s]] BY <1>1 DEF SimpleInit
  <2> QED BY <1>2, <2>1 DEF SimpleInv
<1>4. SimpleLru!Init
  <2>1. [s \in SetIndices |-> SimpleLines(s)] = [s \in SetIndices |-> <<>>] BY <1>2
  <2>2. hit = TRUE /\ erased = {} BY <1>1 DEF SimpleInit
  <2> QED BY <1>1, <2>1, <2>2 DEF SimpleLru!Init, SimpleLru!Sets, SetIndices
<1> QED BY <1>3, <1>4

\* The sets that a request reaches into are used as LruSets says, the others are kept.
LEMMA SimpleSetsUsed ==
  ASSUME SimpleInv, NEW parts,
         \A p \in parts : p.idx \in SetIndices /\ p.tag \in Nat,
         \A p, q \in parts : p.idx = q.idx => p = q,
         accesses' = accesses + 1,
         cacheBlocks' = [i \in DOMAIN cacheBlocks |->
           IF i \in {p.idx : p \in parts}
             THEN UpdateCacheLine(cacheBlocks[i], (CHOOSE p \in parts : p.idx = i).tag, accesses + 1)
             ELSE cacheBlocks[i]]
  PROVE  /\ SimpleInv'
         /\ \A p \in parts :
              SimpleLines(p.idx)' = UpdateLine(SimpleLines(p.idx), PartLine(p), Ways)
         /\ \A i \in SetIndices : (\A p \in parts : p.idx # i) => SimpleLines(i)' = SimpleLines(i)
<1>1. PICK c \in Nat : c = accesses + 1 BY DEF SimpleInv
<1>2. DOMAIN cacheBlocks = SetIndices BY DEF SimpleInv
<1>3. ASSUME NEW p \in parts
      PROVE  /\ p.idx \in SetIndices
             /\ cacheBlocks'[p.idx] = UpdateCacheLine(cacheBlocks[p.idx], p.tag, c)
  <2>1. (CHOOSE q \in parts : q.idx = p.idx) = p BY Zenon
  <2> QED BY <1>1, <1>2, <2>1
<1>4. ASSUME NEW i \in SetIndices, \A p \in parts : p.idx # i
      PROVE  cacheBlocks'[i] = cacheBlocks[i]
  BY <1>2, <1>4
<1>5. ASSUME NEW p \in parts
      PROVE  /\ BlockListedBelow(cacheBlocks'[p.idx], c + 1)
             /\ SimpleLines(p.idx)' = UpdateLine(SimpleLines(p.idx), PartLine(p), Ways)
  <2>1. PICK idx, tag, block, h, s, l :
          /\ idx = p.idx /\ tag = p.tag /\ block = cacheBlocks[idx] /\ h = cacheBlocks'[idx]
          /\ s = LinesOfBlock(idx, block) /\ l = LineOf(idx, tag)
    OBVIOUS
  <2>2. idx \in SetIndices /\ tag \in Nat /\ h = UpdateCacheLine(block, tag, c) BY <1>3, <2>1
  <2>3. BlockListedBelow(block, c) BY <1>1, <2>1, <2>2 DEF SimpleInv
  <2>4. BlockListedBelow(h, c + 1) /\ LinesOfBlock(idx, h) = UpdateLine(s, l, Ways)
    <3>1. c \in Nat OBVIOUS
    <3>2. s = LinesOfBlock(idx, block) /\ l = LineOf(idx, tag) BY <2>1
    <3> QED BY ONLY <2>2, <2>3, <3>1, <3>2, BlockUse
  <2>5. SimpleLines(idx) = s /\ SimpleLines(idx)' = LinesOfBlock(idx, h)
    BY <2>1, <2>2, SimpleLinesAre
  <2> QED BY <2>1, <2>4, <2>5 DEF PartLine
<1>6. ASSUME NEW i \in SetIndices, \A p \in parts : p.idx # i
      PROVE  BlockListedBelow(cacheBlocks'[i], c + 1)
  <2>1. BlockListedBelow(cacheBlocks[i], c) BY <1>1 DEF SimpleInv
  <2> QED BY <1>4, <1>6, <2>1, BlockBelowNext
<1>7. \A i \in SetIndices : BlockListedBelow(cacheBlocks'[i], c + 1) BY <1>5, <1>6
<1>8. SimpleInv'
  <2>1. cacheBlocks' = [s \in SetIndices |-> cacheBlocks'[s]] BY <1>2
  <2>2. accesses' = c BY <1>1
  <2> QED BY <1>7, <2>1, <2>2 DEF SimpleInv
<1>9. ASSUME NEW i \in SetIndices, \A p \in parts : p.idx # i
      PROVE  SimpleLines(i)' = SimpleLines(i)
  BY <1>4, <1>9, SimpleLinesAre
<1> QED BY <1>5, <1>8, <1>9

\* What a request is told of its parts, before the sets change.
LEMMA SimpleReply ==
  ASSUME SimpleInv, NEW p, p.idx \in SetIndices, p.tag \in Nat,
         NEW s, s = SimpleLines(p.idx), NEW block, block = cacheBlocks[p.idx]
  PROVE  /\ Holds(s, PartLine(p)) <=> At(block, p.tag) # {}
         /\ Evicts(s, PartLine(p), Ways) <=> At(block, p.tag) = {} /\ Len(block) >= Ways
         /\ Evicts(s, PartLine(p), Ways) => Victim(s) = LineOf(p.idx, block[Oldest(block)].tag)
<1>1. PICK c \in Nat : c = accesses + 1 BY DEF SimpleInv
<1>2. PICK idx, tag, l, h :
        /\ idx = p.idx /\ tag = p.tag /\ l = LineOf(idx, tag)
        /\ h = UpdateCacheLine(block, tag, c)
  OBVIOUS
<1>3. idx \in SetIndices /\ tag \in Nat /\ c \in Nat /\ l = LineOf(idx, tag) BY <1>2
<1>4. BlockListedBelow(block, c) /\ h = UpdateCacheLine(block, tag, c) BY <1>1, <1>2 DEF SimpleInv
<1>5. s = LinesOfBlock(idx, block) BY <1>2, SimpleLinesAre
<1>6. /\ Holds(s, l) <=> At(block, tag) # {}
      /\ Evicts(s, l, Ways) <=> At(block, tag) = {} /\ Len(block) >= Ways
      /\ Evicts(s, l, Ways) => Victim(s) = LineOf(idx, block[Oldest(block)].tag)
  BY ONLY <1>3, <1>4, <1>5, BlockUse
<1> QED BY <1>2, <1>6 DEF PartLine

\* What updateCache does to the sets of its parts.
VictimLine(p) == LineOf(p.idx, cacheBlocks[p.idx][Oldest(cacheBlocks[p.idx])].tag)
PartsUsed(parts, missing, full) ==
  /\ accesses' = accesses + 1
  /\ cacheBlocks' = [i \in DOMAIN cacheBlocks |->
       IF i \in {p.idx : p \in parts}
         THEN UpdateCacheLine(cacheBlocks[i], (CHOOSE p \in parts : p.idx = i).tag, accesses + 1)
         ELSE cacheBlocks[i]]
  /\ hit' = (missing = {})
  /\ erased' = {[idx |-> p.idx, tag |-> cacheBlocks[p.idx][Oldest(cacheBlocks[p.idx])].tag] : p \in full}

\* What LruSets says of them.
LinesUsed(lines, old, new, missed, evicted) ==
  /\ new = [i \in SimpleLru!Sets |->
       IF \E x \in lines : SimpleLru!SetOf(x) = i
         THEN SimpleLru!UpdateLine(old[i], CHOOSE x \in lines : SimpleLru!SetOf(x) = i, Ways)
         ELSE old[i]]
  /\ missed = \E x \in lines : ~SimpleLru!Holds(old[SimpleLru!SetOf(x)], x)
  /\ evicted = {SimpleLru!Victim(old[SimpleLru!SetOf(x)]) :
       x \in {y \in lines : SimpleLru!Evicts(old[SimpleLru!SetOf(y)], y, Ways)}}

\* A request asks for the lines of its first and of its last byte.
LEMMA SimpleRequestStep ==
  ASSUME SimpleInv, NEW addr \in Address, NEW size \in Sizes, Request(addr, size)
  PROVE  SimpleInv' /\ SimpleLru!Next
<1>1. /\ UpdateCache(addr, size) /\ asked' = {addr, addr + size - 1}
      /\ addr \in Nat /\ size \in 1 .. BlockSize
      /\ addr \div BlockSize \in Line /\ (addr + size - 1) \div BlockSize \in Line
  BY CachesAssumption DEF Request
<1>2. PICK parts, l, m : /\ parts = Parts(addr, size) /\ l = addr \div BlockSize
                         /\ m = (addr + size - 1) \div BlockSize
  OBVIOUS
<1>3. /\ \A p \in parts : p.idx \in SetIndices /\ p.tag \in Nat
      /\ \A p, q \in parts : p.idx = q.idx => p = q
      /\ {PartLine(p) : p \in parts} = {l, m}
      /\ m = l \/ m = l + 1
  <2>1. addr \in Nat /\ size \in 1 .. BlockSize BY <1>1
  <2>2. /\ parts = Parts(addr, size) /\ l = addr \div BlockSize
        /\ m = (addr + size - 1) \div BlockSize
    BY <1>2
  <2>3. AreParts(parts, l, m) BY ONLY <2>1, <2>2, PartsAre
  <2> QED BY ONLY <2>3 DEF AreParts
<1>4. PICK missing, full :
        /\ missing = {p \in parts : At(cacheBlocks[p.idx], p.tag) = {}}
        /\ full = {q \in missing : Len(cacheBlocks[q.idx]) >= Ways}
  OBVIOUS
<1>5. PartsUsed(parts, missing, full)
  <2>1. PartsUsed(Parts(addr, size),
          {p \in Parts(addr, size) : At(cacheBlocks[p.idx], p.tag) = {}},
          {q \in {p \in Parts(addr, size) : At(cacheBlocks[p.idx], p.tag) = {}} :
            Len(cacheBlocks[q.idx]) >= Ways})
    BY <1>1, Zenon DEF UpdateCache, PartsUsed
  <2>2. PartsUsed(parts, {p \in parts : At(cacheBlocks[p.idx], p.tag) = {}},
          {q \in {p \in parts : At(cacheBlocks[p.idx], p.tag) = {}} :
            Len(cacheBlocks[q.idx]) >= Ways})
    BY <1>2, <2>1
  <2> QED BY <1>4, <2>2
<1>6. /\ SimpleInv'
      /\ \A p \in parts :
           SimpleLines(p.idx)' = UpdateLine(SimpleLines(p.idx), PartLine(p), Ways)
      /\ \A i \in SetIndices : (\A p \in parts : p.idx # i) => SimpleLines(i)' = SimpleLines(i)
  BY <1>3, <1>5, SimpleSetsUsed DEF PartsUsed
<1>7. PICK old, new, lines :
        /\ old = [i \in SetIndices |-> SimpleLines(i)] /\ new = [i \in SetIndices |-> SimpleLines(i)]'
        /\ lines = {PartLine(p) : p \in parts}
  OBVIOUS
<1>8. ASSUME NEW p \in parts
      PROVE  /\ SimpleLru!SetOf(PartLine(p)) = p.idx
             /\ old[p.idx] = SimpleLines(p.idx) /\ new[p.idx] = SimpleLines(p.idx)'
             /\ SimpleLru!Holds(old[p.idx], PartLine(p)) <=> p \notin missing
             /\ SimpleLru!Evicts(old[p.idx], PartLine(p), Ways)
                  <=> p \in missing /\ Len(cacheBlocks[p.idx]) >= Ways
             /\ SimpleLru!Evicts(old[p.idx], PartLine(p), Ways) =>
                  SimpleLru!Victim(old[p.idx]) = VictimLine(p)
  <2>1. p.idx \in SetIndices /\ p.tag \in Nat BY <1>3
  <2>2. SimpleLru!SetOf(PartLine(p)) = p.idx BY <2>1, LineIs DEF SimpleLru!SetOf, PartLine
  <2>3. old[p.idx] = SimpleLines(p.idx) /\ new[p.idx] = SimpleLines(p.idx)' BY <1>7, <2>1
  <2>4. PICK s, block : s = SimpleLines(p.idx) /\ block = cacheBlocks[p.idx] OBVIOUS
  <2>5. /\ Holds(s, PartLine(p)) <=> At(block, p.tag) # {}
        /\ Evicts(s, PartLine(p), Ways) <=> At(block, p.tag) = {} /\ Len(block) >= Ways
        /\ Evicts(s, PartLine(p), Ways) => Victim(s) = LineOf(p.idx, block[Oldest(block)].tag)
    BY <2>1, <2>4, SimpleReply
  <2> QED BY <1>4, <2>2, <2>3, <2>4, <2>5, SameSets DEF VictimLine
<1>9. new = [i \in SimpleLru!Sets |->
              IF \E x \in lines : SimpleLru!SetOf(x) = i
              THEN SimpleLru!UpdateLine(old[i], CHOOSE x \in lines : SimpleLru!SetOf(x) = i, Ways)
              ELSE old[i]]
  <2>1. ASSUME NEW p \in parts
        PROVE  /\ \E x \in lines : SimpleLru!SetOf(x) = p.idx
               /\ (CHOOSE x \in lines : SimpleLru!SetOf(x) = p.idx) = PartLine(p)
    <3>1. PartLine(p) \in lines /\ SimpleLru!SetOf(PartLine(p)) = p.idx BY <1>7, <1>8
    <3>2. \A x \in lines : SimpleLru!SetOf(x) = p.idx => x = PartLine(p)
      <4>1. SUFFICES ASSUME NEW q \in parts, SimpleLru!SetOf(PartLine(q)) = p.idx
                     PROVE  PartLine(q) = PartLine(p)
        BY <1>7
      <4>2. q.idx = p.idx BY <1>8, <4>1
      <4> QED BY <1>3, <4>2
    <3> QED BY <3>1, <3>2, Zenon
  <2>2. ASSUME NEW i \in SetIndices, \A p \in parts : p.idx # i
        PROVE  (~\E x \in lines : SimpleLru!SetOf(x) = i) /\ new[i] = old[i]
    <3>1. \A x \in lines : SimpleLru!SetOf(x) # i BY <1>7, <1>8, <2>2
    <3>2. SimpleLines(i)' = SimpleLines(i) BY <1>6, <2>2
    <3> QED BY <1>7, <3>1, <3>2
  <2>3. ASSUME NEW i \in SetIndices
        PROVE  new[i] = IF \E x \in lines : SimpleLru!SetOf(x) = i
                        THEN SimpleLru!UpdateLine(old[i],
                               CHOOSE x \in lines : SimpleLru!SetOf(x) = i, Ways)
                        ELSE old[i]
    <3>1. CASE \E p \in parts : p.idx = i
      <4>1. PICK p \in parts : p.idx = i BY <3>1
      <4>2. new[i] = SimpleLru!UpdateLine(old[i], PartLine(p), Ways)
        BY <1>6, <1>8, <4>1, SameSets
      <4> QED BY <2>1, <4>1, <4>2
    <3>2. CASE \A p \in parts : p.idx # i BY <2>2, <3>2
    <3> QED BY <3>1, <3>2
  <2> QED BY <1>7, <2>3 DEF SimpleLru!Sets, SetIndices
<1>10. (~hit') = \E x \in lines : ~SimpleLru!Holds(old[SimpleLru!SetOf(x)], x)
  <2>1. missing = {} <=> \A p \in parts : p \notin missing BY <1>4
  <2>2. (\E x \in lines : ~SimpleLru!Holds(old[SimpleLru!SetOf(x)], x))
          <=> \E p \in parts : p \in missing
    BY <1>7, <1>8
  <2> QED BY <1>5, <2>1, <2>2 DEF PartsUsed
<1>11. {LineOf(e.idx, e.tag) : e \in erased'} =
         {SimpleLru!Victim(old[SimpleLru!SetOf(x)]) :
           x \in {y \in lines : SimpleLru!Evicts(old[SimpleLru!SetOf(y)], y, Ways)}}
  <2>1. full \subseteq parts BY <1>4
  <2>2. {LineOf(e.idx, e.tag) : e \in erased'} = {VictimLine(p) : p \in full}
    <3>1. PICK v : v = [p \in full |-> [idx |-> p.idx,
                          tag |-> cacheBlocks[p.idx][Oldest(cacheBlocks[p.idx])].tag]]
      OBVIOUS
    <3>2. erased' = {v[p] : p \in full} BY <1>5, <3>1 DEF PartsUsed
    <3>3. \A p \in full : LineOf(v[p].idx, v[p].tag) = VictimLine(p) BY <3>1 DEF VictimLine
    <3> QED BY <3>2, <3>3
  <2>3. \A p \in parts : SimpleLru!Evicts(old[SimpleLru!SetOf(PartLine(p))], PartLine(p), Ways)
                            <=> p \in full
    BY <1>4, <1>8
  <2>4. {y \in lines : SimpleLru!Evicts(old[SimpleLru!SetOf(y)], y, Ways)} = {PartLine(p) : p \in full}
    BY <1>7, <2>1, <2>3
  <2>5. \A p \in full : SimpleLru!Victim(old[SimpleLru!SetOf(PartLine(p))]) = VictimLine(p)
    BY <1>4, <1>8, <2>1
  <2>6. PICK out : out = {y \in lines : SimpleLru!Evicts(old[SimpleLru!SetOf(y)], y, Ways)}
    OBVIOUS
  <2>7. {SimpleLru!Victim(old[SimpleLru!SetOf(x)]) : x \in out} = {VictimLine(p) : p \in full}
    BY <2>4, <2>5, <2>6
  <2> QED BY <2>2, <2>6, <2>7
<1>12. lines = {b \div BlockSize : b \in asked}' BY <1>1, <1>2, <1>3, <1>7
<1>13. SimpleLru!Use(lines)
  <2>1. LinesUsed(lines, old, new, ~hit', {LineOf(e.idx, e.tag) : e \in erased'})
    BY <1>9, <1>10, <1>11, Zenon DEF LinesUsed
  <2>2. LinesUsed(lines, [s \in SetIndices |-> SimpleLines(s)], [s \in SetIndices |-> SimpleLines(s)]',
          ~hit', {LineOf(e.idx, e.tag) : e \in erased'})
    BY <1>7, <2>1
  <2> QED BY <1>12, <2>2, Zenon DEF LinesUsed, SimpleLru!Use
<1>14. SimpleLru!Next
  <2>1. lines = {l, m} /\ l \in Line /\ m \in Line BY <1>1, <1>2, <1>3, <1>7
  <2>2. CASE m = l
    <3>1. lines = {l} BY <2>1, <2>2
    <3> QED BY <1>13, <2>1, <3>1 DEF SimpleLru!Next
  <2>3. CASE m = l + 1
    <3>1. lines = {l, l + 1} /\ l + 1 \in Line BY <2>1, <2>3
    <3> QED BY <1>13, <2>1, <3>1 DEF SimpleLru!Next
  <2> QED BY <1>3, <2>2, <2>3
<1> QED BY <1>6, <1>14

\* The back end SimpleCache, which finds the victim among the numbers of the accesses, is a
\* least-recently-used cache, a request that reaches into the next set included
\* (SimpleImplementsLru).
THEOREM SimpleLruImplemented == CachesSpec => SimpleImplementsLru
<1>1. CachesInit => SimpleInv /\ SimpleLru!Init BY SimpleStart
<1>2. SimpleInv /\ [CachesNext]_cachesVars => SimpleInv' /\ [SimpleLru!Next]_(SimpleLru!lruVars)
  <2>1. SUFFICES ASSUME SimpleInv, [CachesNext]_cachesVars
                 PROVE  SimpleInv' /\ (SimpleLru!Next \/ UNCHANGED SimpleLru!lruVars)
    OBVIOUS
  <2>2. CASE UNCHANGED <<cacheBlocks, accesses, hit, erased, asked>>
    <3>1. SimpleInv' BY <2>1, <2>2 DEF SimpleInv
    <3>2. \A s \in SetIndices : SimpleLines(s)' = SimpleLines(s) BY <2>2, SimpleLinesAre
    <3>3. [s \in SetIndices |-> SimpleLines(s)]' = [s \in SetIndices |-> SimpleLines(s)] BY <3>2
    <3> QED BY <2>2, <3>1, <3>3 DEF SimpleLru!lruVars
  <2>3. CASE CachesNext
    <3>1. PICK addr \in Address : Lookup(addr) \/ \E n \in Sizes : Request(addr, n)
      BY <2>3 DEF CachesNext
    <3>2. Lookup(addr) => UNCHANGED <<cacheBlocks, accesses, hit, erased, asked>>
      BY DEF Lookup, simpleVars
    <3> QED BY <2>1, <2>2, <3>1, <3>2, SimpleRequestStep
  <2>4. UNCHANGED cachesVars => UNCHANGED <<cacheBlocks, accesses, hit, erased, asked>>
    BY DEF cachesVars, simpleVars
  <2> QED BY <2>1, <2>2, <2>3, <2>4
<1> QED BY <1>1, <1>2, PTL DEF CachesSpec, SimpleImplementsLru, SimpleLru!Spec


-------------------------------------------------------------------------------
(* Largest numbers, and a set of numbers listed upwards. *)

\* A set of numbers up to n has a largest one.
LEMMA LargestOf ==
  ASSUME NEW n \in Nat, NEW S \in SUBSET (1 .. n), S # {}
  PROVE  Largest(S) \in S /\ \A y \in S : y <= Largest(S)
<1> DEFINE T == {n - x : x \in S}
<1>1. T \in SUBSET Nat /\ T # {}
  <2>1. \A x \in S : x \in 1 .. n OBVIOUS
  <2>2. \A x \in S : n - x \in Nat BY <2>1
  <2>3. PICK x \in S : TRUE OBVIOUS
  <2>4. n - x \in T OBVIOUS
  <2> QED BY <2>2, <2>4
<1>2. PICK t \in T : \A y \in T : ~ (<<y, t>> \in OpToRel(<, Nat))
  BY <1>1, NatLessThanWellFounded, WFMin
<1>3. \A y \in T : t <= y
  <2> SUFFICES ASSUME NEW y \in T PROVE t <= y OBVIOUS
  <2>1. y \in Nat /\ t \in Nat BY <1>1
  <2>2. ~ (y < t) BY <1>2, <2>1 DEF OpToRel
  <2> QED BY <2>1, <2>2
<1>4. PICK x \in S : t = n - x OBVIOUS
<1>5. \A y \in S : y <= x
  <2> SUFFICES ASSUME NEW y \in S PROVE y <= x OBVIOUS
  <2>1. n - y \in T OBVIOUS
  <2>2. n - x <= n - y BY <2>1, <1>3, <1>4
  <2>3. x \in Int /\ y \in Int OBVIOUS
  <2> HIDE DEF T
  <2> QED BY ONLY <2>2, <2>3, n \in Nat
<1> HIDE DEF T
<1> QED BY <1>5 DEF Largest

\* A number that is in a set and that none in it exceeds is its largest.
LEMMA LargestIs ==
  ASSUME NEW S \in SUBSET Int, NEW x \in S, \A y \in S : y <= x
  PROVE  Largest(S) = x
<1>1. Largest(S) \in S /\ \A y \in S : y <= Largest(S) BY DEF Largest
<1>2. Largest(S) <= x /\ x <= Largest(S) /\ Largest(S) \in Int BY <1>1
<1> QED BY <1>2

\* Upwards lists each member of a finite set of numbers once.
LEMMA UpwardsLists ==
  ASSUME NEW S \in SUBSET Int, IsFiniteSet(S)
  PROVE  /\ Cardinality(S) \in Nat
         /\ Upwards(S) \in [1 .. Cardinality(S) -> S]
         /\ \A i, j \in 1 .. Cardinality(S) : Upwards(S)[i] = Upwards(S)[j] => i = j
         /\ \A b \in S : \E k \in 1 .. Cardinality(S) : Upwards(S)[k] = b
<1> DEFINE n == Cardinality(S)
           Rank(b) == Cardinality({a \in S : a < b})
           r == [b \in S |-> Rank(b) + 1]
<1>1. n \in Nat BY FS_CardinalityType
<1>2. \A b \in S : Rank(b) \in Nat /\ Rank(b) < n
  <2> SUFFICES ASSUME NEW b \in S PROVE Rank(b) \in Nat /\ Rank(b) < n OBVIOUS
  <2> DEFINE A == {a \in S : a < b}
  <2>1. A \in SUBSET S /\ b \notin A OBVIOUS
  <2> HIDE DEF A
  <2>2. IsFiniteSet(A) /\ Cardinality(A) <= n /\ n # Cardinality(A)
    BY <2>1, FS_Subset
  <2>3. Cardinality(A) \in Nat BY <2>2, FS_CardinalityType
  <2>4. Rank(b) = Cardinality(A) BY DEF A
  <2> QED BY <2>2, <2>3, <2>4, <1>1
<1>3. \A b, c \in S : b < c => Rank(b) < Rank(c)
  <2> SUFFICES ASSUME NEW b \in S, NEW c \in S, b < c PROVE Rank(b) < Rank(c) OBVIOUS
  <2> DEFINE A == {a \in S : a < b}
             C == {a \in S : a < c}
  <2>0. \A a \in S : a \in Int OBVIOUS
  <2>a. \A a \in S : a < b => a < c BY <2>0
  <2>b. b < c /\ ~ (b < b) BY <2>0
  <2>1. A \in SUBSET C /\ b \in C /\ b \notin A /\ C \in SUBSET S BY ONLY <2>a, <2>b, b \in S
  <2> HIDE DEF A, C
  <2>2. IsFiniteSet(C) BY <2>1, FS_Subset
  <2>3. Cardinality(A) <= Cardinality(C) /\ Cardinality(C) # Cardinality(A) /\ IsFiniteSet(A)
    BY <2>1, <2>2, FS_Subset
  <2>4. Cardinality(A) \in Nat /\ Cardinality(C) \in Nat BY <2>2, <2>3, FS_CardinalityType
  <2>5. Cardinality(A) < Cardinality(C) BY <2>3, <2>4
  <2> QED BY <2>5 DEF A, C
<1> HIDE DEF n, Rank
<1>4. r \in [S -> 1 .. n] BY <1>1, <1>2
<1>5. \A b, c \in S : r[b] = r[c] => b = c
  <2> SUFFICES ASSUME NEW b \in S, NEW c \in S, r[b] = r[c], b # c PROVE FALSE OBVIOUS
  <2>1. Rank(b) = Rank(c) BY <1>2
  <2>2. b < c \/ c < b OBVIOUS
  <2> QED BY <2>1, <2>2, <1>2, <1>3
<1>6. r \in Injection(S, 1 .. n) BY <1>4, <1>5 DEF Injection, IsInjective
<1>7. IsFiniteSet(1 .. n) /\ Cardinality(1 .. n) = n
  <2>1. IsFiniteSet(1 .. n) /\ Cardinality(1 .. n) = IF 1 > n THEN 0 ELSE n - 1 + 1
    BY <1>1, FS_Interval
  <2> QED BY <2>1, <1>1
<1>8. r \in Surjection(S, 1 .. n)
  <2>1. Cardinality(S) = Cardinality(1 .. n) BY <1>7 DEF n
  <2> HIDE DEF r
  <2> QED BY <2>1, <1>6, <1>7, FS_Injection
<1>9. \A k \in 1 .. n : \E b \in S : r[b] = k BY <1>8 DEF Surjection
<1> DEFINE u == Upwards(S)
           C(k) == CHOOSE b \in S : Rank(b) = k - 1
<1>a. u = [k \in 1 .. n |-> C(k)] BY DEF Upwards, n, Rank
<1> HIDE DEF u, C
<1>10. \A k \in 1 .. n : u[k] = CHOOSE b \in S : Rank(b) = k - 1 BY <1>a DEF C
<1>11. \A k \in 1 .. n : u[k] \in S /\ r[u[k]] = k
  <2> SUFFICES ASSUME NEW k \in 1 .. n PROVE u[k] \in S /\ r[u[k]] = k OBVIOUS
  <2>1. PICK b \in S : r[b] = k BY <1>9
  <2>2. Rank(b) = k - 1 BY <2>1, <1>2
  <2>3. u[k] \in S /\ Rank(u[k]) = k - 1 BY <2>2, <1>10
  <2> QED BY <2>3
<1>12. u = [k \in 1 .. n |-> u[k]] BY <1>a
<1> HIDE DEF r
<1>13. u \in [1 .. n -> S] BY <1>11, <1>12
<1>14. \A b \in S : u[r[b]] = b
  <2> SUFFICES ASSUME NEW b \in S PROVE u[r[b]] = b OBVIOUS
  <2>1. r[b] \in 1 .. n BY <1>4
  <2>2. u[r[b]] \in S /\ r[u[r[b]]] = r[b] BY <2>1, <1>11
  <2> QED BY <2>2, <1>5
<1>15. \A i, j \in 1 .. n : u[i] = u[j] => i = j BY <1>11
<1>16. \A b \in S : \E k \in 1 .. n : u[k] = b BY <1>14, <1>4
<1> QED BY <1>1, <1>13, <1>15, <1>16 DEF u, n

-------------------------------------------------------------------------------
(* The history after one more operation. *)

\* The operations before the k-th that write, allocate or free b.
Marks(k, b) == {m \in 1 .. (k - 1) : Touches(m, b) /\ log[m].type # "read"}

\* The m-th operation is a read of b by the context c.
Reads(m, b, c) ==
  log[m].type = "read" /\ Touches(m, b) /\ ContextOf(Id(log[m].task)) = c

\* The k-th operation is the first read of b by its context since b was written last.
FirstRead(k, b) ==
  LET c == ContextOf(Id(log[k].task))
  IN  /\ log[k].type = "read" /\ Touches(k, b) /\ ContextOf(LastWriter(k, b).tid) # c
      /\ \A m \in (LastWriter(k, b).at + 1) .. (k - 1) : ~ Reads(m, b, c)

\* The history had n operations and e is the next.
Appended(n, e) ==
  /\ n \in Nat /\ DOMAIN log = 1 .. n /\ (DOMAIN log)' = 1 .. (n + 1)
  /\ file' = file
  /\ \A k \in 1 .. n : log'[k] = log[k]
  /\ log'[n + 1] = e

\* e is an operation on b.
Covers(e, b) == b \in Bytes(e.addr, e.size)

\* What was read stays as it was.
LEMMA OperationKept ==
  ASSUME NEW n, NEW e, Appended(n, e), NEW k \in 1 .. n
  PROVE  /\ log'[k] = log[k]
         /\ \A b : Touches(k, b)' <=> Touches(k, b)
         /\ \A b, c : Reads(k, b, c)' <=> Reads(k, b, c)
<1>1. log'[k] = log[k] /\ file' = file BY DEF Appended
<1>2. \A b : Touches(k, b)' <=> Touches(k, b) BY <1>1 DEF Touches
<1>3. \A b, c : Reads(k, b, c)' <=> Reads(k, b, c)
  BY <1>1, <1>2 DEF Reads, Id, Tasks
<1> QED BY <1>1, <1>2, <1>3

\* The operation that is read is the last.
LEMMA OperationNew ==
  ASSUME NEW n, NEW e, Appended(n, e)
  PROVE  /\ log'[n + 1] = e
         /\ \A b : Touches(n + 1, b)' <=> Covers(e, b)
         /\ \A b, c : Reads(n + 1, b, c)' <=>
              e.type = "read" /\ Covers(e, b) /\ ContextOf(Id(e.task)) = c
<1>1. log'[n + 1] = e /\ file' = file BY DEF Appended
<1>2. \A b : Touches(n + 1, b)' <=> Covers(e, b) BY <1>1 DEF Touches, Covers
<1>3. \A b, c : Reads(n + 1, b, c)' <=>
              e.type = "read" /\ Covers(e, b) /\ ContextOf(Id(e.task)) = c
  BY <1>1, <1>2 DEF Reads, Id, Tasks
<1> QED BY <1>1, <1>2, <1>3

\* Who the g-th operation leaves as the writer of its bytes.
WriterAt(g) == IF log[g].type = "free" THEN <<0, 0>> ELSE Id(log[g].task)

\* The writer by the marks.
WriterOf(S) ==
  IF S = {} THEN [at |-> 0, tid |-> <<0, 0>>]
  ELSE [at |-> Largest(S), tid |-> WriterAt(Largest(S))]

LEMMA LastWriterByMarks ==
  ASSUME NEW k, NEW b
  PROVE  LastWriter(k, b) = WriterOf(Marks(k, b))
BY DEF LastWriter, Marks, WriterOf, WriterAt

LEMMA LastWriterByMarksNext ==
  ASSUME NEW k, NEW b, NEW S, Marks(k, b)' = S
  PROVE  LastWriter(k, b)' = IF S = {} THEN [at |-> 0, tid |-> <<0, 0>>]
                             ELSE [at |-> Largest(S), tid |-> WriterAt(Largest(S))']
BY DEF LastWriter, Marks, WriterAt

\* The last writer comes before.
LEMMA LastWriterBefore ==
  ASSUME NEW k \in Nat \ {0}, NEW b
  PROVE  LastWriter(k, b).at \in 0 .. (k - 1)
<1>1. CASE Marks(k, b) = {} BY <1>1, LastWriterByMarks DEF WriterOf
<1>2. CASE Marks(k, b) # {}
  <2>1. Marks(k, b) \in SUBSET (1 .. (k - 1)) /\ k - 1 \in Nat BY DEF Marks
  <2>2. Largest(Marks(k, b)) \in 1 .. (k - 1) BY <1>2, <2>1, LargestOf
  <2>3. LastWriter(k, b).at = Largest(Marks(k, b)) BY <1>2, LastWriterByMarks DEF WriterOf
  <2> QED BY <2>2, <2>3
<1> QED BY <1>1, <1>2

\* Who wrote a byte last before an operation that had been read does not change.
LEMMA LastWriterKept ==
  ASSUME NEW n, NEW e, Appended(n, e), NEW k \in 1 .. (n + 1), NEW b
  PROVE  LastWriter(k, b)' = LastWriter(k, b)
<1>1. n \in Nat /\ k \in Nat /\ k - 1 \in Nat /\ k - 1 <= n BY DEF Appended
<1>2. PICK M : M = Marks(k, b) OBVIOUS
<1>3. Marks(k, b)' = M
  <2>1. \A m \in 1 .. (k - 1) : m \in 1 .. n BY <1>1
  <2>2. \A m \in 1 .. (k - 1) : log'[m] = log[m] /\ (Touches(m, b)' <=> Touches(m, b))
    BY <2>1, OperationKept
  <2> QED BY <2>2, <1>2 DEF Marks
<1>4. M \in SUBSET (1 .. (k - 1)) BY <1>2 DEF Marks
<1>5. M # {} => WriterAt(Largest(M))' = WriterAt(Largest(M))
  <2> SUFFICES ASSUME M # {} PROVE WriterAt(Largest(M))' = WriterAt(Largest(M)) OBVIOUS
  <2>1. PICK g : g = Largest(M) OBVIOUS
  <2>a. g \in M BY <1>1, <1>4, <2>1, LargestOf
  <2>2. g \in 1 .. n BY <1>1, <1>4, <2>a
  <2>3. log'[g] = log[g] /\ file' = file BY <2>2, OperationKept DEF Appended
  <2>4. WriterAt(g)' = WriterAt(g) BY <2>3 DEF WriterAt, Id, Tasks
  <2> QED BY <2>4, <2>1
<1>6. LastWriter(k, b)' = IF M = {} THEN [at |-> 0, tid |-> <<0, 0>>]
                          ELSE [at |-> Largest(M), tid |-> WriterAt(Largest(M))']
  BY <1>3, LastWriterByMarksNext
<1>7. LastWriter(k, b) = WriterOf(M) BY <1>2, LastWriterByMarks
<1> QED BY <1>5, <1>6, <1>7 DEF WriterOf

\* Who has written b last by now.
Marked(b) == {m \in DOMAIN log : Touches(m, b) /\ log[m].type # "read"}
LatestWriter(b) == WriterOf(Marked(b))

\* It is who the next operation finds.
LEMMA LatestIsLast ==
  ASSUME NEW n \in Nat, DOMAIN log = 1 .. n, NEW k, k = n + 1, NEW b
  PROVE  LastWriter(k, b) = LatestWriter(b)
<1>1. 1 .. (k - 1) = DOMAIN log OBVIOUS
<1>2. Marks(k, b) = Marked(b) BY <1>1 DEF Marks, Marked
<1> QED BY <1>2, LastWriterByMarks DEF LatestWriter

LEMMA LatestNext ==
  ASSUME NEW b, NEW S, Marked(b)' = S
  PROVE  LatestWriter(b)' = IF S = {} THEN [at |-> 0, tid |-> <<0, 0>>]
                            ELSE [at |-> Largest(S), tid |-> WriterAt(Largest(S))']
BY DEF LatestWriter, WriterOf

\* The operations that have marked b, and the one that is read if it marks it.
LEMMA MarkedNext ==
  ASSUME NEW n, NEW e, Appended(n, e), NEW b
  PROVE  /\ Marked(b) \in SUBSET (1 .. n)
         /\ Marked(b)' = Marked(b) \cup (IF Covers(e, b) /\ e.type # "read" THEN {n + 1} ELSE {})
<1>1. n \in Nat /\ DOMAIN log = 1 .. n /\ (DOMAIN log)' = 1 .. (n + 1) BY DEF Appended
<1>2. \A m : m \in Marked(b)' <=> m \in 1 .. (n + 1) /\ Touches(m, b)' /\ log'[m].type # "read"
  BY <1>1 DEF Marked
<1>3. \A m : m \in Marked(b) <=> m \in 1 .. n /\ Touches(m, b) /\ log[m].type # "read"
  BY <1>1 DEF Marked
<1>4. PICK g : g = n + 1 OBVIOUS
<1>5. \A m : m \in 1 .. (n + 1) <=> m \in 1 .. n \/ m = g BY <1>1, <1>4
<1>6. \A m \in 1 .. n : log'[m] = log[m] /\ (Touches(m, b)' <=> Touches(m, b))
  BY OperationKept
<1>7. log'[g] = e /\ (Touches(g, b)' <=> Covers(e, b))
  <2>1. log'[g] = e BY <1>4, OperationNew
  <2> QED BY <2>1 DEF Touches, Covers
<1>8. \A m : m \in Marked(b)' <=>
        m \in Marked(b) \/ (m = g /\ Covers(e, b) /\ e.type # "read")
  BY ONLY <1>2, <1>3, <1>5, <1>6, <1>7
<1>9. PICK A : A = Marked(b)' OBVIOUS
<1>10. A = Marked(b) \cup (IF Covers(e, b) /\ e.type # "read" THEN {g} ELSE {})
  BY ONLY <1>8, <1>9
<1>11. Marked(b) \in SUBSET (1 .. n) BY <1>3
<1> QED BY <1>4, <1>9, <1>10, <1>11

\* The latest writer stays for an operation that does not write b.
LEMMA LatestKept ==
  ASSUME NEW n, NEW e, Appended(n, e), NEW b, ~ Covers(e, b) \/ e.type = "read"
  PROVE  LatestWriter(b)' = LatestWriter(b)
<1>1. PICK M : M = Marked(b) OBVIOUS
<1>2. Marked(b)' = M /\ M \in SUBSET (1 .. n) /\ n \in Nat
  BY <1>1, MarkedNext DEF Appended
<1>3. M # {} => WriterAt(Largest(M))' = WriterAt(Largest(M))
  <2> SUFFICES ASSUME M # {} PROVE WriterAt(Largest(M))' = WriterAt(Largest(M)) OBVIOUS
  <2>1. PICK g : g = Largest(M) OBVIOUS
  <2>2. g \in M BY <1>2, <2>1, LargestOf
  <2>3. g \in 1 .. n BY <2>2, <1>2
  <2>4. log'[g] = log[g] /\ file' = file BY <2>3, OperationKept DEF Appended
  <2>5. WriterAt(g)' = WriterAt(g) BY <2>4 DEF WriterAt, Id, Tasks
  <2> QED BY <2>5, <2>1
<1>4. LatestWriter(b)' = IF M = {} THEN [at |-> 0, tid |-> <<0, 0>>]
                          ELSE [at |-> Largest(M), tid |-> WriterAt(Largest(M))']
  BY <1>2, LatestNext
<1>5. LatestWriter(b) = WriterOf(M) BY <1>1 DEF LatestWriter
<1> QED BY <1>3, <1>4, <1>5 DEF WriterOf

\* An operation that writes, allocates or frees b is the last to have done so.
LEMMA LatestNew ==
  ASSUME NEW n, NEW e, Appended(n, e), NEW b, Covers(e, b), e.type # "read"
  PROVE  LatestWriter(b)' =
           [at |-> n + 1, tid |-> IF e.type = "free" THEN <<0, 0>> ELSE Id(e.task)]
<1>1. n \in Nat BY DEF Appended
<1>2. PICK M, g : M = Marked(b)' /\ g = n + 1 OBVIOUS
<1>3. M = Marked(b) \cup {g} /\ Marked(b) \in SUBSET (1 .. n) BY <1>2, MarkedNext
<1>4. Largest(M) = g
  <2>1. g \in M /\ M \in SUBSET Int /\ \A y \in M : y <= g BY <1>1, <1>2, <1>3
  <2> QED BY <2>1, LargestIs
<1>5. WriterAt(g)' = IF e.type = "free" THEN <<0, 0>> ELSE Id(e.task)
  <2>1. log'[g] = e /\ file' = file BY <1>2 DEF Appended
  <2> QED BY <2>1 DEF WriterAt, Id, Tasks
<1>6. LatestWriter(b)' = IF M = {} THEN [at |-> 0, tid |-> <<0, 0>>]
                          ELSE [at |-> Largest(M), tid |-> WriterAt(Largest(M))']
  BY <1>2, LatestNext
<1>7. WriterAt(Largest(M))' = WriterAt(g)' BY <1>4
<1>8. M # {} BY <1>3
<1>9. LatestWriter(b)' = [at |-> g, tid |-> WriterAt(g)'] BY <1>4, <1>6, <1>7, <1>8
<1> QED BY <1>2, <1>5, <1>9

\* The latest writer is one of the operations that have been read.
LEMMA LatestAt ==
  ASSUME NEW n \in Nat, DOMAIN log = 1 .. n, NEW b
  PROVE  LatestWriter(b).at \in 0 .. n
<1>1. PICK k : k = n + 1 OBVIOUS
<1>2. k \in Nat \ {0} /\ k - 1 = n BY <1>1
<1> QED BY <1>1, <1>2, LatestIsLast, LastWriterBefore

-------------------------------------------------------------------------------
(* The blocks that are allocated. *)

AllocationMarks(b) == {m \in DOMAIN log : log[m].addr = b /\ log[m].type \in {"malloc", "free"}}
SizeOf(S) ==
  IF S = {} \/ log[Largest(S)].type = "free" THEN 0 ELSE log[Largest(S)].size
AllocatedNow(b) == SizeOf(AllocationMarks(b))

\* It is what the next operation finds.
LEMMA AllocatedIsNow ==
  ASSUME NEW n \in Nat, DOMAIN log = 1 .. n, NEW k, k = n + 1, NEW b
  PROVE  AllocatedSize(b, k) = AllocatedNow(b)
<1>1. 1 .. (k - 1) = DOMAIN log OBVIOUS
<1> QED BY <1>1 DEF AllocatedSize, AllocatedNow, AllocationMarks, SizeOf

\* An operation that neither allocates nor frees the block at b leaves it as it is.
LEMMA AllocatedKept ==
  ASSUME NEW n, NEW e, Appended(n, e), NEW b,
         e.addr # b \/ e.type \notin {"malloc", "free"}
  PROVE  AllocatedNow(b)' = AllocatedNow(b)
<1>1. n \in Nat /\ DOMAIN log = 1 .. n /\ (DOMAIN log)' = 1 .. (n + 1) BY DEF Appended
<1>2. PICK M, A, g : M = AllocationMarks(b) /\ A = AllocationMarks(b)' /\ g = n + 1 OBVIOUS
<1>3. \A m : m \in 1 .. (n + 1) <=> m \in 1 .. n \/ m = g BY <1>1, <1>2
<1>4. \A m \in 1 .. n : log'[m] = log[m] BY OperationKept
<1>5. log'[g] = e BY <1>2, OperationNew
<1>6. \A m : m \in A <=> m \in 1 .. (n + 1) /\ log'[m].addr = b /\ log'[m].type \in {"malloc", "free"}
  BY <1>1, <1>2 DEF AllocationMarks
<1>7. \A m : m \in M <=> m \in 1 .. n /\ log[m].addr = b /\ log[m].type \in {"malloc", "free"}
  BY <1>1, <1>2 DEF AllocationMarks
<1>8. \A m : m \in A <=> m \in M BY ONLY <1>3, <1>4, <1>5, <1>6, <1>7,
        e.addr # b \/ e.type \notin {"malloc", "free"}
<1>9. A = M BY ONLY <1>8
<1>10. M # {} => log'[Largest(M)] = log[Largest(M)]
  <2> SUFFICES ASSUME M # {} PROVE log'[Largest(M)] = log[Largest(M)] OBVIOUS
  <2>1. M \in SUBSET (1 .. n) BY <1>7
  <2>2. Largest(M) \in M BY <2>1, <1>1, LargestOf
  <2> QED BY <2>1, <2>2, <1>4
<1>11. AllocatedNow(b)' = IF A = {} \/ log'[Largest(A)].type = "free" THEN 0
                          ELSE log'[Largest(A)].size
  BY <1>2 DEF AllocatedNow, SizeOf
<1>12. AllocatedNow(b) = IF M = {} \/ log[Largest(M)].type = "free" THEN 0
                          ELSE log[Largest(M)].size
  BY <1>2 DEF AllocatedNow, SizeOf
<1> QED BY ONLY <1>9, <1>10, <1>11, <1>12

\* One that does is the last.
LEMMA AllocatedNew ==
  ASSUME NEW n, NEW e, Appended(n, e), e.type \in {"malloc", "free"}
  PROVE  AllocatedNow(e.addr)' = IF e.type = "free" THEN 0 ELSE e.size
<1>1. n \in Nat /\ (DOMAIN log)' = 1 .. (n + 1) BY DEF Appended
<1>2. PICK b, A, g : b = e.addr /\ A = AllocationMarks(b)' /\ g = n + 1 OBVIOUS
<1>3. log'[g] = e BY <1>2, OperationNew
<1>4. \A m : m \in A <=> m \in 1 .. (n + 1) /\ log'[m].addr = b /\ log'[m].type \in {"malloc", "free"}
  BY <1>1, <1>2 DEF AllocationMarks
<1>5. g \in A /\ A \in SUBSET Int /\ \A y \in A : y <= g BY <1>1, <1>2, <1>3, <1>4
<1>6. Largest(A) = g BY <1>5, LargestIs
<1>7. AllocatedNow(b)' = IF A = {} \/ log'[Largest(A)].type = "free" THEN 0
                          ELSE log'[Largest(A)].size
  BY <1>2 DEF AllocatedNow, SizeOf
<1>8. AllocatedNow(b)' = IF e.type = "free" THEN 0 ELSE e.size BY ONLY <1>3, <1>5, <1>6, <1>7
<1> QED BY <1>2, <1>8

-------------------------------------------------------------------------------
(* First reads and their records. *)

\* FirstReads are the operations and bytes that are.
LEMMA FirstReadsAre ==
  FirstReads = {p \in (DOMAIN log) \X Byte : FirstRead(p[1], p[2])}
BY DEF FirstReads, FirstRead, Reads

\* What was a first read is one.
LEMMA FirstReadKept ==
  ASSUME NEW n, NEW e, Appended(n, e), NEW k \in 1 .. n, NEW b
  PROVE  /\ FirstRead(k, b)' <=> FirstRead(k, b)
         /\ RecordOf(<<k, b>>)' = RecordOf(<<k, b>>)
<1>1. n \in Nat /\ file' = file BY DEF Appended
<1>2. LastWriter(k, b)' = LastWriter(k, b)
  <2>1. k \in 1 .. (n + 1) BY <1>1
  <2> QED BY <2>1, LastWriterKept
<1>3. log'[k] = log[k] /\ (Touches(k, b)' <=> Touches(k, b)) BY OperationKept
<1>4. PICK w, c : w = LastWriter(k, b) /\ c = ContextOf(Id(log[k].task)) OBVIOUS
<1>5. w.at \in 0 .. (k - 1)
  <2>1. k \in Nat \ {0} OBVIOUS
  <2> QED BY <2>1, <1>4, LastWriterBefore
<1>6. ContextOf(Id(log[k].task))' = c BY <1>1, <1>3, <1>4 DEF Id, Tasks
<1>7. \A m \in (w.at + 1) .. (k - 1) : Reads(m, b, c)' <=> Reads(m, b, c)
  <2> SUFFICES ASSUME NEW m \in (w.at + 1) .. (k - 1) PROVE Reads(m, b, c)' <=> Reads(m, b, c)
    OBVIOUS
  <2>1. m \in 1 .. n BY <1>1, <1>5
  <2> QED BY <2>1, OperationKept
<1>8. FirstRead(k, b)' <=>
        /\ log'[k].type = "read" /\ Touches(k, b)' /\ ContextOf(w.tid) # c
        /\ \A m \in (w.at + 1) .. (k - 1) : ~ Reads(m, b, c)'
  BY <1>2, <1>4, <1>6 DEF FirstRead
<1>9. FirstRead(k, b) <=>
        /\ log[k].type = "read" /\ Touches(k, b) /\ ContextOf(w.tid) # c
        /\ \A m \in (w.at + 1) .. (k - 1) : ~ Reads(m, b, c)
  BY <1>4 DEF FirstRead
<1>10. FirstRead(k, b)' <=> FirstRead(k, b) BY ONLY <1>3, <1>7, <1>8, <1>9
<1>11. RecordOf(<<k, b>>)' = RecordOf(<<k, b>>)
  BY <1>1, <1>2, <1>3 DEF RecordOf, Id, Tasks
<1> QED BY <1>10, <1>11

\* What the operation that is read adds.
LEMMA FirstReadNew ==
  ASSUME NEW n, NEW e, Appended(n, e), NEW g, g = n + 1, NEW b
  PROVE  /\ FirstRead(g, b)' <=>
              /\ e.type = "read" /\ Covers(e, b)
              /\ ContextOf(LatestWriter(b).tid) # ContextOf(Id(e.task))
              /\ \A m \in (LatestWriter(b).at + 1) .. n : ~ Reads(m, b, ContextOf(Id(e.task)))
         /\ RecordOf(<<g, b>>)' =
              [sender |-> LatestWriter(b).tid, address |-> b, receiver |-> Id(e.task)]
<1>1. n \in Nat /\ file' = file /\ DOMAIN log = 1 .. n BY DEF Appended
<1>2. LastWriter(g, b)' = LatestWriter(b)
  <2>1. g \in 1 .. (n + 1) BY <1>1
  <2>2. LastWriter(g, b)' = LastWriter(g, b) BY <2>1, LastWriterKept
  <2>3. LastWriter(g, b) = LatestWriter(b) BY <1>1, LatestIsLast
  <2> QED BY <2>2, <2>3
<1>3. log'[g] = e BY OperationNew
<1>4. PICK w, c : w = LatestWriter(b) /\ c = ContextOf(Id(e.task)) OBVIOUS
<1>5. w.at \in 0 .. n BY <1>1, <1>4, LatestAt
<1>6. ContextOf(Id(log[g].task))' = c /\ Id(log[g].task)' = Id(e.task)
  BY <1>1, <1>3, <1>4 DEF Id, Tasks
<1>7. \A m \in (w.at + 1) .. n : Reads(m, b, c)' <=> Reads(m, b, c)
  <2> SUFFICES ASSUME NEW m \in (w.at + 1) .. n PROVE Reads(m, b, c)' <=> Reads(m, b, c)
    OBVIOUS
  <2>1. m \in 1 .. n BY <1>1, <1>5
  <2> QED BY <2>1, OperationKept
<1>8. g - 1 = n BY <1>1
<1>9. FirstRead(g, b)' <=>
        /\ log'[g].type = "read" /\ Touches(g, b)' /\ ContextOf(w.tid) # c
        /\ \A m \in (w.at + 1) .. (g - 1) : ~ Reads(m, b, c)'
  BY <1>2, <1>4, <1>6 DEF FirstRead
<1>10. Touches(g, b)' <=> Covers(e, b) BY <1>3 DEF Touches, Covers
<1>11. FirstRead(g, b)' <=>
        /\ e.type = "read" /\ Covers(e, b) /\ ContextOf(w.tid) # c
        /\ \A m \in (w.at + 1) .. n : ~ Reads(m, b, c)
  BY ONLY <1>3, <1>7, <1>8, <1>9, <1>10
<1>12. RecordOf(<<g, b>>)' = [sender |-> w.tid, address |-> b, receiver |-> Id(e.task)]
  BY <1>2, <1>4, <1>6 DEF RecordOf
<1> QED BY <1>4, <1>11, <1>12

-------------------------------------------------------------------------------
(* The table of owners and sharers. *)

\* Contexts below the width of an int have masks of their own.
LEMMA MasksApart ==
  ASSUME NEW t \in TaskId, ContextOf(t) < IntBits
  PROVE  /\ SharersMask(t) # {} /\ SharersMask(t) \in SUBSET Nat
         /\ \A u \in TaskId : ContextOf(u) < IntBits /\ ContextOf(u) # ContextOf(t)
              => SharersMask(u) \cap SharersMask(t) = {}
<1>1. IntBits \in Nat \ {0} BY BackEndsAssumption
<1>2. \A u \in TaskId : ContextOf(u) \in Nat BY DEF TaskId, ContextOf
<1>3. \A a \in Nat : a < IntBits => a % IntBits = a BY <1>1
<1> DEFINE Mask(a) == IF a = IntBits - 1 THEN a .. (2 * IntBits - 1) ELSE {a}
<1>4. \A u \in TaskId : ContextOf(u) < IntBits => SharersMask(u) = Mask(ContextOf(u))
  BY <1>2, <1>3 DEF SharersMask
<1>5. \A a, c \in Nat : a < IntBits /\ c < IntBits /\ a # c => Mask(a) \cap Mask(c) = {}
  BY <1>1
<1>6. \A a \in Nat : a < IntBits => a \in Mask(a) /\ Mask(a) \in SUBSET Nat BY <1>1
<1> HIDE DEF Mask
<1> QED BY <1>2, <1>4, <1>5, <1>6

\* The context c has read b since it was written last.
HasRead(b, c) == \E m \in DOMAIN log : m > LatestWriter(b).at /\ Reads(m, b, c)

LEMMA HasReadNext ==
  ASSUME NEW n, NEW e, Appended(n, e), NEW b, NEW c
  PROVE  /\ Covers(e, b) /\ e.type # "read" => ~ HasRead(b, c)'
         /\ ~ Covers(e, b) => (HasRead(b, c)' <=> HasRead(b, c))
         /\ Covers(e, b) /\ e.type = "read" =>
              (HasRead(b, c)' <=> HasRead(b, c) \/ c = ContextOf(Id(e.task)))
<1>1. n \in Nat /\ DOMAIN log = 1 .. n /\ (DOMAIN log)' = 1 .. (n + 1) BY DEF Appended
<1>2. PICK w, v, g : w = LatestWriter(b) /\ v = LatestWriter(b)' /\ g = n + 1 OBVIOUS
<1>3. HasRead(b, c)' <=> \E m \in 1 .. (n + 1) : m > v.at /\ Reads(m, b, c)'
  BY <1>1, <1>2 DEF HasRead
<1>4. HasRead(b, c) <=> \E m \in 1 .. n : m > w.at /\ Reads(m, b, c)
  BY <1>1, <1>2 DEF HasRead
<1>5. \A m \in 1 .. n : Reads(m, b, c)' <=> Reads(m, b, c) BY OperationKept
<1>6. Reads(g, b, c)' <=> e.type = "read" /\ Covers(e, b) /\ ContextOf(Id(e.task)) = c
  <2>1. log'[g] = e /\ file' = file BY <1>2 DEF Appended
  <2> QED BY <2>1 DEF Reads, Touches, Covers, Id, Tasks
<1>7. \A m : m \in 1 .. (n + 1) <=> m \in 1 .. n \/ m = g BY <1>1, <1>2
<1>8. Covers(e, b) /\ e.type # "read" => ~ HasRead(b, c)'
  <2> SUFFICES ASSUME Covers(e, b), e.type # "read" PROVE ~ HasRead(b, c)' OBVIOUS
  <2>1. v = [at |-> n + 1, tid |-> IF e.type = "free" THEN <<0, 0>> ELSE Id(e.task)]
    BY <1>2, LatestNew
  <2>2. v.at = n + 1 BY <2>1
  <2> QED BY <2>2, <1>3, <1>1
<1>9. ~ Covers(e, b) \/ e.type = "read" =>
        (HasRead(b, c)' <=> HasRead(b, c) \/ (g > w.at /\ Reads(g, b, c)'))
  <2> SUFFICES ASSUME ~ Covers(e, b) \/ e.type = "read"
               PROVE  HasRead(b, c)' <=> HasRead(b, c) \/ (g > w.at /\ Reads(g, b, c)')
    OBVIOUS
  <2>1. v = w BY <1>2, LatestKept
  <2> QED BY ONLY <2>1, <1>3, <1>4, <1>5, <1>7
<1>10. g > w.at
  <2>1. w.at \in 0 .. n BY <1>1, <1>2, LatestAt
  <2> QED BY <2>1, <1>1, <1>2
<1> QED BY ONLY <1>6, <1>8, <1>9, <1>10

OwnersExact == \A b \in Byte : addrTable[b].ownerTask = LatestWriter(b).tid

\* The sharers of b are its owner and those that have read it since: no claim is made for
\* the context of the owner, whose reads are not counted.
SharersExact ==
  \A b \in Byte, t \in TaskId :
    ContextOf(t) < IntBits /\ ContextOf(t) # ContextOf(addrTable[b].ownerTask)
      => (addrTable[b].sharers \cap SharersMask(t) # {} <=> HasRead(b, ContextOf(t)))

TableExact ==
  /\ addrTable \in [Byte -> [ownerTask : TaskId, sharers : SUBSET Nat]]
  /\ OwnersExact /\ SharersExact

\* A write, and an allocation, takes its bytes from all that have them.
LEMMA TableWritten ==
  ASSUME NEW n, NEW e, Appended(n, e), TableExact, e.type \in {"write", "malloc"},
         Id(e.task) \in TaskId, ContextOf(Id(e.task)) < IntBits,
         Update(Id(e.task), Bytes(e.addr, e.size))
  PROVE  TableExact'
<1>1. PICK tid : tid = Id(e.task) OBVIOUS
<1>2. \A b \in Byte : addrTable'[b] =
        IF Covers(e, b) THEN [ownerTask |-> tid, sharers |-> SharersMask(tid)] ELSE addrTable[b]
  BY <1>1 DEF Update, Owned, Covers
<1>3. tid \in TaskId /\ ContextOf(tid) < IntBits /\ SharersMask(tid) \in SUBSET Nat
  BY <1>1, MasksApart
<1>4. (addrTable \in [Byte -> [ownerTask : TaskId, sharers : SUBSET Nat]])'
  <2>1. addrTable' = [b \in Byte |-> addrTable'[b]] BY DEF Update
  <2>2. \A b \in Byte : addrTable'[b] \in [ownerTask : TaskId, sharers : SUBSET Nat]
    BY <1>2, <1>3 DEF TableExact
  <2> QED BY <2>1, <2>2
<1>5. OwnersExact'
  <2> SUFFICES ASSUME NEW b \in Byte PROVE addrTable'[b].ownerTask = LatestWriter(b)'.tid
    BY DEF OwnersExact
  <2>1. CASE Covers(e, b)
    <3>1. LatestWriter(b)' = [at |-> n + 1, tid |-> tid] BY <1>1, <2>1, LatestNew
    <3> QED BY <3>1, <2>1, <1>2
  <2>2. CASE ~ Covers(e, b)
    <3>1. LatestWriter(b)' = LatestWriter(b) BY <2>2, LatestKept
    <3> QED BY <3>1, <2>2, <1>2 DEF TableExact, OwnersExact
  <2> QED BY <2>1, <2>2
<1>6. SharersExact'
  <2> SUFFICES ASSUME NEW b \in Byte, NEW t \in TaskId, ContextOf(t) < IntBits,
                      ContextOf(t) # ContextOf(addrTable'[b].ownerTask)
               PROVE  addrTable'[b].sharers \cap SharersMask(t) # {}
                        <=> HasRead(b, ContextOf(t))'
    BY DEF SharersExact
  <2>1. CASE Covers(e, b)
    <3>1. ~ HasRead(b, ContextOf(t))' BY <2>1, HasReadNext
    <3>2. addrTable'[b].ownerTask = tid /\ addrTable'[b].sharers = SharersMask(tid)
      BY <2>1, <1>2
    <3>3. SharersMask(tid) \cap SharersMask(t) = {} BY <3>2, <1>3, MasksApart
    <3> QED BY <3>1, <3>2, <3>3
  <2>2. CASE ~ Covers(e, b)
    <3>1. HasRead(b, ContextOf(t))' <=> HasRead(b, ContextOf(t)) BY <2>2, HasReadNext
    <3>2. addrTable'[b] = addrTable[b] BY <2>2, <1>2
    <3> QED BY <3>1, <3>2 DEF TableExact, SharersExact
  <2> QED BY <2>1, <2>2
<1> QED BY <1>4, <1>5, <1>6 DEF TableExact

\* A free forgets the owner and the sharers.
LEMMA TableFreed ==
  ASSUME NEW n, NEW e, Appended(n, e), TableExact, e.type = "free",
         addrTable' = [b \in Byte |-> IF e.addr <= b /\ b < e.addr + e.size THEN NewEntry
                                      ELSE addrTable[b]]
  PROVE  TableExact'
<1>2. \A b \in Byte : addrTable'[b] =
        IF Covers(e, b) THEN [ownerTask |-> <<0, 0>>, sharers |-> {}] ELSE addrTable[b]
  BY DEF NewEntry, Covers, Bytes
<1>4. (addrTable \in [Byte -> [ownerTask : TaskId, sharers : SUBSET Nat]])'
  <2>1. addrTable' = [b \in Byte |-> addrTable'[b]] OBVIOUS
  <2>2. \A b \in Byte : addrTable'[b] \in [ownerTask : TaskId, sharers : SUBSET Nat]
    BY <1>2 DEF TableExact, TaskId
  <2> QED BY <2>1, <2>2
<1>5. OwnersExact'
  <2> SUFFICES ASSUME NEW b \in Byte PROVE addrTable'[b].ownerTask = LatestWriter(b)'.tid
    BY DEF OwnersExact
  <2>1. CASE Covers(e, b)
    <3>1. LatestWriter(b)' = [at |-> n + 1, tid |-> <<0, 0>>] BY <2>1, LatestNew
    <3> QED BY <3>1, <2>1, <1>2
  <2>2. CASE ~ Covers(e, b)
    <3>1. LatestWriter(b)' = LatestWriter(b) BY <2>2, LatestKept
    <3> QED BY <3>1, <2>2, <1>2 DEF TableExact, OwnersExact
  <2> QED BY <2>1, <2>2
<1>6. SharersExact'
  <2> SUFFICES ASSUME NEW b \in Byte, NEW t \in TaskId, ContextOf(t) < IntBits,
                      ContextOf(t) # ContextOf(addrTable'[b].ownerTask)
               PROVE  addrTable'[b].sharers \cap SharersMask(t) # {}
                        <=> HasRead(b, ContextOf(t))'
    BY DEF SharersExact
  <2>1. CASE Covers(e, b)
    <3>1. ~ HasRead(b, ContextOf(t))' BY <2>1, HasReadNext
    <3>2. addrTable'[b].sharers = {} BY <2>1, <1>2
    <3> QED BY <3>1, <3>2
  <2>2. CASE ~ Covers(e, b)
    <3>1. HasRead(b, ContextOf(t))' <=> HasRead(b, ContextOf(t)) BY <2>2, HasReadNext
    <3>2. addrTable'[b] = addrTable[b] BY <2>2, <1>2
    <3> QED BY <3>1, <3>2 DEF TableExact, SharersExact
  <2> QED BY <2>1, <2>2
<1> QED BY <1>4, <1>5, <1>6 DEF TableExact

LEMMA EntryShared ==
  ASSUME NEW T, NEW U, NEW x \in [ownerTask : T, sharers : U], NEW s
  PROVE  [x EXCEPT !.sharers = s] = [ownerTask |-> x.ownerTask, sharers |-> s]
OBVIOUS

\* A read makes its context a sharer of the bytes it does not own.
LEMMA TableRead ==
  ASSUME NEW n, NEW e, Appended(n, e), TableExact, e.type = "read",
         NEW tid \in TaskId, tid = Id(e.task), ContextOf(tid) < IntBits,
         addrTable' = [b \in Byte |->
           IF Covers(e, b) /\ Communicates(addrTable[b], tid)
             THEN [addrTable[b] EXCEPT !.sharers = @ \cup SharersMask(tid)]
             ELSE addrTable[b]]
  PROVE  TableExact'
<1>1. SharersMask(tid) \in SUBSET Nat /\ SharersMask(tid) # {} BY MasksApart
<1>2. \A b \in Byte : addrTable'[b] =
        IF Covers(e, b) /\ Communicates(addrTable[b], tid)
          THEN [ownerTask |-> addrTable[b].ownerTask,
                sharers |-> addrTable[b].sharers \cup SharersMask(tid)]
          ELSE addrTable[b]
  <2> SUFFICES ASSUME NEW b \in Byte
               PROVE  addrTable'[b] =
                 IF Covers(e, b) /\ Communicates(addrTable[b], tid)
                   THEN [ownerTask |-> addrTable[b].ownerTask,
                         sharers |-> addrTable[b].sharers \cup SharersMask(tid)]
                   ELSE addrTable[b]
    OBVIOUS
  <2>0. PICK M : M = SharersMask(tid) OBVIOUS
  <2>1. PICK x \in [ownerTask : TaskId, sharers : SUBSET Nat] : x = addrTable[b]
    BY DEF TableExact
  <2>2. [x EXCEPT !.sharers = @ \cup M] =
          [ownerTask |-> x.ownerTask, sharers |-> x.sharers \cup M]
    BY ONLY EntryShared, x \in [ownerTask : TaskId, sharers : SUBSET Nat]
  <2>3. addrTable'[b] = IF Covers(e, b) /\ Communicates(addrTable[b], tid)
                          THEN [addrTable[b] EXCEPT !.sharers = @ \cup SharersMask(tid)]
                          ELSE addrTable[b]
    OBVIOUS
  <2> QED BY <2>0, <2>1, <2>2, <2>3
<1>3. \A b \in Byte : addrTable'[b].ownerTask = addrTable[b].ownerTask BY <1>2
<1>4. (addrTable \in [Byte -> [ownerTask : TaskId, sharers : SUBSET Nat]])'
  <2>1. addrTable' = [b \in Byte |-> addrTable'[b]] OBVIOUS
  <2>2. \A b \in Byte : addrTable'[b] \in [ownerTask : TaskId, sharers : SUBSET Nat]
    BY <1>1, <1>2 DEF TableExact
  <2> QED BY <2>1, <2>2
<1>5. OwnersExact'
  <2> SUFFICES ASSUME NEW b \in Byte PROVE addrTable'[b].ownerTask = LatestWriter(b)'.tid
    BY DEF OwnersExact
  <2>1. LatestWriter(b)' = LatestWriter(b) BY LatestKept
  <2> QED BY <2>1, <1>3 DEF TableExact, OwnersExact
<1>6. SharersExact'
  <2> SUFFICES ASSUME NEW b \in Byte, NEW t \in TaskId, ContextOf(t) < IntBits,
                      ContextOf(t) # ContextOf(addrTable'[b].ownerTask)
               PROVE  addrTable'[b].sharers \cap SharersMask(t) # {}
                        <=> HasRead(b, ContextOf(t))'
    BY DEF SharersExact
  <2>0. ContextOf(t) # ContextOf(addrTable[b].ownerTask) BY <1>3
  <2>1. addrTable[b].sharers \cap SharersMask(t) # {} <=> HasRead(b, ContextOf(t))
    BY <2>0 DEF TableExact, SharersExact
  <2>2. CASE ~ Covers(e, b)
    <3>1. HasRead(b, ContextOf(t))' <=> HasRead(b, ContextOf(t)) BY <2>2, HasReadNext
    <3>2. addrTable'[b] = addrTable[b] BY <2>2, <1>2
    <3> QED BY <3>1, <3>2, <2>1
  <2>3. CASE Covers(e, b)
    <3>1. HasRead(b, ContextOf(t))' <=> HasRead(b, ContextOf(t)) \/ ContextOf(t) = ContextOf(tid)
      BY <2>3, HasReadNext
    <3>2. CASE Communicates(addrTable[b], tid)
      <4>1. addrTable'[b].sharers = addrTable[b].sharers \cup SharersMask(tid)
        BY <2>3, <3>2, <1>2
      <4>2. CASE ContextOf(t) = ContextOf(tid)
        <5>1. SharersMask(t) = SharersMask(tid) BY <4>2 DEF SharersMask
        <5> QED BY <5>1, <4>1, <4>2, <3>1, <1>1
      <4>3. CASE ContextOf(t) # ContextOf(tid)
        <5>1. SharersMask(tid) \cap SharersMask(t) = {} BY <4>3, MasksApart
        <5> QED BY <5>1, <4>1, <4>3, <3>1, <2>1
      <4> QED BY <4>2, <4>3
    <3>3. CASE ~ Communicates(addrTable[b], tid)
      <4>1. addrTable'[b] = addrTable[b] BY <3>3, <1>2
      <4>2. CASE ContextOf(t) = ContextOf(tid)
        <5>1. SharersMask(t) = SharersMask(tid) BY <4>2 DEF SharersMask
        <5>2. addrTable[b].sharers \cap SharersMask(tid) # {}
          BY <3>3, <4>2, <2>0 DEF Communicates
        <5> QED BY <5>1, <5>2, <4>1, <4>2, <3>1
      <4>3. CASE ContextOf(t) # ContextOf(tid) BY <4>1, <4>3, <3>1, <2>1
      <4> QED BY <4>2, <4>3
    <3> QED BY <3>2, <3>3
  <2> QED BY <2>2, <2>3
<1> QED BY <1>4, <1>5, <1>6 DEF TableExact

AllocationExact ==
  /\ allocation \in [Byte -> Nat]
  /\ \A b \in Byte : allocation[b] = AllocatedNow(b)

\* The sizes kept are those of the blocks that are allocated.
LEMMA AllocationNext ==
  ASSUME NEW n, NEW e, Appended(n, e), AllocationExact, e.addr \in Byte, e.size \in Nat,
         allocation' = IF e.type = "malloc" THEN [allocation EXCEPT ![e.addr] = e.size]
                       ELSE IF e.type = "free" THEN [allocation EXCEPT ![e.addr] = 0]
                       ELSE allocation
  PROVE  AllocationExact'
<1>1. allocation' \in [Byte -> Nat] BY DEF AllocationExact
<1>2. ASSUME NEW b \in Byte PROVE allocation'[b] = AllocatedNow(b)'
  <2>1. CASE b = e.addr /\ e.type \in {"malloc", "free"}
    <3>1. AllocatedNow(e.addr)' = IF e.type = "free" THEN 0 ELSE e.size BY <2>1, AllocatedNew
    <3>2. AllocatedNow(b)' = AllocatedNow(e.addr)' BY <2>1
    <3>3. allocation'[b] = IF e.type = "free" THEN 0 ELSE e.size BY <2>1 DEF AllocationExact
    <3> QED BY <3>1, <3>2, <3>3
  <2>2. CASE b # e.addr \/ e.type \notin {"malloc", "free"}
    <3>1. AllocatedNow(b)' = AllocatedNow(b) BY <2>2, AllocatedKept
    <3>2. allocation'[b] = allocation[b] BY <2>2 DEF AllocationExact
    <3> QED BY <3>1, <3>2 DEF AllocationExact
  <2> QED BY <2>1, <2>2
<1> QED BY <1>1, <1>2 DEF AllocationExact

-------------------------------------------------------------------------------
(* The records. *)

CommRecord == [sender : TaskId, address : Byte, receiver : TaskId]

\* h numbers the first reads by their records.
Numbers(h) ==
  /\ h \in [DOMAIN records -> FirstReads]
  /\ \A i, j \in DOMAIN records : h[i] = h[j] => i = j
  /\ \A p \in FirstReads : \E k \in DOMAIN records : h[k] = p
  /\ \A k \in DOMAIN records : records[k] = RecordOf(h[k])

RecordsExact == records \in Seq(CommRecord) /\ \E h : Numbers(h)

\* The first reads after one more operation are those before and the new ones.
LEMMA FirstReadsNext ==
  ASSUME NEW n, NEW e, Appended(n, e), NEW g, g = n + 1
  PROVE  /\ FirstReads \in SUBSET ((1 .. n) \X Byte)
         /\ \A k, b : <<k, b>> \in FirstReads' <=>
              <<k, b>> \in FirstReads \/ (k = g /\ b \in Byte /\ FirstRead(g, b)')
         /\ \A p \in FirstReads : RecordOf(p)' = RecordOf(p)
<1>1. n \in Nat /\ DOMAIN log = 1 .. n /\ (DOMAIN log)' = 1 .. (n + 1) BY DEF Appended
<1>2. \A k, b : <<k, b>> \in FirstReads <=> k \in 1 .. n /\ b \in Byte /\ FirstRead(k, b)
  BY <1>1, FirstReadsAre
<1>3. \A k, b : <<k, b>> \in FirstReads' <=> k \in 1 .. (n + 1) /\ b \in Byte /\ FirstRead(k, b)'
  BY <1>1 DEF FirstReads, FirstRead, Reads
<1>4. FirstReads \in SUBSET ((1 .. n) \X Byte) BY <1>1, FirstReadsAre
<1>5. \A k \in 1 .. n : \A b : FirstRead(k, b)' <=> FirstRead(k, b) BY FirstReadKept
<1>6. \A k : k \in 1 .. (n + 1) <=> k \in 1 .. n \/ k = g BY <1>1
<1>7. \A k, b : <<k, b>> \in FirstReads' <=>
              <<k, b>> \in FirstReads \/ (k = g /\ b \in Byte /\ FirstRead(g, b)')
  BY ONLY <1>2, <1>3, <1>5, <1>6
<1>8. \A p \in FirstReads : RecordOf(p)' = RecordOf(p)
  <2> SUFFICES ASSUME NEW p \in FirstReads PROVE RecordOf(p)' = RecordOf(p) OBVIOUS
  <2>1. PICK k \in 1 .. n, b \in Byte : p = <<k, b>> BY <1>4
  <2> QED BY <2>1, FirstReadKept
<1> QED BY <1>4, <1>7, <1>8

\* An operation that is no read adds neither.
LEMMA RecordsKept ==
  ASSUME NEW n, NEW e, Appended(n, e), RecordsExact, e.type # "read", records' = records
  PROVE  RecordsExact'
<1>1. PICK g : g = n + 1 OBVIOUS
<1>2. \A b : ~ FirstRead(g, b)' BY <1>1, FirstReadNew
<1>3. FirstReads \in SUBSET ((1 .. n) \X Byte) /\ (DOMAIN log)' = 1 .. (n + 1) BY <1>1, FirstReadsNext DEF Appended
<1>4. \A k, b : <<k, b>> \in FirstReads' <=> <<k, b>> \in FirstReads BY <1>1, <1>2, FirstReadsNext
<1>5. FirstReads' \in SUBSET ((1 .. (n + 1)) \X Byte) BY <1>3 DEF FirstReads
<1>6. PICK F : F = FirstReads' OBVIOUS
<1>7. F = FirstReads BY ONLY <1>3, <1>4, <1>5, <1>6
<1>8. \A p \in FirstReads : RecordOf(p)' = RecordOf(p) BY <1>1, FirstReadsNext
<1>9. PICK h : Numbers(h) BY DEF RecordsExact
<1>10. \A k \in DOMAIN records : RecordOf(h[k])' = RecordOf(h[k]) BY <1>8, <1>9 DEF Numbers
<1>11. Numbers(h)' BY <1>6, <1>7, <1>9, <1>10 DEF Numbers
<1> QED BY <1>11 DEF RecordsExact

\* The new first reads are those that AddRead records.
LEMMA ReadsThatCommunicate ==
  ASSUME NEW n, NEW e, Appended(n, e), TableExact, e.type = "read",
         NEW tid \in TaskId, tid = Id(e.task), ContextOf(tid) < IntBits,
         NEW g, g = n + 1, NEW b \in Byte
  PROVE  FirstRead(g, b)' <=> Covers(e, b) /\ Communicates(addrTable[b], tid)
<1>1. n \in Nat /\ DOMAIN log = 1 .. n BY DEF Appended
<1>2. PICK w : w = LatestWriter(b) OBVIOUS
<1>3. w.at \in 0 .. n BY <1>1, <1>2, LatestAt
<1>4. addrTable[b].ownerTask = w.tid BY <1>2 DEF TableExact, OwnersExact
<1>5. FirstRead(g, b)' <=>
        /\ Covers(e, b) /\ ContextOf(w.tid) # ContextOf(tid)
        /\ \A m \in (w.at + 1) .. n : ~ Reads(m, b, ContextOf(tid))
  BY <1>2, FirstReadNew
<1>6. HasRead(b, ContextOf(tid)) <=> \E m \in (w.at + 1) .. n : Reads(m, b, ContextOf(tid))
  <2>1. \A m : m \in (w.at + 1) .. n <=> m \in 1 .. n /\ m > w.at BY <1>1, <1>3
  <2> QED BY <2>1, <1>1, <1>2 DEF HasRead
<1>7. ContextOf(w.tid) # ContextOf(tid) =>
        (addrTable[b].sharers \cap SharersMask(tid) = {} <=> ~ HasRead(b, ContextOf(tid)))
  BY <1>4 DEF TableExact, SharersExact
<1>8. Communicates(addrTable[b], tid) <=>
        ContextOf(w.tid) # ContextOf(tid) /\ addrTable[b].sharers \cap SharersMask(tid) = {}
  BY <1>4 DEF Communicates
<1> QED BY ONLY <1>5, <1>6, <1>7, <1>8

\* The bytes of an operation are finitely many.
LEMMA BytesFinite ==
  ASSUME NEW a \in Nat, NEW s \in Nat, NEW S \in SUBSET {b \in Byte : a <= b /\ b < a + s}
  PROVE  IsFiniteSet(S) /\ S \in SUBSET Int /\ S \in SUBSET Byte
<1>1. Byte \subseteq Nat BY BackEndsAssumption
<1>2. \A b \in S : b \in a .. (a + s) BY ONLY <1>1, a \in Nat, s \in Nat,
        S \in SUBSET {b \in Byte : a <= b /\ b < a + s}
<1>3. S \in SUBSET (a .. (a + s)) BY ONLY <1>2
<1>4. IsFiniteSet(a .. (a + s)) BY FS_Interval
<1>5. IsFiniteSet(S) BY ONLY <1>3, <1>4, FS_Subset
<1> QED BY <1>1, <1>5

\* The bytes of e that communicate, and the records that are made of bytes.
NewsOf(e, tid) == {b \in Byte : Covers(e, b) /\ Communicates(addrTable[b], tid)}
Recorded(read, tid) ==
  records' = records \o
    [k \in DOMAIN read |-> [sender |-> addrTable[read[k]].ownerTask,
                            address |-> read[k], receiver |-> tid]]

\* A read adds a record for each of its first reads.
LEMMA RecordsRead ==
  ASSUME NEW n, NEW e, Appended(n, e), TableExact, RecordsExact, e.type = "read",
         e.addr \in Byte, e.size \in Nat,
         NEW tid \in TaskId, tid = Id(e.task), ContextOf(tid) < IntBits,
         NEW news, news = NewsOf(e, tid), NEW read, read = Upwards(news),
         Recorded(read, tid)
  PROVE  RecordsExact'
<1>1. n \in Nat /\ DOMAIN log = 1 .. n BY DEF Appended
<1>2. Byte \subseteq Nat BY BackEndsAssumption
<1>3. IsFiniteSet(news) /\ news \in SUBSET Int /\ news \in SUBSET Byte
  <2>1. PICK a \in Nat, z \in Nat : a = e.addr /\ z = e.size BY ONLY <1>2, e.addr \in Byte, e.size \in Nat
  <2>2. news \in SUBSET {b \in Byte : a <= b /\ b < a + z}
    BY ONLY <2>1, news = NewsOf(e, tid) DEF NewsOf, Covers, Bytes
  <2> QED BY ONLY <2>2, a \in Nat, z \in Nat, BytesFinite
<1>4. PICK c \in Nat :
        /\ read \in [1 .. c -> news]
        /\ \A i, j \in 1 .. c : read[i] = read[j] => i = j
        /\ \A b \in news : \E k \in 1 .. c : read[k] = b
  <2>1. PICK c : c = Cardinality(news) OBVIOUS
  <2>2. /\ c \in Nat /\ read \in [1 .. c -> news]
        /\ \A i, j \in 1 .. c : read[i] = read[j] => i = j
        /\ \A b \in news : \E k \in 1 .. c : read[k] = b
    BY ONLY <2>1, <1>3, read = Upwards(news), UpwardsLists
  <2> QED BY ONLY <2>2
<1>5. PICK g : g = n + 1 OBVIOUS
<1> DEFINE more == [k \in 1 .. c |-> [sender |-> addrTable[read[k]].ownerTask,
                                      address |-> read[k], receiver |-> tid]]
<1>6. more \in Seq(CommRecord)
  <2>1. \A k \in 1 .. c : read[k] \in Byte BY <1>3, <1>4
  <2>2. \A k \in 1 .. c : more[k] \in CommRecord BY <2>1 DEF TableExact, CommRecord
  <2>3. more = [k \in 1 .. c |-> more[k]] OBVIOUS
  <2> HIDE DEF more
  <2>4. more \in [1 .. c -> CommRecord] BY ONLY <2>2, <2>3
  <2> QED BY ONLY <2>4, c \in Nat
<1>7. PICK l \in Nat : l = Len(records) /\ DOMAIN records = 1 .. l BY DEF RecordsExact
<1>8. /\ records' \in Seq(CommRecord) /\ DOMAIN records' = 1 .. (l + c)
      /\ \A k \in 1 .. l : records'[k] = records[k]
      /\ \A k \in 1 .. c : records'[l + k] = more[k]
  <2>1. records' = records \o more BY <1>4 DEF Recorded
  <2>2. Len(more) = c /\ records \in Seq(CommRecord) BY <1>4 DEF RecordsExact
  <2> HIDE DEF more
  <2>3. records \o more \in Seq(CommRecord) /\ Len(records \o more) = l + c
    BY ONLY <2>2, <1>6, <1>7, l \in Nat, c \in Nat
  <2>4. \A k \in 1 .. (l + c) : (records \o more)[k] = IF k <= l THEN records[k] ELSE more[k - l]
    BY ONLY <2>2, <1>6, <1>7, l \in Nat, c \in Nat
  <2>5. \A k \in 1 .. l : k \in 1 .. (l + c) /\ k <= l OBVIOUS
  <2>6. \A k \in 1 .. c : l + k \in 1 .. (l + c) /\ ~ (l + k <= l) /\ l + k - l = k OBVIOUS
  <2>7. DOMAIN records' = 1 .. (l + c) BY <2>1, <2>3
  <2>8. \A k \in 1 .. l : (records \o more)[k] = records[k] BY ONLY <2>4, <2>5
  <2>9. \A k \in 1 .. c : (records \o more)[l + k] = more[k]
    <3> SUFFICES ASSUME NEW k \in 1 .. c PROVE (records \o more)[l + k] = more[k] OBVIOUS
    <3>1. PICK j : j = l + k OBVIOUS
    <3>2. j \in 1 .. (l + c) /\ ~ (j <= l) /\ j - l = k BY <2>6, <3>1
    <3>3. (records \o more)[j] = more[j - l] BY ONLY <2>4, <3>2
    <3> QED BY ONLY <3>1, <3>2, <3>3
  <2> QED BY ONLY <2>1, <2>3, <2>7, <2>8, <2>9
<1>9. PICK h : Numbers(h) BY DEF RecordsExact
<1> DEFINE f == [k \in 1 .. (l + c) |-> IF k <= l THEN h[k] ELSE <<g, read[k - l]>>]
<1>10. \A k \in 1 .. l : f[k] = h[k] /\ f[k] \in FirstReads
  <2>1. \A k \in 1 .. l : k \in 1 .. (l + c) /\ k <= l OBVIOUS
  <2> QED BY <2>1, <1>7, <1>9 DEF Numbers
<1>11. \A k \in 1 .. c : f[l + k] = <<g, read[k]>>
  <2>1. \A k \in 1 .. c : l + k \in 1 .. (l + c) /\ ~ (l + k <= l) /\ l + k - l = k OBVIOUS
  <2> QED BY <2>1
<1>12. \A k \in 1 .. (l + c) : k \in 1 .. l \/ \E i \in 1 .. c : k = l + i
  <2> SUFFICES ASSUME NEW k \in 1 .. (l + c), k \notin 1 .. l PROVE \E i \in 1 .. c : k = l + i
    OBVIOUS
  <2>1. k - l \in 1 .. c /\ k = l + (k - l) OBVIOUS
  <2> QED BY <2>1
<1>13. f = [k \in 1 .. (l + c) |-> f[k]] OBVIOUS
<1> HIDE DEF f, more
<1>14. \A b \in Byte : FirstRead(g, b)' <=> b \in news
  BY <1>5, ReadsThatCommunicate DEF NewsOf
<1>15. \A k, b : <<k, b>> \in FirstReads' <=> <<k, b>> \in FirstReads \/ (k = g /\ b \in news)
  <2>1. \A k, b : <<k, b>> \in FirstReads' <=>
          <<k, b>> \in FirstReads \/ (k = g /\ b \in Byte /\ FirstRead(g, b)')
    BY <1>5, FirstReadsNext
  <2> QED BY <2>1, <1>14, <1>3
<1>16. FirstReads \in SUBSET ((1 .. n) \X Byte) /\ g \notin 1 .. n
  BY <1>1, <1>5, FirstReadsNext
<1>17. FirstReads' \in SUBSET ((1 .. (n + 1)) \X Byte) BY DEF FirstReads, Appended
<1>18. PICK F : F = FirstReads' OBVIOUS
<1>19. f \in [1 .. (l + c) -> F]
  <2>1. \A k \in 1 .. l : f[k] \in F
    <3> SUFFICES ASSUME NEW k \in 1 .. l PROVE f[k] \in F OBVIOUS
    <3>1. PICK j \in 1 .. n, b \in Byte : f[k] = <<j, b>> BY <1>10, <1>16
    <3>2. <<j, b>> \in FirstReads BY <3>1, <1>10
    <3> QED BY <3>1, <3>2, <1>15, <1>18
  <2>2. \A k \in 1 .. c : f[l + k] \in F
    <3> SUFFICES ASSUME NEW k \in 1 .. c PROVE f[l + k] \in F OBVIOUS
    <3>1. read[k] \in news BY <1>4
    <3> QED BY <3>1, <1>11, <1>15, <1>18
  <2>3. \A k \in 1 .. (l + c) : f[k] \in F BY <2>1, <2>2, <1>12
  <2> QED BY <2>3, <1>13
<1>20. \A i, j \in 1 .. (l + c) : f[i] = f[j] => i = j
  <2> SUFFICES ASSUME NEW i \in 1 .. (l + c), NEW j \in 1 .. (l + c), f[i] = f[j]
               PROVE  i = j
    OBVIOUS
  <2>1. CASE i \in 1 .. l /\ j \in 1 .. l
    <3>1. h[i] = h[j] BY <2>1, <1>10
    <3> QED BY <3>1, <2>1, <1>7, <1>9 DEF Numbers
  <2>2. ASSUME NEW a \in 1 .. l, NEW k \in 1 .. c, f[a] = f[l + k] PROVE FALSE
    <3>1. PICK m \in 1 .. n, b \in Byte : f[a] = <<m, b>> BY <1>10, <1>16
    <3>2. f[l + k] = <<g, read[k]>> BY <1>11
    <3>3. <<m, b>> = <<g, read[k]>> BY ONLY <2>2, <3>1, <3>2
    <3>4. m = g BY ONLY <3>3
    <3> QED BY <3>4, <1>16
  <2>3. CASE i \notin 1 .. l /\ j \notin 1 .. l
    <3>1. PICK a \in 1 .. c, d \in 1 .. c : i = l + a /\ j = l + d BY <2>3, <1>12
    <3>2. <<g, read[a]>> = <<g, read[d]>> BY <3>1, <1>11
    <3>3. read[a] = read[d] BY <3>2
    <3> QED BY <3>1, <3>3, <1>4
  <2> QED BY <2>1, <2>2, <2>3, <1>12
<1>21. \A p \in F : \E k \in 1 .. (l + c) : f[k] = p
  <2> SUFFICES ASSUME NEW p \in F PROVE \E k \in 1 .. (l + c) : f[k] = p OBVIOUS
  <2>1. PICK m, b : p = <<m, b>> BY <1>17, <1>18
  <2>2. CASE <<m, b>> \in FirstReads
    <3>1. PICK k \in 1 .. l : h[k] = p BY <2>1, <2>2, <1>7, <1>9 DEF Numbers
    <3>2. k \in 1 .. (l + c) OBVIOUS
    <3> QED BY <3>1, <3>2, <1>10
  <2>3. CASE m = g /\ b \in news
    <3>1. PICK k \in 1 .. c : read[k] = b BY <2>3, <1>4
    <3>2. l + k \in 1 .. (l + c) OBVIOUS
    <3> QED BY <3>1, <3>2, <2>1, <2>3, <1>11
  <2> QED BY <2>1, <2>2, <2>3, <1>15, <1>18
<1>22. \A k \in 1 .. (l + c) : records'[k] = RecordOf(f[k])'
  <2>1. ASSUME NEW k \in 1 .. l PROVE records'[k] = RecordOf(f[k])'
    <3>1. RecordOf(f[k])' = RecordOf(f[k]) BY <1>5, <1>10, FirstReadsNext
    <3>2. records[k] = RecordOf(h[k]) BY <1>7, <1>9 DEF Numbers
    <3> QED BY <3>1, <3>2, <1>8, <1>10
  <2>2. ASSUME NEW k \in 1 .. c PROVE records'[l + k] = RecordOf(f[l + k])'
    <3>1. PICK b \in Byte : b = read[k] BY <1>3, <1>4
    <3>2. RecordOf(<<g, b>>)' =
            [sender |-> LatestWriter(b).tid, address |-> b, receiver |-> tid]
      BY <1>5, FirstReadNew
    <3>3. records'[l + k] = [sender |-> addrTable[b].ownerTask, address |-> b, receiver |-> tid]
      BY <1>8, <3>1 DEF more
    <3>4. addrTable[b].ownerTask = LatestWriter(b).tid BY DEF TableExact, OwnersExact
    <3>5. f[l + k] = <<g, b>> BY <3>1, <1>11
    <3> QED BY <3>2, <3>3, <3>4, <3>5
  <2> QED BY <2>1, <2>2, <1>12
<1>23. Numbers(f)' BY <1>8, <1>18, <1>19, <1>20, <1>21, <1>22 DEF Numbers
<1> QED BY <1>8, <1>23 DEF RecordsExact

-------------------------------------------------------------------------------
(* Every step. *)

\* The contexts of the tasks have masks of their own.
ContextsFit == \A f \in Files : \A i \in DOMAIN f.tasks : ContextOf(f.tasks[i].id) < IntBits

LogEntry == [task : Nat, type : {"read", "write", "malloc", "free"}, addr : Byte,
             size : Nat, roi : BOOLEAN]

CommIInv ==
  /\ file \in Files /\ nextTask \in 0 .. Len(Tasks) /\ current \in 0 .. Len(Tasks)
  /\ log \in Seq(LogEntry)
  /\ TableExact /\ AllocationExact /\ RecordsExact

LEMMA ElementOf ==
  ASSUME NEW S, NEW t \in Seq(S), NEW i \in 1 .. Len(t)
  PROVE  DOMAIN t = 1 .. Len(t) /\ Len(t) \in Nat /\ t[i] \in S
OBVIOUS

\* The tasks of a file are a sequence and their contexts fit.
LEMMA TaskOfFile ==
  ASSUME ContextsFit, file \in Files, NEW i \in 1 .. Len(Tasks)
  PROVE  Id(i) \in TaskId /\ ContextOf(Id(i)) < IntBits /\ Len(Tasks) \in Nat
<1>1. Tasks \in Seq([id : TaskId, pred : Seq(TaskId)]) BY BackEndsAssumption DEF Tasks
<1>2. PICK t : t = Tasks OBVIOUS
<1>3. DOMAIN t = 1 .. Len(t) /\ Len(t) \in Nat /\ t[i] \in [id : TaskId, pred : Seq(TaskId)]
  <2>1. i \in 1 .. Len(t) /\ t \in Seq([id : TaskId, pred : Seq(TaskId)]) BY <1>1, <1>2
  <2> QED BY ONLY <2>1, ElementOf
<1> QED BY <1>2, <1>3 DEF ContextsFit, Id, Tasks

LEMMA CommInvInit ==
  ASSUME BackEndsInit
  PROVE  CommIInv
<1>1. /\ file \in Files /\ nextTask = 0 /\ current = 0 /\ log = <<>>
      /\ addrTable = [b \in Byte |-> NewEntry] /\ allocation = [b \in Byte |-> 0] /\ records = <<>>
  BY DEF BackEndsInit, TaskGraphInit, CommInit
<1>2. Len(Tasks) \in Nat
  <2>1. Tasks \in Seq([id : TaskId, pred : Seq(TaskId)])
    BY <1>1, BackEndsAssumption DEF Tasks
  <2> QED BY <2>1
<1>3. DOMAIN log = {} /\ log \in Seq(LogEntry) /\ records \in Seq(CommRecord) /\ DOMAIN records = {}
  BY <1>1
<1>4. \A b : Marked(b) = {} /\ AllocationMarks(b) = {} BY <1>3 DEF Marked, AllocationMarks
<1>5. \A b : LatestWriter(b) = [at |-> 0, tid |-> <<0, 0>>] BY <1>4 DEF LatestWriter, WriterOf
<1>6. \A b, c : ~ HasRead(b, c) BY <1>3 DEF HasRead
<1>7. TableExact
  <2>1. \A b \in Byte : addrTable[b].ownerTask = <<0, 0>> /\ addrTable[b].sharers = {}
    BY <1>1 DEF NewEntry
  <2>2. addrTable \in [Byte -> [ownerTask : TaskId, sharers : SUBSET Nat]]
    BY <1>1 DEF NewEntry, TaskId
  <2> QED BY <2>1, <2>2, <1>5, <1>6 DEF TableExact, OwnersExact, SharersExact
<1>8. AllocationExact BY <1>1, <1>4 DEF AllocationExact, AllocatedNow, SizeOf
<1>9. RecordsExact
  <2>1. FirstReads = {} BY <1>3 DEF FirstReads
  <2>2. Numbers(<<>>) BY <2>1, <1>3 DEF Numbers
  <2> QED BY <2>2, <1>3 DEF RecordsExact
<1> QED BY <1>1, <1>2, <1>3, <1>7, <1>8, <1>9 DEF CommIInv

\* A step that leaves the tracker, the history and the file alone.
LEMMA CommKept ==
  ASSUME CommIInv, UNCHANGED <<addrTable, allocation, records, log, file>>,
         nextTask' \in 0 .. Len(Tasks), current' \in 0 .. Len(Tasks)
  PROVE  CommIInv'
<1>1. TableExact'
  <2>1. \A b : LatestWriter(b)' = LatestWriter(b)
    BY DEF LatestWriter, WriterOf, WriterAt, Marked, Touches, Id, Tasks
  <2>2. \A b, c : HasRead(b, c)' <=> HasRead(b, c)
    BY <2>1 DEF HasRead, Reads, Touches, Id, Tasks
  <2> QED BY <2>1, <2>2 DEF CommIInv, TableExact, OwnersExact, SharersExact
<1>2. AllocationExact'
  BY DEF CommIInv, AllocationExact, AllocatedNow, SizeOf, AllocationMarks
<1>3. RecordsExact'
  <2>1. \A k, b : LastWriter(k, b)' = LastWriter(k, b)
    BY DEF LastWriter, Touches, Id, Tasks
  <2>2. FirstReads' = FirstReads
    BY <2>1 DEF FirstReads, Touches, Id, Tasks
  <2>3. \A p : RecordOf(p)' = RecordOf(p) BY <2>1 DEF RecordOf, Id, Tasks
  <2> QED BY <2>2, <2>3 DEF CommIInv, RecordsExact, Numbers
<1>4. /\ (file \in Files)' /\ (nextTask \in 0 .. Len(Tasks))' /\ (current \in 0 .. Len(Tasks))'
      /\ (log \in Seq(LogEntry))'
  BY DEF CommIInv, Tasks
<1> QED BY <1>1, <1>2, <1>3, <1>4 DEF CommIInv

\* The tracker and the history take one operation.
LEMMA CommOperation ==
  ASSUME CommIInv, ContextsFit, NEW op \in Op, MemoryOp(op)
  PROVE  CommIInv'
<1>1. /\ file \in Files /\ nextTask \in 0 .. Len(Tasks) /\ current \in 0 .. Len(Tasks)
      /\ log \in Seq(LogEntry)
      /\ TableExact /\ AllocationExact /\ RecordsExact
  BY DEF CommIInv
<1>2. PICK n \in Nat : n = Len(log) /\ DOMAIN log = 1 .. n BY <1>1
<1>3. PICK at : at = Len(log) + 1 OBVIOUS
<1>4. PICK size : size = IF op.type = "free" THEN AllocatedSize(op.addr, at) ELSE op.size OBVIOUS
<1>5. PICK e : e = [task |-> current, type |-> op.type, addr |-> op.addr,
                    size |-> size, roi |-> inROI /\ ~stopped]
  OBVIOUS
<1>6. /\ current # 0 /\ CommOp(Id(current), op) /\ log' = Append(log, e)
      /\ file' = file /\ nextTask' = nextTask /\ current' = current
  BY <1>3, <1>4, <1>5 DEF MemoryOp, fileVars
<1>7. op \in Operation BY BackEndsAssumption
<1>8. AllocatedSize(op.addr, at) = allocation[op.addr] /\ allocation[op.addr] \in Nat
  <2>1. AllocatedSize(op.addr, at) = AllocatedNow(op.addr) BY <1>2, <1>3, AllocatedIsNow
  <2> QED BY <2>1, <1>1, <1>7 DEF AllocationExact, Operation
<1>9. PICK tid : tid = Id(current) OBVIOUS
<1>10. tid \in TaskId /\ ContextOf(tid) < IntBits /\ current \in Nat
  <2>1. Len(Tasks) \in Nat
    <3>1. Tasks \in Seq([id : TaskId, pred : Seq(TaskId)])
      BY <1>1, BackEndsAssumption DEF Tasks
    <3> QED BY <3>1
  <2>2. PICK i : i = current OBVIOUS
  <2>3. i \in 1 .. Len(Tasks) /\ i \in Nat BY <2>1, <2>2, <1>1, <1>6
  <2>4. Id(i) \in TaskId /\ ContextOf(Id(i)) < IntBits BY <2>3, <1>1, TaskOfFile
  <2> QED BY <2>2, <2>3, <2>4, <1>9
<1>11. /\ e.type = op.type /\ e.addr = op.addr /\ e.task = current /\ e.size = size
       /\ e.type \in {"read", "write", "malloc", "free"} /\ e.addr \in Byte /\ e.size \in Nat
       /\ e \in LogEntry
  BY <1>4, <1>5, <1>7, <1>8, <1>10 DEF Operation, LogEntry
<1>12. Appended(n, e) /\ (log \in Seq(LogEntry))'
  <2>1. PICK l : l = log OBVIOUS
  <2>2. /\ Append(l, e) \in Seq(LogEntry) /\ DOMAIN Append(l, e) = 1 .. (n + 1)
        /\ Append(l, e)[n + 1] = e /\ \A k \in 1 .. n : Append(l, e)[k] = l[k]
    <3>1. l \in Seq(LogEntry) /\ e \in LogEntry /\ n = Len(l) BY <1>1, <1>2, <1>11, <2>1
    <3> QED BY ONLY <3>1, n \in Nat
  <2> QED BY <2>1, <2>2, <1>2, <1>6 DEF Appended
<1>13. Id(e.task) = tid BY <1>9, <1>11
<1>14. CASE op.type \in {"write", "malloc"}
  <2>1. /\ Update(tid, Bytes(e.addr, e.size)) /\ records' = records
        /\ allocation' = IF op.type = "malloc" THEN [allocation EXCEPT ![op.addr] = op.size]
                         ELSE allocation
    BY <1>4, <1>6, <1>9, <1>11, <1>14 DEF CommOp, AddWrite, AddAllocate, Bytes
  <2>2. size = op.size BY <1>4, <1>14
  <2>3. TableExact' BY <1>1, <1>10, <1>11, <1>12, <1>13, <1>14, <2>1, TableWritten
  <2>4. AllocationExact' BY <1>1, <1>11, <1>12, <1>14, <2>1, <2>2, AllocationNext
  <2>5. RecordsExact' BY <1>1, <1>11, <1>12, <1>14, <2>1, RecordsKept
  <2> QED BY <1>1, <1>6, <1>12, <2>3, <2>4, <2>5 DEF CommIInv, Tasks
<1>15. CASE op.type = "free"
  <2>1. /\ addrTable' = [b \in Byte |->
             IF op.addr <= b /\ b < op.addr + allocation[op.addr] THEN NewEntry ELSE addrTable[b]]
        /\ records' = records /\ allocation' = [allocation EXCEPT ![op.addr] = 0]
    BY <1>6, <1>15 DEF CommOp, AddFree
  <2>2. e.size = allocation[op.addr] BY <1>4, <1>8, <1>11, <1>15
  <2>3. TableExact' BY <1>1, <1>11, <1>12, <1>15, <2>1, <2>2, TableFreed
  <2>4. AllocationExact' BY <1>1, <1>11, <1>12, <1>15, <2>1, AllocationNext
  <2>5. RecordsExact' BY <1>1, <1>11, <1>12, <1>15, <2>1, RecordsKept
  <2> QED BY <1>1, <1>6, <1>12, <2>3, <2>4, <2>5 DEF CommIInv, Tasks
<1>16. CASE op.type = "read"
  <2>1. PICK news :
          news = {b \in Byte : op.addr <= b /\ b < op.addr + op.size /\ Communicates(addrTable[b], tid)}
    OBVIOUS
  <2>2. PICK read : read = Upwards(news) OBVIOUS
  <2>3. AddRead(tid, op.addr, op.size) BY <1>6, <1>9, <1>16 DEF CommOp
  <2>4. /\ records' = records \o
             [k \in DOMAIN read |-> [sender |-> addrTable[read[k]].ownerTask,
                                     address |-> read[k], receiver |-> tid]]
        /\ addrTable' = [b \in Byte |->
             IF b \in news THEN [addrTable[b] EXCEPT !.sharers = @ \cup SharersMask(tid)]
             ELSE addrTable[b]]
        /\ allocation' = allocation
    BY <2>1, <2>2, <2>3 DEF AddRead
  <2>5. e.size = op.size BY <1>4, <1>11, <1>16
  <2>6. news = {b \in Byte : Covers(e, b) /\ Communicates(addrTable[b], tid)}
    BY <2>1, <2>5, <1>11 DEF Covers, Bytes
  <2>7. addrTable' = [b \in Byte |->
           IF Covers(e, b) /\ Communicates(addrTable[b], tid)
             THEN [addrTable[b] EXCEPT !.sharers = @ \cup SharersMask(tid)]
             ELSE addrTable[b]]
    BY <2>4, <2>6
  <2>8. TableExact' BY <1>1, <1>10, <1>11, <1>12, <1>13, <1>16, <2>7, TableRead
  <2>9. AllocationExact' BY <1>1, <1>11, <1>12, <1>16, <2>4, AllocationNext
  <2>10. RecordsExact'
    <3>1. Appended(n, e) /\ TableExact /\ RecordsExact /\ e.type = "read" BY <1>1, <1>11, <1>12, <1>16
    <3>2. /\ e.addr \in Byte /\ e.size \in Nat
          /\ tid \in TaskId /\ tid = Id(e.task) /\ ContextOf(tid) < IntBits
      BY <1>10, <1>11, <1>13
    <3>3. Recorded(read, tid) BY <2>4 DEF Recorded
    <3>4. news = NewsOf(e, tid) BY <2>6 DEF NewsOf
    <3> QED BY ONLY <3>1, <3>2, <3>3, <3>4, <2>2, RecordsRead
  <2> QED BY <1>1, <1>6, <1>12, <2>8, <2>9, <2>10 DEF CommIInv, Tasks
<1> QED BY <1>7, <1>14, <1>15, <1>16 DEF Operation

LEMMA CommInvNext ==
  ASSUME CommIInv, ContextsFit, [BackEndsNext]_backEndsVars
  PROVE  CommIInv'
<1>1. CASE ReadTask
  <2>1. /\ UNCHANGED <<addrTable, allocation, records, log, file>>
        /\ nextTask < Len(Tasks) /\ nextTask' = nextTask + 1 /\ current' = nextTask + 1
    BY <1>1 DEF ReadTask, GetNextTask, commVars
  <2>2. Len(Tasks) \in Nat
    <3>1. Tasks \in Seq([id : TaskId, pred : Seq(TaskId)])
      BY BackEndsAssumption DEF Tasks, CommIInv
    <3> QED BY <3>1
  <2>3. nextTask + 1 \in 0 .. Len(Tasks) BY <2>1, <2>2 DEF CommIInv
  <2> QED BY <2>1, <2>3, CommKept
<1>2. CASE \E op \in Op : MemoryOp(op) BY <1>2, CommOperation
<1>3. CASE UNCHANGED backEndsVars
  BY <1>3, CommKept DEF backEndsVars, commVars, fileVars, CommIInv
<1> QED BY <1>1, <1>2, <1>3 DEF BackEndsNext

\* What is numbered by the records is counted by them.
LEMMA RecordsCount ==
  ASSUME RecordsExact
  PROVE  CommunicationsExact
<1>1. PICK h : Numbers(h) BY DEF RecordsExact
<1>2. PICK l \in Nat : DOMAIN records = 1 .. l BY DEF RecordsExact
<1> SUFFICES ASSUME NEW r
             PROVE  Cardinality({k \in DOMAIN records : records[k] = r})
                      = Cardinality({p \in FirstReads : RecordOf(p) = r})
  BY DEF CommunicationsExact
<1>3. PICK A, B : A = {k \in DOMAIN records : records[k] = r}
                  /\ B = {p \in FirstReads : RecordOf(p) = r}
  OBVIOUS
<1>4. IsFiniteSet(A)
  <2>1. A \in SUBSET (1 .. l) BY <1>2, <1>3
  <2>2. IsFiniteSet(1 .. l) BY FS_Interval
  <2> QED BY <2>1, <2>2, FS_Subset
<1> DEFINE f == [k \in A |-> h[k]]
<1>5. f \in [A -> B] BY <1>1, <1>3 DEF Numbers
<1>6. \A i, j \in A : f[i] = f[j] => i = j BY <1>1, <1>3 DEF Numbers
<1>7. \A p \in B : \E k \in A : f[k] = p
  <2> SUFFICES ASSUME NEW p \in B PROVE \E k \in A : f[k] = p OBVIOUS
  <2>1. p \in FirstReads /\ RecordOf(p) = r BY <1>3
  <2>2. PICK k \in DOMAIN records : h[k] = p BY <2>1, <1>1 DEF Numbers
  <2>3. k \in A BY <2>1, <2>2, <1>1, <1>3 DEF Numbers
  <2> QED BY <2>2, <2>3
<1> HIDE DEF f
<1>8. f \in Bijection(A, B)
  BY <1>5, <1>6, <1>7 DEF Bijection, Injection, Surjection, IsInjective
<1>9. Cardinality(A) = Cardinality(B) BY <1>4, <1>8, FS_Bijection DEF ExistsBijection
<1> QED BY <1>3, <1>9

\* What the tracker records is what the operations of the file communicate, whatever the
\* file, when its contexts have bits of their own in an int (CommTracker.cpp:43, 74, 128).
THEOREM CommunicationsRecorded ==
  ContextsFit => (BackEndsSpec => []CommunicationsExact)
<1> SUFFICES ASSUME ContextsFit PROVE BackEndsSpec => []CommunicationsExact OBVIOUS
<1>1. BackEndsInit => CommIInv BY CommInvInit
<1>2. CommIInv /\ [BackEndsNext]_backEndsVars => CommIInv' BY CommInvNext
<1>3. CommIInv => CommunicationsExact BY RecordsCount DEF CommIInv
<1> QED BY <1>1, <1>2, <1>3, PTL DEF BackEndsSpec

-------------------------------------------------------------------------------
(* The paths of a graph. *)

\* The tasks that task i of the list directly follows.
Follows(tasks, i) ==
  {k \in 1 .. (i - 1) : \E p \in DOMAIN tasks[i].pred : tasks[i].pred[p] = tasks[k].id}

\* A set that the tasks i follows are in, and with a task all that it follows.
ClosedBefore(tasks, i, S) ==
  /\ S \in SUBSET (DOMAIN tasks)
  /\ Follows(tasks, i) \in SUBSET S
  /\ \A a \in S : Follows(tasks, a) \in SUBSET S

\* A set of numbers has a least one.
LEMMA LeastOf ==
  ASSUME NEW S \in SUBSET Nat, S # {}
  PROVE  \E x \in S : \A y \in S : x <= y
<1>1. PICK x \in S : \A y \in S : ~ (<<y, x>> \in OpToRel(<, Nat))
  BY NatLessThanWellFounded, WFMin
<1>2. \A y \in S : x <= y
  <2> SUFFICES ASSUME NEW y \in S PROVE x <= y OBVIOUS
  <2>1. y \in Nat /\ x \in Nat OBVIOUS
  <2>2. ~ (y < x) BY <1>1, <2>1 DEF OpToRel
  <2> QED BY <2>1, <2>2
<1> QED BY <1>2

\* The recursion of Ancestors has a solution: of each task the least closed set.
LEMMA AncestorsUnfold ==
  ASSUME NEW tasks, NEW n \in Nat, DOMAIN tasks = 1 .. n, NEW i \in 1 .. n
  PROVE  Ancestors(tasks)[i] =
           UNION {{j} \cup Ancestors(tasks)[j] : j \in Follows(tasks, i)}
<1> DEFINE D == DOMAIN tasks
           F(k) == Follows(tasks, k)
           Least(k) == {j \in D : \A S : ClosedBefore(tasks, k, S) => j \in S}
           Above(k) == UNION {{j} \cup Least(j) : j \in F(k)}
           Solves(a) == a = [k \in D |-> UNION {{j} \cup a[j] : j \in F(k)}]
           g == [k \in D |-> Least(k)]
<1>1. \A k \in D : F(k) \in SUBSET D /\ \A j \in F(k) : j < k BY DEF Follows
<1>2. \A k \in D : ClosedBefore(tasks, k, Least(k))
  <2> SUFFICES ASSUME NEW k \in D PROVE ClosedBefore(tasks, k, Least(k)) OBVIOUS
  <2>1. F(k) \in SUBSET Least(k) BY <1>1 DEF ClosedBefore
  <2>2. \A a \in Least(k) : F(a) \in SUBSET Least(k)
    <3> SUFFICES ASSUME NEW a \in Least(k), NEW b \in F(a) PROVE b \in Least(k) OBVIOUS
    <3>1. a \in D /\ b \in D BY <1>1
    <3>2. \A S : ClosedBefore(tasks, k, S) => b \in S
      <4> SUFFICES ASSUME NEW S, ClosedBefore(tasks, k, S) PROVE b \in S OBVIOUS
      <4>1. a \in S OBVIOUS
      <4> QED BY <4>1 DEF ClosedBefore
    <3> QED BY <3>1, <3>2
  <2> QED BY <2>1, <2>2 DEF ClosedBefore
<1>3. \A k \in D : Least(k) = Above(k)
  <2> SUFFICES ASSUME NEW k \in D PROVE Least(k) = Above(k) OBVIOUS
  <2>1. \A j \in F(k) : j \in Least(k) BY <1>2 DEF ClosedBefore
  <2>2. \A j \in F(k) : Least(j) \in SUBSET Least(k)
    <3> SUFFICES ASSUME NEW j \in F(k) PROVE Least(j) \in SUBSET Least(k) OBVIOUS
    <3>1. ClosedBefore(tasks, j, Least(k)) BY <2>1, <1>2 DEF ClosedBefore
    <3> QED BY <3>1
  <2>3. ClosedBefore(tasks, k, Above(k))
    <3>1. Above(k) \in SUBSET D BY <1>1
    <3>2. F(k) \in SUBSET Above(k) OBVIOUS
    <3>3. \A a \in Above(k) : F(a) \in SUBSET Above(k)
      <4> SUFFICES ASSUME NEW a \in Above(k) PROVE F(a) \in SUBSET Above(k) OBVIOUS
      <4>1. PICK j \in F(k) : a = j \/ a \in Least(j) OBVIOUS
      <4>2. j \in D BY <1>1
      <4>3. ClosedBefore(tasks, j, Least(j)) BY <4>2, <1>2
      <4>4. F(a) \in SUBSET Least(j) BY <4>1, <4>3 DEF ClosedBefore
      <4>5. Least(j) \in SUBSET Above(k) OBVIOUS
      <4> QED BY <4>4, <4>5
    <3> QED BY <3>1, <3>2, <3>3 DEF ClosedBefore
  <2>4. Least(k) \in SUBSET Above(k) BY <2>3
  <2>5. Above(k) \in SUBSET Least(k) BY <2>1, <2>2
  <2> QED BY <2>4, <2>5
<1>4. Solves(g)
  <2> HIDE DEF Least
  <2>1. \A k \in D : \A j \in F(k) : g[j] = Least(j) BY <1>1
  <2>2. \A k \in D : Above(k) = UNION {{j} \cup g[j] : j \in F(k)} BY <2>1
  <2>3. \A k \in D : Least(k) = UNION {{j} \cup g[j] : j \in F(k)} BY <1>3, <2>2
  <2> QED BY <2>3
<1>5. Ancestors(tasks) = CHOOSE a : Solves(a) BY DEF Ancestors, Follows
<1> HIDE DEF Solves, g
<1>6. Solves(Ancestors(tasks)) BY <1>4, <1>5
<1>7. PICK a : a = Ancestors(tasks) OBVIOUS
<1>8. a = [k \in D |-> UNION {{j} \cup a[j] : j \in F(k)}] BY <1>6, <1>7 DEF Solves
<1>9. a[i] = UNION {{j} \cup a[j] : j \in F(i)} BY <1>8
<1> QED BY <1>7, <1>9

\* Ancestors come earlier in the list.
LEMMA AncestorsEarlier ==
  ASSUME NEW tasks, NEW n \in Nat, DOMAIN tasks = 1 .. n, NEW i \in 1 .. n
  PROVE  Ancestors(tasks)[i] \in SUBSET (1 .. (i - 1))
<1> DEFINE A(k) == Ancestors(tasks)[k]
           Bad == {k \in 1 .. n : ~ (A(k) \in SUBSET (1 .. (k - 1)))}
<1>1. SUFFICES Bad = {} OBVIOUS
<1>2. SUFFICES ASSUME Bad # {} PROVE FALSE OBVIOUS
<1>3. Bad \in SUBSET Nat OBVIOUS
<1>4. PICK k \in Bad : \A y \in Bad : k <= y BY <1>2, <1>3, LeastOf
<1>5. k \in 1 .. n /\ ~ (A(k) \in SUBSET (1 .. (k - 1))) OBVIOUS
<1>6. A(k) = UNION {{j} \cup A(j) : j \in Follows(tasks, k)} BY <1>5, AncestorsUnfold
<1>7. \A j \in Follows(tasks, k) : j \in 1 .. (k - 1) BY DEF Follows
<1>8. \A j \in Follows(tasks, k) : A(j) \in SUBSET (1 .. (j - 1))
  <2> SUFFICES ASSUME NEW j \in Follows(tasks, k) PROVE A(j) \in SUBSET (1 .. (j - 1)) OBVIOUS
  <2>1. j \in 1 .. n /\ ~ (k <= j) BY <1>5, <1>7
  <2>2. j \notin Bad BY <1>4, <2>1
  <2> QED BY <2>1, <2>2
<1>9. \A j \in Follows(tasks, k) : {j} \cup A(j) \in SUBSET (1 .. (k - 1))
  <2> SUFFICES ASSUME NEW j \in Follows(tasks, k) PROVE {j} \cup A(j) \in SUBSET (1 .. (k - 1)) OBVIOUS
  <2>1. j \in 1 .. (k - 1) /\ k \in 1 .. n BY <1>5, <1>7
  <2>2. \A x \in A(j) : x \in 1 .. (j - 1) BY <1>8
  <2>3. \A x \in 1 .. (j - 1) : x \in 1 .. (k - 1) BY <2>1
  <2> HIDE DEF A
  <2> QED BY <2>1, <2>2, <2>3
<1> HIDE DEF A
<1>10. A(k) \in SUBSET (1 .. (k - 1)) BY <1>6, <1>9
<1> QED BY <1>5, <1>10

\* The ancestors of an ancestor are ancestors.
LEMMA AncestorsTransitive ==
  ASSUME NEW tasks, NEW n \in Nat, DOMAIN tasks = 1 .. n, NEW i \in 1 .. n,
         NEW j \in Ancestors(tasks)[i]
  PROVE  Ancestors(tasks)[j] \in SUBSET Ancestors(tasks)[i]
<1> DEFINE A(k) == Ancestors(tasks)[k]
           Bad == {k \in 1 .. n : \E m \in A(k) : ~ (A(m) \in SUBSET A(k))}
<1>1. SUFFICES Bad = {} OBVIOUS
<1>2. SUFFICES ASSUME Bad # {} PROVE FALSE OBVIOUS
<1>3. Bad \in SUBSET Nat OBVIOUS
<1>4. PICK k \in Bad : \A y \in Bad : k <= y BY <1>2, <1>3, LeastOf
<1>5. PICK m \in A(k) : ~ (A(m) \in SUBSET A(k)) OBVIOUS
<1>6. k \in 1 .. n OBVIOUS
<1>7. A(k) = UNION {{h} \cup A(h) : h \in Follows(tasks, k)} BY <1>6, AncestorsUnfold
<1> HIDE DEF A
<1>8. PICK h \in Follows(tasks, k) : m = h \/ m \in A(h) BY <1>5, <1>7
<1>9. A(h) \in SUBSET A(k) BY <1>7
<1>10. h \in 1 .. n /\ ~ (k <= h)
  <2>1. h \in 1 .. (k - 1) BY DEF Follows
  <2> QED BY <2>1, <1>6
<1>11. h \notin Bad BY <1>4, <1>10
<1>12. CASE m = h BY <1>5, <1>9, <1>12
<1>13. CASE m \in A(h)
  <2>1. A(m) \in SUBSET A(h) BY <1>10, <1>11, <1>13
  <2> QED BY <2>1, <1>5, <1>9
<1> QED BY <1>8, <1>12, <1>13

\* What is known of a task graph file: its tasks are listed as the middle layer does, and
\* those of a context are on one path.
TaskRecord == [id : TaskId, pred : Seq(TaskId)]

OnOnePath(tasks) ==
  \A i, j \in DOMAIN tasks :
    i < j /\ ContextOf(tasks[i].id) = ContextOf(tasks[j].id) => i \in Ancestors(tasks)[j]

ContextsOrdered == \A f \in Files : OnOnePath(f.tasks)

GraphOf(tasks, n) ==
  /\ n \in Nat /\ DOMAIN tasks = 1 .. n /\ tasks \in [1 .. n -> TaskRecord]
  /\ WellFormed(tasks) /\ OnOnePath(tasks)

LEMMA FileIsGraph ==
  ASSUME ContextsOrdered, file \in Files
  PROVE  GraphOf(Tasks, Len(Tasks))
<1>1. Tasks \in Seq(TaskRecord) /\ WellFormed(Tasks)
  BY BackEndsAssumption DEF Tasks, TaskRecord
<1>2. OnOnePath(Tasks) BY DEF ContextsOrdered, Tasks
<1>3. PICK t : t = Tasks OBVIOUS
<1>4. Len(t) \in Nat /\ DOMAIN t = 1 .. Len(t) /\ t \in [1 .. Len(t) -> TaskRecord]
  <2>1. t \in Seq(TaskRecord) BY <1>1, <1>3
  <2> QED BY ONLY <2>1
<1> QED BY <1>1, <1>2, <1>3, <1>4 DEF GraphOf

\* A task is known by its id, and of two tasks of a context the later has the larger number.
LEMMA IdsOrdered ==
  ASSUME NEW tasks, NEW n, GraphOf(tasks, n), NEW i \in 1 .. n, NEW j \in 1 .. n
  PROVE  /\ tasks[i].id \in TaskId /\ tasks[i].id = <<ContextOf(tasks[i].id), SeqOf(tasks[i].id)>>
         /\ SeqOf(tasks[i].id) \in Nat
         /\ tasks[i].id = tasks[j].id => i = j
         /\ ContextOf(tasks[i].id) = ContextOf(tasks[j].id) =>
              (i <= j <=> SeqOf(tasks[i].id) <= SeqOf(tasks[j].id))
<1>1. tasks[i].id \in TaskId /\ tasks[j].id \in TaskId BY DEF GraphOf, TaskRecord
<1>2. \A t \in TaskId : t = <<ContextOf(t), SeqOf(t)>> /\ SeqOf(t) \in Nat
  BY DEF TaskId, ContextOf, SeqOf
<1>3. tasks[i].id = tasks[j].id => i = j BY DEF GraphOf, WellFormed
<1>4. /\ i < j /\ ContextOf(tasks[i].id) = ContextOf(tasks[j].id)
           => SeqOf(tasks[i].id) < SeqOf(tasks[j].id)
      /\ j < i /\ ContextOf(tasks[i].id) = ContextOf(tasks[j].id)
           => SeqOf(tasks[j].id) < SeqOf(tasks[i].id)
  BY DEF GraphOf, WellFormed
<1>5. SeqOf(tasks[i].id) \in Nat /\ SeqOf(tasks[j].id) \in Nat BY <1>1, <1>2
<1>6. i \in Int /\ j \in Int BY DEF GraphOf
<1>7. i < j \/ i = j \/ j < i BY <1>6
<1>8. ContextOf(tasks[i].id) = ContextOf(tasks[j].id) =>
              (i <= j <=> SeqOf(tasks[i].id) <= SeqOf(tasks[j].id))
  BY <1>4, <1>5, <1>6, <1>7
<1> QED BY <1>1, <1>2, <1>3, <1>5, <1>8

\* A predecessor is a task that is followed.
LEMMA PredFollowed ==
  ASSUME NEW tasks, NEW n, GraphOf(tasks, n), NEW i \in 1 .. n, NEW k \in DOMAIN tasks[i].pred
  PROVE  \E h \in Follows(tasks, i) : tasks[h].id = tasks[i].pred[k] /\ h \in 1 .. n /\ h < i
<1>1. PICK h \in 1 .. (i - 1) : tasks[h].id = tasks[i].pred[k] BY DEF GraphOf, WellFormed
<1>2. h \in Follows(tasks, i) BY <1>1 DEF Follows
<1>3. h \in 1 .. n /\ h < i BY DEF GraphOf
<1> QED BY <1>1, <1>2, <1>3

-------------------------------------------------------------------------------
(* Edges. *)

\* Where p is among the predecessors of the task i; the edges from p to the tasks of S.
PlacesOf(tasks, p, i) == {k \in DOMAIN tasks[i].pred : tasks[i].pred[k] = p}
EdgesOf(tasks, p, S) == UNION {{i} \X PlacesOf(tasks, p, i) : i \in S}

\* They are finitely many.
LEMMA PlacesFinite ==
  ASSUME NEW tasks, NEW n, GraphOf(tasks, n), NEW p, NEW i \in 1 .. n
  PROVE  IsFiniteSet(PlacesOf(tasks, p, i))
<1>1. PICK s : s = tasks[i].pred OBVIOUS
<1>2. s \in Seq(TaskId) BY <1>1 DEF GraphOf, TaskRecord
<1>3. DOMAIN s = 1 .. Len(s) /\ Len(s) \in Nat BY ONLY <1>2
<1>4. PlacesOf(tasks, p, i) \in SUBSET (1 .. Len(s)) BY <1>1, <1>3 DEF PlacesOf
<1>5. IsFiniteSet(1 .. Len(s)) BY ONLY <1>3, FS_Interval
<1> QED BY ONLY <1>4, <1>5, FS_Subset

LEMMA EdgesFrom ==
  ASSUME NEW tasks, NEW n \in Nat, NEW p, NEW m \in 1 .. n
  PROVE  /\ EdgesOf(tasks, p, m .. n) =
              ({m} \X PlacesOf(tasks, p, m)) \cup EdgesOf(tasks, p, (m + 1) .. n)
         /\ ({m} \X PlacesOf(tasks, p, m)) \cap EdgesOf(tasks, p, (m + 1) .. n) = {}
<1>1. PICK A, B, P : /\ A = EdgesOf(tasks, p, m .. n) /\ B = EdgesOf(tasks, p, (m + 1) .. n)
                     /\ P = {m} \X PlacesOf(tasks, p, m)
  OBVIOUS
<1>2. \A x : x \in A <=> \E i \in m .. n : x \in {i} \X PlacesOf(tasks, p, i)
  BY <1>1 DEF EdgesOf
<1>3. \A x : x \in B <=> \E i \in (m + 1) .. n : x \in {i} \X PlacesOf(tasks, p, i)
  BY <1>1 DEF EdgesOf
<1>4. \A i : i \in m .. n <=> i = m \/ i \in (m + 1) .. n OBVIOUS
<1>5. \A x : x \in A <=> x \in P \/ x \in B BY ONLY <1>1, <1>2, <1>3, <1>4
<1>6. \A x : ~ (x \in P /\ x \in B)
  <2> SUFFICES ASSUME NEW x, x \in P, x \in B PROVE FALSE OBVIOUS
  <2>1. x[1] = m BY <1>1
  <2>2. PICK i \in (m + 1) .. n : x \in {i} \X PlacesOf(tasks, p, i) BY <1>3
  <2>3. x[1] = i BY <2>2
  <2> QED BY <2>1, <2>3
<1>7. A = P \cup B BY ONLY <1>5
<1>8. P \cap B = {} BY ONLY <1>6
<1> QED BY ONLY <1>1, <1>7, <1>8

LEMMA EdgesFinite ==
  ASSUME NEW tasks, NEW n, GraphOf(tasks, n), NEW p, NEW m \in 1 .. (n + 1)
  PROVE  IsFiniteSet(EdgesOf(tasks, p, m .. n))
<1> DEFINE E(k) == EdgesOf(tasks, p, k .. n)
           Bad == {x \in 0 .. n : ~ IsFiniteSet(E(n + 1 - x))}
<1>0. n \in Nat BY DEF GraphOf
<1>1. SUFFICES Bad = {}
  <2>1. n + 1 - m \in 0 .. n /\ n + 1 - (n + 1 - m) = m BY <1>0
  <2>2. IsFiniteSet(E(n + 1 - (n + 1 - m))) BY <2>1
  <2> QED BY <2>1, <2>2
<1>2. SUFFICES ASSUME Bad # {} PROVE FALSE OBVIOUS
<1>3. Bad \in SUBSET Nat BY <1>0
<1>4. PICK x \in Bad : \A y \in Bad : x <= y BY <1>2, <1>3, LeastOf
<1>5. x \in 0 .. n /\ ~ IsFiniteSet(E(n + 1 - x)) OBVIOUS
<1>6. CASE x = 0
  <2>1. (n + 1 - x) .. n = {} BY <1>0, <1>6
  <2>2. EdgesOf(tasks, p, {}) = {} BY DEF EdgesOf
  <2> QED BY <2>1, <2>2, <1>5, FS_EmptySet
<1>7. CASE x # 0
  <2>1. x - 1 \in 0 .. n /\ ~ (x <= x - 1) BY <1>0, <1>5, <1>7
  <2>2. x - 1 \notin Bad BY <2>1, <1>4
  <2>3. IsFiniteSet(E(n + 1 - (x - 1))) BY <2>1, <2>2
  <2>4. PICK k : k = n + 1 - x OBVIOUS
  <2>5. k \in 1 .. n /\ n + 1 - (x - 1) = k + 1 BY <1>0, <1>5, <1>7, <2>4
  <2>6. IsFiniteSet(EdgesOf(tasks, p, (k + 1) .. n)) BY <2>3, <2>5
  <2>7. IsFiniteSet({k} \X PlacesOf(tasks, p, k))
    <3>1. IsFiniteSet({k}) BY FS_Singleton
    <3>2. IsFiniteSet(PlacesOf(tasks, p, k)) BY <2>5, PlacesFinite
    <3> QED BY ONLY <3>1, <3>2, FS_Product
  <2>8. EdgesOf(tasks, p, k .. n) =
              ({k} \X PlacesOf(tasks, p, k)) \cup EdgesOf(tasks, p, (k + 1) .. n)
    BY <1>0, <2>5, EdgesFrom
  <2>a. PICK X, Y : X = {k} \X PlacesOf(tasks, p, k) /\ Y = EdgesOf(tasks, p, (k + 1) .. n)
    OBVIOUS
  <2>b. IsFiniteSet(X) /\ IsFiniteSet(Y) BY ONLY <2>a, <2>6, <2>7
  <2>c. IsFiniteSet(X \cup Y) BY ONLY <2>b, FS_Union
  <2>9. IsFiniteSet(EdgesOf(tasks, p, k .. n)) BY ONLY <2>a, <2>c, <2>8
  <2> QED BY <2>4, <2>9, <1>5
<1> QED BY <1>6, <1>7

\* The edges to the task m and those to the tasks behind it.
LEMMA EdgesCounted ==
  ASSUME NEW tasks, NEW n, GraphOf(tasks, n), NEW p, NEW m \in 1 .. n
  PROVE  /\ Cardinality(EdgesOf(tasks, p, m .. n)) \in Nat
         /\ Cardinality(EdgesOf(tasks, p, (m + 1) .. n)) =
              Cardinality(EdgesOf(tasks, p, m .. n)) - Cardinality(PlacesOf(tasks, p, m))
<1>0. n \in Nat BY DEF GraphOf
<1>1. PICK A, B, K : /\ A = EdgesOf(tasks, p, m .. n) /\ B = EdgesOf(tasks, p, (m + 1) .. n)
                     /\ K = PlacesOf(tasks, p, m)
  OBVIOUS
<1>2. IsFiniteSet(A) /\ IsFiniteSet(B) /\ IsFiniteSet(K)
  <2>1. m \in 1 .. (n + 1) /\ m + 1 \in 1 .. (n + 1) BY <1>0
  <2> QED BY <2>1, <1>1, EdgesFinite, PlacesFinite
<1>3. IsFiniteSet({m} \X K) /\ Cardinality({m} \X K) = Cardinality(K)
  <2>1. IsFiniteSet({m}) /\ Cardinality({m}) = 1 BY FS_Singleton
  <2>2. IsFiniteSet({m} \X K) /\ Cardinality({m} \X K) = 1 * Cardinality(K)
    BY ONLY <2>1, <1>2, FS_Product
  <2>3. Cardinality(K) \in Nat BY <1>2, FS_CardinalityType
  <2> QED BY <2>2, <2>3
<1>4. A = ({m} \X K) \cup B /\ ({m} \X K) \cap B = {} BY <1>0, <1>1, EdgesFrom
<1>5. Cardinality(A) = Cardinality({m} \X K) + Cardinality(B) - Cardinality({})
  <2>1. Cardinality(({m} \X K) \cup B) =
          Cardinality({m} \X K) + Cardinality(B) - Cardinality(({m} \X K) \cap B)
    BY ONLY <1>2, <1>3, FS_Union
  <2> QED BY ONLY <2>1, <1>4
<1>6. Cardinality({}) = 0 /\ Cardinality(B) \in Nat /\ Cardinality(K) \in Nat /\ Cardinality(A) \in Nat
  BY <1>2, FS_EmptySet, FS_CardinalityType
<1>7. Cardinality(B) = Cardinality(A) - Cardinality(K) BY ONLY <1>3, <1>5, <1>6
<1> QED BY <1>1, <1>6, <1>7

\* There are none when p is a predecessor of none of the tasks.
LEMMA EdgesNone ==
  ASSUME NEW tasks, NEW n, GraphOf(tasks, n), NEW p, NEW m \in 1 .. (n + 1)
  PROVE  Cardinality(EdgesOf(tasks, p, m .. n)) = 0 <=> \A i \in m .. n : PlacesOf(tasks, p, i) = {}
<1>1. PICK A : A = EdgesOf(tasks, p, m .. n) OBVIOUS
<1>2. IsFiniteSet(A) BY <1>1, EdgesFinite
<1>3. Cardinality(A) = 0 <=> A = {} BY <1>2, FS_EmptySet
<1>4. A = {} <=> \A i \in m .. n : PlacesOf(tasks, p, i) = {}
  <2>1. \A x : x \in A <=> \E i \in m .. n : x \in {i} \X PlacesOf(tasks, p, i)
    BY <1>1 DEF EdgesOf
  <2>2. \A i : {i} \X PlacesOf(tasks, p, i) = {} <=> PlacesOf(tasks, p, i) = {}
    <3> SUFFICES ASSUME NEW i PROVE {i} \X PlacesOf(tasks, p, i) = {} <=> PlacesOf(tasks, p, i) = {}
      OBVIOUS
    <3>1. PICK K : K = PlacesOf(tasks, p, i) OBVIOUS
    <3>2. K # {} => {i} \X K # {}
      <4> SUFFICES ASSUME NEW x \in K PROVE {i} \X K # {} OBVIOUS
      <4>1. <<i, x>> \in {i} \X K OBVIOUS
      <4> QED BY ONLY <4>1
    <3>3. K = {} => {i} \X K = {} OBVIOUS
    <3> QED BY ONLY <3>1, <3>2, <3>3
  <2> QED BY ONLY <2>1, <2>2
<1> QED BY <1>1, <1>3, <1>4

-------------------------------------------------------------------------------
(* Clocks. *)

\* The tasks a clock of task i tells of.
UpTo(tasks, i) == Ancestors(tasks)[i] \cup {i}

\* The clock has for each context the number of its last task up to i.
ClockExact(tasks, i, clock) ==
  /\ \A c \in DOMAIN clock : \E j \in UpTo(tasks, i) : tasks[j].id = <<c, clock[c]>>
  /\ \A j \in UpTo(tasks, i) :
       /\ ContextOf(tasks[j].id) \in DOMAIN clock
       /\ SeqOf(tasks[j].id) <= clock[ContextOf(tasks[j].id)]

LEMMA UpToFollows ==
  ASSUME NEW tasks, NEW n, GraphOf(tasks, n), NEW i \in 1 .. n
  PROVE  /\ UpTo(tasks, i) \in SUBSET (1 .. i) /\ i \in UpTo(tasks, i)
         /\ \A j \in UpTo(tasks, i) : j = i \/ \E h \in Follows(tasks, i) : j \in UpTo(tasks, h)
         /\ \A h \in Follows(tasks, i) : UpTo(tasks, h) \in SUBSET UpTo(tasks, i) /\ h \in 1 .. n
<1>1. n \in Nat /\ DOMAIN tasks = 1 .. n BY DEF GraphOf
<1>2. Ancestors(tasks)[i] = UNION {{j} \cup Ancestors(tasks)[j] : j \in Follows(tasks, i)}
  BY <1>1, AncestorsUnfold
<1>3. Ancestors(tasks)[i] \in SUBSET (1 .. (i - 1)) BY <1>1, AncestorsEarlier
<1>4. \A h \in Follows(tasks, i) : h \in 1 .. n BY <1>1 DEF Follows
<1>5. UpTo(tasks, i) \in SUBSET (1 .. i) BY <1>1, <1>3 DEF UpTo
<1> QED BY <1>2, <1>4, <1>5 DEF UpTo

\* V has numbers of tasks of the context c up to i; one of them is the largest.
NumbersUpTo(tasks, i, c, V) ==
  V # {} /\ \A s \in V : \E j \in UpTo(tasks, i) : tasks[j].id = <<c, s>>

LEMMA LargestNumber ==
  ASSUME NEW tasks, NEW n, GraphOf(tasks, n), NEW i \in 1 .. n, NEW c, NEW V,
         NumbersUpTo(tasks, i, c, V)
  PROVE  Largest(V) \in V /\ \A s \in V : s <= Largest(V)
<1>0. V # {} /\ \A s \in V : \E j \in UpTo(tasks, i) : tasks[j].id = <<c, s>> BY DEF NumbersUpTo
<1> DEFINE J == {j \in 1 .. n : \E s \in V : tasks[j].id = <<c, s>>}
<1>1. n \in Nat BY DEF GraphOf
<1>2. UpTo(tasks, i) \in SUBSET (1 .. n)
  <2>1. \A j \in 1 .. i : j \in 1 .. n BY <1>1
  <2> QED BY <2>1, UpToFollows
<1>3. \A s \in V : \E j \in J : tasks[j].id = <<c, s>> BY <1>0, <1>2
<1>4. J # {} /\ J \in SUBSET (1 .. n) BY <1>0, <1>3
<1>5. \A j \in J : ContextOf(tasks[j].id) = c /\ SeqOf(tasks[j].id) \in V /\ SeqOf(tasks[j].id) \in Nat
  <2> SUFFICES ASSUME NEW j \in J
               PROVE ContextOf(tasks[j].id) = c /\ SeqOf(tasks[j].id) \in V /\ SeqOf(tasks[j].id) \in Nat
    OBVIOUS
  <2>1. PICK s \in V : tasks[j].id = <<c, s>> OBVIOUS
  <2>2. SeqOf(tasks[j].id) \in Nat BY IdsOrdered
  <2> QED BY <2>1, <2>2 DEF ContextOf, SeqOf
<1>6. PICK g : g = Largest(J) OBVIOUS
<1>7. g \in J /\ \A j \in J : j <= g
  <2> HIDE DEF J
  <2> QED BY <1>1, <1>4, <1>6, LargestOf
<1>8. PICK v : v = SeqOf(tasks[g].id) OBVIOUS
<1>9. v \in V /\ v \in Nat BY <1>5, <1>7, <1>8
<1>10. \A s \in V : s \in Int /\ s <= v
  <2> SUFFICES ASSUME NEW s \in V PROVE s \in Int /\ s <= v OBVIOUS
  <2>1. PICK j \in J : tasks[j].id = <<c, s>> BY <1>3
  <2>2. SeqOf(tasks[j].id) = s BY <2>1 DEF SeqOf
  <2>3. j <= g /\ j \in 1 .. n /\ g \in 1 .. n BY <1>7
  <2>4. ContextOf(tasks[j].id) = ContextOf(tasks[g].id) BY <1>5, <1>7
  <2>5. SeqOf(tasks[j].id) <= SeqOf(tasks[g].id) BY <2>3, <2>4, IdsOrdered
  <2>6. s \in Int BY <2>2, <1>5
  <2> QED BY <2>2, <2>5, <2>6, <1>8
<1>11. Largest(V) = v
  <2>1. V \in SUBSET Int BY <1>10
  <2> QED BY <2>1, <1>9, <1>10, LargestIs
<1> QED BY <1>9, <1>10, <1>11

\* The number LastPred gives is that of a predecessor in the context.
LEMMA LastPredIs ==
  ASSUME NEW n, GraphOf(Tasks, n), NEW i \in 1 .. n, NEW p \in PredIds(i)
  PROVE  \E h \in Follows(Tasks, i) :
           Tasks[h].id = <<ContextOf(p), LastPred(i, ContextOf(p))>>
<1>1. PICK s, c : s = Tasks[i].pred /\ c = ContextOf(p) OBVIOUS
<1>2. s \in Seq(TaskId) BY <1>1 DEF GraphOf, TaskRecord
<1>3. DOMAIN s = 1 .. Len(s) /\ Len(s) \in Nat BY ONLY <1>2
<1> DEFINE K == {k \in DOMAIN s : ContextOf(s[k]) = c}
           Last(k) == /\ k \in DOMAIN s /\ ContextOf(s[k]) = c
                      /\ \A m \in DOMAIN s : ContextOf(s[m]) = c => m <= k
<1>4. K # {} /\ K \in SUBSET (1 .. Len(s)) BY <1>1, <1>3 DEF PredIds
<1>5. Last(Largest(K))
  <2>1. PICK g : g = Largest(K) OBVIOUS
  <2>2. PICK X : X = K OBVIOUS
  <2>3. Largest(X) \in X /\ \A y \in X : y <= Largest(X)
    <3>1. X # {} /\ X \in SUBSET (1 .. Len(s)) BY ONLY <1>4, <2>2
    <3> QED BY ONLY <3>1, <1>3, LargestOf
  <2>4. Largest(K) \in K /\ \A y \in K : y <= Largest(K) BY ONLY <2>2, <2>3
  <2> QED BY <2>4
<1>6. PICK k : k = CHOOSE x \in DOMAIN s : /\ ContextOf(s[x]) = c
             /\ \A m \in DOMAIN s : ContextOf(s[m]) = c => m <= x
  OBVIOUS
<1>7. k \in DOMAIN s /\ ContextOf(s[k]) = c BY <1>5, <1>6
<1>8. LastPred(i, c) = SeqOf(s[k]) BY <1>1, <1>6 DEF LastPred
<1>9. PICK h \in Follows(Tasks, i) : Tasks[h].id = s[k] /\ h \in 1 .. n
  BY <1>1, <1>7, PredFollowed
<1>10. Tasks[h].id = <<ContextOf(Tasks[h].id), SeqOf(Tasks[h].id)>> BY <1>9, IdsOrdered
<1> QED BY <1>1, <1>7, <1>8, <1>9, <1>10

\* What predSet makes of exact clocks of the predecessors is exact.
LEMMA PredSetExact ==
  ASSUME NEW n, GraphOf(Tasks, n), NEW i \in 1 .. n,
         \A h \in Follows(Tasks, i) :
           Id(h) \in DOMAIN vecClock /\ ClockExact(Tasks, h, vecClock[Id(h)])
  PROVE  ClockExact(Tasks, i, PredSet(i))
<1> DEFINE own == ContextOf(Id(i))
           listed == {ContextOf(p) : p \in PredIds(i)}
           known == UNION {DOMAIN ClockOf(p) : p \in PredIds(i)}
           Start(c) == IF c = own THEN {SeqOf(Id(i))}
                       ELSE IF c \in listed THEN {LastPred(i, c)} ELSE {}
           Merged(c) == {ClockOf(p)[c] : p \in {q \in PredIds(i) : c \in DOMAIN ClockOf(q)}}
           V(c) == Start(c) \cup Merged(c)
<1>1. PredSet(i) = [c \in listed \cup known \cup {own} |-> Largest(V(c))] BY DEF PredSet
<1>2. \A h \in Follows(Tasks, i) : Id(h) \in PredIds(i) /\ ClockOf(Id(h)) = vecClock[Id(h)]
  BY DEF Follows, Id, PredIds, ClockOf
<1>3. \A p \in PredIds(i) : \E h \in Follows(Tasks, i) : p = Id(h) /\ p = Tasks[h].id
  BY PredFollowed DEF PredIds, Id
<1>4. UpTo(Tasks, i) \in SUBSET (1 .. i) /\ i \in UpTo(Tasks, i)
  BY UpToFollows
<1>5. \A h \in Follows(Tasks, i) : UpTo(Tasks, h) \in SUBSET UpTo(Tasks, i) /\ h \in 1 .. n
  BY UpToFollows
<1>6. \A j \in UpTo(Tasks, i) : j = i \/ \E h \in Follows(Tasks, i) : j \in UpTo(Tasks, h)
  BY UpToFollows
<1>7. \A c : \A s \in Merged(c) : \E j \in UpTo(Tasks, i) : Tasks[j].id = <<c, s>>
  <2> SUFFICES ASSUME NEW c, NEW s \in Merged(c)
               PROVE  \E j \in UpTo(Tasks, i) : Tasks[j].id = <<c, s>>
    OBVIOUS
  <2>1. PICK p \in PredIds(i) : c \in DOMAIN ClockOf(p) /\ s = ClockOf(p)[c] OBVIOUS
  <2>2. PICK h \in Follows(Tasks, i) : p = Id(h) BY <1>3
  <2>3. ClockExact(Tasks, h, ClockOf(p)) BY <2>2, <1>2
  <2>4. PICK j \in UpTo(Tasks, h) : Tasks[j].id = <<c, ClockOf(p)[c]>> BY <2>1, <2>3 DEF ClockExact
  <2> QED BY <2>1, <2>2, <2>4, <1>5
<1>8. \A c : \A s \in Start(c) : \E j \in UpTo(Tasks, i) : Tasks[j].id = <<c, s>>
  <2> SUFFICES ASSUME NEW c, NEW s \in Start(c)
               PROVE  \E j \in UpTo(Tasks, i) : Tasks[j].id = <<c, s>>
    OBVIOUS
  <2>1. CASE c = own
    <3>1. s = SeqOf(Tasks[i].id) /\ c = ContextOf(Tasks[i].id) BY <2>1 DEF Id
    <3>2. Tasks[i].id = <<c, s>> BY <3>1, IdsOrdered
    <3> QED BY <3>2, <1>4
  <2>2. CASE c # own
    <3>1. c \in listed /\ s = LastPred(i, c) BY <2>2
    <3>2. PICK p \in PredIds(i) : c = ContextOf(p) BY <3>1
    <3>3. PICK h \in Follows(Tasks, i) : Tasks[h].id = <<ContextOf(p), LastPred(i, ContextOf(p))>>
      BY LastPredIs
    <3>4. h \in UpTo(Tasks, h) BY <1>5, UpToFollows
    <3> QED BY <3>1, <3>2, <3>3, <3>4, <1>5
  <2> QED BY <2>1, <2>2
<1>9. \A c \in listed \cup known \cup {own} : V(c) # {}
  <2> SUFFICES ASSUME NEW c \in listed \cup known \cup {own} PROVE V(c) # {} OBVIOUS
  <2>1. CASE c \in known
    <3>1. PICK p \in PredIds(i) : c \in DOMAIN ClockOf(p) BY <2>1
    <3>2. ClockOf(p)[c] \in Merged(c) BY <3>1
    <3> QED BY <3>2
  <2>2. CASE c \in listed \cup {own} BY <2>2
  <2> QED BY <2>1, <2>2
<1>10. \A c : \A s \in V(c) : \E j \in UpTo(Tasks, i) : Tasks[j].id = <<c, s>> BY <1>7, <1>8
<1>11. \A c \in listed \cup known \cup {own} :
         Largest(V(c)) \in V(c) /\ \A s \in V(c) : s <= Largest(V(c))
  <2> SUFFICES ASSUME NEW c \in listed \cup known \cup {own}
               PROVE  Largest(V(c)) \in V(c) /\ \A s \in V(c) : s <= Largest(V(c))
    OBVIOUS
  <2>1. PICK X, t, U : X = V(c) /\ t = Tasks /\ U = UpTo(Tasks, i) OBVIOUS
  <2> HIDE DEF V, own, listed, known
  <2>2. NumbersUpTo(t, i, c, X) BY <2>1, <1>9, <1>10 DEF NumbersUpTo
  <2>3. GraphOf(t, n) BY <2>1
  <2>4. Largest(X) \in X /\ \A s \in X : s <= Largest(X)
    BY ONLY <2>2, <2>3, i \in 1 .. n, LargestNumber
  <2> QED BY ONLY <2>1, <2>4
<1>12. \A j \in UpTo(Tasks, i) :
         ContextOf(Tasks[j].id) \in known \cup {own}
         /\ \E s \in V(ContextOf(Tasks[j].id)) : SeqOf(Tasks[j].id) <= s
  <2> SUFFICES ASSUME NEW j \in UpTo(Tasks, i)
               PROVE  /\ ContextOf(Tasks[j].id) \in known \cup {own}
                      /\ \E s \in V(ContextOf(Tasks[j].id)) : SeqOf(Tasks[j].id) <= s
    OBVIOUS
  <2>1. CASE j = i
    <3>1. ContextOf(Tasks[j].id) = own /\ SeqOf(Tasks[j].id) \in Start(own) BY <2>1 DEF Id
    <3>2. SeqOf(Tasks[j].id) \in Nat BY <2>1, IdsOrdered
    <3>3. SeqOf(Tasks[j].id) \in V(own) /\ SeqOf(Tasks[j].id) <= SeqOf(Tasks[j].id) BY <3>1, <3>2
    <3> HIDE DEF V
    <3> QED BY <3>1, <3>3
  <2>2. CASE \E h \in Follows(Tasks, i) : j \in UpTo(Tasks, h)
    <3>1. PICK h \in Follows(Tasks, i) : j \in UpTo(Tasks, h) BY <2>2
    <3>2. PICK p, c : p = Id(h) /\ c = ContextOf(Tasks[j].id) OBVIOUS
    <3>3. p \in PredIds(i) /\ ClockExact(Tasks, h, ClockOf(p)) BY <3>2, <1>2
    <3>4. c \in DOMAIN ClockOf(p) /\ SeqOf(Tasks[j].id) <= ClockOf(p)[c]
      BY <3>1, <3>2, <3>3 DEF ClockExact
    <3>5. ClockOf(p)[c] \in Merged(c) /\ c \in known BY <3>3, <3>4
    <3> QED BY <3>2, <3>4, <3>5
  <2> QED BY <2>1, <2>2, <1>6
<1>13. PICK clock : clock = PredSet(i) OBVIOUS
<1>14. PICK D : D = listed \cup known \cup {own} OBVIOUS
<1> HIDE DEF own, listed, known, V
<1>15. DOMAIN clock = D /\ \A c \in D : clock[c] = Largest(V(c)) BY <1>1, <1>13, <1>14
<1>16. \A c \in D : \E j \in UpTo(Tasks, i) : Tasks[j].id = <<c, clock[c]>>
  BY <1>10, <1>11, <1>14, <1>15
<1>17. \A j \in UpTo(Tasks, i) :
         /\ ContextOf(Tasks[j].id) \in D
         /\ SeqOf(Tasks[j].id) <= clock[ContextOf(Tasks[j].id)]
  <2> SUFFICES ASSUME NEW j \in UpTo(Tasks, i)
               PROVE  /\ ContextOf(Tasks[j].id) \in D
                      /\ SeqOf(Tasks[j].id) <= clock[ContextOf(Tasks[j].id)]
    OBVIOUS
  <2>1. PICK c : c = ContextOf(Tasks[j].id) OBVIOUS
  <2>2. c \in D BY <2>1, <1>12, <1>14
  <2>3. PICK s \in V(c) : SeqOf(Tasks[j].id) <= s BY <2>1, <1>12
  <2>4. s <= clock[c] BY <2>2, <2>3, <1>11, <1>14, <1>15
  <2>5. s \in Int /\ clock[c] \in Int /\ SeqOf(Tasks[j].id) \in Int
    <3>0. UpTo(Tasks, i) \in SUBSET (1 .. n)
      <4>1. \A y \in 1 .. i : y \in 1 .. n BY DEF GraphOf
      <4> QED BY <4>1, <1>4
    <3>1. \A y \in UpTo(Tasks, i) : SeqOf(Tasks[y].id) \in Nat BY <3>0, IdsOrdered
    <3>2. PICK a \in UpTo(Tasks, i) : Tasks[a].id = <<c, s>> BY <1>10
    <3>3. PICK b \in UpTo(Tasks, i) : Tasks[b].id = <<c, clock[c]>> BY <2>2, <1>16
    <3>4. SeqOf(Tasks[a].id) = s /\ SeqOf(Tasks[b].id) = clock[c] BY <3>2, <3>3 DEF SeqOf
    <3> QED BY <3>1, <3>4
  <2> QED BY <2>1, <2>2, <2>3, <2>4, <2>5
<1> QED BY <1>13, <1>15, <1>16, <1>17 DEF ClockExact

-------------------------------------------------------------------------------
(* What is kept when n of the N tasks have been read. *)

\* A task is needed that has a successor to come, or none at all.
Needed(tasks, N, n, k) ==
  \/ \A m \in 1 .. N : PlacesOf(tasks, tasks[k].id, m) = {}
  \/ \E m \in (n + 1) .. N : PlacesOf(tasks, tasks[k].id, m) # {}

RefsExact(tasks, N, n, refs) ==
  /\ DOMAIN refs = {tasks[k].id : k \in 1 .. n}
  /\ \A k \in 1 .. n :
       refs[tasks[k].id] = Cardinality(EdgesOf(tasks, tasks[k].id, (n + 1) .. N))

ClocksKept(tasks, N, n, clocks) ==
  DOMAIN clocks = {tasks[k].id : k \in {h \in 1 .. n : Needed(tasks, N, n, h)}}

ClocksAre(tasks, n, clocks) ==
  \A k \in 1 .. n : tasks[k].id \in DOMAIN clocks => ClockExact(tasks, k, clocks[tasks[k].id])

\* A task has its successors behind it.
LEMMA SuccessorsBehind ==
  ASSUME NEW tasks, NEW N, GraphOf(tasks, N), NEW i \in 1 .. N
  PROVE  /\ \A m \in 1 .. i : PlacesOf(tasks, tasks[i].id, m) = {}
         /\ EdgesOf(tasks, tasks[i].id, 1 .. N) = EdgesOf(tasks, tasks[i].id, (i + 1) .. N)
         /\ Needed(tasks, N, i, i)
<1>0. N \in Nat BY DEF GraphOf
<1>1. \A m \in 1 .. i : PlacesOf(tasks, tasks[i].id, m) = {}
  <2> SUFFICES ASSUME NEW m \in 1 .. i, NEW k \in PlacesOf(tasks, tasks[i].id, m) PROVE FALSE
    OBVIOUS
  <2>1. k \in DOMAIN tasks[m].pred /\ tasks[m].pred[k] = tasks[i].id BY DEF PlacesOf
  <2>2. m \in 1 .. N BY <1>0
  <2>3. PICK h \in Follows(tasks, m) : tasks[h].id = tasks[m].pred[k] /\ h \in 1 .. N /\ h < m
    BY <2>1, <2>2, PredFollowed
  <2>4. h = i BY <2>1, <2>3, IdsOrdered
  <2> QED BY <2>3, <2>4
<1>2. \A m \in 1 .. N : m \in 1 .. i \/ m \in (i + 1) .. N BY <1>0
<1>3. \A m \in (i + 1) .. N : m \in 1 .. N BY <1>0
<1>4. PICK p : p = tasks[i].id OBVIOUS
<1>5. PICK A, B : A = EdgesOf(tasks, p, 1 .. N) /\ B = EdgesOf(tasks, p, (i + 1) .. N) OBVIOUS
<1>6. \A x : x \in A <=> \E m \in 1 .. N : x \in {m} \X PlacesOf(tasks, p, m)
  BY <1>5 DEF EdgesOf
<1>7. \A x : x \in B <=> \E m \in (i + 1) .. N : x \in {m} \X PlacesOf(tasks, p, m)
  BY <1>5 DEF EdgesOf
<1>8. \A m \in 1 .. i : {m} \X PlacesOf(tasks, p, m) = {}
  <2> SUFFICES ASSUME NEW m \in 1 .. i PROVE {m} \X PlacesOf(tasks, p, m) = {} OBVIOUS
  <2>1. PlacesOf(tasks, p, m) = {} BY <1>1, <1>4
  <2> QED BY <2>1
<1>9. A = B
  <2>1. \A x : x \in A <=> x \in B BY ONLY <1>2, <1>3, <1>6, <1>7, <1>8
  <2> QED BY ONLY <2>1
<1>10. Needed(tasks, N, i, i)
  <2>1. \A m \in 1 .. N : PlacesOf(tasks, p, m) # {} => m \in (i + 1) .. N
    BY <1>1, <1>2, <1>4
  <2> QED BY <2>1, <1>4 DEF Needed
<1> QED BY <1>1, <1>4, <1>5, <1>9, <1>10

\* The edges of a task to the tasks behind i are counted down.
LEMMA RefsNext ==
  ASSUME NEW tasks, NEW N, GraphOf(tasks, N), NEW n \in 0 .. N, NEW i \in 1 .. N, i = n + 1,
         NEW refs, RefsExact(tasks, N, n, refs), NEW next,
         DOMAIN next = DOMAIN refs \cup {tasks[i].id},
         next[tasks[i].id] = Cardinality(EdgesOf(tasks, tasks[i].id, 1 .. N)),
         \A p \in DOMAIN refs : p # tasks[i].id =>
           next[p] = refs[p] - Cardinality(PlacesOf(tasks, p, i))
  PROVE  RefsExact(tasks, N, i, next)
<1>0. N \in Nat BY DEF GraphOf
<1>1. \A k : k \in 1 .. i <=> k \in 1 .. n \/ k = i BY <1>0
<1>2. DOMAIN next = {tasks[k].id : k \in 1 .. i} BY <1>1 DEF RefsExact
<1>3. ASSUME NEW k \in 1 .. i
      PROVE  next[tasks[k].id] = Cardinality(EdgesOf(tasks, tasks[k].id, (i + 1) .. N))
  <2>1. CASE k = i BY <2>1, SuccessorsBehind
  <2>2. CASE k # i
    <3>1. k \in 1 .. n /\ k \in 1 .. N BY <1>0, <1>1, <2>2
    <3>2. tasks[k].id # tasks[i].id BY <2>2, <3>1, IdsOrdered
    <3>3. PICK p : p = tasks[k].id OBVIOUS
    <3>4. p \in DOMAIN refs /\ refs[p] = Cardinality(EdgesOf(tasks, p, (n + 1) .. N))
      BY <3>1, <3>3 DEF RefsExact
    <3>5. next[p] = Cardinality(EdgesOf(tasks, p, i .. N)) - Cardinality(PlacesOf(tasks, p, i))
      BY <3>2, <3>3, <3>4
    <3> QED BY <3>3, <3>5, EdgesCounted
  <2> QED BY <2>1, <2>2
<1> QED BY <1>2, <1>3 DEF RefsExact

\* The clocks that go are those of the predecessors that have no successor behind i.
LEMMA KeptNext ==
  ASSUME NEW tasks, NEW N, GraphOf(tasks, N), NEW n \in 0 .. N, NEW i \in 1 .. N, i = n + 1,
         NEW clocks, ClocksKept(tasks, N, n, clocks), NEW next, NEW refs,
         RefsExact(tasks, N, i, refs),
         DOMAIN next = {p \in DOMAIN clocks : PlacesOf(tasks, p, i) = {} \/ refs[p] # 0}
                         \cup {tasks[i].id}
  PROVE  ClocksKept(tasks, N, i, next)
<1>0. N \in Nat BY DEF GraphOf
<1>1. \A k : k \in 1 .. i <=> k \in 1 .. n \/ k = i BY <1>0
<1>2. \A m : /\ m \in (n + 1) .. N <=> m = i \/ m \in (i + 1) .. N
             /\ m \in (i + 1) .. N => m \in 1 .. N
  BY <1>0
<1>3. ASSUME NEW k \in 1 .. n
      PROVE  Needed(tasks, N, i, k) <=>
               /\ Needed(tasks, N, n, k)
               /\ PlacesOf(tasks, tasks[k].id, i) = {} \/ refs[tasks[k].id] # 0
  <2>1. PICK p : p = tasks[k].id OBVIOUS
  <2>2. refs[p] = Cardinality(EdgesOf(tasks, p, (i + 1) .. N)) BY <1>1, <2>1 DEF RefsExact
  <2>3. refs[p] = 0 <=> \A m \in (i + 1) .. N : PlacesOf(tasks, p, m) = {}
    <3>1. i + 1 \in 1 .. (N + 1) BY <1>0
    <3> QED BY <3>1, <2>2, EdgesNone
  <2> QED BY <1>2, <2>1, <2>3 DEF Needed
<1>4. Needed(tasks, N, i, i) BY SuccessorsBehind
<1>5. PICK U, W : U = {h \in 1 .. n : Needed(tasks, N, n, h)}
                  /\ W = {h \in 1 .. i : Needed(tasks, N, i, h)}
  OBVIOUS
<1>6. /\ i \in W
      /\ \A h : h \in U /\ (PlacesOf(tasks, tasks[h].id, i) = {} \/ refs[tasks[h].id] # 0) => h \in W
      /\ \A h \in W : h # i => h \in U /\ (PlacesOf(tasks, tasks[h].id, i) = {} \/ refs[tasks[h].id] # 0)
  BY <1>1, <1>3, <1>4, <1>5
<1>7. DOMAIN clocks = {tasks[k].id : k \in U} BY <1>5 DEF ClocksKept
<1>8. DOMAIN next = {tasks[k].id : k \in W} BY <1>6, <1>7
<1> QED BY <1>5, <1>8 DEF ClocksKept

\* The invariant of the detector: after n tasks, until the loop is left.
HbAt(n) ==
  /\ RefsExact(Tasks, Len(Tasks), n, vecClockRef)
  /\ ClocksKept(Tasks, Len(Tasks), n, vecClock)
  /\ ClocksAre(Tasks, n, vecClock)

HbInv ==
  /\ file \in Files
  /\ nextTask \in 0 .. Len(Tasks) /\ current = nextTask
  /\ ~ stopped => HbAt(nextTask)

LEMMA EdgesByPlace ==
  ASSUME NEW n, GraphOf(Tasks, n)
  PROVE  /\ \A p : SuccCount(p) = Cardinality(EdgesOf(Tasks, p, 1 .. n))
         /\ \A p, i : EdgesTo(i, p) = Cardinality(PlacesOf(Tasks, p, i))
         /\ \A p, i : p \in PredIds(i) <=> PlacesOf(Tasks, p, i) # {}
<1>1. DOMAIN Tasks = 1 .. n BY DEF GraphOf
<1>2. \A p : SuccCount(p) = Cardinality(EdgesOf(Tasks, p, 1 .. n))
  BY <1>1 DEF SuccCount, EdgesOf, PlacesOf
<1>3. \A p, i : EdgesTo(i, p) = Cardinality(PlacesOf(Tasks, p, i)) BY DEF EdgesTo, PlacesOf
<1>4. \A p, i : p \in PredIds(i) <=> PlacesOf(Tasks, p, i) # {} BY DEF PredIds, PlacesOf
<1> QED BY <1>2, <1>3, <1>4

\* updateVecClock of the next task.
LEMMA ClocksNext ==
  ASSUME NEW N, GraphOf(Tasks, N), NEW n \in 0 .. N, NEW i \in 1 .. N, i = n + 1,
         RefsExact(Tasks, N, n, vecClockRef), ClocksKept(Tasks, N, n, vecClock),
         ClocksAre(Tasks, n, vecClock), UpdateVecClock(i)
  PROVE  /\ RefsExact(Tasks, N, i, vecClockRef') /\ ClocksKept(Tasks, N, i, vecClock')
         /\ ClocksAre(Tasks, i, vecClock')
<1>0. N \in Nat BY DEF GraphOf
<1>1. PICK t, own, refs, clocks :
        t = Tasks /\ own = Id(i) /\ refs = vecClockRef' /\ clocks = vecClock'
  OBVIOUS
<1>2. GraphOf(t, N) /\ own = t[i].id BY <1>1 DEF Id
<1> DEFINE ref == [p \in DOMAIN vecClockRef |-> vecClockRef[p] - EdgesTo(i, p)]
           kept == DOMAIN vecClock \ {p \in PredIds(i) : Forgets(ref, p)}
<1>3. /\ refs = [p \in DOMAIN ref \cup {own} |-> IF p = own THEN SuccCount(p) ELSE ref[p]]
      /\ clocks = [p \in kept \cup {own} |-> IF p = own THEN PredSet(i) ELSE vecClock[p]]
  BY <1>1 DEF UpdateVecClock
<1>4. \A k \in 1 .. n : k \in 1 .. N /\ t[k].id # own
  <2> SUFFICES ASSUME NEW k \in 1 .. n PROVE k \in 1 .. N /\ t[k].id # own OBVIOUS
  <2>1. k \in 1 .. N /\ k # i BY <1>0
  <2>2. t[k].id # t[i].id BY ONLY <2>1, <1>2, i \in 1 .. N, IdsOrdered
  <2> QED BY <1>2, <2>1, <2>2
<1>5. own \notin DOMAIN vecClockRef /\ own \notin DOMAIN vecClock
  BY <1>1, <1>4 DEF RefsExact, ClocksKept
<1>6. RefsExact(t, N, i, refs)
  <2>1. DOMAIN refs = DOMAIN vecClockRef \cup {own} BY <1>3
  <2>2. refs[own] = Cardinality(EdgesOf(t, own, 1 .. N)) BY <1>1, <1>3, EdgesByPlace
  <2>3. \A p \in DOMAIN vecClockRef :
          p # own => refs[p] = vecClockRef[p] - Cardinality(PlacesOf(t, p, i))
    BY <1>1, <1>3, EdgesByPlace
  <2>4. PICK old : old = vecClockRef OBVIOUS
  <2>5. RefsExact(t, N, n, old) BY <2>4, <1>1
  <2> HIDE DEF ref, kept
  <2> QED BY <2>1, <2>2, <2>3, <2>4, <2>5, <1>2, RefsNext
<1>7. kept = {p \in DOMAIN vecClock : PlacesOf(t, p, i) = {} \/ refs[p] # 0}
  <2> SUFFICES ASSUME NEW p \in DOMAIN vecClock
               PROVE  p \in kept <=> PlacesOf(t, p, i) = {} \/ refs[p] # 0
    OBVIOUS
  <2>1. PICK k \in 1 .. n : p = t[k].id BY <1>1 DEF ClocksKept
  <2>2. p \in DOMAIN vecClockRef /\ p # own BY <2>1, <1>1, <1>4 DEF RefsExact
  <2>3. refs[p] = ref[p] BY <2>2, <1>3
  <2>4. Forgets(ref, p) <=> refs[p] = 0 BY <2>3 DEF Forgets
  <2>5. p \in PredIds(i) <=> PlacesOf(t, p, i) # {} BY <1>1, EdgesByPlace
  <2> HIDE DEF ref
  <2> QED BY <2>4, <2>5
<1>8. ClocksKept(t, N, i, clocks)
  <2>1. DOMAIN clocks = {p \in DOMAIN vecClock : PlacesOf(t, p, i) = {} \/ refs[p] # 0} \cup {own}
    <3> HIDE DEF kept
    <3> QED BY <1>3, <1>7
  <2>2. PICK old : old = vecClock OBVIOUS
  <2>3. ClocksKept(t, N, n, old) BY <2>2, <1>1
  <2> HIDE DEF ref, kept
  <2>4. DOMAIN clocks = {p \in DOMAIN old : PlacesOf(t, p, i) = {} \/ refs[p] # 0} \cup {t[i].id}
    BY <2>1, <2>2, <1>2
  <2> QED BY ONLY <2>3, <2>4, <1>2, <1>6, n \in 0 .. N, i \in 1 .. N, i = n + 1, KeptNext
<1>9. ClockExact(t, i, PredSet(i))
  <2>1. ASSUME NEW h \in Follows(Tasks, i)
        PROVE  Id(h) \in DOMAIN vecClock /\ ClockExact(Tasks, h, vecClock[Id(h)])
    <3>1. h \in 1 .. n /\ PlacesOf(Tasks, Id(h), i) # {}
      BY <1>0 DEF Follows, PlacesOf, Id
    <3>2. i \in (n + 1) .. N BY <1>0
    <3>3. Needed(Tasks, N, n, h) BY <3>1, <3>2 DEF Needed, Id
    <3>4. Id(h) \in DOMAIN vecClock BY <3>1, <3>3 DEF ClocksKept, Id
    <3> QED BY <3>1, <3>4 DEF ClocksAre, Id
  <2>2. ClockExact(Tasks, i, PredSet(i)) BY <2>1, PredSetExact
  <2> QED BY <2>2, <1>1
<1>10. ClocksAre(t, i, clocks)
  <2> SUFFICES ASSUME NEW k \in 1 .. i, t[k].id \in DOMAIN clocks
               PROVE  ClockExact(t, k, clocks[t[k].id])
    BY DEF ClocksAre
  <2>1. CASE k = i
    <3>1. clocks[t[k].id] = PredSet(i) BY <2>1, <1>2, <1>3
    <3> QED BY ONLY <3>1, <2>1, <1>9
  <2>2. CASE k # i
    <3>1. k \in 1 .. n BY <1>0, <2>2
    <3>2. t[k].id \in kept /\ t[k].id # own BY <3>1, <1>3, <1>4
    <3>3. clocks[t[k].id] = vecClock[t[k].id] /\ t[k].id \in DOMAIN vecClock
      BY <3>2, <1>3
    <3>4. ClockExact(t, k, vecClock[t[k].id]) BY <3>1, <3>3, <1>1 DEF ClocksAre
    <3> QED BY ONLY <3>3, <3>4
  <2> QED BY <2>1, <2>2
<1> QED BY ONLY <1>1, <1>6, <1>8, <1>10

\* What is kept says which tasks are on a path to the last one.
LEMMA ClocksAnswer ==
  ASSUME NEW N, GraphOf(Tasks, N), NEW n \in 1 .. N,
         ClocksKept(Tasks, N, n, vecClock), ClocksAre(Tasks, n, vecClock)
  PROVE  /\ \A j \in 1 .. (n - 1) : HbPathCheck(Id(j), Id(n)) <=> j \in Before[n]
         /\ DOMAIN vecClock =
              {Id(j) : j \in {k \in 1 .. n :
                 SuccCount(Id(k)) = 0 \/ \E m \in (n + 1) .. N : Id(k) \in PredIds(m)}}
<1>0. N \in Nat /\ DOMAIN Tasks = 1 .. N BY DEF GraphOf
<1>1. ASSUME NEW k \in 1 .. n
      PROVE  SuccCount(Id(k)) = 0 \/ (\E m \in (n + 1) .. N : Id(k) \in PredIds(m))
               <=> Needed(Tasks, N, n, k)
  <2>1. PICK p, c : p = Id(k) /\ c = SuccCount(p) OBVIOUS
  <2>2. c = Cardinality(EdgesOf(Tasks, p, 1 .. N)) BY <2>1, EdgesByPlace
  <2>3. c = 0 <=> \A m \in 1 .. N : PlacesOf(Tasks, p, m) = {}
    <3>1. 1 \in 1 .. (N + 1) BY <1>0
    <3> QED BY <3>1, <2>2, EdgesNone
  <2>4. \A m : p \in PredIds(m) <=> PlacesOf(Tasks, p, m) # {} BY EdgesByPlace
  <2> QED BY <2>1, <2>3, <2>4 DEF Needed, Id
<1>2. DOMAIN vecClock =
        {Id(j) : j \in {k \in 1 .. n :
           SuccCount(Id(k)) = 0 \/ \E m \in (n + 1) .. N : Id(k) \in PredIds(m)}}
  <2>1. PICK U, W : U = {h \in 1 .. n : Needed(Tasks, N, n, h)}
                    /\ W = {k \in 1 .. n :
           SuccCount(Id(k)) = 0 \/ \E m \in (n + 1) .. N : Id(k) \in PredIds(m)}
    OBVIOUS
  <2>2. U = W
    <3>1. \A h : h \in U <=> h \in W BY <1>1, <2>1
    <3> QED BY ONLY <3>1
  <2>3. DOMAIN vecClock = {Id(k) : k \in U} BY <2>1 DEF ClocksKept, Id
  <2> QED BY <2>1, <2>2, <2>3
<1>3. ASSUME NEW j \in 1 .. (n - 1)
      PROVE  HbPathCheck(Id(j), Id(n)) <=> j \in Before[n]
  <2>1. PICK t, clock, c, s : /\ t = Tasks /\ clock = vecClock[Id(n)]
                              /\ c = ContextOf(t[j].id) /\ s = SeqOf(t[j].id)
    OBVIOUS
  <2>2. j \in 1 .. N /\ n \in 1 .. n /\ j # n BY <1>0
  <2>3. Id(n) \in DOMAIN vecClock
    <3>1. Needed(Tasks, N, n, n) BY SuccessorsBehind
    <3> QED BY <3>1, <2>2 DEF ClocksKept, Id
  <2>4. ClockExact(t, n, clock) BY <2>1, <2>2, <2>3 DEF ClocksAre, Id
  <2>5. HbPathCheck(Id(j), Id(n)) <=> c \in DOMAIN clock /\ clock[c] >= s
    BY <2>1, <2>3 DEF HbPathCheck, Id
  <2>6. j \in Before[n] <=> j \in UpTo(t, n) BY <2>1, <2>2 DEF Before, UpTo
  <2>7. GraphOf(t, N) BY <2>1
  <2>8. ASSUME j \in UpTo(t, n) PROVE c \in DOMAIN clock /\ clock[c] >= s
    <3>1. c \in DOMAIN clock /\ s <= clock[c] BY <2>1, <2>4, <2>8 DEF ClockExact
    <3>2. PICK a \in UpTo(t, n) : t[a].id = <<c, clock[c]>> BY <3>1, <2>4 DEF ClockExact
    <3>3. a \in 1 .. N
      <4>1. UpTo(t, n) \in SUBSET (1 .. n) BY <2>7, UpToFollows
      <4> QED BY <4>1, <1>0
    <3>4. SeqOf(t[a].id) \in Nat /\ s \in Nat BY <2>1, <2>2, <2>7, <3>3, IdsOrdered
    <3>5. SeqOf(t[a].id) = clock[c] BY <3>2 DEF SeqOf
    <3> QED BY <3>1, <3>4, <3>5
  <2>9. ASSUME c \in DOMAIN clock, clock[c] >= s PROVE j \in UpTo(t, n)
    <3>1. PICK a \in UpTo(t, n) : t[a].id = <<c, clock[c]>> BY <2>4, <2>9 DEF ClockExact
    <3>2. a \in 1 .. N /\ a \in 1 .. n
      <4>1. UpTo(t, n) \in SUBSET (1 .. n) BY <2>7, UpToFollows
      <4> QED BY <4>1, <1>0
    <3>3. ContextOf(t[a].id) = ContextOf(t[j].id) /\ SeqOf(t[a].id) = clock[c]
      BY <2>1, <3>1 DEF ContextOf, SeqOf
    <3>4. SeqOf(t[a].id) \in Nat /\ s \in Nat BY <2>1, <2>2, <2>7, <3>2, IdsOrdered
    <3>5. SeqOf(t[j].id) <= SeqOf(t[a].id) BY <2>1, <2>9, <3>3, <3>4
    <3>6. j <= a BY ONLY <2>2, <2>7, <3>2, <3>3, <3>5, IdsOrdered
    <3>7. CASE j = a BY <3>7, <3>1
    <3>8. CASE j # a
      <4>1. j < a BY <2>2, <3>2, <3>6, <3>8
      <4>2. j \in Ancestors(t)[a]
        BY <4>1, <2>2, <2>7, <3>2, <3>3, <1>0, <2>1 DEF GraphOf, OnOnePath
      <4>3. CASE a = n BY <4>2, <4>3 DEF UpTo
      <4>4. CASE a # n
        <5>1. a \in Ancestors(t)[n] BY <3>1, <4>4 DEF UpTo
        <5>2. DOMAIN t = 1 .. N BY <2>1, <1>0
        <5>3. Ancestors(t)[a] \in SUBSET Ancestors(t)[n]
          BY ONLY <5>1, <5>2, <1>0, n \in 1 .. N, AncestorsTransitive
        <5> QED BY <4>2, <5>3 DEF UpTo
      <4> QED BY <4>3, <4>4
    <3> QED BY <3>7, <3>8
  <2> QED BY <2>5, <2>6, <2>8, <2>9
<1> QED BY <1>2, <1>3

\* The clocks are kept by what neither reads a task nor changes them.
LEMMA HbKept ==
  ASSUME HbInv, UNCHANGED <<vecClock, vecClockRef, stopped, file, nextTask, current>>
  PROVE  HbInv'
<1>1. Tasks' = Tasks BY DEF Tasks
<1>2. PICK n : n = nextTask OBVIOUS
<1>3. HbAt(n)' <=> HbAt(n) BY <1>1 DEF HbAt
<1>4. HbAt(nextTask)' <=> HbAt(n)' BY <1>2
<1>5. HbAt(nextTask) <=> HbAt(n) BY <1>2
<1> QED BY <1>1, <1>3, <1>4, <1>5 DEF HbInv

LEMMA HbInvInit ==
  ASSUME ContextsOrdered, BackEndsInit
  PROVE  HbInv
<1>1. file \in Files /\ nextTask = 0 /\ current = 0 /\ vecClock = <<>> /\ vecClockRef = <<>>
  BY DEF BackEndsInit, TaskGraphInit, RaceInit
<1>2. PICK t, N : t = Tasks /\ N = Len(Tasks) OBVIOUS
<1>3. N \in Nat BY <1>1, <1>2, FileIsGraph DEF GraphOf
<1>4. DOMAIN vecClock = {} /\ DOMAIN vecClockRef = {} /\ 1 .. 0 = {} BY <1>1
<1>5. RefsExact(t, N, 0, vecClockRef) BY <1>4 DEF RefsExact
<1>6. ClocksKept(t, N, 0, vecClock) BY <1>4 DEF ClocksKept
<1>7. ClocksAre(t, 0, vecClock) BY <1>4 DEF ClocksAre
<1>8. HbAt(0) BY <1>2, <1>5, <1>6, <1>7 DEF HbAt
<1> QED BY <1>1, <1>2, <1>3, <1>8 DEF HbInv

LEMMA HbInvNext ==
  ASSUME HbInv, ContextsOrdered, [BackEndsNext]_backEndsVars
  PROVE  HbInv'
<1>1. CASE ReadTask
  <2>1. /\ file' = file /\ nextTask < Len(Tasks)
        /\ nextTask' = nextTask + 1 /\ current' = nextTask + 1
    BY <1>1 DEF ReadTask, GetNextTask
  <2>2. PICK N, n, i : N = Len(Tasks) /\ n = nextTask /\ i = nextTask + 1 OBVIOUS
  <2>3. GraphOf(Tasks, N) /\ N \in Nat BY <2>2, FileIsGraph DEF HbInv, GraphOf
  <2>4. n \in 0 .. N /\ i \in 1 .. N /\ i \in 0 .. N /\ i = n + 1
    BY <2>1, <2>2, <2>3 DEF HbInv
  <2>5. Tasks' = Tasks /\ Len(Tasks)' = N BY <2>1, <2>2 DEF Tasks
  <2>6. ~ stopped' => HbAt(i)'
    <3> SUFFICES ASSUME ~ stopped' PROVE HbAt(i)' OBVIOUS
    <3>1. ~ stopped /\ UpdateVecClock(i)
      BY <1>1, <2>2 DEF ReadTask, RaceTask, raceVars
    <3>2. HbAt(n) BY <3>1, <2>2 DEF HbInv
    <3>3. /\ RefsExact(Tasks, N, n, vecClockRef) /\ ClocksKept(Tasks, N, n, vecClock)
          /\ ClocksAre(Tasks, n, vecClock)
      BY <3>2, <2>2 DEF HbAt
    <3>4. /\ RefsExact(Tasks, N, i, vecClockRef') /\ ClocksKept(Tasks, N, i, vecClock')
          /\ ClocksAre(Tasks, i, vecClock')
      BY <2>3, <2>4, <3>1, <3>3, ClocksNext
    <3> QED BY <3>4, <2>5 DEF HbAt
  <2>7. HbAt(nextTask)' <=> HbAt(i)' BY <2>1, <2>2
  <2> QED BY <2>1, <2>2, <2>4, <2>5, <2>6, <2>7 DEF HbInv
<1>2. CASE \E op \in Op : MemoryOp(op)
  <2>1. UNCHANGED <<vecClock, vecClockRef, stopped, file, nextTask, current>>
    BY <1>2 DEF MemoryOp, RaceOp, raceVars, fileVars
  <2> QED BY <2>1, HbKept
<1>3. CASE UNCHANGED backEndsVars BY <1>3, HbKept DEF backEndsVars, raceVars, fileVars
<1> QED BY <1>1, <1>2, <1>3 DEF BackEndsNext

LEMMA HbInvExact ==
  ASSUME HbInv, ContextsOrdered
  PROVE  HbExact
<1> SUFFICES ASSUME current # 0, ~ stopped
             PROVE  /\ \A j \in 1 .. (current - 1) :
                         HbPathCheck(Id(j), Id(current)) <=> j \in Before[current]
                    /\ DOMAIN vecClock =
                         {Id(j) : j \in {k \in 1 .. nextTask :
                            SuccCount(Id(k)) = 0
                              \/ \E m \in (nextTask + 1) .. Len(Tasks) : Id(k) \in PredIds(m)}}
  BY DEF HbExact
<1>1. PICK N, n : N = Len(Tasks) /\ n = nextTask /\ n = current BY DEF HbInv
<1>2. GraphOf(Tasks, N) /\ N \in Nat BY <1>1, FileIsGraph DEF HbInv, GraphOf
<1>3. n \in 1 .. N BY <1>1, <1>2 DEF HbInv
<1>4. ClocksKept(Tasks, N, n, vecClock) /\ ClocksAre(Tasks, n, vecClock)
  BY <1>1 DEF HbInv, HbAt
<1>5. /\ \A j \in 1 .. (n - 1) : HbPathCheck(Id(j), Id(n)) <=> j \in Before[n]
      /\ DOMAIN vecClock =
           {Id(j) : j \in {k \in 1 .. n :
              SuccCount(Id(k)) = 0 \/ \E m \in (n + 1) .. N : Id(k) \in PredIds(m)}}
  BY ONLY <1>2, <1>3, <1>4, ClocksAnswer
<1> QED BY <1>1, <1>5

\* The vector clocks of hel_tech answer whether a path leads to the task being analysed,
\* whatever the graph, and those that are kept are those still needed, when the tasks of
\* each context are on one path of it (updateVecClock and hbPathCheck, heltech.cpp:57, 107).
THEOREM ClocksExact ==
  ContextsOrdered => (BackEndsSpec => []HbExact)
<1> SUFFICES ASSUME ContextsOrdered PROVE BackEndsSpec => []HbExact OBVIOUS
<1>1. BackEndsInit => HbInv BY HbInvInit
<1>2. HbInv /\ [BackEndsNext]_backEndsVars => HbInv' BY HbInvNext
<1>3. HbInv => HbExact BY HbInvExact
<1> QED BY <1>1, <1>2, <1>3, PTL DEF BackEndsSpec

-------------------------------------------------------------------------------
(* What the race detector knows of the history. *)

\* No free of b from the k-th operation on.
Alive(k, b) == \A m \in DOMAIN log : k <= m => ~ FreesByte(m, b)

LiveAccess(k, b) == k \in DOMAIN log /\ Accesses(k, b) /\ Alive(k, b)

\* The access that is remembered is one of the block; no write of the block is later, and
\* if there is one it is a write itself.
LastAt(i, b) ==
  /\ LiveAccess(i, b)
  /\ lastAccess[b].tid = Id(log[i].task) /\ lastAccess[b].type = log[i].type
  /\ \A k \in DOMAIN log :
       LiveAccess(k, b) /\ log[k].type = "write" => log[i].type = "write" /\ k <= i

LastOk(b) ==
  IF lastAccess[b].type = "none" THEN \A k \in DOMAIN log : ~ LiveAccess(k, b)
  ELSE \E i \in DOMAIN log : LastAt(i, b)

\* A byte that is not to be reported has been, of this block.
NotedOk(b) == b \in raceAddresses => \E r \in races : r.byte = b /\ Alive(r.at, b)

\* The sizes kept are those of the blocks that are allocated.
SizesExact ==
  /\ allocSize \in [Byte -> Nat]
  /\ \A b \in Byte : allocSize[b] = AllocatedNow(b)

\* The history is in the order of the tasks, and the region of interest one part of it.
HistoryInv ==
  /\ log \in Seq(LogEntry)
  /\ \A k \in DOMAIN log : log[k].task \in 1 .. current /\ (log[k].roi => inROI)
  /\ \A i, k \in DOMAIN log :
       i <= k => log[i].task <= log[k].task /\ (log[i].roi /\ ~ log[k].roi => stopped)

RacesTyped == \A r \in races : r.at \in DOMAIN log /\ r.byte \in Byte

RaceIInv ==
  /\ HbInv /\ HistoryInv /\ RacesTyped
  /\ ~ stopped => SizesExact /\ \A b \in Byte : FreedByOthers(b) => LastOk(b) /\ NotedOk(b)
  /\ RacesExact

-------------------------------------------------------------------------------
(* The history after one more operation, of one byte. *)

LEMMA HistoryKept ==
  ASSUME NEW n, NEW e, Appended(n, e), NEW b, NEW k \in 1 .. n
  PROVE  /\ log'[k] = log[k]
         /\ Accesses(k, b)' <=> Accesses(k, b)
         /\ FreesByte(k, b)' <=> FreesByte(k, b)
<1>1. log'[k] = log[k] /\ (Touches(k, b)' <=> Touches(k, b)) BY OperationKept
<1> QED BY <1>1 DEF Accesses, FreesByte

LEMMA HistoryNew ==
  ASSUME NEW n, NEW e, Appended(n, e), NEW b, NEW g, g = n + 1
  PROVE  /\ log'[g] = e
         /\ Touches(g, b)' <=> Covers(e, b)
         /\ Accesses(g, b)' <=> e.type \in {"read", "write"} /\ Covers(e, b)
         /\ FreesByte(g, b)' <=> e.type = "free" /\ Covers(e, b)
<1>1. log'[g] = e BY DEF Appended
<1>2. Touches(g, b)' <=> Covers(e, b) BY <1>1 DEF Touches, Covers
<1> QED BY <1>1, <1>2 DEF Accesses, FreesByte

\* Blocks are told by the operations up to their end.
LEMMA BlocksKept ==
  ASSUME NEW n, NEW e, Appended(n, e), NEW b, NEW g, g = n + 1,
         NEW i \in 1 .. g, NEW j \in 1 .. g
  PROVE  SameBlock(i, j, b)' <=> SameBlock(i, j, b)
<1>0. n \in Nat BY DEF Appended
<1>1. \A k \in i .. (j - 1) : k \in 1 .. n BY <1>0
<1>2. \A k \in i .. (j - 1) : FreesByte(k, b)' <=> FreesByte(k, b) BY <1>1, HistoryKept
<1> QED BY <1>2 DEF SameBlock

LEMMA AliveNext ==
  ASSUME NEW n, NEW e, Appended(n, e), NEW b, NEW g, g = n + 1
  PROVE  /\ \A k \in 1 .. n : Alive(k, b)' <=> Alive(k, b) /\ ~ (e.type = "free" /\ Covers(e, b))
         /\ Alive(g, b)' <=> ~ (e.type = "free" /\ Covers(e, b))
         /\ \A k \in 1 .. g : Alive(k, b) <=> SameBlock(k, g, b)
<1>0. n \in Nat /\ DOMAIN log = 1 .. n /\ (DOMAIN log)' = 1 .. (n + 1) BY DEF Appended
<1>1. \A m : m \in 1 .. (n + 1) <=> m \in 1 .. n \/ m = g BY <1>0
<1>2. \A m \in 1 .. n : FreesByte(m, b)' <=> FreesByte(m, b) BY HistoryKept
<1>3. FreesByte(g, b)' <=> e.type = "free" /\ Covers(e, b) BY HistoryNew
<1>4. \A k : Alive(k, b)' <=> \A m \in 1 .. (n + 1) : k <= m => ~ FreesByte(m, b)'
  BY <1>0 DEF Alive
<1>5. \A k : Alive(k, b) <=> \A m \in 1 .. n : k <= m => ~ FreesByte(m, b)
  BY <1>0 DEF Alive
<1>6. \A k \in 1 .. n : Alive(k, b)' <=> Alive(k, b) /\ ~ FreesByte(g, b)'
  <2> SUFFICES ASSUME NEW k \in 1 .. n
               PROVE  Alive(k, b)' <=> Alive(k, b) /\ ~ FreesByte(g, b)'
    OBVIOUS
  <2>1. k <= g BY <1>0
  <2> QED BY ONLY <2>1, <1>1, <1>2, <1>4, <1>5
<1>7. Alive(g, b)' <=> ~ FreesByte(g, b)'
  <2>1. \A m \in 1 .. n : ~ (g <= m) BY <1>0
  <2>2. g <= g BY <1>0
  <2> QED BY ONLY <2>1, <2>2, <1>1, <1>4
<1>8. \A k \in 1 .. g : Alive(k, b) <=> SameBlock(k, g, b)
  <2> SUFFICES ASSUME NEW k \in 1 .. g PROVE Alive(k, b) <=> SameBlock(k, g, b) OBVIOUS
  <2>1. \A m : m \in k .. (g - 1) <=> m \in 1 .. n /\ k <= m BY <1>0
  <2> QED BY <2>1, <1>5 DEF SameBlock
<1> QED BY <1>3, <1>6, <1>7, <1>8

\* Who freed a byte after accessing it goes on having done so; and nobody has when the
\* next operation frees it.
LEMMA FreedNext ==
  ASSUME NEW n, NEW e, Appended(n, e), NEW b, NEW g, g = n + 1, FreedByOthers(b)'
  PROVE  /\ FreedByOthers(b)
         /\ e.type = "free" /\ Covers(e, b) =>
              \A k \in 1 .. n : LiveAccess(k, b) => log[k].task # e.task
<1>0. n \in Nat /\ DOMAIN log = 1 .. n /\ (DOMAIN log)' = 1 .. (n + 1) BY DEF Appended
<1>1. \A f \in 1 .. (n + 1) : FreesByte(f, b)' =>
        ~ \E k \in 1 .. (f - 1) :
            Accesses(k, b)' /\ log'[k].task = log'[f].task /\ SameBlock(k, f, b)'
  BY <1>0 DEF FreedByOthers
<1>2. ASSUME NEW f \in 1 .. n, FreesByte(f, b), NEW k \in 1 .. (f - 1),
             Accesses(k, b), log[k].task = log[f].task, SameBlock(k, f, b)
      PROVE  FALSE
  <2>1. k \in 1 .. n /\ k \in 1 .. g /\ f \in 1 .. g /\ f \in 1 .. (n + 1) BY <1>0
  <2>2. FreesByte(f, b)' /\ Accesses(k, b)' /\ log'[k].task = log'[f].task
    BY <2>1, <1>2, HistoryKept
  <2>3. SameBlock(k, f, b)' BY <2>1, <1>2, BlocksKept
  <2> QED BY <2>1, <2>2, <2>3, <1>1
<1>3. ASSUME e.type = "free", Covers(e, b), NEW k \in 1 .. n, LiveAccess(k, b), log[k].task = e.task
      PROVE  FALSE
  <2>1. k \in 1 .. g /\ g \in 1 .. g /\ g \in 1 .. (n + 1) /\ k \in 1 .. (g - 1) BY <1>0
  <2>2. FreesByte(g, b)' /\ Accesses(k, b)' /\ log'[k].task = log'[g].task
    BY <1>3, HistoryKept, HistoryNew DEF LiveAccess
  <2>3. SameBlock(k, g, b) BY <2>1, <1>3, AliveNext DEF LiveAccess
  <2>4. SameBlock(k, g, b)' BY <2>1, <2>3, BlocksKept
  <2> QED BY <2>1, <2>2, <2>4, <1>1
<1>4. FreedByOthers(b) BY <1>0, <1>2 DEF FreedByOthers
<1> QED BY <1>3, <1>4

\* The accesses of the block.
LEMMA LiveNext ==
  ASSUME NEW n, NEW e, Appended(n, e), NEW b, NEW g, g = n + 1
  PROVE  /\ \A k \in 1 .. n : LiveAccess(k, b)' <=>
                               LiveAccess(k, b) /\ ~ (e.type = "free" /\ Covers(e, b))
         /\ LiveAccess(g, b)' <=> e.type \in {"read", "write"} /\ Covers(e, b)
         /\ \A k : k \in (DOMAIN log)' <=> k \in 1 .. n \/ k = g
<1>0. n \in Nat /\ DOMAIN log = 1 .. n /\ (DOMAIN log)' = 1 .. (n + 1) BY DEF Appended
<1>1. \A k : k \in (DOMAIN log)' <=> k \in 1 .. n \/ k = g BY <1>0
<1>2. ASSUME NEW k \in 1 .. n
      PROVE  LiveAccess(k, b)' <=> LiveAccess(k, b) /\ ~ (e.type = "free" /\ Covers(e, b))
  <2>1. Accesses(k, b)' <=> Accesses(k, b) BY HistoryKept
  <2>2. Alive(k, b)' <=> Alive(k, b) /\ ~ (e.type = "free" /\ Covers(e, b)) BY AliveNext
  <2>3. k \in DOMAIN log /\ k \in (DOMAIN log)' BY <1>0, <1>1
  <2> QED BY <2>1, <2>2, <2>3 DEF LiveAccess
<1>3. LiveAccess(g, b)' <=> e.type \in {"read", "write"} /\ Covers(e, b)
  <2>1. Accesses(g, b)' <=> e.type \in {"read", "write"} /\ Covers(e, b) BY HistoryNew
  <2>2. Alive(g, b)' <=> ~ (e.type = "free" /\ Covers(e, b)) BY AliveNext
  <2>3. g \in (DOMAIN log)' BY <1>1
  <2> QED BY <2>1, <2>2, <2>3 DEF LiveAccess
<1> QED BY <1>1, <1>2, <1>3

-------------------------------------------------------------------------------
(* The detector takes one operation. *)

\* The operation e is looked at as an access of b.
Covered(e, b) == e.type # "malloc" /\ Covers(e, b)

\* What it does, byte by byte, when it is the g-th and the task tid does it.
RaceStep(e, tid, g) ==
  /\ races' = races \cup {[from |-> lastAccess[b].tid, to |-> tid, byte |-> b, at |-> g] :
                          b \in {x \in Byte : Covered(e, x) /\ IsRace(x, tid, e.type)}}
  /\ \A b \in Byte :
       /\ lastAccess'[b] = IF ~ Covered(e, b) THEN lastAccess[b]
                           ELSE IF OwnAccess(lastAccess[b], tid)
                             THEN AfterOwn(lastAccess[b], tid, e.type)
                           ELSE AfterOther(lastAccess[b], tid, e.type)
       /\ b \in raceAddresses' <=>
            /\ b \in raceAddresses \/ (Covered(e, b) /\ IsRace(b, tid, e.type))
            /\ ~ (Covered(e, b) /\ Reset(b, tid, e.type))

LEMMA RaceOpSteps ==
  ASSUME NEW op \in Operation, NEW e, e.type = op.type, e.addr = op.addr,
         e.size = IF op.type = "free" THEN allocSize[op.addr] ELSE op.size,
         NEW tid, NEW g, RaceOp(tid, op, g)
  PROVE  /\ RaceStep(e, tid, g)
         /\ allocSize' = IF e.type = "malloc" THEN [allocSize EXCEPT ![e.addr] = e.size]
                         ELSE IF e.type = "free" THEN [allocSize EXCEPT ![e.addr] = 0]
                         ELSE allocSize
         /\ UNCHANGED <<vecClock, vecClockRef, inROI, stopped>>
<1>1. UNCHANGED <<vecClock, vecClockRef, inROI, stopped>> BY DEF RaceOp
<1>2. CASE op.type = "malloc"
  <2>1. /\ allocSize' = [allocSize EXCEPT ![op.addr] = op.size]
        /\ UNCHANGED <<lastAccess, raceAddresses, races>>
    BY <1>2 DEF RaceOp
  <2>2. \A b : ~ Covered(e, b) BY <1>2 DEF Covered
  <2>3. races' = races \cup {[from |-> lastAccess[b].tid, to |-> tid, byte |-> b, at |-> g] :
                          b \in {x \in Byte : Covered(e, x) /\ IsRace(x, tid, e.type)}}
    BY <2>1, <2>2
  <2>4. RaceStep(e, tid, g) BY <2>1, <2>2, <2>3 DEF RaceStep
  <2> QED BY <1>1, <1>2, <2>1, <2>4
<1>3. CASE op.type # "malloc"
  <2>1. PICK bytes : bytes = Bytes(e.addr, e.size) OBVIOUS
  <2>2. RaceAccess(tid, e.type, bytes, g) BY <1>3, <2>1 DEF RaceOp, Operation
  <2>3. allocSize' = IF e.type = "free" THEN [allocSize EXCEPT ![e.addr] = 0] ELSE allocSize
    BY <1>3 DEF RaceOp, Operation
  <2>4. bytes = {x \in Byte : Covered(e, x)} /\ \A b \in Byte : b \in bytes <=> Covered(e, b)
    BY <1>3, <2>1 DEF Covered, Covers, Bytes
  <2>5. {b \in bytes : IsRace(b, tid, e.type)} =
          {x \in Byte : Covered(e, x) /\ IsRace(x, tid, e.type)}
    BY <2>4
  <2>6. races' = races \cup {[from |-> lastAccess[b].tid, to |-> tid, byte |-> b, at |-> g] :
                          b \in {x \in Byte : Covered(e, x) /\ IsRace(x, tid, e.type)}}
    BY <2>2, <2>5 DEF RaceAccess
  <2>7. ASSUME NEW b \in Byte
        PROVE  /\ lastAccess'[b] = IF ~ Covered(e, b) THEN lastAccess[b]
                           ELSE IF OwnAccess(lastAccess[b], tid)
                             THEN AfterOwn(lastAccess[b], tid, e.type)
                           ELSE AfterOther(lastAccess[b], tid, e.type)
               /\ b \in raceAddresses' <=>
                    /\ b \in raceAddresses \/ (Covered(e, b) /\ IsRace(b, tid, e.type))
                    /\ ~ (Covered(e, b) /\ Reset(b, tid, e.type))
    <3>1. lastAccess' = [x \in Byte |->
             IF x \notin bytes THEN lastAccess[x]
             ELSE IF OwnAccess(lastAccess[x], tid) THEN AfterOwn(lastAccess[x], tid, e.type)
             ELSE AfterOther(lastAccess[x], tid, e.type)]
      BY <2>2 DEF RaceAccess
    <3>2. raceAddresses' = (raceAddresses \cup {x \in bytes : IsRace(x, tid, e.type)})
                              \ {x \in bytes : Reset(x, tid, e.type)}
      BY <2>2 DEF RaceAccess
    <3>3. b \in bytes <=> Covered(e, b) BY <2>4
    <3> QED BY <3>1, <3>2, <3>3
  <2>8. RaceStep(e, tid, g) BY <2>6, <2>7 DEF RaceStep
  <2> QED BY <1>1, <1>3, <2>3, <2>8
<1> QED BY <1>2, <1>3

\* What holds of an operation that is taken: tasks and contexts are as the file says.
Taken(N, n, e, g, tid) ==
  /\ GraphOf(Tasks, N) /\ Appended(n, e) /\ g = n + 1
  /\ e.task \in 1 .. N /\ tid = Id(e.task) /\ e.type \in {"read", "write", "malloc", "free"}
  /\ \A k \in 1 .. n : log[k].task \in 1 .. e.task
  /\ RaceStep(e, tid, g)

\* A task's accesses are known by its id.
LEMMA OwnIsOwn ==
  ASSUME NEW N, NEW n, NEW e, NEW g, NEW tid, Taken(N, n, e, g, tid), NEW i \in 1 .. n
  PROVE  Id(log[i].task) = tid <=> log[i].task = e.task
<1>1. GraphOf(Tasks, N) /\ e.task \in 1 .. N /\ tid = Id(e.task) /\ N \in Nat BY DEF Taken, GraphOf
<1>2. log[i].task \in 1 .. e.task BY DEF Taken
<1>3. log[i].task \in 1 .. N BY <1>1, <1>2
<1> QED BY <1>1, <1>3, IdsOrdered DEF Id

LEMMA FreedNotOwn ==
  ASSUME NEW N, NEW n, NEW e, NEW g, NEW tid, Taken(N, n, e, g, tid), NEW b \in Byte,
         LastOk(b), FreedByOthers(b)', e.type = "free", Covers(e, b)
  PROVE  ~ OwnAccess(lastAccess[b], tid)
<1> SUFFICES ASSUME OwnAccess(lastAccess[b], tid) PROVE FALSE OBVIOUS
<1>1. Appended(n, e) /\ g = n + 1 /\ DOMAIN log = 1 .. n BY DEF Taken, Appended
<1>2. PICK i \in 1 .. n : LiveAccess(i, b) /\ lastAccess[b].tid = Id(log[i].task)
  BY <1>1 DEF OwnAccess, LastOk, LastAt
<1>3. log[i].task = e.task BY <1>2, OwnIsOwn DEF OwnAccess
<1> QED BY <1>1, <1>2, <1>3, FreedNext

\* The access that is remembered.
LEMMA LastNext ==
  ASSUME NEW N, NEW n, NEW e, NEW g, NEW tid, Taken(N, n, e, g, tid), NEW b \in Byte,
         LastOk(b), FreedByOthers(b)'
  PROVE  LastOk(b)'
<1>0. Appended(n, e) /\ g = n + 1 /\ n \in Nat /\ DOMAIN log = 1 .. n /\ file' = file
  BY DEF Taken, Appended
<1>1. /\ e.type \in {"read", "write", "malloc", "free"} /\ tid = Id(e.task)
      /\ lastAccess'[b] = IF ~ Covered(e, b) THEN lastAccess[b]
                          ELSE IF OwnAccess(lastAccess[b], tid)
                            THEN AfterOwn(lastAccess[b], tid, e.type)
                          ELSE AfterOther(lastAccess[b], tid, e.type)
  BY DEF Taken, RaceStep
<1>2. \A k \in 1 .. n : log'[k] = log[k] /\ (Id(log[k].task)' = Id(log[k].task))
  BY <1>0, HistoryKept DEF Id, Tasks
<1>3. log'[g] = e /\ Id(log[g].task)' = tid BY <1>0, <1>1, HistoryNew DEF Id, Tasks
<1>4. PICK F, new, last : /\ F <=> e.type = "free" /\ Covers(e, b)
                          /\ last = lastAccess[b] /\ new = lastAccess'[b]
  OBVIOUS
<1>5. \A k \in 1 .. n : LiveAccess(k, b)' <=> LiveAccess(k, b) /\ ~ F BY <1>0, <1>4, LiveNext
<1>6. LiveAccess(g, b)' <=> e.type \in {"read", "write"} /\ Covers(e, b) BY <1>0, LiveNext
<1>7. \A k : k \in (DOMAIN log)' <=> k \in 1 .. n \/ k = g BY <1>0, LiveNext
\* The new access becomes the one that is remembered.
<1>8. ASSUME LiveAccess(g, b)', new.tid = tid, new.type = e.type, new.type # "none",
             e.type = "write" \/ \A k \in 1 .. n : LiveAccess(k, b) => log[k].type # "write"
      PROVE  LastOk(b)'
  <2>1. \A k \in (DOMAIN log)' : k <= g BY <1>0, <1>7
  <2>2. \A k \in (DOMAIN log)' : LiveAccess(k, b)' /\ log'[k].type = "write" => e.type = "write"
    BY <1>2, <1>3, <1>5, <1>7, <1>8
  <2>3. LastAt(g, b)' BY <1>3, <1>4, <1>8, <2>1, <2>2 DEF LastAt
  <2>4. g \in (DOMAIN log)' BY <1>7
  <2> QED BY <2>3, <2>4, <1>4, <1>8 DEF LastOk
\* The one that was remembered still is.
<1>9. ASSUME new = last, ~ F, LiveAccess(g, b)' => e.type # "write",
             LiveAccess(g, b)' => last.type # "none"
      PROVE  LastOk(b)'
  <2>1. CASE last.type = "none"
    <3>1. \A k \in 1 .. n : ~ LiveAccess(k, b) BY <2>1, <1>0, <1>4 DEF LastOk
    <3>2. \A k \in (DOMAIN log)' : ~ LiveAccess(k, b)' BY <3>1, <2>1, <1>5, <1>7, <1>9
    <3> QED BY <3>2, <2>1, <1>4, <1>9 DEF LastOk
  <2>2. CASE last.type # "none"
    <3>1. PICK i \in 1 .. n : LastAt(i, b) BY <2>2, <1>0, <1>4 DEF LastOk
    <3>2. LiveAccess(i, b)' /\ i \in (DOMAIN log)' BY <3>1, <1>5, <1>7, <1>9 DEF LastAt
    <3>3. \A k \in (DOMAIN log)' : LiveAccess(k, b)' /\ log'[k].type = "write" =>
            k \in 1 .. n /\ LiveAccess(k, b) /\ log[k].type = "write"
      BY <1>2, <1>3, <1>5, <1>7, <1>9
    <3>4. \A k \in 1 .. n : LiveAccess(k, b) /\ log[k].type = "write" =>
            log[i].type = "write" /\ k <= i
      BY <3>1, <1>0 DEF LastAt
    <3>5. /\ lastAccess'[b].tid = Id(log[i].task)' /\ lastAccess'[b].type = log'[i].type
          /\ log'[i] = log[i]
      BY <3>1, <1>2, <1>4, <1>9 DEF LastAt
    <3>6. LastAt(i, b)' BY <3>2, <3>3, <3>4, <3>5 DEF LastAt
    <3> QED BY <3>2, <3>6, <2>2, <1>4, <1>9 DEF LastOk
  <2> QED BY <2>1, <2>2
<1>10. CASE ~ Covered(e, b)
  <2>1. new = last BY <1>1, <1>4, <1>10
  <2>2. ~ F /\ ~ LiveAccess(g, b)' BY <1>4, <1>6, <1>10 DEF Covered
  <2> QED BY <2>1, <2>2, <1>9
<1>11. CASE F
  <2>1. new = NoAccess
    <3>1. ~ OwnAccess(last, tid) /\ Covered(e, b) BY <1>4, <1>11, FreedNotOwn DEF Covered
    <3> QED BY <3>1, <1>1, <1>4, <1>11 DEF AfterOther
  <2>2. \A k \in (DOMAIN log)' : ~ LiveAccess(k, b)' BY <1>4, <1>5, <1>6, <1>7, <1>11
  <2> QED BY <2>1, <2>2, <1>4 DEF LastOk, NoAccess
<1>12. CASE Covers(e, b) /\ e.type = "write"
  <2>1. new.tid = tid /\ new.type = "write"
    BY <1>1, <1>4, <1>12 DEF Covered, OwnAccess, AfterOwn, AfterOther
  <2>2. LiveAccess(g, b)' BY <1>6, <1>12
  <2> QED BY <2>1, <2>2, <1>8, <1>12
<1>13. CASE Covers(e, b) /\ e.type = "read"
  <2>1. LiveAccess(g, b)' BY <1>6, <1>13
  <2>2. CASE last.type = "none"
    <3>1. new = [tid |-> tid, type |-> "read"]
      BY <2>2, <1>1, <1>4, <1>13 DEF Covered, OwnAccess, AfterOther
    <3>2. \A k \in 1 .. n : ~ LiveAccess(k, b) BY <2>2, <1>0, <1>4 DEF LastOk
    <3>3. new.tid = tid /\ new.type = "read" BY <3>1
    <3> QED BY <2>1, <3>2, <3>3, <1>8, <1>13
  <2>3. CASE last.type # "none"
    <3>1. new = last BY <2>3, <1>1, <1>4, <1>13 DEF Covered, OwnAccess, AfterOwn, AfterOther
    <3>2. ~ F BY <1>4, <1>13
    <3> QED BY <3>1, <3>2, <2>3, <1>9, <1>13
  <2> QED BY <2>2, <2>3
<1> QED BY <1>1, <1>4, <1>10, <1>11, <1>12, <1>13 DEF Covered

\* A byte that is not to be reported has been.
LEMMA NotedNext ==
  ASSUME NEW N, NEW n, NEW e, NEW g, NEW tid, Taken(N, n, e, g, tid), NEW b \in Byte,
         LastOk(b), NotedOk(b), RacesTyped, FreedByOthers(b)'
  PROVE  NotedOk(b)'
<1>0. Appended(n, e) /\ g = n + 1 /\ n \in Nat /\ DOMAIN log = 1 .. n BY DEF Taken, Appended
<1>1. /\ races' = races \cup {[from |-> lastAccess[x].tid, to |-> tid, byte |-> x, at |-> g] :
                          x \in {y \in Byte : Covered(e, y) /\ IsRace(y, tid, e.type)}}
      /\ b \in raceAddresses' <=>
            /\ b \in raceAddresses \/ (Covered(e, b) /\ IsRace(b, tid, e.type))
            /\ ~ (Covered(e, b) /\ Reset(b, tid, e.type))
  BY DEF Taken, RaceStep
<1> SUFFICES ASSUME b \in raceAddresses' PROVE \E r \in races' : r.byte = b /\ Alive(r.at, b)'
  BY DEF NotedOk
<1>2. ~ (e.type = "free" /\ Covers(e, b))
  <2> SUFFICES ASSUME e.type = "free", Covers(e, b) PROVE FALSE OBVIOUS
  <2>1. ~ OwnAccess(lastAccess[b], tid) BY FreedNotOwn
  <2>2. Covered(e, b) /\ Reset(b, tid, e.type) BY <2>1 DEF Covered, Reset
  <2> QED BY <2>2, <1>1
<1>3. CASE b \in raceAddresses
  <2>1. PICK r \in races : r.byte = b /\ Alive(r.at, b) BY <1>3 DEF NotedOk
  <2>2. PICK at : at = r.at OBVIOUS
  <2>3. at \in 1 .. n BY <2>2, <1>0 DEF RacesTyped
  <2>4. Alive(at, b)' BY <2>1, <2>2, <2>3, <1>0, <1>2, AliveNext
  <2>5. r \in races' BY <1>1
  <2> QED BY <2>1, <2>2, <2>4, <2>5
<1>4. CASE Covered(e, b) /\ IsRace(b, tid, e.type)
  <2>1. PICK r : r = [from |-> lastAccess[b].tid, to |-> tid, byte |-> b, at |-> g] OBVIOUS
  <2>2. r \in races' BY <1>1, <1>4, <2>1
  <2>3. Alive(g, b)' BY <1>0, <1>2, AliveNext
  <2>4. r.byte = b /\ r.at = g BY <2>1
  <2> QED BY <2>2, <2>3, <2>4
<1> QED BY <1>1, <1>3, <1>4

-------------------------------------------------------------------------------
(* What is reported. *)

\* Of two tasks the later is not on a path to the earlier.
LEMMA UnorderedIs ==
  ASSUME NEW N, GraphOf(Tasks, N), NEW x \in 1 .. N, NEW y \in 1 .. N, x <= y
  PROVE  /\ Unordered(x, y) <=> x # y /\ x \notin Before[y]
         /\ \A z \in Before[x] : x \in Before[y] => z \in Before[y]
         /\ \A z \in Before[x] : z < x
<1>1. N \in Nat /\ DOMAIN Tasks = 1 .. N BY DEF GraphOf
<1>2. PICK t : t = Tasks OBVIOUS
<1>3. Ancestors(t)[x] \in SUBSET (1 .. (x - 1)) BY <1>1, <1>2, AncestorsEarlier
<1>4. y \notin Before[x] BY <1>2, <1>3 DEF Before
<1>5. x \in Ancestors(t)[y] => Ancestors(t)[x] \in SUBSET Ancestors(t)[y]
  <2> SUFFICES ASSUME x \in Ancestors(t)[y] PROVE Ancestors(t)[x] \in SUBSET Ancestors(t)[y]
    OBVIOUS
  <2>1. DOMAIN t = 1 .. N BY <1>1, <1>2
  <2> QED BY ONLY <1>1, <2>1, x \in Ancestors(t)[y], y \in 1 .. N, AncestorsTransitive
<1>6. \A z \in Before[x] : z < x BY <1>2, <1>3 DEF Before
<1> QED BY <1>2, <1>4, <1>5, <1>6 DEF Unordered, Before

\* hbPathCheck answers for the task that is analysed.
Answers(task) ==
  \A j \in 1 .. (task - 1) : HbPathCheck(Id(j), Id(task)) <=> j \in Before[task]

\* RacesReal of one report.
RealRace(r) ==
  \E i \in 1 .. (r.at - 1) :
    /\ Accesses(i, r.byte) /\ Touches(r.at, r.byte) /\ SameBlock(i, r.at, r.byte)
    /\ Id(log[i].task) = r.from /\ Id(log[r.at].task) = r.to
    /\ "write" \in {log[i].type, log[r.at].type}
    /\ Unordered(log[i].task, log[r.at].task)

LEMMA UnorderedKept ==
  ASSUME file' = file
  PROVE  (\A x, y : Unordered(x, y)' <=> Unordered(x, y)) /\ (\A x : Id(x)' = Id(x))
BY DEF Unordered, Before, Tasks, Id

\* A report stays true.
LEMMA RealKept ==
  ASSUME NEW n, NEW e, Appended(n, e), NEW r, r.at \in 1 .. n, RealRace(r)
  PROVE  RealRace(r)'
<1>0. n \in Nat /\ file' = file BY DEF Appended
<1>1. PICK b, at : b = r.byte /\ at = r.at OBVIOUS
<1>2. PICK i \in 1 .. (at - 1) :
        /\ Accesses(i, b) /\ Touches(at, b) /\ SameBlock(i, at, b)
        /\ Id(log[i].task) = r.from /\ Id(log[at].task) = r.to
        /\ "write" \in {log[i].type, log[at].type}
        /\ Unordered(log[i].task, log[at].task)
  BY <1>1 DEF RealRace
<1>3. PICK g : g = n + 1 OBVIOUS
<1>4. i \in 1 .. n /\ at \in 1 .. n /\ i \in 1 .. g /\ at \in 1 .. g BY <1>0, <1>1, <1>3
<1>5. log'[i] = log[i] /\ log'[at] = log[at] /\ Accesses(i, b)' /\ Touches(at, b)'
  BY <1>2, <1>4, HistoryKept, OperationKept
<1>6. SameBlock(i, at, b)' BY <1>2, <1>3, <1>4, BlocksKept
<1>7. /\ Id(log[i].task)' = Id(log[i].task) /\ Id(log[at].task)' = Id(log[at].task)
      /\ Unordered(log[i].task, log[at].task)' <=> Unordered(log[i].task, log[at].task)
  BY <1>0, <1>5 DEF Id, Tasks, Unordered, Before
<1> QED BY <1>1, <1>2, <1>5, <1>6, <1>7 DEF RealRace

\* A new report is true.
LEMMA RealNew ==
  ASSUME NEW N, NEW n, NEW e, NEW g, NEW tid, Taken(N, n, e, g, tid), NEW b \in Byte,
         LastOk(b), Answers(e.task), Covered(e, b), IsRace(b, tid, e.type),
         NEW r, r = [from |-> lastAccess[b].tid, to |-> tid, byte |-> b, at |-> g]
  PROVE  RealRace(r)'
<1>0. /\ Appended(n, e) /\ g = n + 1 /\ n \in Nat /\ DOMAIN log = 1 .. n /\ file' = file
      /\ GraphOf(Tasks, N) /\ N \in Nat /\ e.task \in 1 .. N /\ tid = Id(e.task)
  BY DEF Taken, Appended, GraphOf
<1>1. /\ lastAccess[b].type # "none" /\ ~ OwnAccess(lastAccess[b], tid)
      /\ e.type = "write" \/ lastAccess[b].type = "write"
      /\ ~ HbPathCheck(lastAccess[b].tid, tid)
  BY DEF IsRace
<1>2. PICK i \in 1 .. n : LastAt(i, b) BY <1>0, <1>1 DEF LastOk
<1>3. PICK x, y : x = log[i].task /\ y = e.task OBVIOUS
<1>4. /\ LiveAccess(i, b) /\ lastAccess[b].tid = Id(x) /\ lastAccess[b].type = log[i].type
  BY <1>2, <1>3 DEF LastAt
<1>5. x \in 1 .. y /\ x \in 1 .. N /\ y \in 1 .. N BY <1>0, <1>3 DEF Taken
<1>6. x # y BY <1>0, <1>1, <1>3, <1>4 DEF OwnAccess
<1>7. x \notin Before[y]
  <2>1. x \in 1 .. (y - 1) BY <1>5, <1>6
  <2>2. ~ HbPathCheck(Id(x), Id(y)) BY <1>0, <1>1, <1>3, <1>4
  <2> QED BY <2>1, <2>2, <1>3 DEF Answers
<1>8. Unordered(x, y) BY <1>0, <1>5, <1>6, <1>7, UnorderedIs
<1>9. i \in 1 .. (g - 1) /\ i \in 1 .. g /\ g \in 1 .. g BY <1>0
<1>10. log'[i] = log[i] /\ log'[g] = e /\ Accesses(i, b)' /\ Touches(g, b)'
  BY <1>0, <1>4, HistoryKept, HistoryNew DEF LiveAccess, Covered
<1>11. SameBlock(i, g, b)'
  <2>1. SameBlock(i, g, b) BY <1>0, <1>4, <1>9, AliveNext DEF LiveAccess
  <2> QED BY <2>1, <1>0, <1>9, BlocksKept
<1>12. Id(log[i].task)' = Id(x) /\ Id(log[g].task)' = tid
  BY <1>0, <1>3, <1>10 DEF Id, Tasks
<1>13. Unordered(log[i].task, log[g].task)'
  <2>1. Unordered(x, y)' BY <1>0, <1>8, UnorderedKept
  <2> QED BY <2>1, <1>3, <1>10 DEF Unordered
<1>14. "write" \in {log[i].type, log[g].type}' BY <1>1, <1>4, <1>10
<1>15. r.at = g /\ r.byte = b /\ r.from = Id(x) /\ r.to = tid BY <1>4
<1> QED BY <1>9, <1>10, <1>11, <1>12, <1>13, <1>14, <1>15 DEF RealRace

\* A race that has to be reported, and that it has been.
WriteRace(i, j, b) ==
  /\ i < j /\ Accesses(i, b) /\ Accesses(j, b) /\ log[i].type = "write"
  /\ log[i].roi /\ log[j].roi
  /\ Unordered(log[i].task, log[j].task) /\ SameBlock(i, j, b)

Caught(j, b) == \E r \in races : r.byte = b /\ r.at <= j /\ SameBlock(r.at, j, b)

CaughtOn(b) == \A i, j \in DOMAIN log : WriteRace(i, j, b) => Caught(j, b)

\* A race of earlier operations has been reported.
LEMMA CaughtKept ==
  ASSUME NEW n, NEW e, Appended(n, e), NEW b, races \in SUBSET races', RacesTyped, CaughtOn(b),
         NEW i \in 1 .. n, NEW j \in 1 .. n, WriteRace(i, j, b)'
  PROVE  Caught(j, b)'
<1>0. n \in Nat /\ DOMAIN log = 1 .. n /\ file' = file BY DEF Appended
<1>1. PICK g : g = n + 1 OBVIOUS
<1>2. i \in 1 .. g /\ j \in 1 .. g BY <1>0, <1>1
<1>3. log'[i] = log[i] /\ log'[j] = log[j]
      /\ (Accesses(i, b)' <=> Accesses(i, b)) /\ (Accesses(j, b)' <=> Accesses(j, b))
  BY HistoryKept
<1>4. SameBlock(i, j, b)' <=> SameBlock(i, j, b) BY <1>1, <1>2, BlocksKept
<1>5. Unordered(log[i].task, log[j].task)' <=> Unordered(log[i].task, log[j].task)
  BY <1>0, <1>3 DEF Unordered, Before, Tasks
<1>6. WriteRace(i, j, b) BY <1>3, <1>4, <1>5 DEF WriteRace
<1>7. PICK r \in races : r.byte = b /\ r.at <= j /\ SameBlock(r.at, j, b)
  BY <1>0, <1>6 DEF CaughtOn, Caught
<1>8. PICK at : at = r.at OBVIOUS
<1>9. at \in 1 .. g BY <1>0, <1>1, <1>8 DEF RacesTyped
<1>10. SameBlock(at, j, b)' BY <1>1, <1>2, <1>7, <1>8, <1>9, BlocksKept
<1> QED BY <1>7, <1>8, <1>10 DEF Caught

\* A report of the block is one for the next operation.
LEMMA CaughtInBlock ==
  ASSUME NEW n, NEW e, Appended(n, e), NEW g, g = n + 1, NEW b, races \in SUBSET races',
         NEW r \in races, r.byte = b, r.at \in 1 .. n, Alive(r.at, b)
  PROVE  Caught(g, b)'
<1>0. n \in Nat BY DEF Appended
<1>1. PICK at : at = r.at OBVIOUS
<1>2. at \in 1 .. g /\ at <= g /\ g \in 1 .. g BY <1>0, <1>1
<1>3. SameBlock(at, g, b) BY <1>1, <1>2, AliveNext
<1>4. SameBlock(at, g, b)' BY <1>2, <1>3, BlocksKept
<1> QED BY <1>1, <1>2, <1>4 DEF Caught

\* So is a race with the operation that is taken.
LEMMA CaughtNew ==
  ASSUME NEW N, NEW n, NEW e, NEW g, NEW tid, Taken(N, n, e, g, tid), NEW b \in Byte,
         LastOk(b), NotedOk(b), RacesTyped, CaughtOn(b), Answers(e.task), e.roi => inROI,
         \A k, m \in 1 .. n : k <= m => log[k].task <= log[m].task,
         \A k, m \in 1 .. n : k <= m /\ log[k].roi => log[m].roi,
         NEW i \in 1 .. n, WriteRace(i, g, b)'
  PROVE  Caught(g, b)'
<1>0. /\ Appended(n, e) /\ g = n + 1 /\ n \in Nat /\ DOMAIN log = 1 .. n /\ file' = file
      /\ GraphOf(Tasks, N) /\ N \in Nat /\ e.task \in 1 .. N /\ tid = Id(e.task)
      /\ races' = races \cup {[from |-> lastAccess[x].tid, to |-> tid, byte |-> x, at |-> g] :
                          x \in {y \in Byte : Covered(e, y) /\ IsRace(y, tid, e.type)}}
  BY DEF Taken, Appended, GraphOf, RaceStep
<1>1. races \in SUBSET races' BY <1>0
<1>2. i \in 1 .. g /\ g \in 1 .. g BY <1>0
<1>3. /\ Accesses(i, b)' /\ Accesses(g, b)' /\ log'[i].type = "write"
      /\ log'[i].roi /\ log'[g].roi
      /\ Unordered(log[i].task, log[g].task)' /\ SameBlock(i, g, b)'
  BY DEF WriteRace
<1>4. log'[i] = log[i] /\ log'[g] = e /\ Accesses(i, b)
  BY <1>0, <1>3, HistoryKept, HistoryNew
<1>5. e.type \in {"read", "write"} /\ Covers(e, b) BY <1>0, <1>3, HistoryNew
<1>6. SameBlock(i, g, b) BY <1>0, <1>2, <1>3, BlocksKept
<1>7. LiveAccess(i, b) BY <1>0, <1>2, <1>4, <1>6, AliveNext DEF LiveAccess
<1>8. PICK w \in 1 .. n : LastAt(w, b)
  BY <1>0, <1>7 DEF LastOk
<1>9. /\ LiveAccess(w, b) /\ log[w].type = "write" /\ i <= w
      /\ lastAccess[b].tid = Id(log[w].task) /\ lastAccess[b].type = "write"
  <2>1. log[i].type = "write" BY <1>3, <1>4
  <2> QED BY <2>1, <1>0, <1>7, <1>8 DEF LastAt
<1>10. PICK x, y, z : x = log[i].task /\ y = log[w].task /\ z = e.task OBVIOUS
<1>11. x \in 1 .. N /\ y \in 1 .. N /\ z \in 1 .. N /\ x <= y /\ y <= z /\ x <= z
  BY <1>0, <1>9, <1>10 DEF Taken
<1>12. Unordered(x, z)
  <2>1. Unordered(x, z)' BY <1>3, <1>4, <1>10 DEF Unordered
  <2> QED BY <2>1, <1>0, UnorderedKept
<1>13. x # z /\ x \notin Before[z] BY <1>0, <1>11, <1>12, UnorderedIs
\* The write that is remembered raced with the first.
<1>14. ASSUME i < w, Unordered(x, y) PROVE Caught(g, b)'
  <2>1. SameBlock(i, w, b)
    <3>1. i .. (w - 1) \in SUBSET (i .. (g - 1)) BY <1>0
    <3> QED BY <3>1, <1>6 DEF SameBlock
  <2>2. WriteRace(i, w, b)
    BY <1>3, <1>4, <1>9, <1>10, <1>14, <2>1 DEF WriteRace, LiveAccess
  <2>3. PICK r \in races : r.byte = b /\ r.at <= w /\ SameBlock(r.at, w, b)
    BY <1>0, <2>2 DEF CaughtOn, Caught
  <2>4. PICK at : at = r.at OBVIOUS
  <2>5. at \in 1 .. n /\ at <= w BY <1>0, <2>3, <2>4 DEF RacesTyped
  <2>6. Alive(at, b)
    <3>1. \A m \in 1 .. n : at <= m => m \in at .. (w - 1) \/ w <= m BY <1>0, <2>5
    <3>2. \A m \in 1 .. n : w <= m => ~ FreesByte(m, b) BY <1>0, <1>9 DEF LiveAccess, Alive
    <3>3. \A m \in at .. (w - 1) : ~ FreesByte(m, b) BY <2>3, <2>4 DEF SameBlock
    <3> QED BY <3>1, <3>2, <3>3, <1>0 DEF Alive
  <2> QED BY <2>3, <2>4, <2>5, <2>6, <1>0, <1>1, CaughtInBlock
<1>15. CASE y = z
  <2>1. i # w BY <1>10, <1>13, <1>15
  <2>2. i < w BY <2>1, <1>9
  <2> QED BY <2>2, <1>12, <1>14, <1>15
<1>16. CASE y # z /\ y \in Before[z]
  <2>1. x # y BY <1>13, <1>16
  <2>2. x \notin Before[y] BY <1>0, <1>11, <1>13, <1>16, UnorderedIs
  <2>3. Unordered(x, y) BY <2>1, <2>2, <1>0, <1>11, UnorderedIs
  <2>4. i < w BY <2>1, <1>9, <1>10
  <2> QED BY <2>3, <2>4, <1>14
<1>17. CASE y # z /\ y \notin Before[z]
  <2>1. CASE b \in raceAddresses
    <3>1. PICK r \in races : r.byte = b /\ Alive(r.at, b) BY <2>1 DEF NotedOk
    <3>2. r.at \in 1 .. n BY <1>0 DEF RacesTyped
    <3> QED BY <3>1, <3>2, <1>0, <1>1, CaughtInBlock
  <2>2. CASE b \notin raceAddresses
    <3>1. ~ HbPathCheck(lastAccess[b].tid, tid)
      <4>1. y \in 1 .. (z - 1) BY <1>11, <1>17
      <4>2. HbPathCheck(Id(y), Id(z)) <=> y \in Before[z] BY <4>1, <1>10 DEF Answers
      <4> QED BY <4>2, <1>0, <1>9, <1>10, <1>17
    <3>2. ~ OwnAccess(lastAccess[b], tid)
      <4>1. Id(log[w].task) # tid BY <1>10, <1>17, OwnIsOwn
      <4> QED BY <4>1, <1>9 DEF OwnAccess
    <3>3. inROI BY <1>3, <1>4
    <3>4. Covered(e, b) /\ IsRace(b, tid, e.type)
      BY <3>1, <3>2, <3>3, <2>2, <1>5, <1>9 DEF IsRace, Covered
    <3>5. PICK r : r = [from |-> lastAccess[b].tid, to |-> tid, byte |-> b, at |-> g] OBVIOUS
    <3>6. r \in races' BY <3>4, <3>5, <1>0
    <3>7. r.byte = b /\ r.at = g BY <3>5
    <3>8. SameBlock(g, g, b)'
      <4>1. g .. (g - 1) = {} BY <1>0
      <4> QED BY <4>1 DEF SameBlock
    <3>9. g <= g BY <1>0
    <3> QED BY <3>6, <3>7, <3>8, <3>9 DEF Caught
  <2> QED BY <2>1, <2>2
<1> QED BY <1>15, <1>16, <1>17

-------------------------------------------------------------------------------
(* Every step of the detector. *)

\* The size of a block is a number.
LEMMA AllocatedNat ==
  ASSUME log \in Seq(LogEntry), NEW b
  PROVE  AllocatedNow(b) \in Nat
<1>1. PICK l, n : l = log /\ n = Len(l) OBVIOUS
<1>2. l \in Seq(LogEntry) BY <1>1
<1>3. n \in Nat /\ DOMAIN l = 1 .. n /\ \A k \in 1 .. n : l[k] \in LogEntry BY ONLY <1>1, <1>2
<1>4. PICK M : M = AllocationMarks(b) OBVIOUS
<1>5. M \in SUBSET (1 .. n) BY <1>1, <1>3, <1>4 DEF AllocationMarks
<1>6. M # {} => Largest(M) \in M BY <1>3, <1>5, LargestOf
<1>7. M # {} => l[Largest(M)] \in LogEntry BY <1>3, <1>5, <1>6
<1>8. AllocatedNow(b) = IF M = {} \/ l[Largest(M)].type = "free" THEN 0 ELSE l[Largest(M)].size
  BY <1>1, <1>4 DEF AllocatedNow, SizeOf
<1>9. M # {} => l[Largest(M)].size \in Nat BY <1>7 DEF LogEntry
<1> QED BY <1>8, <1>9

\* The operation is appended as it is and with what the history knows of it.
LEMMA OperationLogged ==
  ASSUME HbInv, HistoryInv, ContextsOrdered, NEW op \in Op, MemoryOp(op)
  PROVE  \E n \in Nat : \E e \in LogEntry :
           /\ Appended(n, e) /\ (log \in Seq(LogEntry))'
           /\ e.type = op.type /\ e.addr = op.addr /\ e.task = current
           /\ e.size = IF op.type = "free" THEN AllocatedNow(op.addr) ELSE op.size
           /\ e.roi <=> inROI /\ ~ stopped
<1>1. log \in Seq(LogEntry) BY DEF HistoryInv
<1>2. PICK n \in Nat : n = Len(log) /\ DOMAIN log = 1 .. n BY <1>1
<1>3. PICK at : at = Len(log) + 1 OBVIOUS
<1>4. PICK size : size = IF op.type = "free" THEN AllocatedSize(op.addr, at) ELSE op.size OBVIOUS
<1>5. PICK e : e = [task |-> current, type |-> op.type, addr |-> op.addr,
                    size |-> size, roi |-> inROI /\ ~stopped]
  OBVIOUS
<1>6. log' = Append(log, e) /\ file' = file BY <1>3, <1>4, <1>5 DEF MemoryOp, fileVars
<1>7. op \in Operation BY BackEndsAssumption
<1>8. AllocatedSize(op.addr, at) = AllocatedNow(op.addr) BY <1>2, <1>3, AllocatedIsNow
<1>9. AllocatedNow(op.addr) \in Nat BY <1>1, AllocatedNat
<1>10. current \in Nat
  <2>1. Len(Tasks) \in Nat BY FileIsGraph DEF HbInv, GraphOf
  <2> QED BY <2>1 DEF HbInv
<1>11. /\ e \in LogEntry /\ e.type = op.type /\ e.addr = op.addr /\ e.task = current
       /\ e.size = IF op.type = "free" THEN AllocatedNow(op.addr) ELSE op.size
       /\ e.roi <=> inROI /\ ~ stopped
  BY <1>4, <1>5, <1>7, <1>8, <1>9, <1>10 DEF Operation, LogEntry
<1>12. Appended(n, e) /\ (log \in Seq(LogEntry))'
  <2>1. PICK l : l = log OBVIOUS
  <2>2. /\ Append(l, e) \in Seq(LogEntry) /\ DOMAIN Append(l, e) = 1 .. (n + 1)
        /\ Append(l, e)[n + 1] = e /\ \A k \in 1 .. n : Append(l, e)[k] = l[k]
    <3>1. l \in Seq(LogEntry) /\ e \in LogEntry /\ n = Len(l) BY <1>1, <1>2, <1>11, <2>1
    <3> QED BY ONLY <3>1, n \in Nat
  <2> QED BY <2>1, <2>2, <1>2, <1>6 DEF Appended
<1> QED BY <1>11, <1>12

\* The history goes on in order.
LEMMA HistoryNext ==
  ASSUME HbInv, HistoryInv, ContextsOrdered, NEW n, NEW e, Appended(n, e),
         (log \in Seq(LogEntry))', e.task = current, current # 0, e.roi <=> inROI /\ ~ stopped,
         UNCHANGED <<current, inROI, stopped>>
  PROVE  HistoryInv'
<1>0. n \in Nat /\ DOMAIN log = 1 .. n /\ (DOMAIN log)' = 1 .. (n + 1) BY DEF Appended
<1>1. PICK g : g = n + 1 OBVIOUS
<1>2. \A k : k \in (DOMAIN log)' <=> k \in 1 .. n \/ k = g BY <1>0, <1>1
<1>3. (\A k \in 1 .. n : log'[k] = log[k]) /\ log'[g] = e BY <1>1 DEF Appended
<1>4. current \in Nat
  <2>1. Len(Tasks) \in Nat BY FileIsGraph DEF HbInv, GraphOf
  <2> QED BY <2>1 DEF HbInv
<1>5. /\ \A k \in 1 .. n : log[k].task \in 1 .. current /\ (log[k].roi => inROI)
      /\ \A i, k \in 1 .. n :
           i <= k => log[i].task <= log[k].task /\ (log[i].roi /\ ~ log[k].roi => stopped)
  BY <1>0 DEF HistoryInv
<1>6. \A k \in (DOMAIN log)' : log'[k].task \in 1 .. current /\ (log'[k].roi => inROI)
  BY <1>2, <1>3, <1>4, <1>5
<1>7. ASSUME NEW i \in (DOMAIN log)', NEW k \in (DOMAIN log)', i <= k
      PROVE  log'[i].task <= log'[k].task /\ (log'[i].roi /\ ~ log'[k].roi => stopped)
  <2>1. CASE k = g
    <3>1. log'[i].task <= current BY <1>4, <1>6
    <3>2. log'[i].roi => inROI BY <1>6
    <3> QED BY <3>1, <3>2, <2>1, <1>3
  <2>2. CASE k \in 1 .. n
    <3>1. i \in 1 .. n BY <2>2, <1>0, <1>1, <1>2, <1>7
    <3> QED BY <3>1, <2>2, <1>3, <1>5, <1>7
  <2> QED BY <2>1, <2>2, <1>2
<1> QED BY <1>6, <1>7 DEF HistoryInv

\* The sizes follow the allocations.
LEMMA SizesNext ==
  ASSUME NEW n, NEW e, Appended(n, e), SizesExact, e.addr \in Byte, e.size \in Nat,
         allocSize' = IF e.type = "malloc" THEN [allocSize EXCEPT ![e.addr] = e.size]
                       ELSE IF e.type = "free" THEN [allocSize EXCEPT ![e.addr] = 0]
                       ELSE allocSize
  PROVE  SizesExact'
<1>1. allocSize' \in [Byte -> Nat] BY DEF SizesExact
<1>2. ASSUME NEW b \in Byte PROVE allocSize'[b] = AllocatedNow(b)'
  <2>1. CASE b = e.addr /\ e.type \in {"malloc", "free"}
    <3>1. AllocatedNow(e.addr)' = IF e.type = "free" THEN 0 ELSE e.size BY <2>1, AllocatedNew
    <3>2. AllocatedNow(b)' = AllocatedNow(e.addr)' BY <2>1
    <3>3. allocSize'[b] = IF e.type = "free" THEN 0 ELSE e.size BY <2>1 DEF SizesExact
    <3> QED BY <3>1, <3>2, <3>3
  <2>2. CASE b # e.addr \/ e.type \notin {"malloc", "free"}
    <3>1. AllocatedNow(b)' = AllocatedNow(b) BY <2>2, AllocatedKept
    <3>2. allocSize'[b] = allocSize[b] BY <2>2 DEF SizesExact
    <3> QED BY <3>1, <3>2 DEF SizesExact
  <2> QED BY <2>1, <2>2
<1> QED BY <1>1, <1>2 DEF SizesExact

\* What the invariant says of the detector's own state.
DetectorOk == SizesExact /\ \A b \in Byte : FreedByOthers(b) => LastOk(b) /\ NotedOk(b)

CaughtAll == \A b \in Byte : FreedByOthers(b) => CaughtOn(b)
RealAll == \A r \in races : FreedByOthers(r.byte) => RealRace(r)

LEMMA RacesExactIs ==
  RacesExact <=> CaughtAll /\ RealAll
<1>1. WriteRaceCaught <=> CaughtAll
  BY DEF WriteRaceCaught, CaughtAll, CaughtOn, WriteRace, Caught
<1>2. RacesReal <=> RealAll BY DEF RacesReal, RealAll, RealRace
<1> QED BY <1>1, <1>2 DEF RacesExact

LEMMA RaceInvIs ==
  RaceIInv <=> /\ HbInv /\ HistoryInv /\ RacesTyped /\ (~ stopped => DetectorOk)
               /\ CaughtAll /\ RealAll
BY RacesExactIs DEF RaceIInv, DetectorOk

LEMMA RaceInvNext ==
  ASSUME HbInv', HistoryInv', RacesTyped', ~ stopped' => DetectorOk', CaughtAll', RealAll'
  PROVE  RaceIInv'
<1>1. WriteRaceCaught' BY DEF WriteRaceCaught, CaughtAll, CaughtOn, WriteRace, Caught
<1>2. RacesReal' BY DEF RacesReal, RealAll, RealRace
<1> QED BY <1>1, <1>2 DEF RaceIInv, DetectorOk, RacesExact

\* Reading a task, and standing still.
LEMMA RaceKept ==
  ASSUME HbInv', HistoryInv', RacesTyped, ~ stopped => DetectorOk, CaughtAll, RealAll,
         stopped => stopped',
         UNCHANGED <<file, log, lastAccess, raceAddresses, allocSize, races>>
  PROVE  RacesTyped' /\ (~ stopped' => DetectorOk') /\ CaughtAll' /\ RealAll'
<1>1. \A b, k : /\ (Accesses(k, b)' <=> Accesses(k, b)) /\ (FreesByte(k, b)' <=> FreesByte(k, b))
               /\ (Touches(k, b)' <=> Touches(k, b))
  BY DEF Accesses, FreesByte, Touches
<1>2. \A b, i, j : SameBlock(i, j, b)' <=> SameBlock(i, j, b) BY <1>1 DEF SameBlock
<1>3. \A b : FreedByOthers(b)' <=> FreedByOthers(b) BY <1>1, <1>2 DEF FreedByOthers
<1>4. \A b, k : Alive(k, b)' <=> Alive(k, b) BY <1>1 DEF Alive
<1>5. \A b, k : LiveAccess(k, b)' <=> LiveAccess(k, b) BY <1>1, <1>4 DEF LiveAccess
<1>6. (\A x, y : Unordered(x, y)' <=> Unordered(x, y)) /\ (\A x : Id(x)' = Id(x))
  BY UnorderedKept
<1>7. RacesTyped' BY DEF RacesTyped
<1>8. DetectorOk => DetectorOk'
  <2>1. \A b : AllocatedNow(b)' = AllocatedNow(b) BY DEF AllocatedNow, SizeOf, AllocationMarks
  <2>2. SizesExact => SizesExact' BY <2>1 DEF SizesExact
  <2>3. \A b, i : LastAt(i, b)' <=> LastAt(i, b) BY <1>5 DEF LastAt, Id, Tasks
  <2>4. \A b : LastOk(b)' <=> LastOk(b) BY <1>5, <2>3 DEF LastOk
  <2>5. \A b : NotedOk(b)' <=> NotedOk(b) BY <1>4 DEF NotedOk
  <2> QED BY <1>3, <2>2, <2>4, <2>5 DEF DetectorOk
<1>9. CaughtAll'
  <2>1. \A b, j : Caught(j, b)' <=> Caught(j, b) BY <1>2 DEF Caught
  <2>2. \A b, i, j : WriteRace(i, j, b)' <=> WriteRace(i, j, b)
    BY <1>1, <1>2 DEF WriteRace, Unordered, Before, Tasks
  <2>3. \A b : CaughtOn(b)' <=> CaughtOn(b) BY <2>1, <2>2 DEF CaughtOn
  <2> QED BY <1>3, <2>3 DEF CaughtAll
<1>10. RealAll'
  <2>1. \A r : RealRace(r)' <=> RealRace(r)
    BY <1>1, <1>2 DEF RealRace, Unordered, Before, Id, Tasks
  <2> QED BY <1>3, <2>1 DEF RealAll
<1> QED BY <1>7, <1>8, <1>9, <1>10

\* An operation after the loop has been left.
LEMMA RaceStopped ==
  ASSUME NEW n, NEW e, Appended(n, e), RacesTyped, CaughtAll, RealAll, ~ e.roi, races' = races
  PROVE  RacesTyped' /\ CaughtAll' /\ RealAll'
<1>0. n \in Nat /\ DOMAIN log = 1 .. n /\ (DOMAIN log)' = 1 .. (n + 1) BY DEF Appended
<1>1. PICK g : g = n + 1 OBVIOUS
<1>2. \A k : k \in (DOMAIN log)' <=> k \in 1 .. n \/ k = g BY <1>0, <1>1
<1>3. RacesTyped' BY <1>0, <1>2 DEF RacesTyped
<1>4. \A b : FreedByOthers(b)' => FreedByOthers(b)
  <2> SUFFICES ASSUME NEW b, FreedByOthers(b)' PROVE FreedByOthers(b) OBVIOUS
  <2> QED BY <1>1, FreedNext
<1>5. ASSUME NEW b \in Byte, FreedByOthers(b)', NEW i \in (DOMAIN log)', NEW j \in (DOMAIN log)',
             WriteRace(i, j, b)'
      PROVE  Caught(j, b)'
  <2>1. i < j /\ log'[j].roi BY <1>5 DEF WriteRace
  <2>2. log'[g] = e BY <1>1 DEF Appended
  <2>3. j # g BY <2>1, <2>2
  <2>4. i \in 1 .. n /\ j \in 1 .. n BY <2>1, <2>3, <1>0, <1>1, <1>2
  <2>5. CaughtOn(b) BY <1>4, <1>5 DEF CaughtAll
  <2>6. races \in SUBSET races' OBVIOUS
  <2> QED BY <1>5, <2>4, <2>5, <2>6, CaughtKept
<1>6. CaughtAll' BY <1>5 DEF CaughtAll, CaughtOn
<1>7. RealAll'
  <2>1. ASSUME NEW r \in races, FreedByOthers(r.byte)' PROVE RealRace(r)'
    <3>1. PICK b : b = r.byte OBVIOUS
    <3>2. FreedByOthers(b) BY <2>1, <3>1, <1>4
    <3>3. RealRace(r) BY <3>1, <3>2 DEF RealAll
    <3>4. r.at \in 1 .. n BY <1>0 DEF RacesTyped
    <3> QED BY <3>3, <3>4, RealKept
  <2> QED BY <2>1 DEF RealAll
<1> QED BY <1>3, <1>6, <1>7

\* An operation that the detector takes.
LEMMA RaceTaken ==
  ASSUME NEW N, NEW n, NEW e, NEW g, NEW tid, Taken(N, n, e, g, tid), RacesTyped, DetectorOk,
         SizesExact', CaughtAll, RealAll, Answers(e.task), e.roi => inROI,
         \A k, m \in 1 .. n : k <= m => log[k].task <= log[m].task,
         \A k, m \in 1 .. n : k <= m /\ log[k].roi => log[m].roi
  PROVE  RacesTyped' /\ DetectorOk' /\ CaughtAll' /\ RealAll'
<1>0. /\ Appended(n, e) /\ g = n + 1 /\ n \in Nat /\ DOMAIN log = 1 .. n
      /\ (DOMAIN log)' = 1 .. (n + 1)
  BY DEF Taken, Appended
<1>1. races' = races \cup {[from |-> lastAccess[x].tid, to |-> tid, byte |-> x, at |-> g] :
                          x \in {y \in Byte : Covered(e, y) /\ IsRace(y, tid, e.type)}}
  BY DEF Taken, RaceStep
<1>2. \A k : k \in (DOMAIN log)' <=> k \in 1 .. n \/ k = g BY <1>0
<1>3. ASSUME NEW r \in races', r \notin races
      PROVE  \E b \in Byte :
               /\ Covered(e, b) /\ IsRace(b, tid, e.type)
               /\ r = [from |-> lastAccess[b].tid, to |-> tid, byte |-> b, at |-> g]
  BY <1>1, <1>3
<1>4. RacesTyped'
  <2>1. ASSUME NEW r \in races' PROVE r.at \in (DOMAIN log)' /\ r.byte \in Byte
    <3>1. CASE r \in races BY <3>1, <1>0, <1>2 DEF RacesTyped
    <3>2. CASE r \notin races
      <4>1. r.at = g /\ r.byte \in Byte BY <3>2, <1>3
      <4> QED BY <4>1, <1>2
    <3> QED BY <3>1, <3>2
  <2> QED BY <2>1 DEF RacesTyped
<1>5. ASSUME NEW b \in Byte, FreedByOthers(b)'
      PROVE  FreedByOthers(b) /\ LastOk(b) /\ NotedOk(b) /\ CaughtOn(b)
  <2>1. FreedByOthers(b) BY <1>0, <1>5, FreedNext
  <2> QED BY <2>1 DEF DetectorOk, CaughtAll
<1>6. DetectorOk'
  <2>1. ASSUME NEW b \in Byte, FreedByOthers(b)' PROVE LastOk(b)' /\ NotedOk(b)'
    <3>1. LastOk(b) /\ NotedOk(b) BY <2>1, <1>5
    <3>2. LastOk(b)' BY <2>1, <3>1, LastNext
    <3>3. NotedOk(b)' BY <2>1, <3>1, NotedNext
    <3> QED BY <3>2, <3>3
  <2> QED BY <2>1 DEF DetectorOk
<1>7. CaughtAll'
  <2>1. ASSUME NEW b \in Byte, FreedByOthers(b)', NEW i \in (DOMAIN log)', NEW j \in (DOMAIN log)',
               WriteRace(i, j, b)'
        PROVE  Caught(j, b)'
    <3>1. LastOk(b) /\ NotedOk(b) /\ CaughtOn(b) BY <2>1, <1>5
    <3>2. i < j BY <2>1 DEF WriteRace
    <3>3. i \in 1 .. n BY <3>2, <1>0, <1>2
    <3>4. CASE j \in 1 .. n
      <4>1. races \in SUBSET races' BY <1>1
      <4> QED BY <4>1, <3>1, <3>3, <3>4, <2>1, <1>0, CaughtKept
    <3>5. CASE j = g
      <4>1. WriteRace(i, g, b)' BY <2>1, <3>5
      <4>2. Caught(g, b)' BY <4>1, <3>1, <3>3, CaughtNew
      <4> QED BY <4>2, <3>5
    <3> QED BY <3>4, <3>5, <1>2
  <2> QED BY <2>1 DEF CaughtAll, CaughtOn
<1>8. RealAll'
  <2>1. ASSUME NEW r \in races', FreedByOthers(r.byte)' PROVE RealRace(r)'
    <3>1. CASE r \in races
      <4>1. PICK b : b = r.byte OBVIOUS
      <4>2. FreedByOthers(b)' BY <2>1, <4>1
      <4>3. FreedByOthers(b) BY <4>2, <1>0, FreedNext
      <4>4. RealRace(r) BY <3>1, <4>1, <4>3 DEF RealAll
      <4>5. r.at \in 1 .. n BY <3>1, <1>0 DEF RacesTyped
      <4> QED BY <4>4, <4>5, <1>0, RealKept
    <3>2. CASE r \notin races
      <4>1. PICK b \in Byte :
               /\ Covered(e, b) /\ IsRace(b, tid, e.type)
               /\ r = [from |-> lastAccess[b].tid, to |-> tid, byte |-> b, at |-> g]
        BY <3>2, <1>3
      <4>2. FreedByOthers(b)' BY <2>1, <4>1
      <4>3. LastOk(b) BY <4>2, <1>5
      <4> QED BY <4>1, <4>3, RealNew
    <3> QED BY <3>1, <3>2
  <2> QED BY <2>1 DEF RealAll
<1> QED BY <1>4, <1>6, <1>7, <1>8

LEMMA RaceOperation ==
  ASSUME RaceIInv, ContextsOrdered, HbInv', NEW op \in Op, MemoryOp(op)
  PROVE  RaceIInv'
<1>1. /\ HbInv /\ HistoryInv /\ RacesTyped /\ (~ stopped => DetectorOk) /\ CaughtAll /\ RealAll
  BY RaceInvIs
<1>2. PICK n \in Nat, e \in LogEntry :
        /\ Appended(n, e) /\ (log \in Seq(LogEntry))'
        /\ e.type = op.type /\ e.addr = op.addr /\ e.task = current
        /\ e.size = IF op.type = "free" THEN AllocatedNow(op.addr) ELSE op.size
        /\ e.roi <=> inROI /\ ~ stopped
  BY <1>1, OperationLogged
<1>3. PICK g : g = n + 1 OBVIOUS
<1>4. op \in Operation BY BackEndsAssumption
<1>5. /\ e.type \in {"read", "write", "malloc", "free"} /\ e.addr \in Byte /\ e.size \in Nat
  BY DEF LogEntry
<1>6. current # 0 /\ current' = current /\ DOMAIN log = 1 .. n
  BY <1>2 DEF MemoryOp, fileVars, Appended
<1>7. CASE stopped
  <2>1. UNCHANGED raceVars BY <1>7 DEF MemoryOp
  <2>2. UNCHANGED <<inROI, stopped, races>> BY <2>1 DEF raceVars
  <2>3. HistoryInv' BY <1>1, <1>2, <1>6, <2>2, HistoryNext
  <2>4. ~ e.roi BY <1>2, <1>7
  <2>5. RacesTyped' /\ CaughtAll' /\ RealAll' BY <1>1, <1>2, <2>2, <2>4, RaceStopped
  <2>6. stopped' BY <1>7, <2>2
  <2> QED BY <2>3, <2>5, <2>6, RaceInvNext
<1>8. CASE ~ stopped
  <2>1. RaceOp(Id(current), op, Len(log) + 1) BY <1>8 DEF MemoryOp
  <2>2. Len(log) + 1 = g
    <3>1. PICK l : l = log OBVIOUS
    <3>2. l \in Seq(LogEntry) /\ DOMAIN l = 1 .. n BY <3>1, <1>1, <1>6 DEF HistoryInv
    <3>3. Len(l) = n BY ONLY <3>2, n \in Nat
    <3> QED BY <3>1, <3>3, <1>3
  <2>3. PICK tid, N : tid = Id(current) /\ N = Len(Tasks) OBVIOUS
  <2>4. SizesExact /\ DetectorOk BY <1>1, <1>8 DEF DetectorOk
  <2>5. e.size = IF op.type = "free" THEN allocSize[op.addr] ELSE op.size
    BY <1>2, <1>4, <2>4 DEF SizesExact, Operation
  <2>6. RaceOp(tid, op, g) BY <2>1, <2>2, <2>3
  <2>7. /\ RaceStep(e, tid, g)
        /\ allocSize' = IF e.type = "malloc" THEN [allocSize EXCEPT ![e.addr] = e.size]
                        ELSE IF e.type = "free" THEN [allocSize EXCEPT ![e.addr] = 0]
                        ELSE allocSize
        /\ UNCHANGED <<inROI, stopped>>
    BY <1>2, <1>4, <2>5, <2>6, RaceOpSteps
  <2>8. GraphOf(Tasks, N) /\ N \in Nat BY <1>1, <2>3, FileIsGraph DEF HbInv, GraphOf
  <2>9. current \in 1 .. N BY <1>1, <1>6, <2>3, <2>8 DEF HbInv
  <2>10. \A k \in 1 .. n : log[k].task \in 1 .. e.task BY <1>1, <1>2, <1>6 DEF HistoryInv
  <2>11. Taken(N, n, e, g, tid)
    BY <1>2, <1>3, <1>5, <2>3, <2>7, <2>8, <2>9, <2>10 DEF Taken
  <2>12. SizesExact' BY <1>2, <1>5, <2>4, <2>7, SizesNext
  <2>13. Answers(e.task)
    <3>1. HbExact BY <1>1, HbInvExact
    <3>2. Answers(current) BY <3>1, <1>6, <1>8 DEF HbExact, Answers
    <3> QED BY <3>2, <1>2
  <2>14. /\ \A k, m \in 1 .. n : k <= m => log[k].task <= log[m].task
         /\ \A k, m \in 1 .. n : k <= m /\ log[k].roi => log[m].roi
    BY <1>1, <1>6, <1>8 DEF HistoryInv
  <2>15. e.roi => inROI BY <1>2
  <2>16. RacesTyped' /\ DetectorOk' /\ CaughtAll' /\ RealAll'
    BY <1>1, <2>4, <2>11, <2>12, <2>13, <2>14, <2>15, RaceTaken
  <2>17. HistoryInv' BY <1>1, <1>2, <1>6, <2>7, HistoryNext
  <2> QED BY <2>16, <2>17, RaceInvNext
<1> QED BY <1>7, <1>8

LEMMA RaceInvInit ==
  ASSUME ContextsOrdered, BackEndsInit
  PROVE  RaceIInv
<1>1. /\ file \in Files /\ log = <<>> /\ lastAccess = [b \in Byte |-> NoAccess]
      /\ raceAddresses = {} /\ races = {} /\ allocSize = [b \in Byte |-> 0]
  BY DEF BackEndsInit, TaskGraphInit, RaceInit
<1>2. HbInv BY HbInvInit
<1>3. DOMAIN log = {} /\ log \in Seq(LogEntry) BY <1>1
<1>4. HistoryInv /\ RacesTyped BY <1>1, <1>3 DEF HistoryInv, RacesTyped
<1>5. SizesExact
  <2>1. \A b : AllocatedNow(b) = 0 BY <1>3 DEF AllocatedNow, SizeOf, AllocationMarks
  <2> QED BY <2>1, <1>1 DEF SizesExact
<1>6. \A b \in Byte : LastOk(b) /\ NotedOk(b)
  BY <1>1, <1>3 DEF LastOk, NotedOk, NoAccess
<1>7. CaughtAll /\ RealAll BY <1>1, <1>3 DEF CaughtAll, CaughtOn, RealAll
<1> QED BY <1>2, <1>4, <1>5, <1>6, <1>7, RaceInvIs DEF DetectorOk

LEMMA RaceInvStep ==
  ASSUME RaceIInv, ContextsOrdered, [BackEndsNext]_backEndsVars
  PROVE  RaceIInv'
<1>1. /\ HbInv /\ HistoryInv /\ RacesTyped /\ (~ stopped => DetectorOk) /\ CaughtAll /\ RealAll
  BY RaceInvIs
<1>2. HbInv' BY <1>1, HbInvNext
<1>3. CASE ReadTask
  <2>1. /\ UNCHANGED <<file, log, lastAccess, raceAddresses, allocSize, races>>
        /\ (stopped => stopped') /\ (inROI => inROI') /\ current' = nextTask + 1
    BY <1>3 DEF ReadTask, GetNextTask, RaceTask, raceVars
  <2>2. current' >= current /\ current \in Nat /\ current' \in Nat
    <3>1. Len(Tasks) \in Nat BY <1>1, FileIsGraph DEF HbInv, GraphOf
    <3> QED BY <3>1, <2>1, <1>1 DEF HbInv
  <2>3. HistoryInv'
    <3>1. \A x \in 1 .. current : x \in 1 .. current' BY <2>2
    <3> QED BY <3>1, <2>1, <1>1 DEF HistoryInv
  <2> QED BY <1>1, <1>2, <2>1, <2>3, RaceKept, RaceInvNext
<1>4. CASE \E op \in Op : MemoryOp(op) BY <1>2, <1>4, RaceOperation
<1>5. CASE UNCHANGED backEndsVars
  <2>1. UNCHANGED <<file, log, lastAccess, raceAddresses, allocSize, races, stopped, inROI, current>>
    BY <1>5 DEF backEndsVars, raceVars, fileVars
  <2>2. HistoryInv' BY <2>1, <1>1 DEF HistoryInv
  <2> QED BY <1>1, <1>2, <2>1, <2>2, RaceKept, RaceInvNext
<1> QED BY <1>3, <1>4, <1>5 DEF BackEndsNext

\* Of the accesses of a byte that only others free, what hel_tech reports are races, and no
\* write is passed over with a later access in a task no path connects, both in the region
\* of interest, without some race of the block having been reported, whatever the graph, the
\* bytes and the operations (heltech.cpp:210, 228, 265).
THEOREM RacesReported ==
  ContextsOrdered => (BackEndsSpec => []RacesExact)
<1> SUFFICES ASSUME ContextsOrdered PROVE BackEndsSpec => []RacesExact OBVIOUS
<1>1. BackEndsInit => RaceIInv BY RaceInvInit
<1>2. RaceIInv /\ [BackEndsNext]_backEndsVars => RaceIInv' BY RaceInvStep
<1>3. RaceIInv => RacesExact BY DEF RaceIInv
<1> QED BY <1>1, <1>2, <1>3, PTL DEF BackEndsSpec
==============================================================================
