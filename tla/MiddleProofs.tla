----------------------------- MODULE MiddleProofs -----------------------------
(***************************************************************************)
(* What a program records and the middle layer's reader delivers, for      *)
(* every set of programs.                                                  *)
(*                                                                         *)
(* First the reader: whatever well-formed trace it reads, its steps keep   *)
(* the invariant of EventList and are steps of TraceOrder or none.  Then   *)
(* the recorder: whatever a program does, the trace that is recorded of it *)
(* is well formed.  Then both together, for Middle.  At the end the        *)
(* tickets of locks, for programs that give back the locks they have.      *)
(***************************************************************************)
EXTENDS Middle, SequenceTheorems, WellFoundedInduction, TLAPS

-------------------------------------------------------------------------------
(* A map of queues of events: q holds events up to the n-th of the trace tr. *)

InSeq(s, j) == \E i \in 1 .. Len(s) : s[i] = j
InQueue(q, j) == \E c \in DOMAIN q : \E i \in 1 .. Len(q[c]) : q[c][i] = j

QueuesIn(q, n, tr) ==
  /\ DOMAIN q \subseteq Context
  /\ q = [c \in DOMAIN q |-> q[c]]
  /\ \A c \in DOMAIN q : q[c] \in Seq(1 .. n)
  /\ \A c \in DOMAIN q : \A i \in 1 .. Len(q[c]) :
       /\ tr[q[c][i]].ctx = c
       /\ \A j \in 1 .. Len(q[c]) : i < j => q[c][i] < q[c][j]

EventsOf(s, c, tr) ==
  \A i \in 1 .. Len(s) : /\ tr[s[i]].ctx = c
                         /\ \A j \in 1 .. Len(s) : i < j => s[i] < s[j]

\* What a map of queues holds, ...
LEMMA HeldMembers ==
  ASSUME NEW n, NEW tr, NEW q, QueuesIn(q, n, tr)
  PROVE  \A j : j \in Held(q) <=> InQueue(q, j)
<1>1. \A c \in DOMAIN q : DOMAIN q[c] = 1 .. Len(q[c])
  BY LenProperties DEF QueuesIn
<1> QED BY <1>1 DEF Held, InQueue

\* ... is events up to the n-th, and of the context whose queue it is in.
LEMMA QueueMembers ==
  ASSUME NEW n, NEW tr, NEW q, QueuesIn(q, n, tr), NEW j, InQueue(q, j)
  PROVE  /\ j \in 1 .. n
         /\ tr[j].ctx \in DOMAIN q
         /\ \E i \in 1 .. Len(q[tr[j].ctx]) : q[tr[j].ctx][i] = j
<1>1. PICK c \in DOMAIN q : \E i \in 1 .. Len(q[c]) : q[c][i] = j BY DEF InQueue
<1>2. PICK i \in 1 .. Len(q[c]) : q[c][i] = j BY <1>1
<1>3. q[c] \in Seq(1 .. n) BY DEF QueuesIn
<1>4. q[c][i] \in 1 .. n BY <1>2, <1>3, ElementOfSeq
<1>5. tr[j].ctx = c BY <1>2 DEF QueuesIn
<1> QED BY <1>1, <1>2, <1>4, <1>5

Popped(q, c, r, h) ==
  /\ c \in DOMAIN q /\ q[c] # <<>>
  /\ r = [q EXCEPT ![c] = Tail(@)] /\ h = Head(q[c])

\* Taking the head of a queue: it is the first event of its context that is held, ...
LEMMA PopIn ==
  ASSUME NEW n \in Nat, NEW tr, NEW q, QueuesIn(q, n, tr),
         NEW c, NEW r, NEW h, Popped(q, c, r, h)
  PROVE  /\ QueuesIn(r, n, tr) /\ DOMAIN r = DOMAIN q
         /\ InQueue(q, h) /\ tr[h].ctx = c
         /\ \A j : InQueue(r, j) <=> InQueue(q, j) /\ j # h
         /\ \A j : InQueue(q, j) /\ tr[j].ctx = c => h <= j
<1>0. /\ c \in DOMAIN q /\ q[c] # <<>> /\ r = [q EXCEPT ![c] = Tail(@)] /\ h = Head(q[c])
  BY DEF Popped
<1>1. q[c] \in Seq(1 .. n) /\ Len(q[c]) \in Nat /\ Len(q[c]) >= 1
  BY <1>0, EmptySeq, LenProperties DEF QueuesIn
<1>2. PICK s \in Seq(1 .. n) : s = q[c] BY <1>1
<1>3. PICK x : x = Head(s) /\ x = h BY <1>0, <1>2
<1>4. PICK t \in Seq(1 .. n) : t = Tail(s) BY <1>0, <1>1, <1>2, HeadTailProperties
<1>5. /\ Len(s) \in Nat /\ Len(s) >= 1 /\ Len(t) \in Nat /\ Len(s) = Len(t) + 1 /\ x = s[1]
      /\ \A i \in 1 .. Len(t) : t[i] = s[i + 1]
  BY <1>1, <1>2, <1>3, <1>4, HeadTailProperties
<1>6. /\ DOMAIN r = DOMAIN q /\ r[c] = t /\ \A d \in DOMAIN q \ {c} : r[d] = q[d]
      /\ r = [d \in DOMAIN r |-> r[d]]
  BY <1>0, <1>2, <1>4 DEF QueuesIn
<1>7. \A i \in 1 .. Len(s) : /\ tr[s[i]].ctx = c
                             /\ s[i] \in 1 .. n
                             /\ \A j \in 1 .. Len(s) : i < j => s[i] < s[j]
  <2>1. \A i \in 1 .. Len(s) : s[i] \in 1 .. n BY <1>2, ElementOfSeq
  <2> QED BY <1>0, <1>2, <2>1 DEF QueuesIn
<1>8. InQueue(q, x) /\ tr[x].ctx = c
  <2>1. 1 \in 1 .. Len(s) BY <1>5
  <2>2. InQueue(q, x) BY <1>0, <1>2, <1>5, <2>1 DEF InQueue
  <2> QED BY <1>5, <1>7, <2>1, <2>2
<1>9. QueuesIn(r, n, tr)
  <2>1. ASSUME NEW d \in DOMAIN r
        PROVE  /\ r[d] \in Seq(1 .. n)
               /\ \A i \in 1 .. Len(r[d]) :
                    /\ tr[r[d][i]].ctx = d
                    /\ \A j \in 1 .. Len(r[d]) : i < j => r[d][i] < r[d][j]
    <3>1. CASE d # c BY <1>6, <3>1 DEF QueuesIn
    <3>2. CASE d = c
      <4>1. \A i \in 1 .. Len(t) : i + 1 \in 1 .. Len(s) BY <1>5
      <4>2. ASSUME NEW i \in 1 .. Len(t)
            PROVE  tr[t[i]].ctx = c /\ \A j \in 1 .. Len(t) : i < j => t[i] < t[j]
        <5>1. tr[t[i]].ctx = c BY <1>5, <1>7, <4>1
        <5>2. ASSUME NEW j \in 1 .. Len(t), i < j PROVE t[i] < t[j]
          <6>1. i + 1 < j + 1 BY <5>2
          <6>2. s[i + 1] < s[j + 1] BY <1>7, <4>1, <6>1
          <6> QED BY <1>5, <6>2
        <5> QED BY <5>1, <5>2
      <4> QED BY <1>6, <3>2, <4>2
    <3> QED BY <3>1, <3>2
  <2> QED BY <1>6, <2>1 DEF QueuesIn
<1>10. ASSUME NEW j PROVE InQueue(r, j) <=> InQueue(q, j) /\ j # x
  <2>1. ASSUME InQueue(r, j) PROVE InQueue(q, j) /\ j # x
    <3>1. PICK d \in DOMAIN q : \E i \in 1 .. Len(r[d]) : r[d][i] = j BY <1>6, <2>1 DEF InQueue
    <3>2. CASE d # c
      <4>1. PICK i \in 1 .. Len(q[d]) : q[d][i] = j BY <1>6, <3>1, <3>2
      <4>2. tr[j].ctx = d BY <4>1 DEF QueuesIn
      <4> QED BY <1>8, <3>2, <4>1, <4>2 DEF InQueue
    <3>3. CASE d = c
      <4>1. PICK i \in 1 .. Len(t) : t[i] = j BY <1>6, <3>1, <3>3
      <4>2. i + 1 \in 1 .. Len(s) /\ 1 \in 1 .. Len(s) /\ 1 < i + 1 /\ s[i + 1] = j BY <1>5, <4>1
      <4>3. x < j BY <1>5, <1>7, <4>2
      <4>4. x \in 1 .. n BY <1>5, <1>7, <4>2
      <4>5. j # x BY <4>3, <4>4
      <4> QED BY <1>0, <1>2, <4>2, <4>5 DEF InQueue
    <3> QED BY <3>2, <3>3
  <2>2. ASSUME InQueue(q, j), j # x PROVE InQueue(r, j)
    <3>1. PICK d \in DOMAIN q : \E i \in 1 .. Len(q[d]) : q[d][i] = j BY <2>2 DEF InQueue
    <3>2. CASE d # c BY <1>0, <1>6, <3>1, <3>2 DEF InQueue
    <3>3. CASE d = c
      <4>1. PICK i \in 1 .. Len(s) : s[i] = j BY <1>2, <3>1, <3>3
      <4>2. i # 1 BY <1>5, <2>2, <4>1
      <4>3. PICK k \in 1 .. Len(t) : k + 1 = i
        <5>1. i - 1 \in 1 .. Len(t) /\ (i - 1) + 1 = i BY <1>5, <4>1, <4>2
        <5> QED BY <5>1
      <4>4. t[k] = j BY <1>5, <4>1, <4>3
      <4> QED BY <1>0, <1>6, <4>3, <4>4 DEF InQueue
    <3> QED BY <3>2, <3>3
  <2> QED BY <2>1, <2>2
<1>11. ASSUME NEW j, InQueue(q, j), tr[j].ctx = c PROVE x <= j
  <2>1. PICK i \in 1 .. Len(s) : s[i] = j
    <3>1. PICK d \in DOMAIN q : \E i \in 1 .. Len(q[d]) : q[d][i] = j BY <1>11 DEF InQueue
    <3>2. d = c BY <1>11, <3>1 DEF QueuesIn
    <3> QED BY <1>2, <3>1, <3>2
  <2>2. CASE i = 1 BY <1>5, <1>7, <2>1, <2>2
  <2>3. CASE i # 1
    <3>1. 1 \in 1 .. Len(s) /\ 1 < i BY <1>5, <2>3
    <3>2. s[1] < s[i] /\ s[1] \in 1 .. n /\ s[i] \in 1 .. n BY <1>7, <3>1
    <3> QED BY <1>5, <2>1, <3>2
  <2> QED BY <2>2, <2>3
<1> QED BY <1>2, <1>3, <1>6, <1>8, <1>9, <1>10, <1>11

\* ... reading one more event leaves what is held as it is, ...
LEMMA GrowIn ==
  ASSUME NEW n \in Nat, NEW tr, NEW q, QueuesIn(q, n, tr)
  PROVE  QueuesIn(q, n + 1, tr)
<1>1. ASSUME NEW c \in DOMAIN q PROVE q[c] \in Seq(1 .. n + 1)
  <2>1. q[c] \in Seq(1 .. n) BY DEF QueuesIn
  <2>2. 1 .. n \subseteq 1 .. n + 1 OBVIOUS
  <2> QED BY <2>1, <2>2, SeqMonotonic
<1> QED BY <1>1 DEF QueuesIn

\* ... a queue may be put in, in the place of another one, ...
LEMMA WithIn ==
  ASSUME NEW n, NEW tr, NEW q, QueuesIn(q, n, tr), NEW c \in Context,
         NEW s \in Seq(1 .. n),
         EventsOf(s, c, tr)
  PROVE  /\ QueuesIn(With(q, c, s), n, tr)
         /\ DOMAIN With(q, c, s) = DOMAIN q \cup {c} /\ With(q, c, s)[c] = s
         /\ \A d \in DOMAIN q \ {c} : With(q, c, s)[d] = q[d]
<1>0. PICK r : r = With(q, c, s) OBVIOUS
<1>1. /\ DOMAIN r = DOMAIN q \cup {c} /\ r[c] = s /\ \A d \in DOMAIN q \ {c} : r[d] = q[d]
      /\ r = [d \in DOMAIN r |-> r[d]]
  BY <1>0 DEF With
<1>2. QueuesIn(r, n, tr)
  <2>1. ASSUME NEW d \in DOMAIN r
        PROVE  /\ r[d] \in Seq(1 .. n)
               /\ \A i \in 1 .. Len(r[d]) :
                    /\ tr[r[d][i]].ctx = d
                    /\ \A j \in 1 .. Len(r[d]) : i < j => r[d][i] < r[d][j]
    <3>1. CASE d # c BY <1>1, <3>1 DEF QueuesIn
    <3>2. CASE d = c BY <1>1, <3>2 DEF EventsOf
    <3> QED BY <3>1, <3>2
  <2> QED BY <1>1, <2>1 DEF QueuesIn
<1> QED BY <1>0, <1>1, <1>2

\* ... so that its events are held, ...
LEMMA WithMembers ==
  ASSUME NEW n, NEW tr, NEW q, QueuesIn(q, n, tr), NEW c \in Context,
         NEW s \in Seq(1 .. n), EventsOf(s, c, tr), NEW j
  PROVE  InQueue(With(q, c, s), j) <=> (InQueue(q, j) /\ tr[j].ctx # c) \/ InSeq(s, j)
<1>1. PICK r : r = With(q, c, s) OBVIOUS
<1>2. /\ DOMAIN r = DOMAIN q \cup {c} /\ r[c] = s /\ \A d \in DOMAIN q \ {c} : r[d] = q[d]
  BY <1>1 DEF With
<1>3. ASSUME InQueue(r, j), ~InSeq(s, j) PROVE InQueue(q, j) /\ tr[j].ctx # c
  <2>1. PICK d \in DOMAIN r : \E i \in 1 .. Len(r[d]) : r[d][i] = j BY <1>3 DEF InQueue
  <2>2. CASE d # c
    <3>1. d \in DOMAIN q /\ \E i \in 1 .. Len(q[d]) : q[d][i] = j BY <1>2, <2>1, <2>2
    <3>2. tr[j].ctx = d BY <3>1 DEF QueuesIn
    <3> QED BY <2>2, <3>1, <3>2 DEF InQueue
  <2>3. CASE d = c BY <1>2, <1>3, <2>1, <2>3 DEF InSeq
  <2> QED BY <2>2, <2>3
<1>4. ASSUME InQueue(q, j), tr[j].ctx # c PROVE InQueue(r, j)
  <2>1. PICK d \in DOMAIN q : \E i \in 1 .. Len(q[d]) : q[d][i] = j BY <1>4 DEF InQueue
  <2>2. d # c BY <1>4, <2>1 DEF QueuesIn
  <2> QED BY <1>2, <2>1, <2>2 DEF InQueue
<1>5. ASSUME InSeq(s, j) PROVE InQueue(r, j) BY <1>2, <1>5 DEF InQueue, InSeq
<1> QED BY <1>1, <1>3, <1>4, <1>5

Pushed(q, n, tr, r) ==
  LET c == tr[n + 1].ctx
  IN  r = With(q, c, Append(IF c \in DOMAIN q THEN q[c] ELSE <<>>, n + 1))

\* ... the next event may go behind those of its context, in a queue that is there or a new one, ...
LEMMA PushIn ==
  ASSUME NEW n \in Nat, NEW tr, NEW q, QueuesIn(q, n, tr), tr[n + 1].ctx \in Context,
         NEW r, Pushed(q, n, tr, r)
  PROVE  /\ QueuesIn(r, n + 1, tr)
         /\ \A j : InQueue(r, j) <=> InQueue(q, j) \/ j = n + 1
<1> PICK m : m = n + 1 OBVIOUS
<1> PICK c \in Context : c = tr[m].ctx OBVIOUS
<1>0. m = n + 1 /\ c = tr[m].ctx OBVIOUS
<1>1. PICK s \in Seq(1 .. n) : s = IF c \in DOMAIN q THEN q[c] ELSE <<>>
  BY EmptySeq DEF QueuesIn
<1>2. PICK t : t = Append(s, m) OBVIOUS
<1>3. s \in Seq(1 .. m) /\ m \in 1 .. m
  <2>1. 1 .. n \subseteq 1 .. m BY <1>0
  <2> QED BY <1>0, <2>1, SeqMonotonic
<1>4. /\ t \in Seq(1 .. m) /\ Len(s) \in Nat /\ Len(t) = Len(s) + 1
      /\ t[Len(s) + 1] = m /\ \A i \in 1 .. Len(s) : t[i] = s[i] /\ s[i] \in 1 .. n
  <2>1. t \in Seq(1 .. m) /\ Len(t) = Len(s) + 1 BY <1>2, <1>3, AppendProperties
  <2>2. Len(s) \in Nat /\ \A i \in 1 .. Len(s) : s[i] \in 1 .. n BY LenProperties, ElementOfSeq
  <2>3. t[Len(s) + 1] = m /\ \A i \in 1 .. Len(s) : t[i] = s[i]
    BY <1>2, <1>3, AppendProperties
  <2> QED BY <2>1, <2>2, <2>3
<1>5. \A i \in 1 .. Len(s) : /\ tr[s[i]].ctx = c
                             /\ \A j \in 1 .. Len(s) : i < j => s[i] < s[j]
  <2>1. CASE c \in DOMAIN q BY <1>1, <2>1 DEF QueuesIn
  <2>2. CASE c \notin DOMAIN q
    <3>1. Len(s) = 0 BY <1>1, <2>2
    <3> QED BY <3>1
  <2> QED BY <2>1, <2>2
<1>6. ASSUME NEW i \in 1 .. Len(t)
      PROVE  tr[t[i]].ctx = c /\ \A j \in 1 .. Len(t) : i < j => t[i] < t[j]
  <2>1. CASE i = Len(s) + 1 BY <1>0, <1>4, <2>1
  <2>2. CASE i # Len(s) + 1
    <3>1. i \in 1 .. Len(s) BY <1>4, <2>2
    <3>2. t[i] = s[i] /\ t[i] \in 1 .. n BY <1>4, <3>1
    <3>3. ASSUME NEW j \in 1 .. Len(t), i < j PROVE t[i] < t[j]
      <4>1. CASE j = Len(s) + 1 BY <1>0, <1>4, <3>2, <4>1
      <4>2. CASE j # Len(s) + 1
        <5>1. j \in 1 .. Len(s) BY <1>4, <4>2
        <5> QED BY <1>4, <1>5, <3>1, <3>3, <5>1
      <4> QED BY <4>1, <4>2
    <3> QED BY <1>5, <3>1, <3>2, <3>3
  <2> QED BY <2>1, <2>2
<1>7. r = With(q, c, t) BY <1>0, <1>1, <1>2 DEF Pushed
<1>8. QueuesIn(q, m, tr) /\ EventsOf(t, c, tr) BY <1>0, <1>6, GrowIn DEF EventsOf
<1>9. QueuesIn(r, m, tr) BY <1>4, <1>7, <1>8, WithIn
<1>10. ASSUME NEW j PROVE InQueue(r, j) <=> InQueue(q, j) \/ j = m
  <2>1. InQueue(r, j) <=> (InQueue(q, j) /\ tr[j].ctx # c) \/ InSeq(t, j)
    BY <1>4, <1>7, <1>8, WithMembers
  <2>2. InSeq(t, j) <=> InSeq(s, j) \/ j = m
    <3>1. ASSUME NEW i \in 1 .. Len(t), t[i] = j PROVE InSeq(s, j) \/ j = m
      <4>1. i = Len(s) + 1 \/ i \in 1 .. Len(s) BY <1>4
      <4> QED BY <1>4, <3>1, <4>1 DEF InSeq
    <3>2. ASSUME NEW i \in 1 .. Len(s), s[i] = j PROVE InSeq(t, j)
      <4>1. i \in 1 .. Len(t) /\ t[i] = j BY <1>4, <3>2
      <4> QED BY <4>1 DEF InSeq
    <3>3. ASSUME j = m PROVE InSeq(t, j)
      <4>1. Len(s) + 1 \in 1 .. Len(t) /\ t[Len(s) + 1] = j BY <1>4, <3>3
      <4> QED BY <4>1 DEF InSeq
    <3> QED BY <3>1, <3>2, <3>3 DEF InSeq
  <2>3. ASSUME tr[j].ctx = c, InQueue(q, j) PROVE InSeq(s, j)
    <3>1. PICK d \in DOMAIN q : \E i \in 1 .. Len(q[d]) : q[d][i] = j BY <2>3 DEF InQueue
    <3>2. d = c BY <2>3, <3>1 DEF QueuesIn
    <3> QED BY <1>1, <3>1, <3>2 DEF InSeq
  <2>4. ASSUME InSeq(s, j) PROVE InQueue(q, j) /\ tr[j].ctx = c
    <3>1. PICK i \in 1 .. Len(s) : s[i] = j BY <2>4 DEF InSeq
    <3>2. CASE c \notin DOMAIN q
      <4>1. Len(s) = 0 BY <1>1, <3>2
      <4> QED BY <3>1, <4>1
    <3>3. CASE c \in DOMAIN q BY <1>1, <1>5, <3>1, <3>3 DEF InQueue
    <3> QED BY <3>2, <3>3
  <2> QED BY <2>1, <2>2, <2>3, <2>4
<1> QED BY <1>0, <1>9, <1>10

\* ... or taken out.
LEMMA WithoutIn ==
  ASSUME NEW n, NEW tr, NEW q, QueuesIn(q, n, tr), NEW c, NEW j
  PROVE  /\ QueuesIn(Without(q, c), n, tr)
         /\ InQueue(Without(q, c), j) <=> InQueue(q, j) /\ tr[j].ctx # c
<1>1. PICK r : r = Without(q, c) OBVIOUS
<1>2. /\ DOMAIN r = DOMAIN q \ {c} /\ \A d \in DOMAIN r : r[d] = q[d]
      /\ r = [d \in DOMAIN r |-> r[d]]
  BY <1>1 DEF Without
<1>3. QueuesIn(r, n, tr) BY <1>2 DEF QueuesIn
<1>4. ASSUME InQueue(r, j) PROVE InQueue(q, j) /\ tr[j].ctx # c
  <2>1. PICK d \in DOMAIN r : \E i \in 1 .. Len(r[d]) : r[d][i] = j BY <1>4 DEF InQueue
  <2>2. d \in DOMAIN q /\ d # c /\ \E i \in 1 .. Len(q[d]) : q[d][i] = j BY <1>2, <2>1
  <2>3. tr[j].ctx = d BY <2>2 DEF QueuesIn
  <2> QED BY <2>2, <2>3 DEF InQueue
<1>5. ASSUME InQueue(q, j), tr[j].ctx # c PROVE InQueue(r, j)
  <2>1. PICK d \in DOMAIN q : \E i \in 1 .. Len(q[d]) : q[d][i] = j BY <1>5 DEF InQueue
  <2>2. d # c BY <1>5, <2>1 DEF QueuesIn
  <2> QED BY <1>2, <2>1, <2>2 DEF InQueue
<1> QED BY <1>1, <1>3, <1>4, <1>5

-------------------------------------------------------------------------------
(* The iterator over a map of contexts. *)

\* First is the least of the contexts there are.
LEMMA FirstIn ==
  ASSUME NEW S, S \subseteq Context
  PROVE  /\ S = {} => First(S) = End
         /\ S # {} => First(S) \in S /\ First(S) # End
<1>1. S \subseteq Nat BY EventsAssumption
<1>2. ASSUME S # {} PROVE \E c \in S : \A d \in S : c <= d
  <2>1. \E c \in S : \A d \in S : ~(<<d, c>> \in OpToRel(<, Nat))
    BY <1>1, <1>2, NatLessThanWellFounded, WFMin
  <2>2. PICK c \in S : \A d \in S : ~(<<d, c>> \in OpToRel(<, Nat)) BY <2>1
  <2>3. ASSUME NEW d \in S PROVE c <= d
    <3>1. ~(d < c) BY <1>1, <2>2, <2>3 DEF OpToRel
    <3> QED BY <1>1, <3>1
  <2> QED BY <2>3
<1>3. ASSUME S # {} PROVE First(S) \in S
  <2>1. (CHOOSE c \in S : \A d \in S : c <= d) \in S BY <1>2, <1>3, Zenon
  <2> QED BY <1>3, <2>1 DEF First
<1>4. S = {} => First(S) = End BY DEF First
<1> QED BY <1>1, <1>3, <1>4 DEF End

-------------------------------------------------------------------------------
(* The queues of a reader that has read n events of a trace, and what is delivered. *)

DeliveredOf(n, q, w) == {j \in 1 .. n : ~InQueue(q, j) /\ ~InQueue(w, j)}

\* A context that has a queue has recorded something, and waits for nothing.
Queues(tr, n, q, w) ==
  /\ WellFormed(tr)
  /\ n \in 0 .. Len(tr)
  /\ QueuesIn(q, n, tr) /\ QueuesIn(w, n, tr)
  /\ \A c \in DOMAIN q : \E j \in 1 .. n : tr[j].ctx = c
  /\ \A c \in DOMAIN q \cap DOMAIN w : w[c] = <<>>

\* All events of its context before i are delivered.
Earlier(tr, D, i) == \A j \in 1 .. i - 1 : tr[j].ctx = tr[i].ctx => j \in D

CreateOf(tr, j, c) == tr[j].type = "create" /\ tr[j].on = c

\* The creates of the contexts that wait for nothing, and of the queued events that their
\* context was created, are delivered; x is the event that is being handled.
Creations(tr, q, w, D, x) ==
  /\ \A c \in DOMAIN w : w[c] = <<>> => \E j \in D : CreateOf(tr, j, c) /\ j # x
  /\ \A j : InQueue(q, j) /\ tr[j].type = "created" => \E i \in D : CreateOf(tr, i, tr[j].ctx)

\* An event of the trace.
LEMMA EventIn ==
  ASSUME NEW tr, NEW n, NEW q, NEW w, Queues(tr, n, q, w), NEW j \in 1 .. Len(tr)
  PROVE  /\ tr[j].ctx \in Context
         /\ tr[j].n \in Nat
         /\ tr[j].type = "create" => tr[j].on \in Context
<1>1. tr \in Seq(Event) BY DEF Queues, WellFormed
<1>2. tr[j] \in Event /\ DOMAIN tr = 1 .. Len(tr) BY <1>1, ElementOfSeq, LenProperties
<1>3. tr[j].type = "create" => tr[j].on \in Context BY <1>2 DEF Queues, WellFormed
<1> QED BY <1>2, <1>3 DEF Event

\* What well-formedness says of two events.
LEMMA EventsApart ==
  ASSUME NEW tr, NEW n, NEW q, NEW w, Queues(tr, n, q, w),
         NEW i \in 1 .. Len(tr), NEW j \in 1 .. Len(tr), i # j
  PROVE  /\ IsSync(tr[i]) /\ IsSync(tr[j]) => tr[i].n # tr[j].n
         /\ IsBarrier(tr[i]) /\ IsBarrier(tr[j]) => tr[i].n # tr[j].n
         /\ i < j /\ tr[i].ctx = tr[j].ctx => tr[j].type # "created"
         /\ tr[i].type = "create" /\ tr[j].type = "create" => tr[i].on # tr[j].on
<1>1. DOMAIN tr = 1 .. Len(tr) BY LenProperties DEF Queues, WellFormed
<1> QED BY <1>1 DEF Queues, WellFormed

\* The head of a queue is delivered: it is the next of its context.
LEMMA TakenHead ==
  ASSUME NEW tr, NEW n, NEW q, NEW w, Queues(tr, n, q, w),
         NEW c, NEW r, NEW h, Popped(q, c, r, h),
         NEW D, D = DeliveredOf(n, q, w)
  PROVE  /\ Queues(tr, n, r, w)
         /\ DeliveredOf(n, r, w) = D \cup {h}
         /\ h \in 1 .. n /\ h \notin D /\ Earlier(tr, D, h) /\ InQueue(q, h)
         /\ Creations(tr, q, w, D, 0) => Creations(tr, r, w, D \cup {h}, h)
<1>1. n \in Nat /\ QueuesIn(q, n, tr) /\ QueuesIn(w, n, tr) BY DEF Queues
<1>2. /\ QueuesIn(r, n, tr) /\ DOMAIN r = DOMAIN q
      /\ InQueue(q, h) /\ tr[h].ctx = c
      /\ \A j : InQueue(r, j) <=> InQueue(q, j) /\ j # h
      /\ \A j : InQueue(q, j) /\ tr[j].ctx = c => h <= j
  BY <1>1, PopIn
<1>3. h \in 1 .. n BY <1>1, <1>2, QueueMembers
<1>4. Queues(tr, n, r, w) BY <1>2 DEF Queues
<1>5. ASSUME NEW j, InQueue(w, j) PROVE tr[j].ctx # c
  <2>1. /\ tr[j].ctx \in DOMAIN w
        /\ \E i \in 1 .. Len(w[tr[j].ctx]) : w[tr[j].ctx][i] = j
    BY <1>1, <1>5, QueueMembers
  <2>2. w[tr[j].ctx] # <<>>
    <3>1. ASSUME w[tr[j].ctx] = <<>> PROVE FALSE
      <4>1. Len(w[tr[j].ctx]) = 0 BY <3>1
      <4> QED BY <2>1, <4>1
    <3> QED BY <3>1
  <2> QED BY <2>1, <2>2 DEF Queues, Popped
<1>6. ~InQueue(w, h) BY <1>2, <1>5
<1>7. DeliveredOf(n, r, w) = D \cup {h} /\ h \notin D BY <1>2, <1>3, <1>6 DEF DeliveredOf
<1>8. ASSUME NEW j \in 1 .. h - 1, tr[j].ctx = c PROVE j \in D
  <2>1. j \in 1 .. n BY <1>1, <1>3
  <2>2. ~InQueue(q, j) BY <1>2, <1>3, <1>8
  <2>3. ~InQueue(w, j) BY <1>5, <1>8
  <2> QED BY <2>1, <2>2, <2>3 DEF DeliveredOf
<1>9. ASSUME Creations(tr, q, w, D, 0) PROVE Creations(tr, r, w, D \cup {h}, h)
  <2>1. ASSUME NEW d \in DOMAIN w, w[d] = <<>>
        PROVE  \E j \in D \cup {h} : CreateOf(tr, j, d) /\ j # h
    BY <1>7, <1>9, <2>1 DEF Creations
  <2>2. ASSUME NEW j, InQueue(r, j), tr[j].type = "created"
        PROVE  \E i \in D \cup {h} : CreateOf(tr, i, tr[j].ctx)
    BY <1>2, <1>9, <2>2 DEF Creations
  <2> QED BY <2>1, <2>2 DEF Creations
<1> QED BY <1>2, <1>3, <1>4, <1>7, <1>8, <1>9 DEF Earlier

\* An event is read and held, behind those of its context in its queue.
LEMMA ReadHeld ==
  ASSUME NEW tr, NEW n, NEW q, NEW w, Queues(tr, n, q, w), n < Len(tr),
         NEW m, m = n + 1, NEW c, c = tr[m].ctx,
         c \notin DOMAIN q =>
           /\ c \in DOMAIN w => w[c] = <<>>
           /\ tr[m].type # "created",
         NEW r, Pushed(q, n, tr, r),
         NEW D, D = DeliveredOf(n, q, w)
  PROVE  /\ Queues(tr, m, r, w)
         /\ DeliveredOf(m, r, w) = D
         /\ \A x : Creations(tr, q, w, D, x) => Creations(tr, r, w, D, x)
<1>1. n \in Nat /\ Len(tr) \in Nat /\ QueuesIn(q, n, tr) /\ QueuesIn(w, n, tr)
  BY LenProperties DEF Queues, WellFormed
<1>2. c \in Context BY <1>1, EventIn
<1>3. DOMAIN r = DOMAIN q \cup {c} BY DEF Pushed, With
<1>4. QueuesIn(r, m, tr) /\ \A j : InQueue(r, j) <=> InQueue(q, j) \/ j = m
  BY <1>1, <1>2, PushIn
<1>5. QueuesIn(w, m, tr) BY <1>1, GrowIn
<1>6. Queues(tr, m, r, w)
  <2>1. \A d \in DOMAIN r : \E j \in 1 .. m : tr[j].ctx = d BY <1>1, <1>3 DEF Queues
  <2>2. \A d \in DOMAIN r \cap DOMAIN w : w[d] = <<>> BY <1>3 DEF Queues
  <2>3. m \in 0 .. Len(tr) BY <1>1
  <2> QED BY <1>4, <1>5, <2>1, <2>2, <2>3 DEF Queues
<1>7. DeliveredOf(m, r, w) = D
  <2>1. \A j : InQueue(q, j) \/ InQueue(w, j) => j \in 1 .. n BY <1>1, QueueMembers
  <2>2. ASSUME NEW j PROVE j \in DeliveredOf(m, r, w) <=> j \in D
    <3>1. j \in 1 .. m <=> j \in 1 .. n \/ j = m BY <1>1
    <3> QED BY <1>1, <1>4, <2>1, <3>1 DEF DeliveredOf
  <2>3. DeliveredOf(m, r, w) \subseteq 1 .. m /\ D \subseteq 1 .. n BY DEF DeliveredOf
  <2> QED BY <2>2
<1>8. tr[m].type # "created"
  <2>1. ASSUME c \in DOMAIN q PROVE tr[m].type # "created"
    <3>1. PICK j \in 1 .. n : tr[j].ctx = c BY <2>1 DEF Queues
    <3>2. j \in 1 .. Len(tr) /\ m \in 1 .. Len(tr) /\ j < m /\ j # m BY <1>1, <3>1
    <3> QED BY <3>1, <3>2, EventsApart
  <2> QED BY <2>1
<1>9. ASSUME NEW x, Creations(tr, q, w, D, x) PROVE Creations(tr, r, w, D, x)
  <2>1. ASSUME NEW j, InQueue(r, j), tr[j].type = "created"
        PROVE  \E i \in D : CreateOf(tr, i, tr[j].ctx)
    BY <1>4, <1>8, <1>9, <2>1 DEF Creations
  <2> QED BY <1>9, <2>1 DEF Creations
<1> QED BY <1>6, <1>7, <1>9

\* An event is read, and waits with those of its context for the create.
LEMMA ReadWaits ==
  ASSUME NEW tr, NEW n, NEW q, NEW w, Queues(tr, n, q, w), n < Len(tr),
         NEW m, m = n + 1, NEW c, c = tr[m].ctx, c \notin DOMAIN q,
         NEW r, Pushed(w, n, tr, r),
         NEW D, D = DeliveredOf(n, q, w)
  PROVE  /\ Queues(tr, m, q, r)
         /\ DeliveredOf(m, q, r) = D
         /\ \A x : Creations(tr, q, w, D, x) => Creations(tr, q, r, D, x)
<1>1. n \in Nat /\ Len(tr) \in Nat /\ QueuesIn(q, n, tr) /\ QueuesIn(w, n, tr)
  BY LenProperties DEF Queues, WellFormed
<1>2. c \in Context BY <1>1, EventIn
<1>3. DOMAIN r = DOMAIN w \cup {c} /\ \A d \in DOMAIN w \ {c} : r[d] = w[d]
  BY DEF Pushed, With
<1>4. QueuesIn(r, m, tr) /\ \A j : InQueue(r, j) <=> InQueue(w, j) \/ j = m
  BY <1>1, <1>2, PushIn
<1>5. QueuesIn(q, m, tr) BY <1>1, GrowIn
<1>6. Queues(tr, m, q, r)
  <2>1. \A d \in DOMAIN q : \E j \in 1 .. m : tr[j].ctx = d BY <1>1 DEF Queues
  <2>2. \A d \in DOMAIN q \cap DOMAIN r : r[d] = <<>> BY <1>3 DEF Queues
  <2>3. m \in 0 .. Len(tr) BY <1>1
  <2> QED BY <1>4, <1>5, <2>1, <2>2, <2>3 DEF Queues
<1>7. DeliveredOf(m, q, r) = D
  <2>1. \A j : InQueue(q, j) \/ InQueue(w, j) => j \in 1 .. n BY <1>1, QueueMembers
  <2>2. ASSUME NEW j PROVE j \in DeliveredOf(m, q, r) <=> j \in D
    <3>1. j \in 1 .. m <=> j \in 1 .. n \/ j = m BY <1>1
    <3> QED BY <1>1, <1>4, <2>1, <3>1 DEF DeliveredOf
  <2>3. DeliveredOf(m, q, r) \subseteq 1 .. m /\ D \subseteq 1 .. n BY DEF DeliveredOf
  <2> QED BY <2>2
<1>8. r[c] # <<>>
  <2>1. InQueue(r, m) BY <1>4
  <2>2. \E i \in 1 .. Len(r[c]) : r[c][i] = m BY <1>4, <2>1, QueueMembers
  <2>3. ASSUME r[c] = <<>> PROVE FALSE
    <3>1. Len(r[c]) = 0 BY <2>3
    <3> QED BY <2>2, <3>1
  <2> QED BY <2>3
<1>9. ASSUME NEW x, Creations(tr, q, w, D, x) PROVE Creations(tr, q, r, D, x)
  <2>1. ASSUME NEW d \in DOMAIN r, r[d] = <<>> PROVE d \in DOMAIN w /\ w[d] = <<>>
    BY <1>3, <1>8, <2>1
  <2>2. \A d \in DOMAIN r : r[d] = <<>> => r[d] = w[d] BY <1>3, <1>8
  <2> QED BY <1>9, <2>1, <2>2 DEF Creations
<1> QED BY <1>6, <1>7, <1>9

NothingHeld(tr, q, w, i) ==
  /\ tr[i].ctx \notin DOMAIN q
  /\ tr[i].ctx \in DOMAIN w => w[tr[i].ctx] = <<>>

\* An event is read and delivered: nothing of its context is held.
LEMMA ReadDelivered ==
  ASSUME NEW tr, NEW n, NEW q, NEW w, Queues(tr, n, q, w), n < Len(tr),
         NothingHeld(tr, q, w, n + 1),
         NEW D, D = DeliveredOf(n, q, w)
  PROVE  /\ Queues(tr, n + 1, q, w)
         /\ DeliveredOf(n + 1, q, w) = D \cup {n + 1}
         /\ n + 1 \in 1 .. Len(tr) /\ n + 1 \notin D /\ Earlier(tr, D, n + 1)
         /\ Creations(tr, q, w, D, 0) => Creations(tr, q, w, D \cup {n + 1}, n + 1)
<1> PICK m : m = n + 1 OBVIOUS
<1> PICK c : c = tr[m].ctx OBVIOUS
<1>0. m = n + 1 /\ c = tr[m].ctx /\ c \notin DOMAIN q /\ (c \in DOMAIN w => w[c] = <<>>)
  BY DEF NothingHeld
<1>1. n \in Nat /\ Len(tr) \in Nat /\ QueuesIn(q, n, tr) /\ QueuesIn(w, n, tr)
  BY LenProperties DEF Queues, WellFormed
<1>2. QueuesIn(q, m, tr) /\ QueuesIn(w, m, tr) BY <1>1, GrowIn
<1>3. Queues(tr, m, q, w)
  <2>1. \A d \in DOMAIN q : \E j \in 1 .. m : tr[j].ctx = d BY <1>1 DEF Queues
  <2>2. m \in 0 .. Len(tr) BY <1>1
  <2> QED BY <1>2, <2>1, <2>2 DEF Queues
<1>4. \A j : InQueue(q, j) \/ InQueue(w, j) => j \in 1 .. n BY <1>1, QueueMembers
<1>5. DeliveredOf(m, q, w) = D \cup {m} /\ m \notin D
  BY <1>1, <1>4 DEF DeliveredOf
<1>6. ASSUME NEW j \in 1 .. n, tr[j].ctx = c PROVE j \in D
  <2>1. ~InQueue(q, j) BY <1>0, <1>1, <1>6, QueueMembers
  <2>2. ASSUME InQueue(w, j) PROVE FALSE
    <3>1. c \in DOMAIN w /\ \E i \in 1 .. Len(w[c]) : w[c][i] = j
      BY <1>1, <1>6, <2>2, QueueMembers
    <3>2. Len(w[c]) = 0 BY <1>0, <3>1
    <3> QED BY <3>1, <3>2
  <2> QED BY <2>1, <2>2 DEF DeliveredOf
<1>7. Earlier(tr, D, m)
  <2>1. \A j \in 1 .. (m) - 1 : j \in 1 .. n BY <1>1
  <2> QED BY <1>6, <2>1 DEF Earlier
<1>8. ASSUME Creations(tr, q, w, D, 0) PROVE Creations(tr, q, w, D \cup {m}, m)
  <2>1. ASSUME NEW d \in DOMAIN w, w[d] = <<>>
        PROVE  \E j \in D \cup {m} : CreateOf(tr, j, d) /\ j # m
    BY <1>5, <1>8, <2>1 DEF Creations
  <2>2. ASSUME NEW j, InQueue(q, j), tr[j].type = "created"
        PROVE  \E i \in D \cup {m} : CreateOf(tr, i, tr[j].ctx)
    BY <1>8, <2>2 DEF Creations
  <2> QED BY <2>1, <2>2 DEF Creations
<1> QED BY <1>0, <1>1, <1>3, <1>5, <1>7, <1>8

\* An empty queue is taken out: nothing held changes.
LEMMA EmptyTakenOut ==
  ASSUME NEW tr, NEW n, NEW q, NEW w, Queues(tr, n, q, w), NEW c, NEW D, D = DeliveredOf(n, q, w)
  PROVE  /\ c \in DOMAIN q /\ q[c] = <<>> =>
              /\ Queues(tr, n, Without(q, c), w)
              /\ DeliveredOf(n, Without(q, c), w) = D
              /\ \A x : Creations(tr, q, w, D, x) => Creations(tr, Without(q, c), w, D, x)
         /\ c \in DOMAIN w /\ w[c] = <<>> =>
              /\ Queues(tr, n, q, Without(w, c))
              /\ DeliveredOf(n, q, Without(w, c)) = D
              /\ \A x : Creations(tr, q, w, D, x) => Creations(tr, q, Without(w, c), D, x)
<1>1. QueuesIn(q, n, tr) /\ QueuesIn(w, n, tr) BY DEF Queues
<1>2. ASSUME NEW f, QueuesIn(f, n, tr), c \in DOMAIN f, f[c] = <<>>,
             NEW r, r = Without(f, c)
      PROVE  /\ QueuesIn(r, n, tr) /\ DOMAIN r = DOMAIN f \ {c}
             /\ \A d \in DOMAIN r : r[d] = f[d]
             /\ \A j : InQueue(r, j) <=> InQueue(f, j)
  <2>1. DOMAIN r = DOMAIN f \ {c} /\ \A d \in DOMAIN r : r[d] = f[d] BY <1>2 DEF Without
  <2>2. QueuesIn(r, n, tr) BY <1>2, WithoutIn
  <2>3. ASSUME NEW j PROVE InQueue(r, j) <=> InQueue(f, j) /\ tr[j].ctx # c
    BY <1>2, WithoutIn
  <2>4. ASSUME NEW j, InQueue(f, j), tr[j].ctx = c PROVE FALSE
    <3>1. \E i \in 1 .. Len(f[c]) : f[c][i] = j BY <1>2, <2>4, QueueMembers
    <3>2. Len(f[c]) = 0 BY <1>2
    <3> QED BY <3>1, <3>2
  <2> QED BY <2>1, <2>2, <2>3, <2>4
<1>3. ASSUME c \in DOMAIN q, q[c] = <<>>, NEW r, r = Without(q, c)
      PROVE  /\ Queues(tr, n, r, w) /\ DeliveredOf(n, r, w) = D
             /\ \A x : Creations(tr, q, w, D, x) => Creations(tr, r, w, D, x)
  <2>1. /\ QueuesIn(r, n, tr) /\ DOMAIN r = DOMAIN q \ {c}
        /\ \A j : InQueue(r, j) <=> InQueue(q, j)
    BY <1>1, <1>2, <1>3
  <2>2. Queues(tr, n, r, w) BY <2>1 DEF Queues
  <2>3. DeliveredOf(n, r, w) = D BY <2>1 DEF DeliveredOf
  <2> QED BY <2>1, <2>2, <2>3 DEF Creations
<1>4. ASSUME c \in DOMAIN w, w[c] = <<>>, NEW r, r = Without(w, c)
      PROVE  /\ Queues(tr, n, q, r) /\ DeliveredOf(n, q, r) = D
             /\ \A x : Creations(tr, q, w, D, x) => Creations(tr, q, r, D, x)
  <2>1. /\ QueuesIn(r, n, tr) /\ DOMAIN r = DOMAIN w \ {c}
        /\ \A d \in DOMAIN r : r[d] = w[d]
        /\ \A j : InQueue(r, j) <=> InQueue(w, j)
    BY <1>1, <1>2, <1>4
  <2>2. Queues(tr, n, q, r) BY <2>1 DEF Queues
  <2>3. DeliveredOf(n, q, r) = D BY <2>1 DEF DeliveredOf
  <2> QED BY <2>1, <2>2, <2>3 DEF Creations
<1> QED BY <1>3, <1>4

\* The create of a context is handled: what it recorded need not wait, or will not.
LEMMA CreateHandled ==
  ASSUME NEW tr, NEW n, NEW q, NEW w, Queues(tr, n, q, w), NEW D, D = DeliveredOf(n, q, w),
         NEW x \in D, tr[x].type = "create", NEW c, c = tr[x].on, Creations(tr, q, w, D, x)
  PROVE  /\ c \in Context
         /\ c \notin DOMAIN w =>
              /\ Queues(tr, n, q, With(w, c, <<>>))
              /\ DeliveredOf(n, q, With(w, c, <<>>)) = D
              /\ Creations(tr, q, With(w, c, <<>>), D, 0)
         /\ c \in DOMAIN w =>
              /\ Queues(tr, n, With(q, c, w[c]), Without(w, c))
              /\ DeliveredOf(n, With(q, c, w[c]), Without(w, c)) = D
              /\ Creations(tr, With(q, c, w[c]), Without(w, c), D, 0)
<1>1. n \in Nat /\ Len(tr) \in Nat /\ n <= Len(tr) /\ QueuesIn(q, n, tr) /\ QueuesIn(w, n, tr)
  BY LenProperties DEF Queues, WellFormed
<1>2. D \subseteq 1 .. n /\ D \subseteq 1 .. Len(tr) BY <1>1 DEF DeliveredOf
<1>3. c \in Context BY <1>2, EventIn
<1>4. CreateOf(tr, x, c) /\ x # 0 BY <1>2 DEF CreateOf
<1>5. ASSUME c \notin DOMAIN w, NEW r, r = With(w, c, <<>>)
      PROVE  /\ Queues(tr, n, q, r) /\ DeliveredOf(n, q, r) = D
             /\ Creations(tr, q, r, D, 0)
  <2>1. PICK e : e = <<>> OBVIOUS
  <2>2. e \in Seq(1 .. n) /\ EventsOf(e, c, tr)
    <3>1. e \in Seq(1 .. n) /\ Len(e) = 0 BY <2>1, EmptySeq
    <3> QED BY <3>1 DEF EventsOf
  <2>3. QueuesIn(r, n, tr) BY <1>1, <1>3, <1>5, <2>1, <2>2, WithIn
  <2>4. /\ DOMAIN r = DOMAIN w \cup {c} /\ r[c] = <<>>
        /\ \A d \in DOMAIN w \ {c} : r[d] = w[d]
    BY <1>5 DEF With
  <2>5. ASSUME NEW j PROVE InQueue(r, j) <=> InQueue(w, j)
    <3>1. InQueue(r, j) <=> (InQueue(w, j) /\ tr[j].ctx # c) \/ InSeq(e, j)
      BY <1>1, <1>3, <1>5, <2>1, <2>2, WithMembers
    <3>2. ~InSeq(e, j)
      <4>1. Len(e) = 0 BY <2>1
      <4> QED BY <4>1 DEF InSeq
    <3>3. InQueue(w, j) => tr[j].ctx # c BY <1>1, <1>5, QueueMembers
    <3> QED BY <3>1, <3>2, <3>3
  <2>6. Queues(tr, n, q, r) BY <2>3, <2>4 DEF Queues
  <2>7. DeliveredOf(n, q, r) = D BY <2>5 DEF DeliveredOf
  <2>8. Creations(tr, q, r, D, 0)
    <3>1. ASSUME NEW d \in DOMAIN r, r[d] = <<>> PROVE \E j \in D : CreateOf(tr, j, d) /\ j # 0
      <4>1. CASE d = c BY <1>4, <4>1
      <4>2. CASE d # c
        <5>1. d \in DOMAIN w /\ w[d] = <<>> BY <2>4, <3>1, <4>2
        <5>2. PICK j \in D : CreateOf(tr, j, d) BY <5>1 DEF Creations
        <5> QED BY <1>2, <5>2
      <4> QED BY <4>1, <4>2
    <3> QED BY <3>1 DEF Creations
  <2> QED BY <2>6, <2>7, <2>8
<1>6. ASSUME c \in DOMAIN w, NEW r, r = With(q, c, w[c]), NEW v, v = Without(w, c)
      PROVE  /\ Queues(tr, n, r, v) /\ DeliveredOf(n, r, v) = D
             /\ Creations(tr, r, v, D, 0)
  <2>1. w[c] # <<>>
    <3>1. ASSUME NEW j \in D, CreateOf(tr, j, c), j # x PROVE FALSE
      <4>1. j \in 1 .. Len(tr) /\ x \in 1 .. Len(tr) BY <1>2
      <4> QED BY <1>4, <3>1, <4>1, EventsApart DEF CreateOf
    <3> QED BY <1>6, <3>1 DEF Creations
  <2>2. c \notin DOMAIN q BY <1>6, <2>1 DEF Queues
  <2>3. PICK s \in Seq(1 .. n) : s = w[c] BY <1>1, <1>6 DEF QueuesIn
  <2>4. EventsOf(s, c, tr) BY <1>1, <1>6, <2>3, SMTT(30) DEF EventsOf, QueuesIn
  <2>5. QueuesIn(r, n, tr) BY <1>1, <1>3, <1>6, <2>3, <2>4, WithIn
  <2>6. /\ DOMAIN r = DOMAIN q \cup {c} /\ r[c] = s /\ \A d \in DOMAIN q : r[d] = q[d]
        /\ DOMAIN v = DOMAIN w \ {c} /\ \A d \in DOMAIN v : v[d] = w[d]
    BY <1>6, <2>2, <2>3 DEF With, Without
  <2>7. QueuesIn(v, n, tr) /\ \A j : InQueue(v, j) <=> InQueue(w, j) /\ tr[j].ctx # c
    <3>1. QueuesIn(v, n, tr) BY <1>1, <1>6, WithoutIn
    <3>2. ASSUME NEW j PROVE InQueue(v, j) <=> InQueue(w, j) /\ tr[j].ctx # c
      BY <1>1, <1>6, WithoutIn
    <3> QED BY <3>1, <3>2
  <2>8. ASSUME NEW j
        PROVE  InQueue(r, j) <=> InQueue(q, j) \/ (InQueue(w, j) /\ tr[j].ctx = c)
    <3>1. InQueue(r, j) <=> (InQueue(q, j) /\ tr[j].ctx # c) \/ InSeq(s, j)
      BY <1>1, <1>3, <1>6, <2>3, <2>4, WithMembers
    <3>2. InQueue(q, j) => tr[j].ctx # c BY <1>1, <2>2, QueueMembers
    <3>3. ASSUME InQueue(w, j), tr[j].ctx = c PROVE InSeq(s, j)
      <4>1. \E i \in 1 .. Len(w[c]) : w[c][i] = j BY <1>1, <3>3, QueueMembers
      <4> QED BY <2>3, <4>1 DEF InSeq
    <3>4. ASSUME InSeq(s, j) PROVE InQueue(w, j) /\ tr[j].ctx = c
      BY <1>6, <2>3, <2>4, <3>4 DEF InSeq, InQueue, EventsOf
    <3> QED BY <3>1, <3>2, <3>3, <3>4
  <2>9. Queues(tr, n, r, v)
    <3>1. \E j \in 1 .. n : tr[j].ctx = c
      <4>1. 1 \in 1 .. Len(s) BY <2>1, <2>3, EmptySeq, LenProperties
      <4>2. s[1] \in 1 .. n BY <4>1, ElementOfSeq
      <4> QED BY <2>4, <4>1, <4>2 DEF EventsOf
    <3>2. \A d \in DOMAIN r : \E j \in 1 .. n : tr[j].ctx = d BY <2>6, <3>1 DEF Queues
    <3>3. \A d \in DOMAIN r \cap DOMAIN v : v[d] = <<>> BY <2>6 DEF Queues
    <3> QED BY <2>5, <2>7, <3>2, <3>3 DEF Queues
  <2>10. DeliveredOf(n, r, v) = D
    <3>1. ASSUME NEW j
          PROVE  InQueue(r, j) \/ InQueue(v, j) <=> InQueue(q, j) \/ InQueue(w, j)
      BY <2>7, <2>8
    <3> QED BY <3>1 DEF DeliveredOf
  <2>11. Creations(tr, r, v, D, 0)
    <3>1. ASSUME NEW d \in DOMAIN v, v[d] = <<>> PROVE \E j \in D : CreateOf(tr, j, d) /\ j # 0
      <4>1. d \in DOMAIN w /\ w[d] = <<>> BY <2>6, <3>1
      <4>2. PICK j \in D : CreateOf(tr, j, d) BY <4>1 DEF Creations
      <4> QED BY <1>2, <4>2
    <3>2. ASSUME NEW j, InQueue(r, j), tr[j].type = "created"
          PROVE  \E i \in D : CreateOf(tr, i, tr[j].ctx)
      <4>1. CASE InQueue(q, j) BY <3>2, <4>1 DEF Creations
      <4>2. CASE InQueue(w, j) /\ tr[j].ctx = c BY <1>4, <4>2
      <4> QED BY <2>8, <3>2, <4>1, <4>2
    <3> QED BY <3>1, <3>2 DEF Creations
  <2> QED BY <2>9, <2>10, <2>11
<1> QED BY <1>3, <1>5, <1>6

-------------------------------------------------------------------------------
(* The reader with its counters, and what it delivers. *)

\* Each number below the next one has been delivered.
Counted(tr, D, tk, bn) ==
  /\ tk \in Nat /\ bn \in Nat
  /\ \A k \in 0 .. tk - 1 : \E j \in D : IsSync(tr[j]) /\ tr[j].n = k
  /\ \A k \in 0 .. bn - 1 : \E j \in D : IsBarrier(tr[j]) /\ tr[j].n = k

ReadSoFar(tr, n, q, w, tk, bn, x) ==
  /\ Queues(tr, n, q, w)
  /\ Creations(tr, q, w, DeliveredOf(n, q, w), x)
  /\ Counted(tr, DeliveredOf(n, q, w), tk, bn)

\* Event i may be delivered next, and the counters behind it.
Delivery(tr, D, tk, bn, i) ==
  /\ i \in 1 .. Len(tr)
  /\ i \notin D /\ Earlier(tr, D, i)
  /\ tr[i].type = "created" => \E j \in D : CreateOf(tr, j, tr[i].ctx)
  /\ IsSync(tr[i]) => tr[i].n = tk
  /\ IsBarrier(tr[i]) => tr[i].n = bn

TicketAfter(tr, i, tk) == IF IsSync(tr[i]) THEN tk + 1 ELSE tk
BarrierAfter(tr, i, bn) == IF IsBarrier(tr[i]) THEN bn + 1 ELSE bn

\* Delivering the event whose turn it is keeps the counters right.
LEMMA CountedNext ==
  ASSUME NEW tr, NEW D, NEW tk, NEW bn, NEW i, Counted(tr, D, tk, bn),
         IsSync(tr[i]) => tr[i].n = tk, IsBarrier(tr[i]) => tr[i].n = bn
  PROVE  Counted(tr, D \cup {i}, TicketAfter(tr, i, tk), BarrierAfter(tr, i, bn))
<1>1. PICK t, b : t = TicketAfter(tr, i, tk) /\ b = BarrierAfter(tr, i, bn) OBVIOUS
<1>2. t \in Nat /\ b \in Nat BY <1>1 DEF Counted, TicketAfter, BarrierAfter
<1>3. ASSUME NEW k \in 0 .. t - 1 PROVE \E j \in D \cup {i} : IsSync(tr[j]) /\ tr[j].n = k
  <2>1. CASE IsSync(tr[i]) /\ k = tk BY <2>1
  <2>2. CASE ~(IsSync(tr[i]) /\ k = tk)
    <3>1. k \in 0 .. tk - 1 BY <1>1, <1>2, <2>2 DEF TicketAfter, Counted
    <3> QED BY <3>1 DEF Counted
  <2> QED BY <2>1, <2>2
<1>4. ASSUME NEW k \in 0 .. b - 1 PROVE \E j \in D \cup {i} : IsBarrier(tr[j]) /\ tr[j].n = k
  <2>1. CASE IsBarrier(tr[i]) /\ k = bn BY <2>1
  <2>2. CASE ~(IsBarrier(tr[i]) /\ k = bn)
    <3>1. k \in 0 .. bn - 1 BY <1>1, <1>2, <2>2 DEF BarrierAfter, Counted
    <3> QED BY <3>1 DEF Counted
  <2> QED BY <2>1, <2>2
<1> QED BY <1>1, <1>2, <1>3, <1>4 DEF Counted

\* The head of a queue whose turn it is.
LEMMA HeadReads ==
  ASSUME NEW tr, NEW n, NEW q, NEW w, NEW tk, NEW bn, ReadSoFar(tr, n, q, w, tk, bn, 0),
         NEW c, NEW r, NEW h, Popped(q, c, r, h),
         IsSync(tr[h]) => tr[h].n = tk, IsBarrier(tr[h]) => tr[h].n = bn,
         NEW D, D = DeliveredOf(n, q, w)
  PROVE  /\ ReadSoFar(tr, n, r, w, TicketAfter(tr, h, tk), BarrierAfter(tr, h, bn), h)
         /\ DeliveredOf(n, r, w) = D \cup {h}
         /\ Delivery(tr, D, tk, bn, h)
<1>1. Queues(tr, n, q, w) /\ Creations(tr, q, w, D, 0) /\ Counted(tr, D, tk, bn) BY DEF ReadSoFar
<1>2. /\ Queues(tr, n, r, w)
      /\ DeliveredOf(n, r, w) = D \cup {h}
      /\ h \in 1 .. n /\ h \notin D /\ Earlier(tr, D, h) /\ InQueue(q, h)
      /\ Creations(tr, r, w, D \cup {h}, h)
  BY <1>1, TakenHead
<1>3. Counted(tr, D \cup {h}, TicketAfter(tr, h, tk), BarrierAfter(tr, h, bn))
  BY <1>1, CountedNext
<1>4. h \in 1 .. Len(tr) BY <1>1, <1>2, LenProperties DEF Queues, WellFormed
<1>5. tr[h].type = "created" => \E j \in D : CreateOf(tr, j, tr[h].ctx)
  BY <1>1, <1>2 DEF Creations
<1> QED BY <1>1, <1>2, <1>3, <1>4, <1>5 DEF ReadSoFar, Delivery

\* The next event, if nothing of its context is held and it is its turn.
LEMMA NextReads ==
  ASSUME NEW tr, NEW n, NEW q, NEW w, NEW tk, NEW bn, ReadSoFar(tr, n, q, w, tk, bn, 0),
         n < Len(tr), NEW m, m = n + 1, NEW c, c = tr[m].ctx,
         c \notin DOMAIN q, c \in DOMAIN w => w[c] = <<>>,
         tr[m].type = "created" => c \in DOMAIN w,
         IsSync(tr[m]) => tr[m].n <= tk, IsBarrier(tr[m]) => tr[m].n <= bn,
         NEW v, v = IF tr[m].type = "created" THEN Without(w, c) ELSE w,
         NEW D, D = DeliveredOf(n, q, w)
  PROVE  /\ ReadSoFar(tr, m, q, v, TicketAfter(tr, m, tk), BarrierAfter(tr, m, bn), m)
         /\ DeliveredOf(m, q, v) = D \cup {m}
         /\ Delivery(tr, D, tk, bn, m)
<1>1. Queues(tr, n, q, w) /\ Creations(tr, q, w, D, 0) /\ Counted(tr, D, tk, bn) BY DEF ReadSoFar
<1>2. n \in Nat /\ Len(tr) \in Nat /\ m \in 1 .. Len(tr) /\ D \subseteq 1 .. n
  BY <1>1, LenProperties DEF Queues, WellFormed, DeliveredOf
<1>3. /\ Queues(tr, n, q, v) /\ DeliveredOf(n, q, v) = D /\ Creations(tr, q, v, D, 0)
      /\ c \in DOMAIN v => v[c] = <<>>
  <2>1. CASE tr[m].type = "created"
    <3>1. v = Without(w, c) BY <2>1
    <3>2. c \notin DOMAIN v BY <3>1 DEF Without
    <3> QED BY <1>1, <2>1, <3>1, <3>2, EmptyTakenOut
  <2>2. CASE tr[m].type # "created" BY <1>1, <2>2
  <2> QED BY <2>1, <2>2
<1>4. /\ Queues(tr, m, q, v)
      /\ DeliveredOf(m, q, v) = D \cup {m}
      /\ m \notin D /\ Earlier(tr, D, m)
      /\ Creations(tr, q, v, D \cup {m}, m)
  <2>1. D = DeliveredOf(n, q, v) BY <1>3
  <2>2. NothingHeld(tr, q, v, n + 1) BY <1>3 DEF NothingHeld
  <2> QED BY <1>3, <2>1, <2>2, ReadDelivered
<1>5. ASSUME NEW j \in D, tr[j].n = tr[m].n
      PROVE  ~(IsSync(tr[j]) /\ IsSync(tr[m])) /\ ~(IsBarrier(tr[j]) /\ IsBarrier(tr[m]))
  <2>1. j \in 1 .. Len(tr) /\ j # m BY <1>2
  <2> QED BY <1>1, <1>2, <1>5, <2>1, EventsApart
<1>6. tr[m].n \in Nat /\ tk \in Nat /\ bn \in Nat BY <1>1, <1>2, EventIn DEF Counted
<1>7. IsSync(tr[m]) => tr[m].n = tk
  <2>1. ASSUME IsSync(tr[m]), tr[m].n # tk PROVE FALSE
    <3>1. tr[m].n \in 0 .. tk - 1 BY <1>6, <2>1
    <3>2. PICK j \in D : IsSync(tr[j]) /\ tr[j].n = tr[m].n BY <1>1, <3>1 DEF Counted
    <3> QED BY <1>5, <2>1, <3>2
  <2> QED BY <2>1
<1>8. IsBarrier(tr[m]) => tr[m].n = bn
  <2>1. ASSUME IsBarrier(tr[m]), tr[m].n # bn PROVE FALSE
    <3>1. tr[m].n \in 0 .. bn - 1 BY <1>6, <2>1
    <3>2. PICK j \in D : IsBarrier(tr[j]) /\ tr[j].n = tr[m].n BY <1>1, <3>1 DEF Counted
    <3> QED BY <1>5, <2>1, <3>2
  <2> QED BY <2>1
<1>9. Counted(tr, D \cup {m}, TicketAfter(tr, m, tk), BarrierAfter(tr, m, bn))
  BY <1>1, <1>7, <1>8, CountedNext
<1>10. tr[m].type = "created" => \E j \in D : CreateOf(tr, j, c)
  BY <1>1 DEF Creations
<1> QED BY <1>2, <1>4, <1>7, <1>8, <1>9, <1>10 DEF ReadSoFar, Delivery

-------------------------------------------------------------------------------
(* The invariant of the reader, and its steps. *)

Handling == IF reader = "deliver" THEN event ELSE 0

ReaderInv ==
  /\ ReadSoFar(trace, read, queued, waiting, ticketNum, barrierNum, Handling)
  /\ reader = "deliver" => event \in DeliveredOf(read, queued, waiting)

\* What is delivered.
LEMMA DeliveredIs ==
  ASSUME NEW tr, NEW n, NEW q, NEW w, Queues(tr, n, q, w)
  PROVE  (1 .. n) \ (Held(q) \cup Held(w)) = DeliveredOf(n, q, w)
<1>1. QueuesIn(q, n, tr) /\ QueuesIn(w, n, tr) BY DEF Queues
<1> QED BY <1>1, HeldMembers DEF DeliveredOf

\* A step that delivers event i.
LEMMA StepDelivers ==
  ASSUME ReaderInv, UNCHANGED trace, NEW i, reader' = "deliver", event' = i,
         ticketNum' = TicketAfter(trace, i, ticketNum),
         barrierNum' = BarrierAfter(trace, i, barrierNum),
         ReadSoFar(trace, read', queued', waiting', ticketNum', barrierNum', i),
         DeliveredOf(read', queued', waiting') = DeliveredOf(read, queued, waiting) \cup {i},
         Delivery(trace, DeliveredOf(read, queued, waiting), ticketNum, barrierNum, i)
  PROVE  ReaderInv' /\ Order!OrderNext
<1>1. PICK tr, n, q, w, tk, bn :
        tr = trace /\ n = read /\ q = queued /\ w = waiting /\ tk = ticketNum /\ bn = barrierNum
  OBVIOUS
<1>2. PICK n1, q1, w1 : n1 = read' /\ q1 = queued' /\ w1 = waiting' OBVIOUS
<1>3. Queues(tr, n, q, w) /\ Queues(tr, n1, q1, w1) BY <1>1, <1>2 DEF ReaderInv, ReadSoFar
<1>4. Delivered = DeliveredOf(n, q, w)
  <2>1. Delivered = (1 .. n) \ (Held(q) \cup Held(w)) BY <1>1 DEF Delivered
  <2> QED BY <1>3, <2>1, DeliveredIs
<1>5. Delivered' = DeliveredOf(n1, q1, w1)
  <2>1. Delivered' = (1 .. n1) \ (Held(q1) \cup Held(w1)) BY <1>2 DEF Delivered
  <2> QED BY <1>3, <2>1, DeliveredIs
<1>6. ReaderInv' BY <1>1, <1>2 DEF ReaderInv, Handling
<1>7. Delivery(tr, Delivered, tk, bn, i) BY <1>1, <1>4
<1>8. i \in DOMAIN trace BY <1>1, <1>3, <1>7, LenProperties DEF Delivery, Queues, WellFormed
<1>9. Order!DeliverEvent(i)
  <2>1. i \notin Delivered /\ Order!InContextOrder(i)
    BY <1>1, <1>7 DEF Delivery, Earlier, Order!InContextOrder
  <2>2. trace[i].type = "created" => Order!Created(i)
    BY <1>1, <1>7 DEF Delivery, CreateOf, Order!Created
  <2>3. (IsSync(trace[i]) => trace[i].n = ticketNum)
        /\ (IsBarrier(trace[i]) => trace[i].n = barrierNum)
    BY <1>1, <1>7 DEF Delivery
  <2>4. Delivered' = Delivered \cup {i} BY <1>1, <1>2, <1>4, <1>5
  <2> QED BY <2>1, <2>2, <2>3, <2>4
       DEF Order!DeliverEvent, Order!IsSync, Order!IsBarrier, IsSync, IsBarrier,
           TicketAfter, BarrierAfter
<1> QED BY <1>6, <1>8, <1>9 DEF Order!OrderNext

\* A step that delivers nothing.
LEMMA StepKeeps ==
  ASSUME ReaderInv, UNCHANGED <<trace, ticketNum, barrierNum>>, reader' # "deliver",
         Queues(trace, read', queued', waiting'),
         DeliveredOf(read', queued', waiting') = DeliveredOf(read, queued, waiting),
         Creations(trace, queued', waiting', DeliveredOf(read, queued, waiting), 0)
  PROVE  ReaderInv' /\ UNCHANGED Order!orderVars
<1>1. PICK tr, n, q, w : tr = trace /\ n = read /\ q = queued /\ w = waiting OBVIOUS
<1>2. PICK n1, q1, w1 : n1 = read' /\ q1 = queued' /\ w1 = waiting' OBVIOUS
<1>3. Queues(tr, n, q, w) /\ Queues(tr, n1, q1, w1) BY <1>1, <1>2 DEF ReaderInv, ReadSoFar
<1>4. Delivered = DeliveredOf(n, q, w)
  <2>1. Delivered = (1 .. n) \ (Held(q) \cup Held(w)) BY <1>1 DEF Delivered
  <2> QED BY <1>3, <2>1, DeliveredIs
<1>5. Delivered' = DeliveredOf(n1, q1, w1)
  <2>1. Delivered' = (1 .. n1) \ (Held(q1) \cup Held(w1)) BY <1>2 DEF Delivered
  <2> QED BY <1>3, <2>1, DeliveredIs
<1>6. ReaderInv' BY DEF ReaderInv, Handling, ReadSoFar
<1> QED BY <1>1, <1>2, <1>4, <1>5, <1>6 DEF Order!orderVars

\* A step that leaves the queues, the counters and what is read as they are.
LEMMA StepIdle ==
  ASSUME ReaderInv, UNCHANGED <<trace, read, queued, waiting, ticketNum, barrierNum>>,
         reader # "deliver", reader' # "deliver"
  PROVE  ReaderInv' /\ UNCHANGED Order!orderVars
<1>1. ReadSoFar(trace, read, queued, waiting, ticketNum, barrierNum, 0)
  BY DEF ReaderInv, Handling
<1> QED BY <1>1, StepKeeps DEF ReadSoFar

\* The loop over the queues.
LEMMA TakeSteps ==
  ASSUME ReaderInv, UNCHANGED trace, TakePlain \/ TakeSync \/ TakeBarrier,
         current \in DOMAIN queued
  PROVE  ReaderInv' /\ Order!OrderNext
<1>1. PICK tr, n, q, w, tk, bn, c, h :
        /\ tr = trace /\ n = read /\ q = queued /\ w = waiting /\ tk = ticketNum
        /\ bn = barrierNum /\ c = current /\ h = HeadOfQueue
  OBVIOUS
<1>2. PICK r : r = queued' OBVIOUS
<1>3. PICK D : D = DeliveredOf(n, q, w) OBVIOUS
<1>4. ReadSoFar(tr, n, q, w, tk, bn, 0)
  BY <1>1 DEF ReaderInv, Handling, TakePlain, TakeSync, TakeBarrier, Scanning
<1>5. Popped(q, c, r, h)
  BY <1>1, <1>2 DEF Popped, HeadOfQueue, PopHead, TakePlain, TakeSync, TakeBarrier
<1>6. /\ IsSync(tr[h]) => tr[h].n = tk
      /\ IsBarrier(tr[h]) => tr[h].n = bn
      /\ ticketNum' = TicketAfter(tr, h, tk) /\ barrierNum' = BarrierAfter(tr, h, bn)
  <2>1. ~(IsSync(tr[h]) /\ IsBarrier(tr[h])) BY DEF IsSync, IsBarrier
  <2>2. CASE TakePlain
    BY <1>1, <2>2 DEF TakePlain, IsOrdered, TicketAfter, BarrierAfter
  <2>3. CASE TakeSync BY <1>1, <2>1, <2>3 DEF TakeSync, TicketAfter, BarrierAfter
  <2>4. CASE TakeBarrier BY <1>1, <2>1, <2>4 DEF TakeBarrier, TicketAfter, BarrierAfter
  <2> QED BY <2>2, <2>3, <2>4
<1>7. /\ ReadSoFar(tr, n, r, w, TicketAfter(tr, h, tk), BarrierAfter(tr, h, bn), h)
      /\ DeliveredOf(n, r, w) = D \cup {h}
      /\ Delivery(tr, D, tk, bn, h)
  BY <1>3, <1>4, <1>5, <1>6, HeadReads
<1>8. read' = n /\ waiting' = w /\ reader' = "deliver" /\ event' = h
  BY <1>1 DEF TakePlain, TakeSync, TakeBarrier, Return
<1> QED BY <1>1, <1>2, <1>3, <1>6, <1>7, <1>8, StepDelivers

\* An empty queue is taken out.
LEMMA EraseStep ==
  ASSUME ReaderInv, UNCHANGED trace, EraseEmpty, current \in DOMAIN queued
  PROVE  ReaderInv' /\ UNCHANGED Order!orderVars
<1>1. PICK tr, n, q, w, c : tr = trace /\ n = read /\ q = queued /\ w = waiting /\ c = current
  OBVIOUS
<1>2. PICK D : D = DeliveredOf(n, q, w) OBVIOUS
<1>3. Queues(tr, n, q, w) /\ Creations(tr, q, w, D, 0)
  BY <1>1, <1>2 DEF ReaderInv, ReadSoFar, Handling, EraseEmpty, Scanning
<1>4. c \in DOMAIN q /\ q[c] = <<>> /\ queued' = Without(q, c) BY <1>1 DEF EraseEmpty
<1>5. /\ Queues(tr, n, Without(q, c), w)
      /\ DeliveredOf(n, Without(q, c), w) = D
      /\ Creations(tr, Without(q, c), w, D, 0)
  BY <1>2, <1>3, <1>4, EmptyTakenOut
<1>6. /\ read' = n /\ waiting' = w /\ reader' # "deliver"
      /\ UNCHANGED <<ticketNum, barrierNum>>
  BY <1>1 DEF EraseEmpty, Scanning
<1> QED BY <1>1, <1>2, <1>4, <1>5, <1>6, StepKeeps

\* The loop over the file: an event is held, ...
LEMMA HoldSteps ==
  ASSUME ReaderInv, UNCHANGED trace,
         ReadQueued \/ ReadWaiting \/ ReadSyncEarly \/ ReadBarrierEarly \/ ReadCreatedEarly
  PROVE  ReaderInv' /\ UNCHANGED Order!orderVars
<1>1. PICK tr, n, q, w, c :
        tr = trace /\ n = read /\ q = queued /\ w = waiting /\ c = Reader
  OBVIOUS
<1>2. PICK D : D = DeliveredOf(n, q, w) OBVIOUS
<1>3. /\ reader = "file" /\ reader' # "deliver" /\ n < Len(tr) /\ read' = n + 1
      /\ c = tr[n + 1].ctx /\ UNCHANGED <<ticketNum, barrierNum>>
  BY <1>1 DEF ReadQueued, ReadWaiting, ReadSyncEarly, ReadBarrierEarly, ReadCreatedEarly,
              ReadNext, Reading, NextRead, Reader, BeginQueue, Call
<1>4. Queues(tr, n, q, w) /\ Creations(tr, q, w, D, 0)
  BY <1>1, <1>2, <1>3 DEF ReaderInv, ReadSoFar, Handling
<1>5. n \in Nat BY <1>4, LenProperties DEF Queues, WellFormed
<1>6. ASSUME ReadQueued \/ ReadSyncEarly \/ ReadBarrierEarly
      PROVE  ReaderInv' /\ UNCHANGED Order!orderVars
  <2>1. PICK r : r = queued' OBVIOUS
  <2>2. Pushed(q, n, tr, r)
    <3>1. CASE ReadQueued
      BY <1>1, <1>3, <2>1, <3>1 DEF ReadQueued, NextRead, Pushed, With
    <3>2. CASE ReadSyncEarly \/ ReadBarrierEarly
      <4>1. r = With(q, c, <<n + 1>>) /\ c \notin DOMAIN q
        BY <1>1, <2>1, <3>2 DEF ReadSyncEarly, ReadBarrierEarly, ReadNext, BeginQueue, NextRead
      <4>2. Append(<<>>, n + 1) = <<n + 1>> OBVIOUS
      <4> QED BY <1>3, <4>1, <4>2 DEF Pushed
    <3> QED BY <1>6, <3>1, <3>2
  <2>3. /\ waiting' = w
        /\ c \notin DOMAIN q =>
             /\ c \in DOMAIN w => w[c] = <<>>
             /\ tr[n + 1].type # "created"
    BY <1>1, <1>6 DEF ReadQueued, ReadSyncEarly, ReadBarrierEarly, ReadNext, Announced,
                      BeginQueue, IsSync, IsBarrier, NextRead
  <2>4. /\ Queues(tr, n + 1, r, w) /\ DeliveredOf(n + 1, r, w) = D /\ Creations(tr, r, w, D, 0)
    BY <1>2, <1>3, <1>4, <2>2, <2>3, ReadHeld
  <2> QED BY <1>1, <1>2, <1>3, <2>1, <2>3, <2>4, StepKeeps
<1>7. ASSUME ReadWaiting \/ ReadCreatedEarly PROVE ReaderInv' /\ UNCHANGED Order!orderVars
  <2>1. PICK r : r = waiting' OBVIOUS
  <2>2. Pushed(w, n, tr, r)
    <3>1. CASE ReadWaiting
      BY <1>1, <1>3, <2>1, <3>1 DEF ReadWaiting, NextRead, Pushed, With
    <3>2. CASE ReadCreatedEarly
      <4>1. r = With(w, c, <<n + 1>>) /\ c \notin DOMAIN w
        BY <1>1, <2>1, <3>2 DEF ReadCreatedEarly, ReadNext, Announced, NextRead
      <4>2. Append(<<>>, n + 1) = <<n + 1>> OBVIOUS
      <4> QED BY <1>3, <4>1, <4>2 DEF Pushed
    <3> QED BY <1>7, <3>1, <3>2
  <2>3. queued' = q /\ c \notin DOMAIN q
    BY <1>1, <1>7 DEF ReadWaiting, ReadCreatedEarly, ReadNext
  <2>4. /\ Queues(tr, n + 1, q, r) /\ DeliveredOf(n + 1, q, r) = D /\ Creations(tr, q, r, D, 0)
    BY <1>2, <1>3, <1>4, <2>2, <2>3, ReadWaits
  <2> QED BY <1>1, <1>2, <1>3, <2>1, <2>3, <2>4, StepKeeps
<1> QED BY <1>6, <1>7

\* ... or delivered.
LEMMA ReadSteps ==
  ASSUME ReaderInv, UNCHANGED trace, ReadPlain \/ ReadSync \/ ReadBarrier \/ ReadCreated
  PROVE  ReaderInv' /\ Order!OrderNext
<1>1. PICK tr, n, q, w, tk, bn, c :
        /\ tr = trace /\ n = read /\ q = queued /\ w = waiting /\ tk = ticketNum
        /\ bn = barrierNum /\ c = Reader
  OBVIOUS
<1>2. PICK m, v, D : /\ m = n + 1 /\ D = DeliveredOf(n, q, w)
                     /\ v = IF tr[m].type = "created" THEN Without(w, c) ELSE w
  OBVIOUS
<1>3. /\ reader = "file" /\ n < Len(tr) /\ read' = m /\ c = tr[m].ctx
      /\ c \notin DOMAIN q /\ (c \in DOMAIN w => w[c] = <<>>)
      /\ reader' = "deliver" /\ event' = m /\ queued' = q
  BY <1>1, <1>2 DEF ReadPlain, ReadSync, ReadBarrier, ReadCreated, ReadNext, Reading, NextRead,
                    Reader, Announced, Return
<1>4. ReadSoFar(tr, n, q, w, tk, bn, 0) BY <1>1, <1>3 DEF ReaderInv, Handling
<1>5. /\ tr[m].type = "created" => c \in DOMAIN w
      /\ IsSync(tr[m]) => tr[m].n <= tk
      /\ IsBarrier(tr[m]) => tr[m].n <= bn
      /\ waiting' = v
      /\ ticketNum' = TicketAfter(tr, m, tk) /\ barrierNum' = BarrierAfter(tr, m, bn)
  <2>1. NextRead = m BY <1>1, <1>2 DEF NextRead
  <2>2. CASE ReadPlain
    BY <1>1, <1>2, <2>1, <2>2 DEF ReadPlain, IsOrdered, TicketAfter, BarrierAfter
  <2>3. CASE ReadSync
    BY <1>1, <1>2, <2>1, <2>3 DEF ReadSync, TicketAfter, BarrierAfter, IsSync, IsBarrier
  <2>4. CASE ReadBarrier
    BY <1>1, <1>2, <2>1, <2>4 DEF ReadBarrier, TicketAfter, BarrierAfter, IsSync, IsBarrier
  <2>5. CASE ReadCreated
    BY <1>1, <1>2, <2>1, <2>5
       DEF ReadCreated, Announced, TicketAfter, BarrierAfter, IsSync, IsBarrier
  <2> QED BY <2>2, <2>3, <2>4, <2>5
<1>6. /\ ReadSoFar(tr, m, q, v, TicketAfter(tr, m, tk), BarrierAfter(tr, m, bn), m)
      /\ DeliveredOf(m, q, v) = D \cup {m}
      /\ Delivery(tr, D, tk, bn, m)
  <2>1. m = n + 1 /\ D = DeliveredOf(n, q, w) BY <1>2
  <2>2. v = IF tr[m].type = "created" THEN Without(w, c) ELSE w BY <1>2
  <2>3. n < Len(tr) /\ c = tr[m].ctx /\ c \notin DOMAIN q BY <1>3
  <2>4. c \in DOMAIN w => w[c] = <<>> BY <1>3
  <2>5. /\ tr[m].type = "created" => c \in DOMAIN w
        /\ IsSync(tr[m]) => tr[m].n <= tk
        /\ IsBarrier(tr[m]) => tr[m].n <= bn
    BY <1>5
  <2> QED BY ONLY <1>4, <2>1, <2>2, <2>3, <2>4, <2>5, NextReads
<1> QED BY <1>1, <1>2, <1>3, <1>5, <1>6, StepDelivers

\* The event returned is handled.
LEMMA DeliverStep ==
  ASSUME ReaderInv, UNCHANGED trace, Deliver
  PROVE  ReaderInv' /\ UNCHANGED Order!orderVars
<1>1. PICK tr, n, q, w, x : tr = trace /\ n = read /\ q = queued /\ w = waiting /\ x = event
  OBVIOUS
<1>2. PICK c, D : c = tr[x].on /\ D = DeliveredOf(n, q, w) OBVIOUS
<1>3. Queues(tr, n, q, w) /\ Creations(tr, q, w, D, x) /\ x \in D
  BY <1>1, <1>2 DEF ReaderInv, ReadSoFar, Handling, Deliver
<1>4. read' = n /\ reader' # "deliver" /\ UNCHANGED <<ticketNum, barrierNum>>
  BY <1>1 DEF Deliver, Call
<1>5. CASE tr[x].type = "create" /\ c \notin DOMAIN w
  <2>1. queued' = q /\ waiting' = With(w, c, <<>>)
    BY <1>1, <1>2, <1>5 DEF Deliver, ReadyEvents
  <2>2. /\ Queues(tr, n, q, With(w, c, <<>>)) /\ DeliveredOf(n, q, With(w, c, <<>>)) = D
        /\ Creations(tr, q, With(w, c, <<>>), D, 0)
    BY <1>2, <1>3, <1>5, CreateHandled
  <2> QED BY <1>1, <1>2, <1>4, <2>1, <2>2, StepKeeps
<1>6. CASE tr[x].type = "create" /\ c \in DOMAIN w
  <2>1. queued' = With(q, c, w[c]) /\ waiting' = Without(w, c)
    BY <1>1, <1>2, <1>6 DEF Deliver, ReadyEvents
  <2>2. /\ Queues(tr, n, With(q, c, w[c]), Without(w, c))
        /\ DeliveredOf(n, With(q, c, w[c]), Without(w, c)) = D
        /\ Creations(tr, With(q, c, w[c]), Without(w, c), D, 0)
    BY <1>2, <1>3, <1>6, CreateHandled
  <2> QED BY <1>1, <1>2, <1>4, <2>1, <2>2, StepKeeps
<1>7. CASE tr[x].type # "create"
  <2>1. queued' = q /\ waiting' = w BY <1>1, <1>7 DEF Deliver
  <2>2. Creations(tr, q, w, D, 0)
    <3>1. ASSUME NEW d \in DOMAIN w, w[d] = <<>> PROVE \E j \in D : CreateOf(tr, j, d) /\ j # 0
      <4>1. PICK j \in D : CreateOf(tr, j, d) BY <1>3, <3>1 DEF Creations
      <4> QED BY <1>2, <4>1 DEF DeliveredOf
    <3> QED BY <1>3, <3>1 DEF Creations
  <2> QED BY <1>1, <1>2, <1>3, <1>4, <2>1, <2>2, StepKeeps
<1> QED BY <1>5, <1>6, <1>7

-------------------------------------------------------------------------------
(* Every step of the reader. *)

\* Whatever a step inserts or erases, the iterator points into the map.
LEMMA IteratorKept ==
  ASSUME DOMAIN queued \subseteq Context, DOMAIN queued' \subseteq Context,
         IteratorValid, ReaderStep \/ Deliver
  PROVE  IteratorValid'
<1>1. PICK S, T, c : S = DOMAIN queued /\ T = DOMAIN queued' /\ c = current OBVIOUS
<1>2. S \subseteq Context /\ T \subseteq Context BY <1>1
<1>3. CASE current' = current /\ T = S BY <1>1, <1>3 DEF IteratorValid
<1>4. CASE current' = First(T) BY <1>1, <1>2, <1>4, FirstIn DEF IteratorValid
<1>5. CASE EraseEmpty
  <2>1. PICK U : U = {d \in S : d > c} OBVIOUS
  <2>2. T = S \ {c} BY <1>1, <1>5 DEF EraseEmpty, Without
  <2>3. current' = (IF First(U) = End THEN First(T) ELSE First(U))
    BY <1>1, <1>5, <2>1 DEF EraseEmpty, After
  <2>4. CASE First(U) = End BY <1>4, <2>3, <2>4
  <2>5. CASE First(U) # End
    <3>1. First(U) \in U BY <1>2, <2>1, <2>5, FirstIn
    <3>2. c \in Int
      <4>1. c \in S \cup {End} BY <1>1 DEF IteratorValid
      <4>2. S \subseteq Int /\ End \in Int BY <1>2, EventsAssumption DEF End
      <4> QED BY <4>1, <4>2
    <3>3. First(U) \in T BY <1>2, <2>1, <2>2, <3>1, <3>2, EventsAssumption
    <3> QED BY <1>1, <2>3, <2>5, <3>3 DEF IteratorValid
  <2> QED BY <2>4, <2>5
<1>6. CASE SkipQueue
  <2>1. PICK U : U = {d \in S : d > c} OBVIOUS
  <2>2. current' = First(U) /\ First(U) # End /\ T = S
    BY <1>1, <1>6, <2>1 DEF SkipQueue, After
  <2>3. First(U) \in U BY <1>2, <2>1, <2>2, FirstIn
  <2> QED BY <1>1, <2>1, <2>2, <2>3 DEF IteratorValid
<1>7. CASE Deliver
  BY <1>1, <1>3, <1>4, <1>7 DEF Deliver, ReadyEvents
<1>8. CASE TakePlain
  BY <1>1, <1>3, <1>8 DEF TakePlain, PopHead
<1>9. CASE TakeSync \/ TakeBarrier
  BY <1>1, <1>4, <1>9 DEF TakeSync, TakeBarrier, PopHead
<1>10. CASE ReadQueued BY <1>1, <1>3, <1>10 DEF ReadQueued
<1>11. CASE SkipLastQueue BY <1>1, <1>4, <1>11 DEF SkipLastQueue
<1>12. CASE ReadSyncEarly \/ ReadBarrierEarly
  BY <1>1, <1>4, <1>12 DEF ReadSyncEarly, ReadBarrierEarly, BeginQueue
<1>13. CASE LeaveScan \/ ReadWaiting \/ ReadPlain \/ ReadSync \/ ReadBarrier \/ ReadCreated
              \/ ReadCreatedEarly \/ EndOfFile
  BY <1>1, <1>3, <1>13
     DEF LeaveScan, ReadWaiting, ReadPlain, ReadSync, ReadBarrier, ReadCreated, ReadCreatedEarly,
         EndOfFile
<1> QED BY <1>5, <1>6, <1>7, <1>8, <1>9, <1>10, <1>11, <1>12, <1>13 DEF ReaderStep

\* A step of the reader delivers the event whose turn it is, or nothing.
LEMMA ReaderSteps ==
  ASSUME ReaderInv, IteratorValid, UNCHANGED trace, ReaderStep \/ Deliver
  PROVE  ReaderInv' /\ IteratorValid' /\ [Order!OrderNext]_Order!orderVars
<1>1. ReaderInv' /\ [Order!OrderNext]_Order!orderVars
  <2>1. CASE TakePlain \/ TakeSync \/ TakeBarrier
    <3>1. current \in DOMAIN queued
      BY <2>1 DEF IteratorValid, TakePlain, TakeSync, TakeBarrier, Scanning, NothingQueued
    <3> QED BY <2>1, <3>1, TakeSteps
  <2>2. CASE EraseEmpty
    <3>1. current \in DOMAIN queued
      BY <2>2 DEF IteratorValid, EraseEmpty, Scanning, NothingQueued
    <3> QED BY <2>2, <3>1, EraseStep
  <2>3. CASE ReadQueued \/ ReadWaiting \/ ReadSyncEarly \/ ReadBarrierEarly \/ ReadCreatedEarly
    BY <2>3, HoldSteps
  <2>4. CASE ReadPlain \/ ReadSync \/ ReadBarrier \/ ReadCreated BY <2>4, ReadSteps
  <2>5. CASE Deliver BY <2>5, DeliverStep
  <2>6. CASE LeaveScan \/ SkipQueue \/ SkipLastQueue \/ EndOfFile
    <3>1. /\ UNCHANGED <<trace, read, queued, waiting, ticketNum, barrierNum>>
          /\ reader # "deliver" /\ reader' # "deliver"
      BY <2>6 DEF LeaveScan, SkipQueue, SkipLastQueue, EndOfFile, NotItsTurn, Scanning
    <3> QED BY <3>1, StepIdle
  <2> QED BY <2>1, <2>2, <2>3, <2>4, <2>5, <2>6 DEF ReaderStep
<1>2. DOMAIN queued \subseteq Context /\ DOMAIN queued' \subseteq Context
  BY <1>1 DEF ReaderInv, ReadSoFar, Queues, QueuesIn
<1>3. IteratorValid' BY <1>2, IteratorKept
<1> QED BY <1>1, <1>3

\* Nothing has been read, and nothing delivered.
LEMMA ReaderStarts ==
  ASSUME ReaderInit
  PROVE  /\ WellFormed(trace) => ReaderInv
         /\ IteratorValid
         /\ Order!OrderInit
<1>1. read = 0 /\ DOMAIN queued = {} /\ DOMAIN waiting = {} BY DEF ReaderInit
<1>2. IteratorValid BY DEF ReaderInit, IteratorValid
<1>3. Delivered = {} BY <1>1 DEF Delivered
<1>4. Order!OrderInit BY <1>3 DEF Order!OrderInit, ReaderInit
<1>5. ASSUME WellFormed(trace) PROVE ReaderInv
  <2>1. \A j : ~InQueue(queued, j) BY <1>1 DEF InQueue
  <2>2. QueuesIn(queued, 0, trace) /\ QueuesIn(waiting, 0, trace) BY DEF QueuesIn, ReaderInit
  <2>3. Len(trace) \in Nat BY <1>5, LenProperties DEF WellFormed
  <2>4. Queues(trace, 0, queued, waiting) BY <1>1, <1>5, <2>2, <2>3 DEF Queues
  <2>5. \A D, x : Creations(trace, queued, waiting, D, x) BY <1>1, <2>1 DEF Creations
  <2>6. \A D : Counted(trace, D, 0, 0) BY DEF Counted
  <2> QED BY <2>4, <2>5, <2>6 DEF ReaderInv, ReadSoFar, ReaderInit
<1> QED BY <1>2, <1>4, <1>5

-------------------------------------------------------------------------------
(* What has been recorded: the events of the trace, at End, and of the buffers. *)

Logs(tr, buf) == [c \in Context \cup {End} |-> IF c = End THEN tr ELSE buf[c]]

\* Two events that may both be recorded.
Apart(x, y) ==
  /\ ~(IsSync(x) /\ IsSync(y) /\ x.n = y.n)
  /\ ~(IsBarrier(x) /\ IsBarrier(y) /\ x.n = y.n)
  /\ ~(x.type = "create" /\ y.type = "create" /\ x.on = y.on)

\* The i-th event of log c is before the j-th of log d, if they are of one context.
Precedes(c, i, d, j) == (c = d /\ i < j) \/ (c = End /\ d # End)

LogsKept(f) ==
  /\ f \in [Context \cup {End} -> Seq(Event)]
  /\ \A c \in Context : \A i \in 1 .. Len(f[c]) : f[c][i].ctx = c
  /\ \A c \in Context \cup {End}, d \in Context \cup {End} :
       \A i \in 1 .. Len(f[c]), j \in 1 .. Len(f[d]) :
         /\ c # d \/ i # j => Apart(f[c][i], f[d][j])
         /\ Precedes(c, i, d, j) /\ f[c][i].ctx = f[d][j].ctx => f[d][j].type # "created"

InLogs(f, x) == \E c \in Context \cup {End} : \E i \in 1 .. Len(f[c]) : f[c][i] = x

\* An event that context c may record next.
Fresh(f, c, e) ==
  /\ c \in Context
  /\ e \in Event /\ e.ctx = c
  /\ \A x : InLogs(f, x) => Apart(x, e) /\ (e.type = "created" => x.ctx # c)

Recording(f, c, e) == [f EXCEPT ![c] = Append(@, e)]
Queueing(f, c) == [f EXCEPT ![End] = @ \o f[c], ![c] = <<>>]

\* The trace is not the buffer of a context.
LEMMA EndApart == End \notin Context
BY EventsAssumption DEF End

\* Recording an event that is fresh.
LEMMA RecordKept ==
  ASSUME NEW f, LogsKept(f), NEW c, NEW e, Fresh(f, c, e)
  PROVE  LogsKept(Recording(f, c, e))
<1>1. PICK g : g = Recording(f, c, e) OBVIOUS
<1>2. PICK S : S = Context \cup {End} OBVIOUS
<1>3. f \in [S -> Seq(Event)] /\ c \in S /\ c \in Context /\ c # End /\ e \in Event /\ e.ctx = c
  BY <1>2, EndApart DEF LogsKept, Fresh
<1>4. PICK s \in Seq(Event) : s = f[c] BY <1>3
<1>5. PICK t : t = Append(s, e) OBVIOUS
<1>6. /\ Len(s) \in Nat /\ t \in Seq(Event) /\ Len(t) = Len(s) + 1
      /\ t[Len(s) + 1] = e /\ \A i \in 1 .. Len(s) : t[i] = s[i]
  <2>1. t \in Seq(Event) /\ Len(t) = Len(s) + 1 BY <1>3, <1>5, AppendProperties
  <2>2. t[Len(s) + 1] = e /\ \A i \in 1 .. Len(s) : t[i] = s[i]
    BY <1>3, <1>5, AppendProperties
  <2> QED BY <2>1, <2>2, LenProperties
<1>7. g \in [S -> Seq(Event)] /\ g[c] = t /\ \A d \in S \ {c} : g[d] = f[d]
  BY <1>1, <1>3, <1>4, <1>5, <1>6 DEF Recording
<1>8. ASSUME NEW d \in S, NEW i \in 1 .. Len(g[d])
      PROVE  \/ d = c /\ i = Len(s) + 1 /\ g[d][i] = e
             \/ i \in 1 .. Len(f[d]) /\ g[d][i] = f[d][i] /\ InLogs(f, g[d][i])
  <2>1. CASE d # c BY <1>2, <1>7, <2>1 DEF InLogs
  <2>2. CASE d = c /\ i = Len(s) + 1 BY <1>6, <1>7, <2>2
  <2>3. CASE d = c /\ i # Len(s) + 1
    <3>1. i \in 1 .. Len(s) BY <1>6, <1>7, <2>3
    <3> QED BY <1>2, <1>4, <1>6, <1>7, <2>3, <3>1 DEF InLogs
  <2> QED BY <2>1, <2>2, <2>3
<1>9. ASSUME NEW d \in Context, NEW i \in 1 .. Len(g[d]) PROVE g[d][i].ctx = d
  <2>1. d \in S BY <1>2
  <2>2. \/ d = c /\ g[d][i] = e
        \/ i \in 1 .. Len(f[d]) /\ g[d][i] = f[d][i]
    BY <1>8, <2>1
  <2>3. CASE d = c /\ g[d][i] = e BY <1>3, <2>3
  <2>4. CASE i \in 1 .. Len(f[d]) /\ g[d][i] = f[d][i] BY <2>4 DEF LogsKept
  <2> QED BY <2>2, <2>3, <2>4
<1>10. ASSUME NEW b \in S, NEW d \in S, NEW i \in 1 .. Len(g[b]), NEW j \in 1 .. Len(g[d])
       PROVE  /\ b # d \/ i # j => Apart(g[b][i], g[d][j])
              /\ Precedes(b, i, d, j) /\ g[b][i].ctx = g[d][j].ctx => g[d][j].type # "created"
  <2>1. CASE (b = c /\ i = Len(s) + 1) /\ (d = c /\ j = Len(s) + 1)
    BY <1>3, <1>6, <2>1 DEF Precedes
  <2>2. CASE (b = c /\ i = Len(s) + 1 /\ g[b][i] = e) /\ ~(d = c /\ j = Len(s) + 1)
    <3>1. InLogs(f, g[d][j]) BY <1>8, <2>2
    <3>2. Apart(g[b][i], g[d][j]) BY <2>2, <3>1 DEF Fresh, Apart
    <3>3. ~Precedes(b, i, d, j)
      <4>1. ASSUME b = d PROVE ~(i < j)
        <5>1. j \in 1 .. Len(s) BY <1>6, <1>7, <2>2, <4>1
        <5> QED BY <1>6, <2>2, <5>1
      <4> QED BY <1>3, <2>2, <4>1 DEF Precedes
    <3> QED BY <3>2, <3>3
  <2>3. CASE ~(b = c /\ i = Len(s) + 1) /\ (d = c /\ j = Len(s) + 1 /\ g[d][j] = e)
    <3>1. InLogs(f, g[b][i]) BY <1>8, <2>3
    <3> QED BY <1>3, <2>3, <3>1 DEF Fresh
  <2>4. CASE ~(b = c /\ i = Len(s) + 1) /\ ~(d = c /\ j = Len(s) + 1)
    <3>1. i \in 1 .. Len(f[b]) /\ g[b][i] = f[b][i] /\ j \in 1 .. Len(f[d]) /\ g[d][j] = f[d][j]
      BY <1>8, <2>4
    <3> QED BY <1>2, <3>1 DEF LogsKept
  <2>5. /\ b = c /\ i = Len(s) + 1 => g[b][i] = e
        /\ d = c /\ j = Len(s) + 1 => g[d][j] = e
    BY <1>6, <1>7
  <2> QED BY <2>1, <2>2, <2>3, <2>4, <2>5
<1> QED BY <1>1, <1>2, <1>7, <1>9, <1>10 DEF LogsKept

\* What is recorded then.
LEMMA RecordIn ==
  ASSUME NEW f, LogsKept(f), NEW c, NEW e, Fresh(f, c, e), NEW x
  PROVE  InLogs(Recording(f, c, e), x) <=> InLogs(f, x) \/ x = e
<1>1. PICK g : g = Recording(f, c, e) OBVIOUS
<1>2. PICK S : S = Context \cup {End} OBVIOUS
<1>3. f \in [S -> Seq(Event)] /\ c \in S /\ e \in Event BY <1>2 DEF LogsKept, Fresh
<1>4. PICK s \in Seq(Event) : s = f[c] BY <1>3
<1>5. PICK t : t = Append(s, e) OBVIOUS
<1>6. /\ Len(s) \in Nat /\ Len(t) = Len(s) + 1
      /\ t[Len(s) + 1] = e /\ \A i \in 1 .. Len(s) : t[i] = s[i]
  BY <1>3, <1>5, AppendProperties, LenProperties
<1>7. g[c] = t /\ \A d \in S \ {c} : g[d] = f[d] BY <1>1, <1>3, <1>4, <1>5 DEF Recording
<1>8. ASSUME InLogs(g, x) PROVE InLogs(f, x) \/ x = e
  <2>1. PICK d \in S : \E i \in 1 .. Len(g[d]) : g[d][i] = x BY <1>2, <1>8 DEF InLogs
  <2>2. PICK i \in 1 .. Len(g[d]) : g[d][i] = x BY <2>1
  <2>3. CASE d # c BY <1>2, <1>7, <2>2, <2>3 DEF InLogs
  <2>4. CASE d = c
    <3>1. i = Len(s) + 1 \/ i \in 1 .. Len(s) BY <1>6, <1>7, <2>4
    <3> QED BY <1>2, <1>3, <1>4, <1>6, <1>7, <2>2, <2>4, <3>1 DEF InLogs
  <2> QED BY <2>3, <2>4
<1>9. ASSUME InLogs(f, x) PROVE InLogs(g, x)
  <2>1. PICK d \in S : \E i \in 1 .. Len(f[d]) : f[d][i] = x BY <1>2, <1>9 DEF InLogs
  <2>2. PICK i \in 1 .. Len(f[d]) : f[d][i] = x BY <2>1
  <2>3. CASE d # c BY <1>2, <1>7, <2>2, <2>3 DEF InLogs
  <2>4. CASE d = c
    <3>1. i \in 1 .. Len(s) /\ i \in 1 .. Len(t) /\ t[i] = x BY <1>4, <1>6, <2>2, <2>4
    <3> QED BY <1>2, <1>3, <1>7, <3>1 DEF InLogs
  <2> QED BY <2>3, <2>4
<1>10. InLogs(g, e)
  <2>1. Len(s) + 1 \in 1 .. Len(t) BY <1>6
  <2> QED BY <1>2, <1>3, <1>6, <1>7, <2>1 DEF InLogs
<1> QED BY <1>1, <1>8, <1>9, <1>10

\* Queueing the buffer of a context: its events go behind those of the trace.
LEMMA QueueKept ==
  ASSUME NEW f, LogsKept(f), NEW c \in Context
  PROVE  /\ LogsKept(Queueing(f, c))
         /\ Queueing(f, c)[c] = <<>>
         /\ \A x : InLogs(Queueing(f, c), x) <=> InLogs(f, x)
<1>1. PICK g : g = Queueing(f, c) OBVIOUS
<1>2. PICK S : S = Context \cup {End} OBVIOUS
<1>3. f \in [S -> Seq(Event)] /\ c \in S /\ End \in S /\ c # End
  BY <1>2, EndApart DEF LogsKept
<1>4. PICK s \in Seq(Event), b \in Seq(Event) : s = f[End] /\ b = f[c] BY <1>3
<1>5. PICK t : t = s \o b OBVIOUS
<1>6. /\ Len(s) \in Nat /\ Len(b) \in Nat /\ t \in Seq(Event) /\ Len(t) = Len(s) + Len(b)
      /\ \A i \in 1 .. Len(s) + Len(b) : t[i] = IF i <= Len(s) THEN s[i] ELSE b[i - Len(s)]
  <2>1. t \in Seq(Event) /\ Len(t) = Len(s) + Len(b) BY <1>5, ConcatProperties
  <2>2. \A i \in 1 .. Len(s) + Len(b) : t[i] = IF i <= Len(s) THEN s[i] ELSE b[i - Len(s)]
    BY <1>5, ConcatProperties
  <2> QED BY <2>1, <2>2, LenProperties
<1>7. /\ g \in [S -> Seq(Event)] /\ g[c] = <<>> /\ g[End] = t
      /\ \A d \in S \ {c, End} : g[d] = f[d]
  <2>1. <<>> \in Seq(Event) BY EmptySeq
  <2> QED BY <1>1, <1>3, <1>4, <1>5, <1>6, <2>1 DEF Queueing
<1> DEFINE LogOf(d, i) == IF d = End /\ i > Len(s) THEN c ELSE d
           PlaceOf(d, i) == IF d = End /\ i > Len(s) THEN i - Len(s) ELSE i
<1>8. ASSUME NEW d \in S, NEW i \in 1 .. Len(g[d])
      PROVE  /\ d # c
             /\ LogOf(d, i) \in S /\ PlaceOf(d, i) \in 1 .. Len(f[LogOf(d, i)])
             /\ g[d][i] = f[LogOf(d, i)][PlaceOf(d, i)]
  <2>1. CASE d = c
    <3>1. Len(g[d]) = 0 BY <1>7, <2>1
    <3> QED BY <3>1
  <2>2. CASE d # c /\ d # End BY <1>7, <2>2
  <2>3. CASE d = End /\ i > Len(s)
    <3>1. i \in 1 .. Len(s) + Len(b) BY <1>6, <1>7, <2>3
    <3>2. i - Len(s) \in 1 .. Len(b) BY <1>6, <2>3, <3>1
    <3>3. t[i] = b[i - Len(s)] BY <1>6, <2>3, <3>1
    <3> QED BY <1>3, <1>4, <1>7, <2>3, <3>2, <3>3
  <2>4. CASE d = End /\ ~(i > Len(s))
    <3>1. i \in 1 .. Len(s) + Len(b) BY <1>6, <1>7, <2>4
    <3>2. i \in 1 .. Len(s) BY <1>6, <2>4, <3>1
    <3>3. t[i] = s[i] BY <1>6, <3>1, <3>2
    <3> QED BY <1>3, <1>4, <1>7, <2>4, <3>2, <3>3
  <2> QED BY <2>1, <2>2, <2>3, <2>4
<1>9. ASSUME NEW d \in Context, NEW i \in 1 .. Len(g[d]) PROVE g[d][i].ctx = d
  <2>1. d \in S /\ d # End BY <1>2, EndApart
  <2>2. i \in 1 .. Len(f[d]) /\ g[d][i] = f[d][i] BY <1>8, <2>1
  <2> QED BY <2>2 DEF LogsKept
<1>10. ASSUME NEW d \in S, NEW e \in S, NEW i \in 1 .. Len(g[d]), NEW j \in 1 .. Len(g[e])
       PROVE  /\ d # e \/ i # j => Apart(g[d][i], g[e][j])
              /\ Precedes(d, i, e, j) /\ g[d][i].ctx = g[e][j].ctx => g[e][j].type # "created"
  <2>1. PICK d1, i1, e1, j1 :
          d1 = LogOf(d, i) /\ i1 = PlaceOf(d, i) /\ e1 = LogOf(e, j) /\ j1 = PlaceOf(e, j)
    OBVIOUS
  <2>2. /\ d # c /\ e # c /\ d1 \in S /\ e1 \in S
        /\ i1 \in 1 .. Len(f[d1]) /\ j1 \in 1 .. Len(f[e1])
        /\ g[d][i] = f[d1][i1] /\ g[e][j] = f[e1][j1]
    BY <1>8, <2>1
  <2>3. i \in Int /\ j \in Int /\ Len(s) \in Int BY <1>6
  <2>4. d # e \/ i # j => d1 # e1 \/ i1 # j1 BY <2>1, <2>2, <2>3
  <2>5. d1 # e1 \/ i1 # j1 => Apart(f[d1][i1], f[e1][j1]) BY <1>2, <2>2 DEF LogsKept
  <2>6. Precedes(d1, i1, e1, j1) /\ f[d1][i1].ctx = f[e1][j1].ctx => f[e1][j1].type # "created"
    BY <1>2, <2>2 DEF LogsKept
  <2>7. ASSUME Precedes(d, i, e, j), g[d][i].ctx = g[e][j].ctx PROVE g[e][j].type # "created"
    <3>1. CASE Precedes(d1, i1, e1, j1) BY <2>2, <2>6, <2>7, <3>1
    <3>2. CASE ~Precedes(d1, i1, e1, j1)
      <4>1. d = End /\ i > Len(s) /\ e # End
        BY <1>3, <2>1, <2>2, <2>3, <2>7, <3>2 DEF Precedes
      <4>2. d1 = c /\ e1 = e BY <2>1, <4>1
      <4>3. e \in Context BY <1>2, <4>1
      <4>4. f[d1][i1].ctx = c /\ f[e1][j1].ctx = e BY <2>2, <4>2, <4>3 DEF LogsKept
      <4> QED BY <2>2, <2>7, <4>4
    <3> QED BY <3>1, <3>2
  <2> QED BY <2>2, <2>4, <2>5, <2>7
<1>11. LogsKept(g) BY <1>2, <1>7, <1>9, <1>10 DEF LogsKept
<1>12. ASSUME NEW x PROVE InLogs(g, x) <=> InLogs(f, x)
  <2>1. ASSUME InLogs(g, x) PROVE InLogs(f, x)
    <3>1. PICK d \in S : \E i \in 1 .. Len(g[d]) : g[d][i] = x BY <1>2, <2>1 DEF InLogs
    <3>2. PICK i \in 1 .. Len(g[d]) : g[d][i] = x BY <3>1
    <3>3. PICK d1, i1 : d1 = LogOf(d, i) /\ i1 = PlaceOf(d, i) OBVIOUS
    <3>4. d1 \in S /\ i1 \in 1 .. Len(f[d1]) /\ f[d1][i1] = x BY <1>8, <3>2, <3>3
    <3> QED BY <1>2, <3>4 DEF InLogs
  <2>2. ASSUME InLogs(f, x) PROVE InLogs(g, x)
    <3>1. PICK d \in S : \E i \in 1 .. Len(f[d]) : f[d][i] = x BY <1>2, <2>2 DEF InLogs
    <3>2. PICK i \in 1 .. Len(f[d]) : f[d][i] = x BY <3>1
    <3>3. CASE d # c /\ d # End BY <1>2, <1>7, <3>2, <3>3 DEF InLogs
    <3>4. CASE d = End
      <4>1. i \in 1 .. Len(s) BY <1>4, <3>2, <3>4
      <4>2. i \in 1 .. Len(s) + Len(b) /\ i <= Len(s) BY <1>6, <4>1
      <4>3. t[i] = s[i] BY <1>6, <4>2
      <4>4. i \in 1 .. Len(t) /\ t[i] = x BY <1>4, <1>6, <3>2, <3>4, <4>2, <4>3
      <4> QED BY <1>2, <1>3, <1>7, <4>4 DEF InLogs
    <3>5. CASE d = c
      <4>1. PICK k : k = Len(s) + i OBVIOUS
      <4>2. i \in 1 .. Len(b) BY <1>4, <3>2, <3>5
      <4>3. k \in 1 .. Len(s) + Len(b) /\ ~(k <= Len(s)) /\ k - Len(s) = i
        BY <1>6, <4>1, <4>2
      <4>4. t[k] = b[i] BY <1>6, <4>3
      <4>5. k \in 1 .. Len(t) /\ t[k] = x BY <1>4, <1>6, <3>2, <3>5, <4>3, <4>4
      <4> QED BY <1>2, <1>3, <1>7, <4>5 DEF InLogs
    <3> QED BY <3>3, <3>4, <3>5
  <2> QED BY <2>1, <2>2
<1> QED BY <1>1, <1>7, <1>11, <1>12

\* The trace is well formed, if the creates in it are.
LEMMA TraceWellFormed ==
  ASSUME NEW f, LogsKept(f),
         \A x : InLogs(f, x) /\ x.type = "create" => x.on \in Context
  PROVE  WellFormed(f[End])
<1>1. End \in Context \cup {End} /\ f[End] \in Seq(Event) BY DEF LogsKept
<1>2. PICK tr \in Seq(Event) : tr = f[End] BY <1>1
<1>3. DOMAIN tr = 1 .. Len(tr) BY LenProperties
<1>4. ASSUME NEW i \in 1 .. Len(tr), NEW j \in 1 .. Len(tr)
      PROVE  /\ i # j => Apart(tr[i], tr[j])
             /\ i < j /\ tr[i].ctx = tr[j].ctx => tr[j].type # "created"
             /\ InLogs(f, tr[i])
  BY <1>1, <1>2 DEF LogsKept, Precedes, InLogs
<1> QED BY <1>2, <1>3, <1>4 DEF WellFormed, Apart

-------------------------------------------------------------------------------
(* The invariant of a program that is recorded. *)

RecorderTypes ==
  /\ program \in Programs
  /\ at \in [Context -> {"unborn", "run", "unlock", "store", "join", "barrier", "leave", "ended"}]
  /\ done \in [Context -> Nat]
  /\ trace \in Seq(Event) /\ buffer \in [Context -> Seq(Event)]
  /\ inside \in [Address -> SUBSET Context]
  /\ numbers \in [ticket : Nat, barrier : Nat, drawn : [Context -> Nat]]

\* What a thread is doing is an operation of its program.
Doing ==
  /\ \A c \in Context : at[c] \in {"unlock", "store", "join", "barrier", "leave"} =>
                          done[c] < Len(program.ops[c])
  /\ \A a \in Address : \A c \in inside[a] : at[c] = "barrier" /\ On(c) = a

\* A thread that runs was created by an operation that is finished.
Born(c) ==
  \E p \in Context : \E i \in DOMAIN program.ops[p] :
    i <= done[p] /\ Creates(program, p, i) /\ program.ops[p][i].on = c
Creators == \A c \in Context \ {0} : at[c] # "unborn" => Born(c)

\* The tickets that were drawn ahead are of one event each.
TicketsDrawn ==
  \A c \in Context : numbers.drawn[c] # 0 =>
    /\ numbers.drawn[c] < numbers.ticket
    /\ \A d \in Context : c # d => numbers.drawn[c] # numbers.drawn[d]

\* The numbers of the events were drawn for them, and the threads they are of and about run.
Known(x) ==
  /\ at[x.ctx] # "unborn"
  /\ IsSync(x) => /\ x.n < numbers.ticket
                  /\ \A c \in Context : numbers.drawn[c] # 0 => x.n # numbers.drawn[c]
  /\ IsBarrier(x) => x.n < numbers.barrier
  /\ x.type = "create" => x.on \in Context /\ at[x.on] # "unborn"
Log == Logs(trace, buffer)
EventsKnown == \A x : InLogs(Log, x) => Known(x)

RecorderInv ==
  /\ RecorderTypes
  /\ Doing
  /\ Creators
  /\ TicketsDrawn
  /\ LogsKept(Log)
  /\ EventsKnown

-------------------------------------------------------------------------------
(* What the actions of Recorder do to it. *)

\* The operations of a program.
LEMMA OpsIn ==
  ASSUME RecorderTypes, NEW c \in Context
  PROVE  /\ program.ops[c] \in Seq(Operation)
         /\ Len(program.ops[c]) \in Nat /\ DOMAIN program.ops[c] = 1 .. Len(program.ops[c])
         /\ done[c] \in Nat
         /\ done[c] < Len(program.ops[c]) =>
              /\ done[c] + 1 \in DOMAIN program.ops[c]
              /\ On(c) \in Context \cup Address
<1>1. program \in Programs /\ done[c] \in Nat BY DEF RecorderTypes
<1>2. PICK s : s = program.ops[c] OBVIOUS
<1>3. s \in Seq(Operation) BY <1>1, <1>2, ProgramsAssumption
<1>4. Len(s) \in Nat /\ DOMAIN s = 1 .. Len(s) BY <1>3, LenProperties
<1>5. ASSUME done[c] < Len(s) PROVE done[c] + 1 \in DOMAIN s /\ On(c) \in Context \cup Address
  <2>1. done[c] + 1 \in 1 .. Len(s) BY <1>1, <1>4, <1>5
  <2>2. s[done[c] + 1] \in Operation BY <1>3, <2>1, ElementOfSeq
  <2> QED BY <1>2, <1>4, <2>1, <2>2 DEF On, Operation
<1> QED BY <1>1, <1>2, <1>3, <1>4, <1>5

\* What is known of the threads and the numbers after a step.
Grows ==
  /\ \A c \in Context : at[c] # "unborn" => at'[c] # "unborn"
  /\ numbers.ticket <= numbers'.ticket /\ numbers.barrier <= numbers'.barrier
  /\ \A c \in Context : numbers'.drawn[c] \in {numbers.drawn[c], 0, numbers.ticket}

\* What was known of an event still is.
LEMMA KnownGrows ==
  ASSUME RecorderTypes, RecorderTypes', Grows, NEW x \in Event, Known(x)
  PROVE  Known(x)'
<1>1. x.ctx \in Context /\ x.n \in Nat BY DEF Event
<1>2. /\ numbers.ticket \in Nat /\ numbers'.ticket \in Nat
      /\ numbers.barrier \in Nat /\ numbers'.barrier \in Nat
  BY DEF RecorderTypes
<1>3. at'[x.ctx] # "unborn" BY <1>1 DEF Grows, Known
<1>4. IsSync(x) => x.n < numbers'.ticket BY <1>1, <1>2 DEF Grows, Known
<1>5. ASSUME IsSync(x), NEW c \in Context, numbers'.drawn[c] # 0 PROVE x.n # numbers'.drawn[c]
  <2>1. x.n < numbers.ticket /\ (numbers.drawn[c] # 0 => x.n # numbers.drawn[c])
    BY <1>5 DEF Known
  <2>2. numbers'.drawn[c] \in {numbers.drawn[c], numbers.ticket} BY <1>5 DEF Grows
  <2> QED BY <1>1, <1>2, <1>5, <2>1, <2>2
<1>6. IsBarrier(x) => x.n < numbers'.barrier BY <1>1, <1>2 DEF Grows, Known
<1>7. x.type = "create" => x.on \in Context /\ at'[x.on] # "unborn" BY DEF Grows, Known
<1> QED BY <1>3, <1>4, <1>5, <1>6, <1>7 DEF Known

\* What is recorded is events.
LEMMA InLogsEvent ==
  ASSUME NEW f, LogsKept(f), NEW x, InLogs(f, x)
  PROVE  x \in Event
<1>1. PICK c \in Context \cup {End} : \E i \in 1 .. Len(f[c]) : f[c][i] = x BY DEF InLogs
<1>2. PICK i \in 1 .. Len(f[c]) : f[c][i] = x BY <1>1
<1>3. f[c] \in Seq(Event) BY DEF LogsKept
<1> QED BY <1>2, <1>3, ElementOfSeq

\* An event with numbers of its own is fresh.
LEMMA FreshEvent ==
  ASSUME RecorderTypes, LogsKept(Log), EventsKnown, NEW c \in Context, NEW e \in Event,
         e.ctx = c, e.type # "created",
         IsSync(e) => \/ e.n = numbers.ticket
                      \/ \E d \in Context : numbers.drawn[d] # 0 /\ e.n = numbers.drawn[d],
         IsBarrier(e) => e.n = numbers.barrier,
         e.type = "create" => e.on \in Context /\ at[e.on] = "unborn"
  PROVE  Fresh(Log, c, e)
<1>1. ASSUME NEW x, InLogs(Log, x) PROVE Apart(x, e)
  <2>1. x \in Event /\ Known(x) BY <1>1, InLogsEvent DEF EventsKnown
  <2>2. x.n \in Nat /\ numbers.ticket \in Nat /\ numbers.barrier \in Nat
    BY <2>1 DEF Event, RecorderTypes
  <2>3. ~(IsSync(x) /\ IsSync(e) /\ x.n = e.n) BY <2>1, <2>2 DEF Known
  <2>4. ~(IsBarrier(x) /\ IsBarrier(e) /\ x.n = e.n) BY <2>1, <2>2 DEF Known
  <2>5. ~(x.type = "create" /\ e.type = "create" /\ x.on = e.on) BY <2>1 DEF Known
  <2> QED BY <2>3, <2>4, <2>5 DEF Apart
<1> QED BY <1>1 DEF Fresh

\* A step that records an event that is known afterwards.
LEMMA RecordStep ==
  ASSUME RecorderTypes, RecorderTypes', Grows, LogsKept(Log), EventsKnown,
         NEW c, NEW e, Fresh(Log, c, e), Log' = Recording(Log, c, e), Known(e)'
  PROVE  LogsKept(Log)' /\ EventsKnown'
<1>1. PICK f, g : f = Log /\ g = Log' OBVIOUS
<1>2. LogsKept(g) BY <1>1, RecordKept
<1>3. ASSUME NEW x, InLogs(g, x) PROVE Known(x)'
  <2>1. InLogs(f, x) \/ x = e BY <1>1, <1>3, RecordIn
  <2>2. CASE InLogs(f, x)
    <3>1. x \in Event /\ Known(x) BY <1>1, <2>2, InLogsEvent DEF EventsKnown
    <3> QED BY <3>1, KnownGrows
  <2> QED BY <2>1, <2>2
<1> QED BY <1>1, <1>2, <1>3 DEF EventsKnown

\* A step that queues a buffer, or records nothing.
LEMMA QueueStep ==
  ASSUME RecorderTypes, RecorderTypes', Grows, LogsKept(Log), EventsKnown,
         Log' = Log \/ \E c \in Context : Log' = Queueing(Log, c)
  PROVE  LogsKept(Log)' /\ EventsKnown'
<1>1. PICK f, g : f = Log /\ g = Log' OBVIOUS
<1>2. LogsKept(g) /\ \A x : InLogs(g, x) <=> InLogs(f, x)
  <2>1. CASE g = f BY <1>1, <2>1
  <2>2. CASE \E c \in Context : g = Queueing(f, c) BY <1>1, <2>2, QueueKept
  <2> QED BY <1>1, <2>1, <2>2
<1>3. ASSUME NEW x, InLogs(g, x) PROVE Known(x)'
  <2>1. x \in Event /\ Known(x) BY <1>1, <1>2, <1>3, InLogsEvent DEF EventsKnown
  <2> QED BY <2>1, KnownGrows
<1> QED BY <1>1, <1>2, <1>3 DEF EventsKnown

\* An event is stored in the buffer of thread c, and so in its log.
Stores(c, e) == buffer' = [buffer EXCEPT ![c] = Append(@, e)] /\ UNCHANGED trace

LEMMA RecordLog ==
  ASSUME RecorderTypes, NEW c \in Context, NEW e, Stores(c, e)
  PROVE  Log' = Recording(Log, c, e)
<1>2. PICK S : S = Context \cup {End} OBVIOUS
<1>3. c \in S /\ c # End /\ buffer \in [Context -> Seq(Event)]
  BY <1>2, EndApart DEF RecorderTypes
<1>4. buffer' = [buffer EXCEPT ![c] = Append(@, e)] /\ trace' = trace BY DEF Stores
<1>5. PICK g : g = Recording(Log, c, e) OBVIOUS
<1>6. DOMAIN g = S /\ DOMAIN Log' = S BY <1>2, <1>5 DEF Recording, Log, Logs
<1>7. ASSUME NEW d \in S PROVE g[d] = Log'[d]
  <2>1. CASE d = End BY <1>2, <1>3, <1>4, <1>5, <2>1 DEF Recording, Log, Logs
  <2>2. CASE d # End /\ d # c
    <3>1. d \in Context BY <1>2, <2>2
    <3> QED BY <1>2, <1>3, <1>4, <1>5, <2>2, <3>1 DEF Recording, Log, Logs
  <2>3. CASE d = c BY <1>2, <1>3, <1>4, <1>5, <2>3 DEF Recording, Log, Logs
  <2> QED BY <2>1, <2>2, <2>3
<1>8. g = [d \in S |-> g[d]] /\ Log' = [d \in S |-> Log'[d]]
  BY <1>2, <1>5 DEF Recording, Log, Logs
<1> QED BY <1>5, <1>7, <1>8

\* A queued buffer goes from its log to that of the trace.
LEMMA QueueLog ==
  ASSUME RecorderTypes, NEW c \in Context, Queue(c)
  PROVE  Log' = Queueing(Log, c)
<1>1. PICK S : S = Context \cup {End} OBVIOUS
<1>2. c \in S /\ c # End /\ End \in S /\ buffer \in [Context -> Seq(Event)]
  BY <1>1, EndApart DEF RecorderTypes
<1>3. trace' = trace \o buffer[c] /\ buffer' = [buffer EXCEPT ![c] = <<>>] BY DEF Queue
<1>4. PICK g : g = Queueing(Log, c) OBVIOUS
<1>5. ASSUME NEW d \in S PROVE g[d] = Log'[d]
  <2>1. CASE d = End BY <1>1, <1>2, <1>3, <1>4, <2>1 DEF Queueing, Log, Logs
  <2>2. CASE d # End /\ d # c
    <3>1. d \in Context BY <1>1, <2>2
    <3> QED BY <1>1, <1>2, <1>3, <1>4, <2>2, <3>1 DEF Queueing, Log, Logs
  <2>3. CASE d = c BY <1>1, <1>2, <1>3, <1>4, <2>3 DEF Queueing, Log, Logs
  <2> QED BY <2>1, <2>2, <2>3
<1>6. g = [d \in S |-> g[d]] /\ Log' = [d \in S |-> Log'[d]]
  BY <1>1, <1>4 DEF Queueing, Log, Logs
<1> QED BY <1>4, <1>5, <1>6

\* The operations that are finished stay finished.
LEMMA CreatorsKept ==
  ASSUME RecorderTypes, Creators, UNCHANGED program, done' \in [Context -> Nat],
         \A p \in Context : done[p] <= done'[p],
         \A c \in Context \ {0} : at'[c] # "unborn" => at[c] # "unborn" \/ Born(c)'
  PROVE  Creators'
<1>1. ASSUME NEW c \in Context \ {0}, at'[c] # "unborn" PROVE Born(c)'
  <2>1. CASE Born(c)' BY <2>1
  <2>2. CASE at[c] # "unborn"
    <3>1. PICK p \in Context : \E i \in DOMAIN program.ops[p] :
            i <= done[p] /\ Creates(program, p, i) /\ program.ops[p][i].on = c
      BY <2>2 DEF Creators, Born
    <3>2. PICK i \in DOMAIN program.ops[p] :
            i <= done[p] /\ Creates(program, p, i) /\ program.ops[p][i].on = c
      BY <3>1
    <3>3. i \in Nat /\ done[p] \in Nat /\ done'[p] \in Nat BY OpsIn
    <3>4. i <= done'[p] BY <3>2, <3>3
    <3> QED BY <3>2, <3>4 DEF Born
  <2> QED BY <1>1, <2>1, <2>2
<1> QED BY <1>1 DEF Creators

\* Thread c goes on: it is at v now, and has finished an operation or not.
GoesOn(c, v) ==
  /\ c \in Context
  /\ at[c] \notin {"unborn", "barrier"}
  /\ v \in {"run", "unlock", "store", "join", "leave", "ended"}
  /\ at' = [at EXCEPT ![c] = v]
  /\ UNCHANGED <<program, inside>>
  /\ \/ v = "run" /\ Completes(c)
     \/ /\ UNCHANGED done
        /\ v \in {"run", "ended"} \/ done[c] < Len(program.ops[c])

\* What a step keeps of the threads.
ThreadsKept ==
  /\ program' \in Programs /\ done' \in [Context -> Nat] /\ inside' \in [Address -> SUBSET Context]
  /\ at' \in [Context -> {"unborn", "run", "unlock", "store", "join", "barrier", "leave", "ended"}]
  /\ Doing' /\ Creators'
  /\ \A d \in Context : at[d] # "unborn" => at'[d] # "unborn"

LEMMA GoesOnKept ==
  ASSUME RecorderTypes, Doing, Creators, NEW c, NEW v, GoesOn(c, v)
  PROVE  ThreadsKept
<1>1. /\ c \in Context /\ at[c] \notin {"unborn", "barrier"}
      /\ v \in {"run", "unlock", "store", "join", "leave", "ended"}
      /\ at' = [at EXCEPT ![c] = v] /\ UNCHANGED program /\ UNCHANGED inside
  BY DEF GoesOn
<1>2. /\ program' \in Programs /\ at' \in [Context -> {"unborn", "run", "unlock", "store",
                                                       "join", "barrier", "leave", "ended"}]
      /\ inside' \in [Address -> SUBSET Context]
  BY <1>1 DEF RecorderTypes
<1>3. at'[c] = v /\ \A d \in Context : d # c => at'[d] = at[d] BY <1>1 DEF RecorderTypes
<1>4. done \in [Context -> Nat] BY DEF RecorderTypes
<1>5. /\ done' \in [Context -> Nat]
      /\ \A d \in Context : d # c => done'[d] = done[d]
      /\ done'[c] = done[c] \/ (v = "run" /\ done'[c] = done[c] + 1)
  BY <1>1, <1>4 DEF GoesOn, Completes
<1>6. \A p \in Context : done[p] <= done'[p] BY <1>1, <1>4, <1>5
<1>7. \A d \in Context : at'[d] # "unborn" => at[d] # "unborn" BY <1>1, <1>3
<1>8. Creators' BY <1>1, <1>5, <1>6, <1>7, CreatorsKept
<1>9. ASSUME NEW d \in Context, at'[d] \in {"unlock", "store", "join", "barrier", "leave"}
      PROVE  done'[d] < Len(program'.ops[d])
  <2>1. CASE d # c BY <1>1, <1>3, <1>5, <1>9, <2>1 DEF Doing
  <2>2. CASE d = c BY <1>1, <1>3, <1>9, <2>2 DEF GoesOn
  <2> QED BY <2>1, <2>2
<1>10. ASSUME NEW a \in Address, NEW d \in inside'[a] PROVE at'[d] = "barrier" /\ On(d)' = a
  <2>1. d \in inside[a] /\ d \in Context BY <1>1 DEF RecorderTypes
  <2>2. at[d] = "barrier" /\ On(d) = a BY <2>1 DEF Doing
  <2>3. d # c BY <1>1, <2>2
  <2> QED BY <1>1, <1>3, <1>5, <2>1, <2>2, <2>3 DEF On
<1>11. Doing' BY <1>9, <1>10 DEF Doing
<1> QED BY <1>1, <1>2, <1>3, <1>5, <1>8, <1>11 DEF ThreadsKept

\* The numbers go on: one is drawn, or the one that was drawn ahead is used.
NumbersGoOn ==
  \/ UNCHANGED numbers
  \/ numbers' = [numbers EXCEPT !.ticket = @ + 1]
  \/ numbers' = [numbers EXCEPT !.barrier = @ + 1]
  \/ \E c \in Context : \/ numbers' = [numbers EXCEPT !.drawn[c] = 0]
                        \/ numbers' = [numbers EXCEPT !.ticket = @ + 1, !.drawn[c] = numbers.ticket]

LEMMA NumbersKept ==
  ASSUME RecorderTypes, TicketsDrawn, NumbersGoOn
  PROVE  /\ numbers' \in [ticket : Nat, barrier : Nat, drawn : [Context -> Nat]]
         /\ TicketsDrawn'
         /\ numbers.ticket <= numbers'.ticket /\ numbers.barrier <= numbers'.barrier
         /\ \A c \in Context : numbers'.drawn[c] \in {numbers.drawn[c], 0, numbers.ticket}
<1>1. PICK n \in [ticket : Nat, barrier : Nat, drawn : [Context -> Nat]] : n = numbers
  BY DEF RecorderTypes
<1>2. CASE UNCHANGED numbers BY <1>1, <1>2 DEF TicketsDrawn
<1>3. CASE numbers' = [numbers EXCEPT !.ticket = @ + 1]
  <2>1. /\ numbers' \in [ticket : Nat, barrier : Nat, drawn : [Context -> Nat]]
        /\ numbers'.ticket = n.ticket + 1 /\ numbers'.barrier = n.barrier
        /\ numbers'.drawn = n.drawn
    BY <1>1, <1>3
  <2>2. TicketsDrawn' BY <1>1, <2>1 DEF TicketsDrawn
  <2> QED BY <1>1, <2>1, <2>2
<1>4. CASE numbers' = [numbers EXCEPT !.barrier = @ + 1]
  <2>1. /\ numbers' \in [ticket : Nat, barrier : Nat, drawn : [Context -> Nat]]
        /\ numbers'.ticket = n.ticket /\ numbers'.barrier = n.barrier + 1
        /\ numbers'.drawn = n.drawn
    BY <1>1, <1>4
  <2>2. TicketsDrawn' BY <1>1, <2>1 DEF TicketsDrawn
  <2> QED BY <1>1, <2>1, <2>2
<1>5. ASSUME NEW c \in Context, numbers' = [numbers EXCEPT !.drawn[c] = 0]
      PROVE  /\ numbers' \in [ticket : Nat, barrier : Nat, drawn : [Context -> Nat]]
             /\ TicketsDrawn'
             /\ numbers.ticket <= numbers'.ticket /\ numbers.barrier <= numbers'.barrier
             /\ \A d \in Context : numbers'.drawn[d] \in {numbers.drawn[d], 0, numbers.ticket}
  <2>1. /\ numbers' \in [ticket : Nat, barrier : Nat, drawn : [Context -> Nat]]
        /\ numbers'.ticket = n.ticket /\ numbers'.barrier = n.barrier
        /\ numbers'.drawn = [n.drawn EXCEPT ![c] = 0]
    BY <1>1, <1>5
  <2>2. \A d \in Context : numbers'.drawn[d] = IF d = c THEN 0 ELSE n.drawn[d] BY <1>1, <2>1
  <2>3. TicketsDrawn' BY <1>1, <2>1, <2>2 DEF TicketsDrawn
  <2> QED BY <1>1, <2>1, <2>2, <2>3
<1>6. ASSUME NEW c \in Context,
             numbers' = [numbers EXCEPT !.ticket = @ + 1, !.drawn[c] = numbers.ticket]
      PROVE  /\ numbers' \in [ticket : Nat, barrier : Nat, drawn : [Context -> Nat]]
             /\ TicketsDrawn'
             /\ numbers.ticket <= numbers'.ticket /\ numbers.barrier <= numbers'.barrier
             /\ \A d \in Context : numbers'.drawn[d] \in {numbers.drawn[d], 0, numbers.ticket}
  <2>1. /\ numbers' \in [ticket : Nat, barrier : Nat, drawn : [Context -> Nat]]
        /\ numbers'.ticket = n.ticket + 1 /\ numbers'.barrier = n.barrier
        /\ numbers'.drawn = [n.drawn EXCEPT ![c] = n.ticket]
    <3>1. PICK m : m = [n EXCEPT !.ticket = @ + 1] OBVIOUS
    <3>2. /\ m \in [ticket : Nat, barrier : Nat, drawn : [Context -> Nat]]
          /\ m.ticket = n.ticket + 1 /\ m.barrier = n.barrier /\ m.drawn = n.drawn
      BY <3>1
    <3>3. numbers' = [m EXCEPT !.drawn[c] = n.ticket] BY <1>1, <1>6, <3>1
    <3> QED BY <3>2, <3>3
  <2>2. \A d \in Context : numbers'.drawn[d] = IF d = c THEN n.ticket ELSE n.drawn[d]
    BY <1>1, <2>1
  <2>3. ASSUME NEW d \in Context, numbers'.drawn[d] # 0
        PROVE  /\ numbers'.drawn[d] < numbers'.ticket
               /\ \A e \in Context : d # e => numbers'.drawn[d] # numbers'.drawn[e]
    <3>1. n.ticket \in Nat /\ n.drawn \in [Context -> Nat] BY <1>1
    <3>2. \A e \in Context : n.drawn[e] # 0 => n.drawn[e] < n.ticket BY <1>1 DEF TicketsDrawn
    <3>3. \A e \in Context : n.drawn[e] \in Nat BY <3>1
    <3>4. CASE d = c
      <4>1. numbers'.drawn[d] = n.ticket BY <2>2, <3>4
      <4>2. ASSUME NEW e \in Context, d # e PROVE n.ticket # numbers'.drawn[e]
        <5>1. numbers'.drawn[e] = n.drawn[e] BY <2>2, <3>4, <4>2
        <5>2. n.drawn[e] \in Nat /\ (n.drawn[e] # 0 => n.drawn[e] < n.ticket) BY <3>2, <3>3
        <5> QED BY <2>3, <3>1, <4>1, <5>1, <5>2
      <4> QED BY <2>1, <3>1, <4>1, <4>2
    <3>5. CASE d # c
      <4>1. numbers'.drawn[d] = n.drawn[d] BY <2>2, <3>5
      <4>2. n.drawn[d] < n.ticket /\ n.drawn[d] \in Nat BY <2>3, <3>2, <3>3, <4>1
      <4>3. ASSUME NEW e \in Context, d # e PROVE n.drawn[d] # numbers'.drawn[e]
        <5>1. CASE e = c BY <2>2, <3>1, <4>2, <5>1
        <5>2. CASE e # c
          <6>1. numbers'.drawn[e] = n.drawn[e] BY <2>2, <5>2
          <6> QED BY <1>1, <2>3, <4>1, <4>3, <6>1 DEF TicketsDrawn
        <5> QED BY <5>1, <5>2
      <4> QED BY <2>1, <3>1, <4>1, <4>2, <4>3
    <3> QED BY <3>4, <3>5
  <2>4. TicketsDrawn' BY <2>3 DEF TicketsDrawn
  <2> QED BY <1>1, <2>1, <2>2, <2>4
<1> QED BY <1>2, <1>3, <1>4, <1>5, <1>6 DEF NumbersGoOn

-------------------------------------------------------------------------------
(* The actions keep the invariant. *)

\* What a step does to what is recorded: it adds an event, or none that has a ticket.
Adds(e) == \A x : InLogs(Log', x) <=> InLogs(Log, x) \/ x = e
SyncKept == \A x : IsSync(x) => (InLogs(Log', x) <=> InLogs(Log, x))

\* An event that thread c may record, with the numbers as they are, ...
MayRecord(c, e) ==
  /\ c \in Context
  /\ e \in Event /\ e.ctx = c /\ e.type # "created"
  /\ IsSync(e) => \/ e.n = numbers.ticket
                  \/ \E d \in Context : numbers.drawn[d] # 0 /\ e.n = numbers.drawn[d]
  /\ IsBarrier(e) => e.n = numbers.barrier
  /\ e.type = "create" => e.on \in Context /\ at[e.on] = "unborn"

\* ... if it is known when it is recorded.
LEMMA RecordInv ==
  ASSUME RecorderInv, ThreadsKept, NumbersGoOn,
         NEW c, NEW e, MayRecord(c, e), Stores(c, e), Known(e)'
  PROVE  RecorderInv' /\ Adds(e)
<1>1. RecorderTypes /\ Doing /\ Creators /\ TicketsDrawn /\ LogsKept(Log) /\ EventsKnown
  BY DEF RecorderInv
<1>2. c \in Context /\ e \in Event BY DEF MayRecord
<1>3. /\ numbers' \in [ticket : Nat, barrier : Nat, drawn : [Context -> Nat]]
      /\ TicketsDrawn' /\ Grows
  BY <1>1, NumbersKept DEF Grows, ThreadsKept
<1>4. trace' \in Seq(Event) /\ buffer' \in [Context -> Seq(Event)]
  <2>1. buffer \in [Context -> Seq(Event)] /\ trace \in Seq(Event) BY <1>1 DEF RecorderTypes
  <2>2. Append(buffer[c], e) \in Seq(Event) BY <1>2, <2>1, AppendProperties
  <2> QED BY <1>2, <2>1, <2>2 DEF Stores
<1>5. RecorderTypes' BY <1>3, <1>4 DEF RecorderTypes, ThreadsKept
<1>6. Fresh(Log, c, e) BY <1>1, FreshEvent DEF MayRecord
<1>7. Log' = Recording(Log, c, e) BY <1>1, <1>2, RecordLog
<1>8. LogsKept(Log)' /\ EventsKnown' BY <1>1, <1>3, <1>5, <1>6, <1>7, RecordStep
<1>9. Adds(e)
  <2>1. PICK f : f = Log OBVIOUS
  <2>2. LogsKept(f) /\ Fresh(f, c, e) BY <1>1, <1>6, <2>1
  <2>3. \A x : InLogs(Recording(f, c, e), x) <=> InLogs(f, x) \/ x = e BY <2>2, RecordIn
  <2> QED BY <1>7, <2>1, <2>3 DEF Adds
<1> QED BY <1>3, <1>5, <1>8, <1>9 DEF RecorderInv, ThreadsKept

\* Nothing is recorded, or a buffer is queued.
LEMMA QueueInv ==
  ASSUME RecorderInv, ThreadsKept, NumbersGoOn,
         UNCHANGED <<trace, buffer>> \/ \E c \in Context : Queue(c)
  PROVE  RecorderInv' /\ \A x : InLogs(Log', x) <=> InLogs(Log, x)
<1>1. RecorderTypes /\ Doing /\ Creators /\ TicketsDrawn /\ LogsKept(Log) /\ EventsKnown
  BY DEF RecorderInv
<1>3. /\ numbers' \in [ticket : Nat, barrier : Nat, drawn : [Context -> Nat]]
      /\ TicketsDrawn' /\ Grows
  BY <1>1, NumbersKept DEF Grows, ThreadsKept
<1>4. /\ trace' \in Seq(Event) /\ buffer' \in [Context -> Seq(Event)]
      /\ Log' = Log \/ \E c \in Context : Log' = Queueing(Log, c)
  <2>1. buffer \in [Context -> Seq(Event)] /\ trace \in Seq(Event) BY <1>1 DEF RecorderTypes
  <2>2. CASE UNCHANGED <<trace, buffer>> BY <2>1, <2>2 DEF Log
  <2>3. ASSUME NEW c \in Context, Queue(c)
        PROVE  /\ trace' \in Seq(Event) /\ buffer' \in [Context -> Seq(Event)]
               /\ Log' = Queueing(Log, c)
    <3>1. trace \o buffer[c] \in Seq(Event) /\ <<>> \in Seq(Event)
      BY <2>1, ConcatProperties, EmptySeq
    <3> QED BY <1>1, <2>1, <2>3, <3>1, QueueLog DEF Queue
  <2> QED BY <2>2, <2>3
<1>5. RecorderTypes' BY <1>3, <1>4 DEF RecorderTypes, ThreadsKept
<1>8. LogsKept(Log)' /\ EventsKnown' BY <1>1, <1>3, <1>4, <1>5, QueueStep
<1>9. \A x : InLogs(Log', x) <=> InLogs(Log, x)
  <2>1. PICK f : f = Log OBVIOUS
  <2>2. \A c \in Context : \A x : InLogs(Queueing(f, c), x) <=> InLogs(f, x)
    BY <1>1, <2>1, QueueKept
  <2> QED BY <1>4, <2>1, <2>2
<1> QED BY <1>3, <1>5, <1>8, <1>9 DEF RecorderInv, ThreadsKept

\* A block draws no number.
LEMMA RecordBlockInv ==
  ASSUME RecorderInv, NEW c \in Context, RecordBlock(c)
  PROVE  RecorderInv' /\ SyncKept
<1>1. RecorderTypes /\ Doing /\ Creators BY DEF RecorderInv
<1>2. PICK e : e = [ctx |-> c, type |-> "block", n |-> 0, on |-> c] OBVIOUS
<1>3. at[c] = "run" /\ at \in [Context -> {"unborn", "run", "unlock", "store", "join", "barrier",
                                           "leave", "ended"}]
  BY <1>1 DEF RecordBlock, Does, RecorderTypes
<1>4. GoesOn(c, "run") BY <1>3 DEF RecordBlock, GoesOn
<1>5. ThreadsKept BY <1>1, <1>4, GoesOnKept
<1>6. NumbersGoOn /\ Stores(c, e) BY <1>2 DEF RecordBlock, NumbersGoOn, Stores, Record
<1>7. MayRecord(c, e) BY <1>2 DEF MayRecord, Event, IsSync, IsBarrier
<1>8. Known(e)' BY <1>2, <1>3 DEF RecordBlock, Known, IsSync, IsBarrier
<1> QED BY <1>2, <1>5, <1>6, <1>7, <1>8, RecordInv DEF SyncKept, Adds, IsSync

\* The ticket of an acquire is new.
LEMMA AcquireInv ==
  ASSUME RecorderInv, NEW c \in Context, Acquire(c)
  PROVE  RecorderInv' /\ Adds([ctx |-> c, type |-> "acquire", n |-> numbers.ticket, on |-> On(c)])
<1>1. RecorderTypes /\ Doing /\ Creators BY DEF RecorderInv
<1>2. PICK e : e = [ctx |-> c, type |-> "acquire", n |-> numbers.ticket, on |-> On(c)] OBVIOUS
<1>3. On(c) \in Context \cup Address BY <1>1, OpsIn DEF Acquire, Does
<1>4. numbers \in [ticket : Nat, barrier : Nat, drawn : [Context -> Nat]] BY <1>1 DEF RecorderTypes
<1>5. GoesOn(c, "run") BY <1>1 DEF Acquire, Does, GoesOn, RecorderTypes
<1>6. ThreadsKept BY <1>1, <1>5, GoesOnKept
<1>7. NumbersGoOn BY DEF Acquire, NumbersGoOn
<1>8. Stores(c, e) BY <1>2 DEF Acquire, Stores, Record
<1>9. MayRecord(c, e) BY <1>2, <1>3, <1>4 DEF MayRecord, Event, IsSync, IsBarrier
<1>10. Known(e)'
  <2>1. numbers'.ticket = numbers.ticket + 1 /\ numbers'.drawn = numbers.drawn
    BY <1>4 DEF Acquire
  <2>2. ASSUME NEW d \in Context, numbers.drawn[d] # 0 PROVE numbers.ticket # numbers.drawn[d]
    BY <1>4, <2>2 DEF RecorderInv, TicketsDrawn
  <2>3. at'[c] # "unborn" BY <1>1 DEF Acquire, Does
  <2> QED BY <1>2, <1>4, <2>1, <2>2, <2>3 DEF Known, IsSync, IsBarrier
<1> QED BY <1>2, <1>6, <1>7, <1>8, <1>9, <1>10, RecordInv

\* The ticket that is drawn ahead is kept apart until its event is stored.
LEMMA DrawTicketInv ==
  ASSUME RecorderInv, NEW c \in Context, DrawTicket(c)
  PROVE  RecorderInv' /\ SyncKept
<1>1. RecorderTypes /\ Doing /\ Creators BY DEF RecorderInv
<1>2. GoesOn(c, "unlock") BY DEF DrawTicket, Does, GoesOn
<1>3. ThreadsKept BY <1>1, <1>2, GoesOnKept
<1>4. NumbersGoOn BY DEF DrawTicket, NumbersGoOn
<1> QED BY <1>3, <1>4, QueueInv DEF DrawTicket, SyncKept

\* The lock is given back in between.
LEMMA UnlockInv ==
  ASSUME RecorderInv, NEW c \in Context, Unlock(c)
  PROVE  RecorderInv' /\ SyncKept
<1>1. RecorderTypes /\ Doing /\ Creators BY DEF RecorderInv
<1>2. GoesOn(c, "store") BY <1>1 DEF Unlock, GoesOn, Doing
<1>3. ThreadsKept BY <1>1, <1>2, GoesOnKept
<1>4. NumbersGoOn BY DEF Unlock, NumbersGoOn
<1> QED BY <1>3, <1>4, QueueInv DEF Unlock, SyncKept

\* The release has the ticket drawn ahead, or a new one if that is 0.
LEMMA StoreReleaseInv ==
  ASSUME RecorderInv, NEW c \in Context, StoreRelease(c)
  PROVE  /\ RecorderInv'
         /\ Adds([ctx |-> c, type |-> "release",
                  n |-> IF numbers.drawn[c] = 0 THEN numbers.ticket ELSE numbers.drawn[c],
                  on |-> On(c)])
<1>1. RecorderTypes /\ Doing /\ Creators BY DEF RecorderInv
<1>2. PICK k : k = IF numbers.drawn[c] = 0 THEN numbers.ticket ELSE numbers.drawn[c] OBVIOUS
<1>3. PICK e : e = [ctx |-> c, type |-> "release", n |-> k, on |-> On(c)] OBVIOUS
<1>4. On(c) \in Context \cup Address BY <1>1, OpsIn DEF StoreRelease, Doing
<1>5. numbers \in [ticket : Nat, barrier : Nat, drawn : [Context -> Nat]] BY <1>1 DEF RecorderTypes
<1>6. GoesOn(c, "run") BY DEF StoreRelease, GoesOn
<1>7. ThreadsKept BY <1>1, <1>6, GoesOnKept
<1>8. NumbersGoOn BY DEF StoreRelease, NumbersGoOn
<1>9. Stores(c, e) BY <1>2, <1>3 DEF StoreRelease, Stores, Record
<1>10. k \in Nat /\ (k = numbers.ticket \/ (numbers.drawn[c] # 0 /\ k = numbers.drawn[c]))
  BY <1>2, <1>5
<1>11. MayRecord(c, e) BY <1>3, <1>4, <1>10 DEF MayRecord, Event, IsSync, IsBarrier
<1>12. Known(e)'
  <2>1. at'[c] # "unborn" BY <1>7 DEF StoreRelease, ThreadsKept
  <2>2. \A d \in Context : numbers.drawn[d] # 0 =>
          /\ numbers.drawn[d] < numbers.ticket
          /\ c # d => numbers.drawn[c] # numbers.drawn[d]
    BY DEF RecorderInv, TicketsDrawn
  <2>3. CASE numbers.drawn[c] = 0
    <3>1. numbers'.ticket = numbers.ticket + 1 /\ numbers'.drawn = numbers.drawn
      BY <1>5, <2>3 DEF StoreRelease
    <3>2. k = numbers.ticket BY <1>2, <2>3
    <3>3. ASSUME NEW d \in Context, numbers.drawn[d] # 0 PROVE k # numbers.drawn[d]
      BY <1>5, <2>2, <3>2, <3>3
    <3> QED BY <1>3, <1>5, <2>1, <3>1, <3>2, <3>3 DEF Known, IsSync, IsBarrier
  <2>4. CASE numbers.drawn[c] # 0
    <3>1. numbers'.ticket = numbers.ticket /\ numbers'.drawn = [numbers.drawn EXCEPT ![c] = 0]
      BY <1>5, <2>4 DEF StoreRelease
    <3>2. k = numbers.drawn[c] /\ k < numbers.ticket BY <1>2, <2>2, <2>4
    <3>3. ASSUME NEW d \in Context, numbers'.drawn[d] # 0 PROVE k # numbers'.drawn[d]
      <4>1. d # c /\ numbers'.drawn[d] = numbers.drawn[d] BY <1>5, <3>1, <3>3
      <4> QED BY <2>2, <2>4, <3>2, <3>3, <4>1
    <3> QED BY <1>3, <2>1, <3>1, <3>2, <3>3 DEF Known, IsSync, IsBarrier
  <2> QED BY <2>3, <2>4
<1> QED BY <1>2, <1>3, <1>7, <1>8, <1>9, <1>11, <1>12, RecordInv

\* The buffer is queued before a join.
LEMMA QueueBeforeJoinInv ==
  ASSUME RecorderInv, NEW c \in Context, QueueBeforeJoin(c)
  PROVE  RecorderInv' /\ SyncKept
<1>1. RecorderTypes /\ Doing /\ Creators BY DEF RecorderInv
<1>2. GoesOn(c, "join") BY DEF QueueBeforeJoin, Does, GoesOn
<1>3. ThreadsKept BY <1>1, <1>2, GoesOnKept
<1>4. NumbersGoOn BY DEF QueueBeforeJoin, NumbersGoOn
<1> QED BY <1>3, <1>4, QueueInv DEF QueueBeforeJoin, SyncKept

\* A join draws no number.
LEMMA JoinInv ==
  ASSUME RecorderInv, NEW c \in Context, Join(c)
  PROVE  RecorderInv' /\ SyncKept
<1>1. RecorderTypes /\ Doing /\ Creators BY DEF RecorderInv
<1>2. PICK e : e = [ctx |-> c, type |-> "join", n |-> 0, on |-> On(c)] OBVIOUS
<1>3. On(c) \in Context \cup Address BY <1>1, OpsIn DEF Join, Doing
<1>4. GoesOn(c, "run") BY DEF Join, GoesOn
<1>5. ThreadsKept BY <1>1, <1>4, GoesOnKept
<1>6. NumbersGoOn /\ Stores(c, e) BY <1>2 DEF Join, NumbersGoOn, Stores, Record
<1>7. MayRecord(c, e) BY <1>2, <1>3 DEF MayRecord, Event, IsSync, IsBarrier
<1>8. at'[c] # "unborn" BY <1>5 DEF Join, ThreadsKept
<1>9. Known(e)' BY <1>2, <1>8 DEF Known, IsSync, IsBarrier
<1> QED BY <1>2, <1>5, <1>6, <1>7, <1>9, RecordInv DEF SyncKept, Adds, IsSync

\* The number of a leave is new.
LEMMA LeaveInv ==
  ASSUME RecorderInv, NEW c \in Context, Leave(c)
  PROVE  RecorderInv' /\ SyncKept
<1>1. RecorderTypes /\ Doing /\ Creators BY DEF RecorderInv
<1>2. PICK e : e = [ctx |-> c, type |-> "leave", n |-> numbers.barrier, on |-> On(c)] OBVIOUS
<1>3. On(c) \in Context \cup Address BY <1>1, OpsIn DEF Leave, Doing
<1>4. numbers \in [ticket : Nat, barrier : Nat, drawn : [Context -> Nat]] BY <1>1 DEF RecorderTypes
<1>5. GoesOn(c, "run") BY DEF Leave, GoesOn
<1>6. ThreadsKept BY <1>1, <1>5, GoesOnKept
<1>7. NumbersGoOn /\ Stores(c, e) BY <1>2 DEF Leave, NumbersGoOn, Stores, Record
<1>8. MayRecord(c, e) BY <1>2, <1>3, <1>4 DEF MayRecord, Event, IsSync, IsBarrier
<1>9. at'[c] # "unborn" BY <1>6 DEF Leave, ThreadsKept
<1>10. numbers'.barrier = numbers.barrier + 1 BY <1>4 DEF Leave
<1>11. Known(e)' BY <1>2, <1>4, <1>9, <1>10 DEF Known, IsSync, IsBarrier
<1> QED BY <1>2, <1>6, <1>7, <1>8, <1>11, RecordInv DEF SyncKept, Adds, IsSync

\* A full buffer is queued.
LEMMA BufferFullInv ==
  ASSUME RecorderInv, NEW c \in Context, BufferFull(c)
  PROVE  RecorderInv' /\ SyncKept
<1>1. RecorderTypes /\ Doing /\ Creators BY DEF RecorderInv
<1>2. GoesOn(c, "run") BY <1>1 DEF BufferFull, GoesOn, RecorderTypes
<1>3. ThreadsKept BY <1>1, <1>2, GoesOnKept
<1>4. NumbersGoOn BY DEF BufferFull, NumbersGoOn
<1> QED BY <1>3, <1>4, QueueInv DEF BufferFull, SyncKept

\* The number of an enter is new, and the thread is at its barrier.
LEMMA EnterInv ==
  ASSUME RecorderInv, NEW c \in Context, Enter(c)
  PROVE  RecorderInv' /\ SyncKept
<1>1. RecorderTypes /\ Doing /\ Creators BY DEF RecorderInv
<1>2. PICK e : e = [ctx |-> c, type |-> "enter", n |-> numbers.barrier, on |-> On(c)] OBVIOUS
<1>3. On(c) \in Context \cup Address BY <1>1, OpsIn DEF Enter, Does
<1>4. numbers \in [ticket : Nat, barrier : Nat, drawn : [Context -> Nat]] BY <1>1 DEF RecorderTypes
<1>5. /\ at[c] = "run" /\ at' = [at EXCEPT ![c] = "barrier"]
      /\ inside' = [inside EXCEPT ![On(c)] = @ \cup {c}]
      /\ program' = program /\ done' = done
  BY DEF Enter, Does
<1>6. ThreadsKept
  <2>1. /\ program' \in Programs /\ done' \in [Context -> Nat]
        /\ at' \in [Context -> {"unborn", "run", "unlock", "store", "join", "barrier", "leave",
                                "ended"}]
        /\ at'[c] = "barrier" /\ \A d \in Context : d # c => at'[d] = at[d]
    BY <1>1, <1>5 DEF RecorderTypes
  <2>2. inside' \in [Address -> SUBSET Context] BY <1>1, <1>5 DEF RecorderTypes
  <2>3. \A d \in Context : at[d] # "unborn" <=> at'[d] # "unborn" BY <1>5, <2>1
  <2>4. \A p \in Context : done[p] <= done'[p] BY <1>5, <2>1
  <2>5. Creators' BY <1>1, <1>5, <2>1, <2>3, <2>4, CreatorsKept
  <2>6. ASSUME NEW d \in Context, at'[d] \in {"unlock", "store", "join", "barrier", "leave"}
        PROVE  done'[d] < Len(program'.ops[d])
    <3>1. CASE d = c BY <1>5, <3>1 DEF Enter, Does
    <3>2. CASE d # c BY <1>1, <1>5, <2>1, <2>6, <3>2 DEF Doing
    <3> QED BY <3>1, <3>2
  <2>7. ASSUME NEW a \in Address, NEW d \in inside'[a] PROVE at'[d] = "barrier" /\ On(d)' = a
    <3>1. d \in inside[a] \/ (d = c /\ On(c) = a) BY <1>1, <1>5 DEF RecorderTypes
    <3>2. On(d)' = On(d) BY <1>5 DEF On
    <3>3. CASE d = c /\ On(c) = a BY <2>1, <3>2, <3>3
    <3>4. CASE d \in inside[a]
      <4>1. at[d] = "barrier" /\ On(d) = a /\ d \in Context BY <1>1, <3>4 DEF Doing, RecorderTypes
      <4> QED BY <1>5, <2>1, <3>2, <4>1
    <3> QED BY <3>1, <3>3, <3>4
  <2> QED BY <2>1, <2>2, <2>3, <2>5, <2>6, <2>7 DEF ThreadsKept, Doing
<1>7. NumbersGoOn /\ Stores(c, e) BY <1>2 DEF Enter, NumbersGoOn, Stores, Record
<1>8. MayRecord(c, e) BY <1>2, <1>3, <1>4 DEF MayRecord, Event, IsSync, IsBarrier
<1>9. at'[c] # "unborn" BY <1>1, <1>5 DEF RecorderTypes
<1>10. numbers'.barrier = numbers.barrier + 1 BY <1>4 DEF Enter
<1>11. Known(e)' BY <1>2, <1>4, <1>9, <1>10 DEF Known, IsSync, IsBarrier
<1> QED BY <1>2, <1>6, <1>7, <1>8, <1>11, RecordInv DEF SyncKept, Adds, IsSync

\* All that are at a barrier leave it.
LEMMA MeetInv ==
  ASSUME RecorderInv, NEW a \in Address, Meet(a)
  PROVE  RecorderInv' /\ SyncKept
<1>1. RecorderTypes /\ Doing /\ Creators BY DEF RecorderInv
<1>2. /\ at' = [c \in Context |-> IF c \in inside[a] THEN "leave" ELSE at[c]]
      /\ inside' = [inside EXCEPT ![a] = {}]
      /\ program' = program /\ done' = done
  BY DEF Meet
<1>3. \A c \in inside[a] : c \in Context /\ at[c] = "barrier" /\ On(c) = a
  BY <1>1 DEF Doing, RecorderTypes
<1>4. ThreadsKept
  <2>1. /\ program' \in Programs /\ done' \in [Context -> Nat]
        /\ at' \in [Context -> {"unborn", "run", "unlock", "store", "join", "barrier", "leave",
                                "ended"}]
        /\ \A c \in Context : at'[c] = IF c \in inside[a] THEN "leave" ELSE at[c]
    BY <1>1, <1>2 DEF RecorderTypes
  <2>2. inside' \in [Address -> SUBSET Context] BY <1>1, <1>2 DEF RecorderTypes
  <2>3. \A c \in Context : at[c] # "unborn" <=> at'[c] # "unborn" BY <1>3, <2>1
  <2>4. \A p \in Context : done[p] <= done'[p] BY <1>2, <2>1
  <2>5. Creators' BY <1>1, <1>2, <2>1, <2>3, <2>4, CreatorsKept
  <2>6. ASSUME NEW c \in Context, at'[c] \in {"unlock", "store", "join", "barrier", "leave"}
        PROVE  done'[c] < Len(program'.ops[c])
    <3>1. at[c] \in {"unlock", "store", "join", "barrier", "leave"} BY <1>3, <2>1, <2>6
    <3> QED BY <1>1, <1>2, <3>1 DEF Doing
  <2>7. ASSUME NEW b \in Address, NEW c \in inside'[b] PROVE at'[c] = "barrier" /\ On(c)' = b
    <3>1. b # a /\ c \in inside[b] /\ c \in Context BY <1>1, <1>2 DEF RecorderTypes
    <3>2. at[c] = "barrier" /\ On(c) = b /\ On(c)' = On(c) BY <1>1, <1>2, <3>1 DEF Doing, On
    <3>3. c \notin inside[a] BY <1>3, <3>1, <3>2
    <3> QED BY <2>1, <3>1, <3>2, <3>3
  <2> QED BY <2>1, <2>2, <2>3, <2>5, <2>6, <2>7 DEF ThreadsKept, Doing
<1>5. NumbersGoOn BY DEF Meet, NumbersGoOn
<1> QED BY <1>4, <1>5, QueueInv DEF Meet, SyncKept

\* A step that records more than an event.
LEMMA LogInv ==
  ASSUME RecorderInv, ThreadsKept, NumbersGoOn,
         trace' \in Seq(Event), buffer' \in [Context -> Seq(Event)],
         LogsKept(Log)', \A x : InLogs(Log', x) => InLogs(Log, x) \/ Known(x)'
  PROVE  RecorderInv'
<1>1. RecorderTypes /\ Doing /\ Creators /\ TicketsDrawn /\ LogsKept(Log) /\ EventsKnown
  BY DEF RecorderInv
<1>2. /\ numbers' \in [ticket : Nat, barrier : Nat, drawn : [Context -> Nat]]
      /\ TicketsDrawn' /\ Grows
  BY <1>1, NumbersKept DEF Grows, ThreadsKept
<1>3. RecorderTypes' BY <1>2 DEF RecorderTypes, ThreadsKept
<1>4. ASSUME NEW x, InLogs(Log', x) PROVE Known(x)'
  <2>1. CASE InLogs(Log, x)
    <3>1. x \in Event /\ Known(x) BY <1>1, <2>1, InLogsEvent DEF EventsKnown
    <3> QED BY <1>1, <1>2, <1>3, <3>1, KnownGrows
  <2> QED BY <1>4, <2>1
<1>5. EventsKnown' BY <1>4 DEF EventsKnown
<1> QED BY <1>2, <1>3, <1>5 DEF RecorderInv, ThreadsKept

\* The thread that an operation creates has not run, and recorded nothing.
LEMMA CreatesUnborn ==
  ASSUME RecorderInv, NEW c \in Context, CreateContext(c)
  PROVE  /\ On(c) \in Context \ {0} /\ On(c) # c
         /\ at[On(c)] = "unborn" /\ buffer[On(c)] = <<>>
         /\ \A x : InLogs(Log, x) => x.ctx # On(c)
<1>1. RecorderTypes /\ Doing /\ Creators /\ LogsKept(Log) /\ EventsKnown BY DEF RecorderInv
<1>2. PICK i, d : i = done[c] + 1 /\ d = On(c) OBVIOUS
<1>3. /\ at[c] = "run" /\ i \in DOMAIN program.ops[c]
      /\ Creates(program, c, i) /\ program.ops[c][i].on = d
  BY <1>1, <1>2, OpsIn DEF CreateContext, Does, Creates, On
<1>4. program \in Programs BY <1>1 DEF RecorderTypes
<1>5. d \in Context \ {0} BY <1>3, <1>4, ProgramsAssumption
<1>6. at[d] = "unborn"
  <2>1. SUFFICES ASSUME at[d] # "unborn" PROVE FALSE OBVIOUS
  <2>2. PICK p \in Context : \E j \in DOMAIN program.ops[p] :
          j <= done[p] /\ Creates(program, p, j) /\ program.ops[p][j].on = d
    BY <1>1, <1>5, <2>1 DEF Creators, Born
  <2>3. PICK j \in DOMAIN program.ops[p] :
          j <= done[p] /\ Creates(program, p, j) /\ program.ops[p][j].on = d
    BY <2>2
  <2>4. p = c /\ j = i BY <1>3, <1>4, <2>3, ProgramsAssumption
  <2>5. done[c] \in Nat BY <1>1, OpsIn
  <2> QED BY <1>2, <2>3, <2>4, <2>5
<1>7. \A x : InLogs(Log, x) => x.ctx # d BY <1>1, <1>6 DEF EventsKnown, Known
<1>8. buffer[d] = <<>>
  <2>1. buffer[d] \in Seq(Event) BY <1>1, <1>5 DEF RecorderTypes
  <2>2. Log[d] = buffer[d] BY <1>5, EndApart DEF Log, Logs
  <2>3. SUFFICES ASSUME buffer[d] # <<>> PROVE FALSE OBVIOUS
  <2>4. Len(buffer[d]) \in Nat \ {0} BY <2>1, <2>3, EmptySeq
  <2>5. 1 \in 1 .. Len(Log[d]) BY <2>2, <2>4
  <2>6. InLogs(Log, Log[d][1]) BY <1>5, <2>5 DEF InLogs
  <2>7. Log[d][1].ctx = d BY <1>1, <1>5, <2>5 DEF LogsKept
  <2> QED BY <1>7, <2>6, <2>7
<1> QED BY <1>2, <1>3, <1>5, <1>6, <1>7, <1>8

\* The thread that is created was created by an operation that is finished then.
LEMMA CreateThreads ==
  ASSUME RecorderInv, NEW c \in Context, CreateContext(c)
  PROVE  ThreadsKept
<1>1. RecorderTypes /\ Doing /\ Creators BY DEF RecorderInv
<1>2. PICK d : d = On(c) OBVIOUS
<1>3. d \in Context \ {0} /\ d # c /\ at[d] = "unborn" BY <1>2, CreatesUnborn
<1>4. /\ at[c] = "run" /\ at' = [at EXCEPT ![d] = "run"]
      /\ done' = [done EXCEPT ![c] = @ + 1] /\ inside' = inside /\ program' = program
  BY <1>2 DEF CreateContext, Does, Completes
<1>5. /\ program' \in Programs /\ inside' \in [Address -> SUBSET Context]
      /\ at' \in [Context -> {"unborn", "run", "unlock", "store", "join", "barrier", "leave",
                              "ended"}]
      /\ at'[d] = "run" /\ \A e \in Context : e # d => at'[e] = at[e]
  BY <1>1, <1>3, <1>4 DEF RecorderTypes
<1>6. /\ done \in [Context -> Nat] /\ done' \in [Context -> Nat]
      /\ done'[c] = done[c] + 1 /\ \A e \in Context : e # c => done'[e] = done[e]
  BY <1>1, <1>4 DEF RecorderTypes
<1>7. Born(d)'
  <2>1. PICK i : i = done[c] + 1 OBVIOUS
  <2>2. /\ i \in DOMAIN program.ops[c] /\ Creates(program, c, i)
        /\ program.ops[c][i].on = d
    BY <1>1, <1>2, <2>1, OpsIn DEF CreateContext, Does, Creates, On
  <2>3. i <= done'[c] BY <1>6, <2>1
  <2> QED BY <1>4, <2>2, <2>3 DEF Born
<1>8. \A p \in Context : done[p] <= done'[p] BY <1>6
<1>9. \A e \in Context \ {0} : at'[e] # "unborn" => at[e] # "unborn" \/ Born(e)'
  BY <1>5, <1>7
<1>10. Creators' BY <1>1, <1>4, <1>6, <1>8, <1>9, CreatorsKept
<1>11. ASSUME NEW e \in Context, at'[e] \in {"unlock", "store", "join", "barrier", "leave"}
       PROVE  done'[e] < Len(program'.ops[e])
  <2>1. e # d /\ e # c BY <1>3, <1>4, <1>5, <1>11
  <2> QED BY <1>1, <1>4, <1>5, <1>6, <1>11, <2>1 DEF Doing
<1>12. ASSUME NEW a \in Address, NEW e \in inside'[a] PROVE at'[e] = "barrier" /\ On(e)' = a
  <2>1. at[e] = "barrier" /\ On(e) = a /\ e \in Context
    BY <1>1, <1>4 DEF Doing, RecorderTypes
  <2>2. e # d /\ e # c BY <1>3, <1>4, <2>1
  <2> QED BY <1>4, <1>5, <1>6, <2>1, <2>2 DEF On
<1>13. \A e \in Context : at[e] # "unborn" => at'[e] # "unborn" BY <1>5
<1> QED BY <1>5, <1>6, <1>10, <1>11, <1>12, <1>13 DEF ThreadsKept, Doing

\* The create is recorded by the parent, and that it was created by the child.
LEMMA CreateContextInv ==
  ASSUME RecorderInv, NEW c \in Context, CreateContext(c)
  PROVE  RecorderInv' /\ SyncKept
<1>1. RecorderTypes /\ LogsKept(Log) /\ EventsKnown /\ ThreadsKept
  BY CreateThreads DEF RecorderInv
<1>2. PICK d : d = On(c) OBVIOUS
<1>3. /\ d \in Context \ {0} /\ d # c /\ at[d] = "unborn" /\ buffer[d] = <<>>
      /\ \A x : InLogs(Log, x) => x.ctx # d
  BY <1>2, CreatesUnborn
<1>4. PICK e1, e2 : /\ e1 = [ctx |-> c, type |-> "create", n |-> 0, on |-> d]
                    /\ e2 = [ctx |-> d, type |-> "created", n |-> 0, on |-> c]
  OBVIOUS
<1>5. e1 \in Event /\ e2 \in Event BY <1>3, <1>4 DEF Event
<1>6. /\ trace' = trace /\ numbers' = numbers /\ at[c] = "run" /\ at' = [at EXCEPT ![d] = "run"]
      /\ buffer' = [buffer EXCEPT ![c] = Append(@, e1), ![d] = <<e2>>]
  BY <1>2, <1>4 DEF CreateContext, Does
<1>7. PICK f, g, h : f = Log /\ g = Recording(f, c, e1) /\ h = Recording(g, d, e2) OBVIOUS
<1>8. Fresh(f, c, e1)
  <2>1. MayRecord(c, e1) BY <1>3, <1>4, <1>5 DEF MayRecord, IsSync, IsBarrier
  <2> QED BY <1>1, <1>7, <2>1, FreshEvent DEF MayRecord
<1>9. LogsKept(g) /\ \A x : InLogs(g, x) <=> InLogs(f, x) \/ x = e1
  BY <1>1, <1>7, <1>8, RecordKept, RecordIn
<1>10. Fresh(g, d, e2)
  <2>1. ASSUME NEW x, InLogs(g, x) PROVE Apart(x, e2) /\ x.ctx # d
    <3>1. x.ctx # d BY <1>3, <1>4, <1>7, <1>9, <2>1
    <3> QED BY <1>4, <3>1 DEF Apart, IsSync, IsBarrier
  <2>2. e2.ctx = d BY <1>4
  <2> QED BY <1>3, <1>5, <2>1, <2>2 DEF Fresh
<1>11. LogsKept(h) /\ \A x : InLogs(h, x) <=> InLogs(g, x) \/ x = e2
  BY <1>7, <1>9, <1>10, RecordKept, RecordIn
<1>12. /\ trace \in Seq(Event) /\ buffer \in [Context -> Seq(Event)]
       /\ Append(buffer[c], e1) \in Seq(Event) /\ <<e2>> \in Seq(Event)
       /\ Append(buffer[d], e2) = <<e2>>
  <2>1. trace \in Seq(Event) /\ buffer \in [Context -> Seq(Event)] BY <1>1 DEF RecorderTypes
  <2>2. Append(buffer[c], e1) \in Seq(Event) BY <1>5, <2>1, AppendProperties
  <2>3. <<e2>> \in Seq(Event) BY <1>5
  <2>4. Append(<<>>, e2) = <<e2>> OBVIOUS
  <2> QED BY <1>3, <2>1, <2>2, <2>3, <2>4
<1>13. buffer' \in [Context -> Seq(Event)] BY <1>3, <1>6, <1>12
<1>14. Log' = h
  <2>1. PICK S : S = Context \cup {End} OBVIOUS
  <2>2. /\ f = [b \in S |-> f[b]] /\ g = [b \in S |-> g[b]] /\ h = [b \in S |-> h[b]]
        /\ Log' = [b \in S |-> Log'[b]]
    BY <1>7, <2>1 DEF Recording, Log, Logs
  <2>3. ASSUME NEW b \in S PROVE h[b] = Log'[b]
    <3>1. b \in Context \/ b = End BY <2>1
    <3>2. c \in S /\ d \in S /\ c # End /\ d # End BY <1>3, <2>1, EndApart
    <3>3. CASE b = c
      <4>1. h[b] = g[b] BY <1>3, <1>7, <2>2, <3>2, <3>3 DEF Recording
      <4>2. g[b] = Append(f[c], e1) BY <1>7, <2>2, <3>2, <3>3 DEF Recording
      <4>3. f[c] = buffer[c] /\ Log'[c] = buffer'[c] BY <1>7, <3>2 DEF Log, Logs
      <4>4. buffer'[c] = Append(buffer[c], e1) BY <1>3, <1>6, <1>12
      <4> QED BY <3>3, <4>1, <4>2, <4>3, <4>4
    <3>4. CASE b = d
      <4>1. h[b] = Append(g[d], e2) BY <1>7, <2>2, <3>2, <3>4 DEF Recording
      <4>2. g[d] = f[d] BY <1>3, <1>7, <2>2, <3>2 DEF Recording
      <4>3. f[d] = buffer[d] /\ Log'[d] = buffer'[d] BY <1>3, <1>7, <3>2 DEF Log, Logs
      <4>4. buffer'[d] = <<e2>> BY <1>3, <1>6, <1>12
      <4> QED BY <1>12, <3>4, <4>1, <4>2, <4>3, <4>4
    <3>5. CASE b # c /\ b # d
      <4>1. h[b] = f[b] BY <1>7, <2>2, <3>2, <3>5 DEF Recording
      <4>2. CASE b = End BY <1>6, <1>7, <2>1, <4>1, <4>2 DEF Log, Logs
      <4>3. CASE b \in Context
        <5>1. b # End BY <4>3, EndApart
        <5>2. f[b] = buffer[b] /\ Log'[b] = buffer'[b] BY <1>7, <4>3, <5>1 DEF Log, Logs
        <5>3. buffer'[b] = buffer[b] BY <1>6, <1>12, <3>5, <4>3
        <5> QED BY <4>1, <5>2, <5>3
      <4> QED BY <3>1, <4>2, <4>3
    <3> QED BY <3>3, <3>4, <3>5
  <2> QED BY <2>2, <2>3
<1>15. ASSUME NEW x, InLogs(Log', x) PROVE InLogs(Log, x) \/ Known(x)'
  <2>1. at'[c] # "unborn" /\ at'[d] # "unborn" BY <1>1, <1>3, <1>6 DEF RecorderTypes
  <2>2. Known(e1)' BY <1>3, <1>4, <2>1 DEF Known, IsSync, IsBarrier
  <2>3. Known(e2)' BY <1>3, <1>4, <2>1 DEF Known, IsSync, IsBarrier
  <2> QED BY <1>7, <1>9, <1>11, <1>14, <1>15, <2>2, <2>3
<1>16. NumbersGoOn BY <1>6 DEF NumbersGoOn
<1>17. trace' \in Seq(Event) BY <1>6, <1>12
<1>18. LogsKept(Log)' BY <1>11, <1>14
<1>19. SyncKept BY <1>4, <1>7, <1>9, <1>11, <1>14 DEF SyncKept, IsSync
<1> QED BY <1>1, <1>13, <1>15, <1>16, <1>17, <1>18, <1>19, LogInv

\* The exit is recorded and the buffer queued.
LEMMA ExitContextInv ==
  ASSUME RecorderInv, NEW c \in Context, ExitContext(c)
  PROVE  RecorderInv' /\ SyncKept
<1>1. RecorderTypes /\ Doing /\ Creators /\ LogsKept(Log) /\ EventsKnown BY DEF RecorderInv
<1>2. GoesOn(c, "ended") BY DEF ExitContext, GoesOn
<1>3. ThreadsKept BY <1>1, <1>2, GoesOnKept
<1>4. Parent(c) \in Context
  <2>1. CASE c = 0 BY <2>1, EventsAssumption DEF Parent
  <2>2. CASE c # 0
    <3>1. at[c] # "unborn" BY DEF ExitContext
    <3>2. Born(c) BY <1>1, <2>2, <3>1 DEF Creators
    <3>3. \E p \in Context : \E i \in DOMAIN program.ops[p] :
            program.ops[p][i].op = "create" /\ program.ops[p][i].on = c
      BY <3>2 DEF Born, Creates
    <3> QED BY <2>2, <3>3 DEF Parent
  <2> QED BY <2>1, <2>2
<1>5. PICK e : e = [ctx |-> c, type |-> "exit", n |-> 0, on |-> Parent(c)] OBVIOUS
<1>6. e \in Event BY <1>4, <1>5 DEF Event
<1>7. PICK f, g, h : f = Log /\ g = Recording(f, c, e) /\ h = Queueing(g, c) OBVIOUS
<1>8. Fresh(f, c, e)
  <2>1. MayRecord(c, e) BY <1>5, <1>6 DEF MayRecord, IsSync, IsBarrier
  <2> QED BY <1>1, <1>7, <2>1, FreshEvent DEF MayRecord
<1>9. LogsKept(g) /\ \A x : InLogs(g, x) <=> InLogs(f, x) \/ x = e
  BY <1>1, <1>7, <1>8, RecordKept, RecordIn
<1>10. LogsKept(h) /\ \A x : InLogs(h, x) <=> InLogs(g, x) BY <1>7, <1>9, QueueKept
<1>11. /\ trace' = Append(trace \o buffer[c], e) /\ buffer' = [buffer EXCEPT ![c] = <<>>]
       /\ numbers' = numbers /\ at' = [at EXCEPT ![c] = "ended"]
  BY <1>5 DEF ExitContext
<1>12. /\ trace \in Seq(Event) /\ buffer \in [Context -> Seq(Event)] /\ <<>> \in Seq(Event)
       /\ trace' \in Seq(Event) /\ buffer' \in [Context -> Seq(Event)]
       /\ trace' = trace \o Append(buffer[c], e)
  <2>1. /\ trace \in Seq(Event) /\ buffer \in [Context -> Seq(Event)] /\ <<>> \in Seq(Event)
        /\ buffer[c] \in Seq(Event)
    BY <1>1, EmptySeq DEF RecorderTypes
  <2>2. PICK s \in Seq(Event), b \in Seq(Event) : s = trace /\ b = buffer[c] BY <2>1
  <2>3. s \o b \in Seq(Event) /\ <<e>> \in Seq(Event) BY <1>6, ConcatProperties
  <2>4. Append(s \o b, e) = (s \o b) \o <<e>> BY <1>6, <2>3, AppendIsConcat
  <2>5. Append(b, e) = b \o <<e>> BY <1>6, AppendIsConcat
  <2>6. (s \o b) \o <<e>> = s \o (b \o <<e>>) BY <2>3, ConcatAssociative
  <2>7. Append(s \o b, e) \in Seq(Event) BY <1>6, <2>3, AppendProperties
  <2> QED BY <1>11, <2>1, <2>2, <2>4, <2>5, <2>6, <2>7
<1>13. Log' = h
  <2>1. PICK S : S = Context \cup {End} OBVIOUS
  <2>2. /\ f = [b \in S |-> f[b]] /\ g = [b \in S |-> g[b]] /\ h = [b \in S |-> h[b]]
        /\ Log' = [b \in S |-> Log'[b]]
    BY <1>7, <2>1 DEF Recording, Queueing, Log, Logs
  <2>3. ASSUME NEW b \in S PROVE h[b] = Log'[b]
    <3>1. b \in Context \/ b = End BY <2>1
    <3>2. c \in S /\ End \in S /\ c # End BY <2>1, EndApart
    <3>3. f[c] = buffer[c] /\ f[End] = trace BY <1>7, <3>2 DEF Log, Logs
    <3>4. Log'[c] = buffer'[c] /\ Log'[End] = trace' BY <3>2 DEF Log, Logs
    <3>5. CASE b = c
      <4>1. h[b] = <<>> BY <1>7, <2>2, <3>2, <3>5 DEF Queueing
      <4> QED BY <1>11, <1>12, <3>4, <3>5, <4>1
    <3>6. CASE b = End
      <4>1. h[b] = g[End] \o g[c] BY <1>7, <2>2, <3>2, <3>6 DEF Queueing
      <4>2. g[End] = f[End] /\ g[c] = Append(f[c], e) BY <1>7, <2>2, <3>2 DEF Recording
      <4> QED BY <1>12, <3>3, <3>4, <3>6, <4>1, <4>2
    <3>7. CASE b # c /\ b # End
      <4>1. h[b] = g[b] BY <1>7, <2>2, <3>7 DEF Queueing
      <4>2. g[b] = f[b] BY <1>7, <2>2, <3>7 DEF Recording
      <4>3. f[b] = buffer[b] /\ Log'[b] = buffer'[b] BY <1>7, <3>1, <3>7 DEF Log, Logs
      <4>4. buffer'[b] = buffer[b] BY <1>11, <1>12, <3>1, <3>7
      <4> QED BY <4>1, <4>2, <4>3, <4>4
    <3> QED BY <3>5, <3>6, <3>7
  <2> QED BY <2>2, <2>3
<1>14. ASSUME NEW x, InLogs(Log', x) PROVE InLogs(Log, x) \/ Known(x)'
  <2>1. at'[c] # "unborn" BY <1>1, <1>11 DEF RecorderTypes
  <2>2. Known(e)' BY <1>5, <2>1 DEF Known, IsSync, IsBarrier
  <2> QED BY <1>7, <1>9, <1>10, <1>13, <1>14, <2>2
<1>15. NumbersGoOn BY <1>11 DEF NumbersGoOn
<1>16. LogsKept(Log)' BY <1>10, <1>13
<1>17. SyncKept BY <1>5, <1>7, <1>9, <1>10, <1>13 DEF SyncKept, IsSync
<1> QED BY <1>3, <1>12, <1>14, <1>15, <1>16, <1>17, LogInv

\* A step of a thread keeps the invariant.
LEMMA ContextStepInv ==
  ASSUME RecorderInv, NEW c \in Context, ContextStep(c)
  PROVE  RecorderInv'
BY RecordBlockInv, AcquireInv, DrawTicketInv, UnlockInv, StoreReleaseInv, CreateContextInv,
   QueueBeforeJoinInv, JoinInv, EnterInv, LeaveInv, BufferFullInv, ExitContextInv
   DEF ContextStep

\* No other step ends the program.
LEMMA RecorderSteps ==
  ASSUME RecorderInv, RecorderStep
  PROVE  \/ RecorderInv' /\ UNCHANGED program
         \/ EndProgram
<1>1. ASSUME NEW c \in Context, ContextStep(c) PROVE RecorderInv' /\ UNCHANGED program
  <2>1. RecorderInv' BY <1>1, ContextStepInv
  <2>2. UNCHANGED program
    BY <1>1 DEF ContextStep, RecordBlock, Acquire, DrawTicket, Unlock, StoreRelease,
       CreateContext, QueueBeforeJoin, Join, Enter, Leave, BufferFull, ExitContext
  <2> QED BY <2>1, <2>2
<1>2. ASSUME NEW a \in Address, Meet(a) PROVE RecorderInv' /\ UNCHANGED program
  BY <1>2, MeetInv DEF Meet
<1> QED BY <1>1, <1>2 DEF RecorderStep

\* What is recorded is well formed at any time.
LEMMA RecordedSoFar ==
  ASSUME RecorderInv
  PROVE  WellFormed(trace)
<1>1. PICK f : f = Log OBVIOUS
<1>2. LogsKept(f) /\ f[End] = trace BY <1>1 DEF RecorderInv, Log, Logs
<1>3. \A x : InLogs(f, x) /\ x.type = "create" => x.on \in Context
  BY <1>1 DEF RecorderInv, EventsKnown, Known
<1>4. WellFormed(f[End]) BY <1>2, <1>3, TraceWellFormed
<1> QED BY <1>2, <1>4

\* Nothing is recorded at first.
LEMMA RecorderStarts ==
  ASSUME NEW p \in Programs, trace = <<>>, RecorderInit(p)
  PROVE  RecorderInv
<1>1. /\ program = p /\ trace = <<>> /\ done = [c \in Context |-> 0]
      /\ at = [c \in Context |-> IF c = 0 THEN "run" ELSE "unborn"]
      /\ buffer = [c \in Context |-> <<>>]
      /\ inside = [a \in Address |-> {}]
      /\ numbers = [ticket |-> 0, barrier |-> 0, drawn |-> [c \in Context |-> 0]]
  BY DEF RecorderInit
<1>2. RecorderTypes
  <2>1. <<>> \in Seq(Event) BY EmptySeq
  <2> QED BY <1>1, <2>1 DEF RecorderTypes
<1>3. Doing BY <1>1 DEF Doing
<1>4. Creators BY <1>1 DEF Creators
<1>5. TicketsDrawn BY <1>1 DEF TicketsDrawn
<1>6. \A c \in Context \cup {End} : Log[c] = <<>> BY <1>1 DEF Log, Logs
<1>7. \A c \in Context \cup {End} : Len(Log[c]) = 0 BY <1>6
<1>8. LogsKept(Log)
  <2>1. Log \in [Context \cup {End} -> Seq(Event)] BY <1>1, EmptySeq DEF Log, Logs
  <2> QED BY <1>7, <2>1 DEF LogsKept
<1>9. EventsKnown BY <1>7 DEF EventsKnown, InLogs
<1> QED BY <1>2, <1>3, <1>4, <1>5, <1>8, <1>9 DEF RecorderInv

-------------------------------------------------------------------------------
(* The program and its reader. *)

\* First a trace is recorded and nothing read, then it is read.
MiddleInv ==
  /\ ~Recorded => RecorderInv /\ ReaderInit
  /\ Recorded => ReaderInv
  /\ IteratorValid

\* What the program does not see.
LEMMA RecorderInvIdle ==
  ASSUME RecorderInv, UNCHANGED recorderVars
  PROVE  RecorderInv'
BY DEF recorderVars, RecorderInv, RecorderTypes, Doing, On, Creators, Born, TicketsDrawn,
       EventsKnown, Known, Log

\* What the reader does not see.
LEMMA ReaderIdle ==
  ASSUME UNCHANGED <<trace, readerVars>>
  PROVE  /\ ReaderInit => ReaderInit'
         /\ ReaderInv => ReaderInv'
         /\ IteratorValid => IteratorValid'
         /\ UNCHANGED Order!orderVars
<1>1. UNCHANGED <<read, queued, waiting, current, ticketNum, barrierNum, minTicket, resetMin,
                  currMin, reader, event>>
  BY DEF readerVars
<1>2. ReaderInit => ReaderInit' BY <1>1 DEF ReaderInit
<1>3. ReaderInv => ReaderInv' BY <1>1 DEF ReaderInv, Handling
<1>4. IteratorValid => IteratorValid' BY <1>1 DEF IteratorValid
<1>5. UNCHANGED Order!orderVars BY <1>1 DEF Order!orderVars, Delivered
<1> QED BY <1>2, <1>3, <1>4, <1>5

\* They are so at first, and every step keeps them so and is one of the reader's order.
LEMMA MiddleStarts ==
  ASSUME Init
  PROVE  MiddleInv /\ Order!OrderInit
<1>2. PICK p \in Programs : RecorderInit(p) BY DEF Init
<1>3. RecorderInv BY <1>2, RecorderStarts DEF Init
<1>4. ReaderInit BY DEF Init
<1>5. ReaderInv /\ IteratorValid /\ Order!OrderInit BY <1>3, <1>4, RecordedSoFar, ReaderStarts
<1> QED BY <1>3, <1>4, <1>5 DEF MiddleInv

\* A step of a program is none of the reader, and the last one leaves it a trace.
LEMMA MiddleSteps ==
  MiddleInv /\ [Next]_vars => MiddleInv' /\ [Order!OrderNext]_Order!orderVars
<1>1. ReaderInit /\ WellFormed(trace) => ReaderInv BY ReaderStarts
<1>2. (ReaderInit /\ WellFormed(trace))' => ReaderInv' BY <1>1, PTL
<1> SUFFICES ASSUME MiddleInv, [Next]_vars
             PROVE  MiddleInv' /\ [Order!OrderNext]_Order!orderVars
  OBVIOUS
<1>3. CASE Records
  <2>1. RecorderInv /\ ReaderInit /\ IteratorValid /\ RecorderStep /\ UNCHANGED readerVars
    BY <1>3 DEF Records, MiddleInv
  <2>2. read = 0 /\ DOMAIN queued = {} /\ DOMAIN waiting = {} BY <2>1 DEF ReaderInit
  <2>3. /\ read' = 0 /\ queued' = queued /\ waiting' = waiting
        /\ ticketNum' = ticketNum /\ barrierNum' = barrierNum
    BY <2>1, <2>2 DEF readerVars
  <2>4. Delivered = {} /\ Delivered' = {} BY <2>2, <2>3 DEF Delivered
  <2>5. Order!OrderNext BY <2>3, <2>4 DEF Order!OrderNext, Order!Extend
  <2>6. ReaderInit' /\ IteratorValid'
    BY <2>1 DEF readerVars, ReaderInit, IteratorValid
  <2>7. CASE RecorderInv' /\ UNCHANGED program
    BY <1>3, <2>5, <2>6, <2>7 DEF MiddleInv, Records, Recorded
  <2>8. CASE EndProgram
    <3>1. trace' = trace /\ Recorded' BY <2>8 DEF EndProgram, Recorded
    <3>2. WellFormed(trace)' BY <2>1, <3>1, RecordedSoFar
    <3>3. ReaderInv' BY <1>2, <2>6, <3>2
    <3> QED BY <2>5, <2>6, <3>1, <3>3 DEF MiddleInv
  <2> QED BY <2>1, <2>7, <2>8, RecorderSteps
<1>4. CASE Reads \/ HandleEvent
  <2>1. /\ Recorded /\ Recorded' /\ UNCHANGED trace
        /\ ReaderStep \/ Deliver
    BY <1>4 DEF Reads, HandleEvent, recorderVars, Recorded
  <2>2. ReaderInv /\ IteratorValid BY <2>1 DEF MiddleInv
  <2>3. ReaderInv' /\ IteratorValid' /\ [Order!OrderNext]_Order!orderVars
    BY <2>1, <2>2, ReaderSteps
  <2> QED BY <2>1, <2>3 DEF MiddleInv
<1>5. CASE QueueHandled \/ HandleEnd \/ Ends \/ WriterTurn \/ Stopped \/ UNCHANGED vars
  <2>1. UNCHANGED recorderVars /\ UNCHANGED readerVars
    BY <1>5 DEF QueueHandled, HandleEnd, Ends, WriterTurn, Stopped, vars
  <2>2. UNCHANGED <<trace, readerVars>> /\ Recorded' = Recorded
    BY <2>1 DEF recorderVars, Recorded
  <2>3. MiddleInv' BY <2>1, <2>2, RecorderInvIdle, ReaderIdle DEF MiddleInv
  <2> QED BY <2>2, <2>3, ReaderIdle
<1> QED BY <1>3, <1>4, <1>5 DEF Next

-------------------------------------------------------------------------------

\* Whatever a program does, what is recorded of it is well formed: each number is drawn once, a
\* context but the main thread begins with the event that it was created, and is created once
\* (ct_runtime.c:107, 734).  It is what the reader takes for granted.
THEOREM RecordedWellFormed == Spec => [](Recorded => WellFormed(trace))
<1>1. MiddleInv => (Recorded => WellFormed(trace))
  BY DEF MiddleInv, ReaderInv, ReadSoFar, Queues
<1> QED BY <1>1, MiddleStarts, MiddleSteps, PTL DEF Spec

\* The iterator that getNextContechEvent keeps between its calls points into the map of queues,
\* whatever was inserted or erased in the meantime (eventQ.cpp:161, 389).
THEOREM IteratorAlwaysValid == Spec => []IteratorValid
<1>1. MiddleInv => IteratorValid BY DEF MiddleInv
<1> QED BY <1>1, MiddleStarts, MiddleSteps, PTL DEF Spec

\* The reader delivers each event of a trace at most once, those of a context in the order in
\* which it recorded them, those that have numbers in the order of their numbers, and none of a
\* context before its create (eventQ.cpp:136).
THEOREM TraceOrderImplemented == Spec => ImplementsTraceOrder
BY MiddleStarts, MiddleSteps, PTL DEF Spec, ImplementsTraceOrder, Order!OrderSpec

-------------------------------------------------------------------------------
(* The tickets of a lock. *)

\* The ticket of a release is drawn before the lock is given back, and its event stored after.
Releasing(c) == at[c] \in {"unlock", "store"}

\* The tickets that were drawn for lock a, each with the type of its event.
IsTicket(a, n, t) ==
  \/ \E x : InLogs(Log, x) /\ IsSync(x) /\ x.on = a /\ x.n = n /\ x.type = t
  \/ \E c \in Context : Releasing(c) /\ On(c) = a /\ numbers.drawn[c] = n /\ t = "release"
TicketsOf(a) == {p \in Nat \X {"acquire", "release"} : IsTicket(a, p[1], p[2])}

\* Types of tickets that follow one another differ, and the last one is of an acquire or not.
Alternate(D) ==
  \A p, q \in D : p[1] < q[1] /\ ~(\E r \in D : p[1] < r[1] /\ r[1] < q[1]) => p[2] # q[2]
LastIs(D, taken) ==
  \A p \in D : (\A q \in D : q[1] <= p[1]) => (p[2] = "acquire" <=> taken)

\* A lock is taken until the ticket of its release is drawn.
Taken(a) == a \in held /\ \A c \in Context : at[c] = "unlock" => On(c) # a

\* The threads that give a lock back have it, and one thread has it.
Unlockers ==
  /\ \A c \in Context : Releasing(c) => numbers.drawn[c] # 0
  /\ \A c \in Context : at[c] = "unlock" => On(c) \in held
  /\ \A c, d \in Context : at[c] = "unlock" /\ at[d] = "unlock" /\ On(c) = On(d) => c = d
Alternating == \A a : Alternate(TicketsOf(a)) /\ LastIs(TicketsOf(a), Taken(a))

\* A thread that does not run has nothing in its buffer.
Emptied == \A c \in Context : at[c] \in {"unborn", "ended"} => buffer[c] = <<>>
TicketsInv == Unlockers /\ Alternating /\ Emptied

\* A ticket that is drawn last.
LEMMA LastTicket ==
  ASSUME NEW D, D \subseteq Nat \X {"acquire", "release"}, NEW n \in Nat, NEW taken \in BOOLEAN,
         \A p \in D : p[1] < n,
         Alternate(D), LastIs(D, taken),
         NEW t, t = IF taken THEN "release" ELSE "acquire"
  PROVE  /\ Alternate(D \cup {<<n, t>>})
         /\ LastIs(D \cup {<<n, t>>}, ~taken)
<1>1. PICK E, e : E = D \cup {<<n, t>>} /\ e = <<n, t>> OBVIOUS
<1>2. e[1] = n /\ e[2] = t BY <1>1
<1>3. \A p \in D : p[1] \in Nat /\ p[2] \in {"acquire", "release"} OBVIOUS
<1>4. ASSUME NEW p \in E, NEW q \in E, p[1] < q[1], ~\E r \in E : p[1] < r[1] /\ r[1] < q[1]
      PROVE  p[2] # q[2]
  <2>1. p \in D
    <3>1. CASE p = e BY <1>1, <1>2, <1>3, <1>4, <3>1
    <3> QED BY <1>1, <3>1
  <2>2. CASE q \in D
    <3>1. ~\E r \in D : p[1] < r[1] /\ r[1] < q[1] BY <1>1, <1>4
    <3> QED BY <1>4, <2>1, <2>2, <3>1 DEF Alternate
  <2>3. CASE q = e
    <3>1. \A r \in D : ~(p[1] < r[1]) BY <1>1, <1>2, <1>4, <2>3
    <3>2. \A r \in D : r[1] <= p[1] BY <1>3, <2>1, <3>1
    <3>3. p[2] = "acquire" <=> taken BY <2>1, <3>2 DEF LastIs
    <3> QED BY <1>2, <2>3, <3>3
  <2> QED BY <1>1, <2>2, <2>3
<1>5. ASSUME NEW p \in E, \A q \in E : q[1] <= p[1] PROVE p[2] = "acquire" <=> ~taken
  <2>1. n <= p[1] BY <1>1, <1>2, <1>5
  <2>2. p = e BY <1>1, <1>3, <2>1
  <2> QED BY <1>2, <2>2
<1>6. Alternate(E) BY <1>4 DEF Alternate
<1>7. LastIs(E, ~taken) BY <1>5 DEF LastIs
<1> QED BY <1>1, <1>6, <1>7

\* The tickets that were drawn for a lock are less than the next one.
LEMMA TicketsBelow ==
  ASSUME RecorderInv, Unlockers, NEW a
  PROVE  /\ TicketsOf(a) \subseteq Nat \X {"acquire", "release"}
         /\ \A p \in TicketsOf(a) : p[1] < numbers.ticket
<1>1. ASSUME NEW p \in TicketsOf(a) PROVE p[1] < numbers.ticket
  <2>1. IsTicket(a, p[1], p[2]) BY <1>1 DEF TicketsOf
  <2>2. ASSUME NEW x, InLogs(Log, x), IsSync(x), x.n = p[1] PROVE p[1] < numbers.ticket
    BY <2>2 DEF RecorderInv, EventsKnown, Known
  <2>3. ASSUME NEW c \in Context, Releasing(c), numbers.drawn[c] = p[1]
        PROVE  p[1] < numbers.ticket
    BY <2>3 DEF Unlockers, RecorderInv, TicketsDrawn
  <2> QED BY <2>1, <2>2, <2>3 DEF IsTicket
<1> QED BY <1>1 DEF TicketsOf

\* Threads that give a lock back go on doing so, and no others.
ReleasesKept ==
  /\ \A c \in Context : Releasing(c)' <=> Releasing(c)
  /\ \A c \in Context : Releasing(c) => On(c)' = On(c) /\ numbers'.drawn[c] = numbers.drawn[c]

\* A step that stores no ticket.
LEMMA TicketsKept ==
  ASSUME SyncKept, ReleasesKept
  PROVE  \A a : TicketsOf(a)' = TicketsOf(a)
<1>1. ASSUME NEW a, NEW n, NEW t PROVE IsTicket(a, n, t)' <=> IsTicket(a, n, t)
  <2>1. (\E x : InLogs(Log', x) /\ IsSync(x) /\ x.on = a /\ x.n = n /\ x.type = t)
          <=> (\E x : InLogs(Log, x) /\ IsSync(x) /\ x.on = a /\ x.n = n /\ x.type = t)
    BY DEF SyncKept
  <2>2. \A c \in Context : Releasing(c)' /\ On(c)' = a /\ numbers'.drawn[c] = n
                             <=> Releasing(c) /\ On(c) = a /\ numbers.drawn[c] = n
    BY DEF ReleasesKept
  <2> QED BY <2>1, <2>2 DEF IsTicket
<1> QED BY <1>1 DEF TicketsOf

\* Nor does any but the four steps of a lock, which leave what is held as it is.
Quiet ==
  /\ UNCHANGED held
  /\ SyncKept
  /\ \A c \in Context : /\ at'[c] = "unlock" <=> at[c] = "unlock"
                        /\ at'[c] = "store" <=> at[c] = "store"
  /\ \A c \in Context : Releasing(c) => On(c)' = On(c) /\ numbers'.drawn[c] = numbers.drawn[c]
  /\ Emptied'

LEMMA QuietInv ==
  ASSUME TicketsInv, Quiet
  PROVE  TicketsInv'
<1>1. Unlockers /\ Alternating BY DEF TicketsInv
<1>2. \A c \in Context : Releasing(c)' <=> Releasing(c) BY DEF Quiet, Releasing
<1>3. \A a : TicketsOf(a)' = TicketsOf(a) BY <1>2, TicketsKept DEF Quiet, ReleasesKept
<1>4. \A c \in Context : at'[c] = "unlock" => at[c] = "unlock" /\ On(c)' = On(c)
  BY DEF Quiet, Releasing
<1>5. Unlockers'
  <2>1. \A c \in Context : Releasing(c)' => numbers'.drawn[c] # 0
    BY <1>1, <1>2 DEF Quiet, Unlockers
  <2> QED BY <1>1, <1>4, <2>1 DEF Quiet, Unlockers
<1>6. \A a : Taken(a)' <=> Taken(a) BY <1>4 DEF Quiet, Taken, Releasing
<1>7. Alternating'
  <2>1. ASSUME NEW a PROVE Alternate(TicketsOf(a)') /\ LastIs(TicketsOf(a)', Taken(a)')
    BY <1>1, <1>3, <1>6 DEF Alternating, LastIs
  <2> QED BY <2>1 DEF Alternating, Alternate, LastIs
<1> QED BY <1>5, <1>7 DEF Quiet, TicketsInv

\* The steps of a thread that has no ticket drawn ahead.
LEMMA QuietSteps ==
  ASSUME RecorderInv, Emptied, NEW c \in Context,
         \/ RecordBlock(c) \/ CreateContext(c) \/ QueueBeforeJoin(c) \/ Join(c)
         \/ Enter(c) \/ Leave(c) \/ BufferFull(c) \/ ExitContext(c)
  PROVE  Quiet
<1>1. /\ at \in [Context -> {"unborn", "run", "unlock", "store", "join", "barrier", "leave",
                            "ended"}]
      /\ done \in [Context -> Nat] /\ buffer \in [Context -> Seq(Event)]
      /\ numbers \in [ticket : Nat, barrier : Nat, drawn : [Context -> Nat]]
  BY DEF RecorderInv, RecorderTypes
<1>2. SyncKept
  BY RecordBlockInv, CreateContextInv, QueueBeforeJoinInv, JoinInv, EnterInv, LeaveInv,
     BufferFullInv, ExitContextInv
<1>3. UNCHANGED <<program, held>> /\ numbers'.drawn = numbers.drawn
  <2>1. UNCHANGED <<program, held>>
    BY DEF RecordBlock, CreateContext, QueueBeforeJoin, Join, Enter, Leave, BufferFull, ExitContext
  <2>2. UNCHANGED numbers \/ numbers' = [numbers EXCEPT !.barrier = @ + 1]
    BY DEF RecordBlock, CreateContext, QueueBeforeJoin, Join, Enter, Leave, BufferFull, ExitContext
  <2> QED BY <1>1, <2>1, <2>2
<1>4. at[c] \notin {"unlock", "store"}
  BY DEF RecordBlock, CreateContext, QueueBeforeJoin, Join, Enter, Leave, BufferFull, ExitContext,
     Does
<1>5. \A d \in Context : d # c => done'[d] = done[d]
  BY <1>1 DEF RecordBlock, CreateContext, QueueBeforeJoin, Join, Enter, Leave, BufferFull,
     ExitContext, Completes
<1>6. ASSUME NEW d \in Context
      PROVE  /\ at'[d] = at[d] \/ {at'[d], at[d]} \cap {"unlock", "store"} = {}
             /\ at'[d] \in {"unborn", "ended"} => buffer'[d] = <<>>
  <2>1. at[d] \in {"unborn", "ended"} => buffer[d] = <<>> BY DEF Emptied
  <2>2. CASE RecordBlock(c) BY <1>1, <2>1, <2>2 DEF RecordBlock, Does, Record
  <2>3. CASE CreateContext(c)
    <3>1. PICK e : e = On(c) OBVIOUS
    <3>2. e \in Context /\ e # c /\ at[e] = "unborn" BY <2>3, <3>1, CreatesUnborn
    <3>3. at[c] = "run" /\ at' = [at EXCEPT ![e] = "run"] BY <2>3, <3>1 DEF CreateContext, Does
    <3>4. d # e /\ d # c => buffer'[d] = buffer[d] BY <1>1, <2>3, <3>1 DEF CreateContext
    <3> QED BY <1>1, <2>1, <3>2, <3>3, <3>4
  <2>4. CASE QueueBeforeJoin(c) BY <1>1, <2>1, <2>4 DEF QueueBeforeJoin, Does, Queue
  <2>5. CASE Join(c) BY <1>1, <2>1, <2>5 DEF Join, Record
  <2>6. CASE Enter(c) BY <1>1, <2>1, <2>6 DEF Enter, Does, Record
  <2>7. CASE Leave(c) BY <1>1, <2>1, <2>7 DEF Leave, Record
  <2>8. CASE BufferFull(c) BY <1>1, <2>1, <2>8 DEF BufferFull, Queue
  <2>9. CASE ExitContext(c) BY <1>1, <2>1, <2>9 DEF ExitContext
  <2> QED BY <2>2, <2>3, <2>4, <2>5, <2>6, <2>7, <2>8, <2>9
<1>7. \A d \in Context : Releasing(d) => On(d)' = On(d)
  BY <1>3, <1>4, <1>5 DEF Releasing, On
<1> QED BY <1>2, <1>3, <1>6, <1>7 DEF Quiet, Emptied

LEMMA MeetQuiet ==
  ASSUME RecorderInv, Emptied, NEW a \in Address, Meet(a)
  PROVE  Quiet
<1>1. SyncKept BY MeetInv
<1>2. \A c \in inside[a] : at[c] = "barrier" BY DEF RecorderInv, Doing
<1>3. /\ at' = [c \in Context |-> IF c \in inside[a] THEN "leave" ELSE at[c]]
      /\ UNCHANGED <<program, done, buffer, held, numbers>>
  BY DEF Meet
<1>4. \A c \in Context : at'[c] = at[c] \/ (at[c] = "barrier" /\ at'[c] = "leave") BY <1>2, <1>3
<1>5. \A c \in Context : On(c)' = On(c) BY <1>3 DEF On
<1> QED BY <1>1, <1>3, <1>4, <1>5 DEF Quiet, Emptied

\* A step that draws a ticket for lock a, and takes it or draws the ticket of its release.
LEMMA TicketDrawn ==
  ASSUME RecorderInv, Unlockers, Alternating, NEW a, NEW t,
         t = IF Taken(a) THEN "release" ELSE "acquire", Taken(a)' <=> ~Taken(a),
         \A n \in Nat : IsTicket(a, n, t)' <=> IsTicket(a, n, t) \/ n = numbers.ticket,
         \A n \in Nat : \A s : s # t => (IsTicket(a, n, s)' <=> IsTicket(a, n, s)),
         \A b : b # a => /\ Taken(b)' <=> Taken(b)
                         /\ \A n \in Nat : \A s : IsTicket(b, n, s)' <=> IsTicket(b, n, s)
  PROVE  Alternating'
<1>1. PICK D, n : D = TicketsOf(a) /\ n = numbers.ticket OBVIOUS
<1>2. PICK taken \in BOOLEAN : taken = Taken(a) BY DEF Taken
<1>3. /\ D \subseteq Nat \X {"acquire", "release"} /\ n \in Nat /\ \A p \in D : p[1] < n
      /\ Alternate(D) /\ LastIs(D, taken)
  BY <1>1, <1>2, TicketsBelow DEF Alternating, RecorderInv, RecorderTypes
<1>4. Alternate(D \cup {<<n, t>>}) /\ LastIs(D \cup {<<n, t>>}, ~taken)
  BY <1>2, <1>3, LastTicket
<1>5. TicketsOf(a)' = D \cup {<<n, t>>}
  <2>1. ASSUME NEW m \in Nat, NEW s \in {"acquire", "release"}
        PROVE  <<m, s>> \in TicketsOf(a)' <=> <<m, s>> \in D \cup {<<n, t>>}
    <3>1. <<m, s>> \in TicketsOf(a)' <=> IsTicket(a, m, s)' BY DEF TicketsOf
    <3>2. <<m, s>> \in D <=> IsTicket(a, m, s) BY <1>1 DEF TicketsOf
    <3>3. CASE s = t BY <1>1, <3>1, <3>2, <3>3
    <3>4. CASE s # t BY <3>1, <3>2, <3>4
    <3> QED BY <3>3, <3>4
  <2>2. TicketsOf(a)' \subseteq Nat \X {"acquire", "release"} BY DEF TicketsOf
  <2>3. D \cup {<<n, t>>} \subseteq Nat \X {"acquire", "release"} BY <1>3
  <2>4. PICK E, F : E = TicketsOf(a)' /\ F = D \cup {<<n, t>>} OBVIOUS
  <2>5. E \subseteq Nat \X {"acquire", "release"} /\ F \subseteq Nat \X {"acquire", "release"}
    BY <2>2, <2>3, <2>4
  <2>6. \A m \in Nat : \A s \in {"acquire", "release"} : <<m, s>> \in E <=> <<m, s>> \in F
    BY <2>1, <2>4
  <2>7. ASSUME NEW p \in Nat \X {"acquire", "release"} PROVE p \in E <=> p \in F
    <3>1. p = <<p[1], p[2]>> /\ p[1] \in Nat /\ p[2] \in {"acquire", "release"} OBVIOUS
    <3> QED BY <2>6, <3>1
  <2>8. E = F BY <2>5, <2>7
  <2> QED BY <2>4, <2>8
<1>6. ASSUME NEW b, b # a PROVE TicketsOf(b)' = TicketsOf(b) BY <1>6 DEF TicketsOf
<1>7. ASSUME NEW b PROVE Alternate(TicketsOf(b)') /\ LastIs(TicketsOf(b)', Taken(b)')
  <2>1. CASE b = a
    <3>1. LastIs(TicketsOf(a)', Taken(a)') BY <1>2, <1>4, <1>5 DEF LastIs
    <3> QED BY <1>4, <1>5, <2>1, <3>1
  <2>2. CASE b # a
    <3>1. Alternate(TicketsOf(b)) /\ LastIs(TicketsOf(b), Taken(b)) BY DEF Alternating
    <3> QED BY <1>6, <2>2, <3>1 DEF LastIs
  <2> QED BY <2>1, <2>2
<1> QED BY <1>7 DEF Alternating, Alternate, LastIs

\* A lock that is acquired was not taken.
LEMMA AcquireTickets ==
  ASSUME RecorderInv, TicketsInv, NEW c \in Context, Acquire(c)
  PROVE  TicketsInv'
<1>1. Unlockers /\ Alternating /\ Emptied BY DEF TicketsInv
<1>2. PICK a, n, e : /\ a = On(c) /\ n = numbers.ticket
                     /\ e = [ctx |-> c, type |-> "acquire", n |-> n, on |-> a]
  OBVIOUS
<1>3. /\ at[c] = "run" /\ UNCHANGED <<program, at>> /\ a \notin held /\ held' = held \cup {a}
      /\ \A d \in Context : d # c => done'[d] = done[d] /\ buffer'[d] = buffer[d]
      /\ numbers'.drawn = numbers.drawn
  BY <1>2 DEF Acquire, Does, Completes, Record, RecorderInv, RecorderTypes
<1>4. Adds(e) BY <1>2, AcquireInv
<1>5. \A d \in Context : /\ Releasing(d)' <=> Releasing(d)
                         /\ Releasing(d) => d # c /\ On(d)' = On(d)
  BY <1>3 DEF Releasing, On
<1>6. ASSUME NEW b, NEW m, NEW s
      PROVE  IsTicket(b, m, s)' <=> IsTicket(b, m, s) \/ (b = a /\ m = n /\ s = "acquire")
  <2>1. (\E x : InLogs(Log', x) /\ IsSync(x) /\ x.on = b /\ x.n = m /\ x.type = s)
          <=> \/ \E x : InLogs(Log, x) /\ IsSync(x) /\ x.on = b /\ x.n = m /\ x.type = s
              \/ b = a /\ m = n /\ s = "acquire"
    BY <1>2, <1>4 DEF Adds, IsSync
  <2>2. \A d \in Context : Releasing(d)' /\ On(d)' = b /\ numbers'.drawn[d] = m
                             <=> Releasing(d) /\ On(d) = b /\ numbers.drawn[d] = m
    BY <1>3, <1>5
  <2> QED BY <2>1, <2>2 DEF IsTicket
<1>7. \A d \in Context : at[d] = "unlock" => On(d) \in held /\ On(d) # a /\ On(d)' = On(d)
  BY <1>1, <1>3, <1>5 DEF Unlockers, Releasing
<1>8. ~Taken(a) /\ Taken(a)' /\ \A b : b # a => (Taken(b)' <=> Taken(b))
  BY <1>3, <1>7 DEF Taken
<1>9. Alternating' BY <1>1, <1>2, <1>6, <1>8, TicketDrawn
<1>10. Unlockers' BY <1>1, <1>3, <1>5, <1>7 DEF Unlockers
<1>11. Emptied' BY <1>1, <1>3 DEF Emptied
<1> QED BY <1>9, <1>10, <1>11 DEF TicketsInv

\* The thread that draws a ticket for a release has the lock, and the ticket is not 0.
OwnsUnlock(c) ==
  /\ On(c) \in held
  /\ \A d \in Context : at[d] = "unlock" => On(d) # On(c)
  /\ numbers.ticket # 0

LEMMA DrawTicketTickets ==
  ASSUME RecorderInv, TicketsInv, NEW c \in Context, DrawTicket(c), OwnsUnlock(c)
  PROVE  TicketsInv'
<1>1. Unlockers /\ Alternating /\ Emptied BY DEF TicketsInv
<1>2. PICK a, n : a = On(c) /\ n = numbers.ticket OBVIOUS
<1>3. /\ at[c] = "run" /\ at'[c] = "unlock" /\ UNCHANGED <<program, done, buffer, held>>
      /\ \A d \in Context : d # c => at'[d] = at[d] /\ numbers'.drawn[d] = numbers.drawn[d]
      /\ numbers'.drawn[c] = n
  BY <1>2 DEF DrawTicket, Does, RecorderInv, RecorderTypes
<1>4. SyncKept BY DrawTicketInv
<1>5. \A d \in Context : /\ Releasing(d)' <=> Releasing(d) \/ d = c
                         /\ Releasing(d) => d # c
                         /\ On(d)' = On(d)
  BY <1>3 DEF Releasing, On
<1>6. ASSUME NEW b, NEW m, NEW s
      PROVE  IsTicket(b, m, s)' <=> IsTicket(b, m, s) \/ (b = a /\ m = n /\ s = "release")
  <2>1. (\E x : InLogs(Log', x) /\ IsSync(x) /\ x.on = b /\ x.n = m /\ x.type = s)
          <=> \E x : InLogs(Log, x) /\ IsSync(x) /\ x.on = b /\ x.n = m /\ x.type = s
    BY <1>4 DEF SyncKept
  <2>2. \A d \in Context : Releasing(d)' /\ On(d)' = b /\ numbers'.drawn[d] = m
                             <=> \/ Releasing(d) /\ On(d) = b /\ numbers.drawn[d] = m
                                 \/ d = c /\ b = a /\ m = n
    BY <1>2, <1>3, <1>5
  <2> QED BY <2>1, <2>2 DEF IsTicket
<1>7. Taken(a) /\ ~Taken(a)' /\ \A b : b # a => (Taken(b)' <=> Taken(b))
  <2>1. Taken(a) BY <1>2 DEF Taken, OwnsUnlock
  <2>2. ~Taken(a)' BY <1>2, <1>3, <1>5 DEF Taken
  <2>3. ASSUME NEW b, b # a PROVE Taken(b)' <=> Taken(b)
    BY <1>2, <1>3, <1>5, <2>3 DEF Taken
  <2> QED BY <2>1, <2>2, <2>3
<1>8. Alternating' BY <1>1, <1>2, <1>6, <1>7, TicketDrawn
<1>9. Unlockers' BY <1>1, <1>2, <1>3, <1>5 DEF Unlockers, OwnsUnlock
<1>10. Emptied' BY <1>1, <1>3 DEF Emptied
<1> QED BY <1>8, <1>9, <1>10 DEF TicketsInv

\* A lock that is given back was not taken from the time when the ticket was drawn.
LEMMA UnlockTickets ==
  ASSUME RecorderInv, TicketsInv, NEW c \in Context, Unlock(c)
  PROVE  TicketsInv'
<1>1. Unlockers /\ Alternating /\ Emptied BY DEF TicketsInv
<1>2. PICK a : a = On(c) OBVIOUS
<1>3. /\ at[c] = "unlock" /\ at'[c] = "store" /\ UNCHANGED <<program, done, buffer, numbers>>
      /\ held' = held \ {a} /\ \A d \in Context : d # c => at'[d] = at[d]
  BY <1>2 DEF Unlock, RecorderInv, RecorderTypes
<1>4. SyncKept BY UnlockInv
<1>5. \A d \in Context : (Releasing(d)' <=> Releasing(d)) /\ On(d)' = On(d)
  BY <1>3 DEF Releasing, On
<1>6. \A b : TicketsOf(b)' = TicketsOf(b) BY <1>3, <1>4, <1>5, TicketsKept DEF ReleasesKept
<1>7. \A d \in Context : at'[d] = "unlock" => at[d] = "unlock" /\ d # c /\ On(d) # a
  BY <1>1, <1>2, <1>3 DEF Unlockers
<1>8. ASSUME NEW b PROVE Taken(b)' <=> Taken(b)
  <2>1. CASE b = a BY <1>2, <1>3, <2>1 DEF Taken
  <2>2. CASE b # a BY <1>2, <1>3, <1>5, <2>2 DEF Taken
  <2> QED BY <2>1, <2>2
<1>9. Alternating'
  <2>1. ASSUME NEW b PROVE Alternate(TicketsOf(b)') /\ LastIs(TicketsOf(b)', Taken(b)')
    BY <1>1, <1>6, <1>8 DEF Alternating, LastIs
  <2> QED BY <2>1 DEF Alternating, Alternate, LastIs
<1>10. Unlockers' BY <1>1, <1>3, <1>5, <1>7 DEF Unlockers
<1>11. Emptied' BY <1>1, <1>3 DEF Emptied
<1> QED BY <1>9, <1>10, <1>11 DEF TicketsInv

\* The event of a release has the ticket that was drawn ahead.
LEMMA StoreReleaseTickets ==
  ASSUME RecorderInv, TicketsInv, NEW c \in Context, StoreRelease(c)
  PROVE  TicketsInv'
<1>1. Unlockers /\ Alternating /\ Emptied BY DEF TicketsInv
<1>2. PICK a, n, e : /\ a = On(c) /\ n = numbers.drawn[c]
                     /\ e = [ctx |-> c, type |-> "release", n |-> n, on |-> a]
  OBVIOUS
<1>3. at[c] = "store" /\ n # 0 BY <1>1, <1>2 DEF StoreRelease, Unlockers, Releasing
<1>4. /\ at'[c] = "run" /\ UNCHANGED <<program, held>>
      /\ \A d \in Context : d # c => /\ at'[d] = at[d] /\ done'[d] = done[d]
                                     /\ buffer'[d] = buffer[d]
                                     /\ numbers'.drawn[d] = numbers.drawn[d]
  BY <1>2, <1>3 DEF StoreRelease, Record, Completes, RecorderInv, RecorderTypes
<1>5. Adds(e) BY <1>2, <1>3, StoreReleaseInv
<1>6. \A d \in Context : /\ Releasing(d) <=> Releasing(d)' \/ d = c
                         /\ Releasing(d)' => d # c /\ On(d)' = On(d)
  BY <1>3, <1>4 DEF Releasing, On
<1>7. ASSUME NEW b, NEW m, NEW s PROVE IsTicket(b, m, s)' <=> IsTicket(b, m, s)
  <2>1. (\E x : InLogs(Log', x) /\ IsSync(x) /\ x.on = b /\ x.n = m /\ x.type = s)
          <=> \/ \E x : InLogs(Log, x) /\ IsSync(x) /\ x.on = b /\ x.n = m /\ x.type = s
              \/ b = a /\ m = n /\ s = "release"
    BY <1>2, <1>5 DEF Adds, IsSync
  <2>2. \A d \in Context : Releasing(d) /\ On(d) = b /\ numbers.drawn[d] = m
                             <=> \/ Releasing(d)' /\ On(d)' = b /\ numbers'.drawn[d] = m
                                 \/ d = c /\ b = a /\ m = n
    BY <1>2, <1>4, <1>6
  <2> QED BY <2>1, <2>2 DEF IsTicket
<1>8. \A b : TicketsOf(b)' = TicketsOf(b) BY <1>7 DEF TicketsOf
<1>9. \A d \in Context : at'[d] = "unlock" <=> at[d] = "unlock" BY <1>3, <1>4
<1>10. \A d \in Context : at[d] = "unlock" => On(d)' = On(d) BY <1>3, <1>4, <1>9 DEF On
<1>11. \A b : Taken(b)' <=> Taken(b) BY <1>4, <1>9, <1>10 DEF Taken
<1>12. Alternating'
  <2>1. ASSUME NEW b PROVE Alternate(TicketsOf(b)') /\ LastIs(TicketsOf(b)', Taken(b)')
    BY <1>1, <1>8, <1>11 DEF Alternating, LastIs
  <2> QED BY <2>1 DEF Alternating, Alternate, LastIs
<1>13. Unlockers'
  <2>1. \A d \in Context : Releasing(d)' => numbers'.drawn[d] # 0
    BY <1>1, <1>4, <1>6 DEF Unlockers
  <2> QED BY <1>1, <1>4, <1>9, <1>10, <2>1 DEF Unlockers
<1>14. Emptied' BY <1>1, <1>4 DEF Emptied
<1> QED BY <1>12, <1>13, <1>14 DEF TicketsInv

\* No thread gives a lock back that it does not have, or one it draws the ticket 0 for.
ProperUnlocks == \A c \in Context : DrawTicket(c) => OwnsUnlock(c)

LEMMA TicketsSteps ==
  ASSUME RecorderInv, TicketsInv, RecorderStep, ProperUnlocks
  PROVE  TicketsInv' \/ EndProgram
<1>1. Emptied BY DEF TicketsInv
<1>2. ASSUME NEW c \in Context, ContextStep(c) PROVE TicketsInv'
  <2>1. CASE \/ RecordBlock(c) \/ CreateContext(c) \/ QueueBeforeJoin(c) \/ Join(c)
             \/ Enter(c) \/ Leave(c) \/ BufferFull(c) \/ ExitContext(c)
    BY <1>1, <2>1, QuietSteps, QuietInv
  <2>2. CASE Acquire(c) BY <2>2, AcquireTickets
  <2>3. CASE DrawTicket(c) BY <2>3, DrawTicketTickets DEF ProperUnlocks
  <2>4. CASE Unlock(c) BY <2>4, UnlockTickets
  <2>5. CASE StoreRelease(c) BY <2>5, StoreReleaseTickets
  <2> QED BY <1>2, <2>1, <2>2, <2>3, <2>4, <2>5 DEF ContextStep
<1>3. ASSUME NEW a \in Address, Meet(a) PROVE TicketsInv' BY <1>1, <1>3, MeetQuiet, QuietInv
<1> QED BY <1>2, <1>3 DEF RecorderStep

\* Nothing was drawn at first.
LEMMA TicketsStart ==
  ASSUME NEW p \in Programs, trace = <<>>, RecorderInit(p)
  PROVE  TicketsInv
<1>1. /\ trace = <<>> /\ buffer = [c \in Context |-> <<>>]
      /\ at = [c \in Context |-> IF c = 0 THEN "run" ELSE "unborn"]
  BY DEF RecorderInit
<1>2. \A c \in Context : ~Releasing(c) /\ at[c] # "unlock" BY <1>1 DEF Releasing
<1>3. \A x : ~InLogs(Log, x)
  <2>1. \A c \in Context \cup {End} : Log[c] = <<>> BY <1>1 DEF Log, Logs
  <2>2. \A c \in Context \cup {End} : Len(Log[c]) = 0 BY <2>1
  <2> QED BY <2>2 DEF InLogs
<1>4. \A a : TicketsOf(a) = {} BY <1>2, <1>3 DEF TicketsOf, IsTicket
<1>5. Alternating BY <1>4 DEF Alternating, Alternate, LastIs
<1> QED BY <1>1, <1>2, <1>5 DEF TicketsInv, Unlockers, Emptied

LEMMA TicketsIdle ==
  ASSUME TicketsInv, UNCHANGED recorderVars
  PROVE  TicketsInv'
<1>1. UNCHANGED <<trace, program, at, done, buffer, held, numbers>> BY DEF recorderVars
<1>2. SyncKept BY <1>1 DEF SyncKept, Log
<1>3. Emptied' BY <1>1 DEF TicketsInv, Emptied
<1>4. Quiet BY <1>1, <1>2, <1>3 DEF Quiet, On
<1> QED BY <1>4, QuietInv

\* When all threads have ended, the tickets that were drawn are those of the trace.
LEMMA TicketsAtEnd ==
  ASSUME RecorderInv, TicketsInv, \A c \in Context : at[c] \in {"unborn", "ended"},
         NEW a, NEW i \in Tickets(a), NEW j \in Tickets(a), trace[i].n < trace[j].n,
         ~\E k \in Tickets(a) : trace[i].n < trace[k].n /\ trace[k].n < trace[j].n
  PROVE  trace[i].type # trace[j].type
<1>1. trace \in Seq(Event) /\ DOMAIN trace = 1 .. Len(trace)
  BY LenProperties DEF RecorderInv, RecorderTypes
<1>2. Log[End] = trace /\ \A c \in Context : Log[c] = <<>>
  <2>1. \A c \in Context : buffer[c] = <<>> BY DEF TicketsInv, Emptied
  <2> QED BY <2>1, EndApart DEF Log, Logs
<1>3. \A x : InLogs(Log, x) <=> \E k \in DOMAIN trace : trace[k] = x
  <2>1. \A c \in Context : Len(Log[c]) = 0 BY <1>2
  <2> QED BY <1>1, <1>2, <2>1 DEF InLogs
<1>4. \A k \in DOMAIN trace : trace[k].n \in Nat
  <2>1. \A k \in DOMAIN trace : trace[k] \in Event BY <1>1, ElementOfSeq
  <2> QED BY <2>1 DEF Event
<1>5. ASSUME NEW n, NEW t
      PROVE  IsTicket(a, n, t) <=> \E k \in Tickets(a) : trace[k].n = n /\ trace[k].type = t
  BY <1>3 DEF IsTicket, Tickets, Releasing
<1>6. ASSUME NEW k \in Tickets(a) PROVE <<trace[k].n, trace[k].type>> \in TicketsOf(a)
  BY <1>4, <1>5 DEF TicketsOf, Tickets, IsSync
<1>7. \A p \in TicketsOf(a) : \E k \in Tickets(a) : trace[k].n = p[1] BY <1>5 DEF TicketsOf
<1>8. PICK p, q : p = <<trace[i].n, trace[i].type>> /\ q = <<trace[j].n, trace[j].type>>
  OBVIOUS
<1>9. p \in TicketsOf(a) /\ q \in TicketsOf(a) BY <1>6, <1>8
<1>10. p[1] < q[1] /\ ~\E r \in TicketsOf(a) : p[1] < r[1] /\ r[1] < q[1] BY <1>7, <1>8
<1>11. p[2] # q[2] BY <1>9, <1>10 DEF TicketsInv, Alternating, Alternate
<1> QED BY <1>8, <1>11

\* The tickets of what is recorded, and of a trace.
TicketsMiddle == (~Recorded => TicketsInv) /\ TicketsAlternate

LEMMA TicketsMiddleSteps ==
  ASSUME MiddleInv, TicketsMiddle, [Next]_vars, Records => [ProperUnlocks]_vars
  PROVE  TicketsMiddle'
<1>1. CASE Records /\ ProperUnlocks
  <2>1. ~Recorded /\ RecorderInv /\ TicketsInv /\ RecorderStep
    BY <1>1 DEF Records, MiddleInv, TicketsMiddle
  <2>2. CASE EndProgram
    <3>1. Recorded' /\ trace' = trace /\ \A c \in Context : at[c] \in {"unborn", "ended"}
      BY <2>2 DEF EndProgram, Recorded
    <3>2. \A a : Tickets(a)' = Tickets(a) BY <3>1 DEF Tickets
    <3>3. TicketsAlternate' BY <2>1, <3>1, <3>2, TicketsAtEnd DEF TicketsAlternate
    <3> QED BY <3>1, <3>3 DEF TicketsMiddle
  <2>3. CASE ~EndProgram
    <3>1. TicketsInv' BY <1>1, <2>1, <2>3, TicketsSteps
    <3>2. ~Recorded' BY <2>1, <2>3, RecorderSteps DEF Recorded
    <3> QED BY <3>1, <3>2 DEF TicketsMiddle, TicketsAlternate
  <2> QED BY <2>2, <2>3
<1>2. CASE UNCHANGED recorderVars
  <2>1. trace' = trace /\ program' = program BY <1>2 DEF recorderVars
  <2>2. Recorded' = Recorded /\ \A a : Tickets(a)' = Tickets(a) BY <2>1 DEF Recorded, Tickets
  <2>3. TicketsAlternate' BY <2>1, <2>2 DEF TicketsMiddle, TicketsAlternate
  <2> QED BY <1>2, <2>2, <2>3, TicketsIdle DEF TicketsMiddle
<1>3. Records \/ UNCHANGED recorderVars
  BY DEF Next, Reads, HandleEvent, QueueHandled, HandleEnd, Ends, WriterTurn, Stopped, vars
<1> QED BY <1>1, <1>2, <1>3 DEF vars

-------------------------------------------------------------------------------
(* Programs whose threads unlock what they have locked. *)

\* With its first k operations thread c of program p has locked a, and not unlocked it.
Locked(p, c, k, a) ==
  \E i \in 1 .. k : /\ p.ops[c][i].op = "lock" /\ p.ops[c][i].on = a
                    /\ \A j \in (i + 1) .. k : ~(p.ops[c][j].op = "unlock" /\ p.ops[c][j].on = a)

\* Locks are not held at first, and a thread unlocks only what it has locked.
Mutexes ==
  \A p \in Programs :
    /\ p.held = {}
    /\ \A c \in Context : \A k \in DOMAIN p.ops[c] :
         p.ops[c][k].op = "unlock" => Locked(p, c, k - 1, p.ops[c][k].on)

\* What a thread is doing is the operation it is to do.
OpIs(c, op) == program.ops[c][done[c] + 1].op = op
DoesOp ==
  \A c \in Context : /\ Releasing(c) => OpIs(c, "unlock")
                     /\ at[c] = "join" => OpIs(c, "join")
                     /\ at[c] \in {"barrier", "leave"} => OpIs(c, "barrier")

\* A thread has a lock from its lock to its unlock, and no two threads have the same lock.
Holder(c, a) == Locked(program, c, done[c], a) /\ ~(at[c] = "store" /\ On(c) = a)
HoldersInv ==
  /\ DoesOp
  /\ \A a : \A c \in Context : Holder(c, a) => a \in held
  /\ \A a : \A c, d \in Context : Holder(c, a) /\ Holder(d, a) => c = d
  /\ \A c \in Context : at[c] = "unlock" => Holder(c, On(c))
  /\ held # {} => numbers.ticket # 0

\* The next operation of a thread.
LEMMA LockedNext ==
  ASSUME NEW p, NEW c, NEW k \in Nat, NEW a
  PROVE  Locked(p, c, k + 1, a) <=>
           \/ p.ops[c][k + 1].op = "lock" /\ p.ops[c][k + 1].on = a
           \/ Locked(p, c, k, a) /\ ~(p.ops[c][k + 1].op = "unlock" /\ p.ops[c][k + 1].on = a)
<1>1. PICK s : s = p.ops[c] OBVIOUS
<1> DEFINE L(i) == s[i].op = "lock" /\ s[i].on = a
           U(i) == s[i].op = "unlock" /\ s[i].on = a
<1>2. \A n \in Nat : Locked(p, c, n, a) <=> \E i \in 1 .. n : L(i) /\ \A j \in (i + 1) .. n : ~U(j)
  BY <1>1 DEF Locked
<1> HIDE DEF L, U
<1>3. ASSUME NEW i \in 1 .. k, ~U(k + 1), \A j \in (i + 1) .. k : ~U(j)
      PROVE  i \in 1 .. k + 1 /\ \A j \in (i + 1) .. (k + 1) : ~U(j)
  <2>1. \A j \in (i + 1) .. (k + 1) : j \in (i + 1) .. k \/ j = k + 1 OBVIOUS
  <2> QED BY <1>3, <2>1
<1>4. ASSUME NEW i \in 1 .. k + 1, \A j \in (i + 1) .. (k + 1) : ~U(j)
      PROVE  i = k + 1 \/ (i \in 1 .. k /\ ~U(k + 1) /\ \A j \in (i + 1) .. k : ~U(j))
  <2>1. i # k + 1 => i \in 1 .. k /\ k + 1 \in (i + 1) .. (k + 1) OBVIOUS
  <2>2. \A j \in (i + 1) .. k : j \in (i + 1) .. (k + 1) OBVIOUS
  <2> QED BY <1>4, <2>1, <2>2
<1>5. k + 1 \in 1 .. k + 1 /\ (k + 1) + 1 .. k + 1 = {} OBVIOUS
<1>6. (\E i \in 1 .. k + 1 : L(i) /\ \A j \in (i + 1) .. (k + 1) : ~U(j))
        <=> L(k + 1) \/ ((\E i \in 1 .. k : L(i) /\ \A j \in (i + 1) .. k : ~U(j)) /\ ~U(k + 1))
  BY <1>3, <1>4, <1>5
<1> QED BY <1>1, <1>2, <1>6 DEF L, U

\* A step of thread d that neither takes a lock nor begins to give one back.
Moves(d) ==
  \/ UNCHANGED <<at[d], done[d]>>
  \/ /\ at[d] \notin {"unlock", "store"} /\ UNCHANGED done[d]
     /\ \/ at'[d] \in {"run", "ended"}
        \/ at'[d] = "join" /\ OpIs(d, "join")
        \/ at'[d] \in {"barrier", "leave"} /\ OpIs(d, "barrier")
  \/ at[d] # "unlock" /\ at'[d] = "run" /\ done'[d] = done[d] + 1 /\ ~OpIs(d, "lock")

LEMMA MovesHolder ==
  ASSUME RecorderTypes, DoesOp, NEW d \in Context, Moves(d), UNCHANGED program
  PROVE  /\ \A a : Holder(d, a)' => Holder(d, a)
         /\ at'[d] = "unlock" => /\ at[d] = "unlock" /\ On(d)' = On(d)
                                 /\ \A a : Holder(d, a) => Holder(d, a)'
         /\ Releasing(d)' => OpIs(d, "unlock")'
         /\ at'[d] = "join" => OpIs(d, "join")'
         /\ at'[d] \in {"barrier", "leave"} => OpIs(d, "barrier")'
<1>1. CASE UNCHANGED <<at[d], done[d]>>
  <2>1. \A op : OpIs(d, op)' <=> OpIs(d, op) BY <1>1 DEF OpIs
  <2>2. Releasing(d)' <=> Releasing(d) BY <1>1 DEF Releasing
  <2>3. On(d)' = On(d) BY <1>1 DEF On
  <2>4. \A a : Holder(d, a)' <=> Holder(d, a)
    BY <1>1, <2>3 DEF Holder, Locked
  <2> QED BY <1>1, <2>1, <2>2, <2>3, <2>4 DEF DoesOp
<1>2. CASE /\ at[d] \notin {"unlock", "store"} /\ done'[d] = done[d]
           /\ \/ at'[d] \in {"run", "ended"}
              \/ at'[d] = "join" /\ OpIs(d, "join")
              \/ at'[d] \in {"barrier", "leave"} /\ OpIs(d, "barrier")
  <2>1. \A op : OpIs(d, op)' <=> OpIs(d, op) BY <1>2 DEF OpIs
  <2>2. \A a : Holder(d, a)' => Holder(d, a) BY <1>2 DEF Holder, Locked
  <2> QED BY <1>2, <2>1, <2>2 DEF Releasing
<1>3. CASE at[d] # "unlock" /\ at'[d] = "run" /\ done'[d] = done[d] + 1 /\ ~OpIs(d, "lock")
  <2>1. ASSUME NEW a, Holder(d, a)' PROVE Holder(d, a)
    <3>1. PICK k \in Nat : k = done[d] BY DEF RecorderTypes
    <3>2. Locked(program, d, k + 1, a) BY <1>3, <2>1, <3>1 DEF Holder, Locked
    <3>3. Locked(program, d, k, a) /\ ~(OpIs(d, "unlock") /\ On(d) = a)
      BY <1>3, <3>1, <3>2, LockedNext DEF OpIs, On
    <3>4. at[d] = "store" => OpIs(d, "unlock") BY DEF DoesOp, Releasing
    <3> QED BY <3>1, <3>3, <3>4 DEF Holder
  <2> QED BY <1>3, <2>1 DEF Releasing
<1> QED BY <1>1, <1>2, <1>3 DEF Moves

LEMMA MovesHolders ==
  ASSUME RecorderTypes, HoldersInv, \A d \in Context : Moves(d), UNCHANGED <<program, held>>,
         numbers.ticket # 0 => numbers'.ticket # 0
  PROVE  HoldersInv'
<1>1. DoesOp BY DEF HoldersInv
<1>2. ASSUME NEW d \in Context
      PROVE  /\ \A a : Holder(d, a)' => Holder(d, a)
             /\ at'[d] = "unlock" => /\ at[d] = "unlock" /\ On(d)' = On(d)
                                     /\ \A a : Holder(d, a) => Holder(d, a)'
             /\ Releasing(d)' => OpIs(d, "unlock")'
             /\ at'[d] = "join" => OpIs(d, "join")'
             /\ at'[d] \in {"barrier", "leave"} => OpIs(d, "barrier")'
  BY <1>1, MovesHolder
<1>3. DoesOp' BY <1>2 DEF DoesOp
<1>4. \A d \in Context : at'[d] = "unlock" => Holder(d, On(d))'
  BY <1>2 DEF HoldersInv
<1> QED BY <1>2, <1>3, <1>4 DEF HoldersInv

\* The steps that are such.
LEMMA HoldersMove ==
  ASSUME RecorderInv, HoldersInv, NEW c \in Context,
         \/ RecordBlock(c) \/ CreateContext(c) \/ QueueBeforeJoin(c) \/ Join(c) \/ StoreRelease(c)
         \/ Enter(c) \/ Leave(c) \/ BufferFull(c) \/ ExitContext(c)
  PROVE  HoldersInv'
<1>1. /\ at \in [Context -> {"unborn", "run", "unlock", "store", "join", "barrier", "leave",
                            "ended"}]
      /\ done \in [Context -> Nat] /\ RecorderTypes
      /\ numbers \in [ticket : Nat, barrier : Nat, drawn : [Context -> Nat]]
  BY DEF RecorderInv, RecorderTypes
<1>2. DoesOp BY DEF HoldersInv
<1>3. UNCHANGED <<program, held>>
  BY DEF RecordBlock, CreateContext, QueueBeforeJoin, Join, StoreRelease, Enter, Leave,
     BufferFull, ExitContext
<1>4. numbers.ticket # 0 => numbers'.ticket # 0
  <2>1. CASE StoreRelease(c) BY <1>1, <2>1 DEF StoreRelease
  <2>2. CASE ~StoreRelease(c)
    BY <1>1, <2>2 DEF RecordBlock, CreateContext, QueueBeforeJoin, Join, Enter, Leave,
       BufferFull, ExitContext
  <2> QED BY <2>1, <2>2
<1>5. ASSUME NEW d \in Context PROVE Moves(d)
  <2>1. CASE RecordBlock(c) BY <1>1, <2>1 DEF RecordBlock, Does, Completes, Moves, OpIs
  <2>2. CASE CreateContext(c)
    <3>1. PICK e : e = On(c) OBVIOUS
    <3>2. e \in Context /\ e # c /\ at[e] = "unborn" BY <2>2, <3>1, CreatesUnborn
    <3>3. at[c] = "run" /\ at' = [at EXCEPT ![e] = "run"] BY <2>2, <3>1 DEF CreateContext, Does
    <3>4. done' = [done EXCEPT ![c] = @ + 1] /\ ~OpIs(c, "lock")
      BY <2>2 DEF CreateContext, Does, Completes, OpIs
    <3> QED BY <1>1, <3>2, <3>3, <3>4 DEF Moves
  <2>3. CASE QueueBeforeJoin(c) BY <1>1, <2>3 DEF QueueBeforeJoin, Does, Moves, OpIs
  <2>4. CASE Join(c)
    <3>1. ~OpIs(c, "lock") BY <1>2, <2>4 DEF Join, DoesOp, OpIs
    <3> QED BY <1>1, <2>4, <3>1 DEF Join, Completes, Moves
  <2>5. CASE StoreRelease(c)
    <3>1. ~OpIs(c, "lock") BY <1>2, <2>5 DEF StoreRelease, DoesOp, Releasing, OpIs
    <3> QED BY <1>1, <2>5, <3>1 DEF StoreRelease, Completes, Moves
  <2>6. CASE Enter(c) BY <1>1, <2>6 DEF Enter, Does, Moves, OpIs
  <2>7. CASE Leave(c)
    <3>1. ~OpIs(c, "lock") BY <1>2, <2>7 DEF Leave, DoesOp, OpIs
    <3> QED BY <1>1, <2>7, <3>1 DEF Leave, Completes, Moves
  <2>8. CASE BufferFull(c) BY <2>8 DEF BufferFull, Moves
  <2>9. CASE ExitContext(c) BY <1>1, <2>9 DEF ExitContext, Moves
  <2> QED BY <2>1, <2>2, <2>3, <2>4, <2>5, <2>6, <2>7, <2>8, <2>9
<1> QED BY <1>1, <1>3, <1>4, <1>5, MovesHolders

LEMMA HoldersMeet ==
  ASSUME RecorderInv, HoldersInv, NEW a \in Address, Meet(a)
  PROVE  HoldersInv'
<1>1. RecorderTypes /\ DoesOp /\ \A c \in inside[a] : at[c] = "barrier"
  BY DEF RecorderInv, HoldersInv, Doing
<1>2. /\ at' = [c \in Context |-> IF c \in inside[a] THEN "leave" ELSE at[c]]
      /\ UNCHANGED <<program, done, held, numbers>>
  BY DEF Meet
<1>3. ASSUME NEW d \in Context PROVE Moves(d)
  <2>1. CASE d \in inside[a]
    <3>1. at[d] = "barrier" /\ at'[d] = "leave" /\ OpIs(d, "barrier") BY <1>1, <1>2, <2>1 DEF DoesOp
    <3> QED BY <1>2, <3>1 DEF Moves
  <2>2. CASE d \notin inside[a] BY <1>2, <2>2 DEF Moves
  <2> QED BY <2>1, <2>2
<1> QED BY <1>1, <1>2, <1>3, MovesHolders

\* What the others have when thread c takes a step.
LEMMA OthersHold ==
  ASSUME NEW d \in Context, UNCHANGED <<program, at[d], done[d]>>
  PROVE  /\ \A a : Holder(d, a)' <=> Holder(d, a)
         /\ On(d)' = On(d) /\ (Releasing(d)' <=> Releasing(d))
         /\ \A op : OpIs(d, op)' <=> OpIs(d, op)
BY DEF Holder, Locked, On, Releasing, OpIs

\* A lock that is acquired had no holder.
LEMMA HoldersAcquire ==
  ASSUME RecorderInv, HoldersInv, NEW c \in Context, Acquire(c)
  PROVE  HoldersInv'
<1>1. PICK k, a : k \in Nat /\ k = done[c] /\ a = On(c) BY DEF RecorderInv, RecorderTypes
<1>2. /\ at[c] = "run" /\ UNCHANGED <<program, at>> /\ a \notin held /\ held' = held \cup {a}
      /\ OpIs(c, "lock") /\ done'[c] = k + 1
      /\ \A d \in Context : d # c => done'[d] = done[d]
  BY <1>1 DEF Acquire, Does, OpIs, Completes, RecorderInv, RecorderTypes
<1>3. numbers'.ticket # 0 BY DEF Acquire, RecorderInv, RecorderTypes
<1>4. ASSUME NEW b, Holder(c, b)' PROVE b = a \/ Holder(c, b)
  <2>1. Locked(program, c, k + 1, b) BY <1>2, <1>4 DEF Holder, Locked
  <2>2. b = a \/ Locked(program, c, k, b) BY <1>1, <2>1, LockedNext DEF On
  <2> QED BY <1>1, <1>2, <2>2 DEF Holder
<1>5. \A d \in Context : d # c =>
        /\ \A b : Holder(d, b)' <=> Holder(d, b)
        /\ On(d)' = On(d) /\ (Releasing(d)' <=> Releasing(d))
        /\ \A op : OpIs(d, op)' <=> OpIs(d, op)
  BY <1>2, OthersHold
<1>6. \A d \in Context : d # c => ~Holder(d, a)' BY <1>2, <1>5 DEF HoldersInv
<1>7. \A b : \A d \in Context : Holder(d, b)' => (b = a /\ d = c) \/ Holder(d, b)
  BY <1>4, <1>5, <1>6
<1>8. DoesOp'
  <2>1. ~Releasing(c)' BY <1>2 DEF Releasing
  <2> QED BY <1>2, <1>5, <2>1 DEF HoldersInv, DoesOp
<1>9. \A b : \A d \in Context : Holder(d, b)' => b \in held' BY <1>2, <1>7 DEF HoldersInv
<1>10. \A b : \A d, e \in Context : Holder(d, b)' /\ Holder(e, b)' => d = e
  BY <1>2, <1>7 DEF HoldersInv
<1>11. \A d \in Context : at'[d] = "unlock" => Holder(d, On(d))'
  <2>1. ASSUME NEW d \in Context, at'[d] = "unlock" PROVE Holder(d, On(d))'
    <3>1. d # c /\ at[d] = "unlock" BY <1>2, <2>1
    <3>2. Holder(d, On(d)) BY <3>1 DEF HoldersInv
    <3>3. On(d)' = On(d) /\ Holder(d, On(d)') BY <1>5, <3>1, <3>2
    <3> QED BY <1>5, <3>1, <3>3
  <2> QED BY <2>1
<1> QED BY <1>3, <1>8, <1>9, <1>10, <1>11 DEF HoldersInv

\* A thread that begins to unlock has locked.
LEMMA HoldsToUnlock ==
  ASSUME Mutexes, RecorderInv, HoldersInv, NEW c \in Context, DrawTicket(c)
  PROVE  Holder(c, On(c)) /\ OwnsUnlock(c)
<1>1. program \in Programs /\ at[c] = "run" /\ OpIs(c, "unlock") /\ done[c] < Len(program.ops[c])
  BY DEF RecorderInv, RecorderTypes, DrawTicket, Does, OpIs
<1>2. PICK k \in Nat : k = done[c] BY DEF RecorderInv, RecorderTypes
<1>3. k + 1 \in DOMAIN program.ops[c] BY <1>1, <1>2, OpsIn DEF RecorderInv
<1>4. Locked(program, c, (k + 1) - 1, On(c)) BY <1>1, <1>2, <1>3 DEF Mutexes, OpIs, On
<1>5. Locked(program, c, k, On(c)) BY <1>4
<1>6. Holder(c, On(c)) BY <1>1, <1>2, <1>5 DEF Holder
<1>7. On(c) \in held /\ numbers.ticket # 0 BY <1>6 DEF HoldersInv
<1>8. ASSUME NEW d \in Context, at[d] = "unlock", On(d) = On(c) PROVE FALSE
  <2>1. Holder(d, On(c)) BY <1>8 DEF HoldersInv
  <2>2. d = c BY <1>6, <2>1 DEF HoldersInv
  <2> QED BY <1>1, <1>8, <2>2
<1> QED BY <1>6, <1>7, <1>8 DEF OwnsUnlock

LEMMA HoldersDrawTicket ==
  ASSUME Mutexes, RecorderInv, HoldersInv, NEW c \in Context, DrawTicket(c)
  PROVE  HoldersInv'
<1>1. /\ at[c] = "run" /\ at'[c] = "unlock" /\ UNCHANGED <<program, done, held>>
      /\ \A d \in Context : d # c => at'[d] = at[d]
      /\ OpIs(c, "unlock") /\ numbers'.ticket # 0
  BY DEF DrawTicket, Does, OpIs, RecorderInv, RecorderTypes
<1>2. Holder(c, On(c)) BY HoldsToUnlock
<1>3. \A d \in Context : On(d)' = On(d) /\ \A op : OpIs(d, op)' <=> OpIs(d, op)
  BY <1>1 DEF On, OpIs
<1>4. ASSUME NEW d \in Context, NEW a PROVE Holder(d, a)' <=> Holder(d, a)
  <2>1. Locked(program, d, done[d], a)' <=> Locked(program, d, done[d], a) BY <1>1 DEF Locked
  <2>2. at'[d] = "store" <=> at[d] = "store" BY <1>1
  <2> QED BY <1>3, <2>1, <2>2 DEF Holder
<1>5. DoesOp'
  <2>1. \A d \in Context : Releasing(d)' => Releasing(d) \/ d = c BY <1>1 DEF Releasing
  <2> QED BY <1>1, <1>3, <2>1 DEF HoldersInv, DoesOp
<1>6. ASSUME NEW d \in Context, at'[d] = "unlock" PROVE Holder(d, On(d))'
  <2>1. Holder(d, On(d)) BY <1>1, <1>2, <1>6 DEF HoldersInv
  <2>2. PICK a : a = On(d) OBVIOUS
  <2>3. Holder(d, a)' BY <1>4, <2>1, <2>2
  <2> QED BY <1>3, <2>2, <2>3
<1> QED BY <1>1, <1>4, <1>5, <1>6 DEF HoldersInv

\* The thread that gives a lock back has it no more, and no other has it.
LEMMA HoldersUnlock ==
  ASSUME RecorderInv, HoldersInv, NEW c \in Context, Unlock(c)
  PROVE  HoldersInv'
<1>1. PICK a : a = On(c) OBVIOUS
<1>2. /\ at[c] = "unlock" /\ at'[c] = "store" /\ UNCHANGED <<program, done, numbers>>
      /\ held' = held \ {a} /\ \A d \in Context : d # c => at'[d] = at[d]
  BY <1>1 DEF Unlock, RecorderInv, RecorderTypes
<1>3. \A d \in Context : On(d)' = On(d) /\ \A op : OpIs(d, op)' <=> OpIs(d, op)
  BY <1>2 DEF On, OpIs
<1>4. \A d \in Context : \A b : Locked(program, d, done[d], b)' <=> Locked(program, d, done[d], b)
  BY <1>2 DEF Locked
<1>5. \A b : Holder(c, b)' => b # a /\ Holder(c, b) BY <1>1, <1>2, <1>3, <1>4 DEF Holder
<1>6. \A d \in Context : d # c => \A b : Holder(d, b)' <=> Holder(d, b)
  BY <1>2, <1>3, <1>4 DEF Holder
<1>7. Holder(c, a) BY <1>1, <1>2 DEF HoldersInv
<1>8. \A b : \A d \in Context : Holder(d, b)' => b # a /\ Holder(d, b)
  BY <1>5, <1>6, <1>7 DEF HoldersInv
<1>9. DoesOp'
  <2>1. \A d \in Context : Releasing(d)' => Releasing(d) BY <1>2 DEF Releasing
  <2> QED BY <1>2, <1>3, <2>1 DEF HoldersInv, DoesOp
<1>10. ASSUME NEW d \in Context, at'[d] = "unlock" PROVE Holder(d, On(d))'
  <2>1. d # c /\ Holder(d, On(d)) BY <1>2, <1>10 DEF HoldersInv
  <2>2. PICK b : b = On(d) OBVIOUS
  <2>3. Holder(d, b)' BY <1>6, <2>1, <2>2
  <2> QED BY <1>3, <2>2, <2>3
<1> QED BY <1>2, <1>8, <1>9, <1>10 DEF HoldersInv

LEMMA HoldersSteps ==
  ASSUME Mutexes, RecorderInv, HoldersInv, RecorderStep
  PROVE  ProperUnlocks /\ (HoldersInv' \/ EndProgram)
<1>1. ASSUME NEW c \in Context, ContextStep(c) PROVE HoldersInv'
  <2>1. CASE \/ RecordBlock(c) \/ CreateContext(c) \/ QueueBeforeJoin(c) \/ Join(c)
             \/ StoreRelease(c) \/ Enter(c) \/ Leave(c) \/ BufferFull(c) \/ ExitContext(c)
    BY <2>1, HoldersMove
  <2>2. CASE Acquire(c) BY <2>2, HoldersAcquire
  <2>3. CASE DrawTicket(c) BY <2>3, HoldersDrawTicket
  <2>4. CASE Unlock(c) BY <2>4, HoldersUnlock
  <2> QED BY <1>1, <2>1, <2>2, <2>3, <2>4 DEF ContextStep
<1>2. ASSUME NEW a \in Address, Meet(a) PROVE HoldersInv' BY <1>2, HoldersMeet
<1>3. ProperUnlocks BY HoldsToUnlock DEF ProperUnlocks
<1> QED BY <1>1, <1>2, <1>3 DEF RecorderStep

LEMMA HoldersStart ==
  ASSUME Mutexes, NEW p \in Programs, RecorderInit(p)
  PROVE  HoldersInv
<1>1. /\ program = p /\ held = {} /\ done = [c \in Context |-> 0]
      /\ at = [c \in Context |-> IF c = 0 THEN "run" ELSE "unborn"]
  BY DEF RecorderInit, Mutexes
<1>2. \A c \in Context : ~Releasing(c) /\ at[c] \in {"run", "unborn"} BY <1>1 DEF Releasing
<1>3. \A c \in Context : \A a : ~Holder(c, a)
  <2>1. 1 .. 0 = {} OBVIOUS
  <2> QED BY <1>1, <2>1 DEF Holder, Locked
<1> QED BY <1>1, <1>2, <1>3 DEF HoldersInv, DoesOp

LEMMA HoldersIdle ==
  ASSUME HoldersInv, UNCHANGED recorderVars
  PROVE  HoldersInv'
BY DEF recorderVars, HoldersInv, DoesOp, OpIs, Releasing, Holder, Locked, On

HoldersMiddle == ~Recorded => HoldersInv

LEMMA HoldersMiddleSteps ==
  ASSUME Mutexes, MiddleInv, HoldersMiddle, [Next]_vars
  PROVE  HoldersMiddle' /\ (Records => ProperUnlocks)
<1>1. CASE Records
  <2>1. ~Recorded /\ RecorderInv /\ HoldersInv /\ RecorderStep
    BY <1>1 DEF Records, MiddleInv, HoldersMiddle
  <2>2. ProperUnlocks /\ (HoldersInv' \/ EndProgram) BY <2>1, HoldersSteps
  <2>3. EndProgram => Recorded' BY DEF EndProgram, Recorded
  <2> QED BY <2>2, <2>3 DEF HoldersMiddle
<1>2. CASE ~Records /\ UNCHANGED recorderVars
  <2>1. Recorded' = Recorded BY <1>2 DEF recorderVars, Recorded
  <2> QED BY <1>2, <2>1, HoldersIdle DEF HoldersMiddle
<1>3. Records \/ UNCHANGED recorderVars
  BY DEF Next, Reads, HandleEvent, QueueHandled, HandleEnd, Ends, WriterTurn, Stopped, vars
<1> QED BY <1>1, <1>2, <1>3

-------------------------------------------------------------------------------

\* A lock that a thread gives back is one that is held, by it alone, and ticket 0 is drawn for
\* an acquire: then there is a release between two acquires of a lock in the trace and an acquire
\* between two releases, by the numbers of their events, although the event of a release is
\* stored after the lock was given back (ct_runtime.c:734).
THEOREM TicketsAlternateForOwners ==
  Spec /\ [][ProperUnlocks]_vars => []TicketsAlternate
<1>1. Init => TicketsMiddle
  <2>1. SUFFICES ASSUME Init PROVE TicketsMiddle OBVIOUS
  <2>2. trace = <<>> /\ \E p \in Programs : RecorderInit(p) BY <2>1 DEF Init
  <2>3. TicketsInv BY <2>2, TicketsStart
  <2>4. \A a : Tickets(a) = {} BY <2>2 DEF Tickets
  <2> QED BY <2>3, <2>4 DEF TicketsMiddle, TicketsAlternate
<1>2. MiddleInv /\ TicketsMiddle /\ [Next]_vars /\ [ProperUnlocks]_vars => TicketsMiddle'
  BY TicketsMiddleSteps
<1>3. TicketsMiddle => TicketsAlternate BY DEF TicketsMiddle
<1> QED BY <1>1, <1>2, <1>3, MiddleStarts, MiddleSteps, PTL DEF Spec

\* The same for programs whose threads unlock the locks that they have locked, and no others
\* (ct_runtime.c:734): what TicketsAlternateForOwners asks of the run is shown of them.
THEOREM TicketsAlternateForMutexes ==
  ASSUME Mutexes
  PROVE  Spec => []TicketsAlternate
<1> DEFINE I == MiddleInv /\ TicketsMiddle /\ HoldersMiddle
<1>1. Init => I
  <2>1. SUFFICES ASSUME Init PROVE I OBVIOUS
  <2>2. trace = <<>> /\ \E p \in Programs : RecorderInit(p) BY <2>1 DEF Init
  <2>3. TicketsInv /\ HoldersInv BY <2>2, TicketsStart, HoldersStart
  <2>4. \A a : Tickets(a) = {} BY <2>2 DEF Tickets
  <2>5. MiddleInv BY <2>1, MiddleStarts
  <2> QED BY <2>3, <2>4, <2>5 DEF TicketsMiddle, TicketsAlternate, HoldersMiddle
<1>2. I /\ [Next]_vars => I'
  <2>1. SUFFICES ASSUME I, [Next]_vars PROVE I' OBVIOUS
  <2>2. MiddleInv' BY <2>1, MiddleSteps
  <2>3. HoldersMiddle' /\ (Records => ProperUnlocks) BY <2>1, HoldersMiddleSteps
  <2>4. TicketsMiddle' BY <2>1, <2>3, TicketsMiddleSteps
  <2> QED BY <2>2, <2>3, <2>4
<1>3. I => TicketsAlternate BY DEF TicketsMiddle
<1> QED BY <1>1, <1>2, <1>3, PTL DEF Spec

===============================================================================
