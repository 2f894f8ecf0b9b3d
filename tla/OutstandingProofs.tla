-------------------------- MODULE OutstandingProofs --------------------------
(***************************************************************************)
(* Proof that a memory operation in progress is in exactly one place       *)
(* (OneOutstanding of module Coherence), for every number of contexts, set *)
(* of lines, cache size, latency and task, evictions included.             *)
(***************************************************************************)
EXTENDS ProtocolHandlerProofs

-------------------------------------------------------------------------------
(* The messages of a queue that belong to a set S: none, or just one. *)

None(q, S) == \A i \in 1..Len(q) : q[i] \notin S
One(q, S) ==
  \E i \in 1..Len(q) : q[i] \in S /\ \A j \in 1..Len(q) : j # i => q[j] \notin S

\* What a step from the queue q to the queue r does to them.
Keeps(q, r, S) == (None(q, S) => None(r, S)) /\ (One(q, S) => One(r, S))
Gains(q, r, S) == None(q, S) => One(r, S)
Loses(q, r, S) == ~None(q, S) /\ (One(q, S) => None(r, S))

\* A queue does not have none and one.
LEMMA NoneOrOne ==
  ASSUME NEW q, NEW S
  PROVE  ~(None(q, S) /\ One(q, S))
BY DEF None, One

\* Without its first message.
LEMMA TailMarks ==
  ASSUME NEW T, NEW q \in Seq(T), q # <<>>, NEW S
  PROVE  /\ Head(q) \notin S => Keeps(q, Tail(q), S)
         /\ Head(q) \in S => Loses(q, Tail(q), S)
<1>1. /\ Len(q) \in Nat \ {0} /\ Len(Tail(q)) = Len(q) - 1 /\ Head(q) = q[1]
      /\ \A i \in 1..Len(Tail(q)) : Tail(q)[i] = q[i + 1] /\ i + 1 \in 1..Len(q)
  BY HeadTailProperties, EmptySeq, LenProperties
<1>2. \A i \in 1..Len(q) : i = 1 \/ (i - 1 \in 1..Len(Tail(q)) /\ Tail(q)[i - 1] = q[i])
  BY <1>1
<1>3. None(q, S) => None(Tail(q), S)
  BY <1>1 DEF None
<1>4. ASSUME One(q, S), Head(q) \notin S PROVE One(Tail(q), S)
  <2>1. PICK i \in 1..Len(q) : q[i] \in S /\ \A j \in 1..Len(q) : j # i => q[j] \notin S
    BY <1>4 DEF One
  <2>2. i # 1 BY <1>1, <1>4, <2>1
  <2>3. i - 1 \in 1..Len(Tail(q)) /\ Tail(q)[i - 1] \in S BY <1>2, <2>1, <2>2
  <2>4. \A j \in 1..Len(Tail(q)) : j # i - 1 => Tail(q)[j] \notin S
    BY <1>1, <2>1
  <2> QED BY <2>3, <2>4 DEF One
<1>5. ASSUME One(q, S), Head(q) \in S PROVE None(Tail(q), S)
  <2>1. PICK i \in 1..Len(q) : q[i] \in S /\ \A j \in 1..Len(q) : j # i => q[j] \notin S
    BY <1>5 DEF One
  <2>2. i = 1 BY <1>1, <1>5, <2>1
  <2>3. \A j \in 1..Len(Tail(q)) : j + 1 # i BY <1>1, <2>2
  <2> QED BY <1>1, <2>1, <2>3 DEF None
<1>6. Head(q) \in S => ~None(q, S) BY <1>1 DEF None
<1> QED BY <1>3, <1>4, <1>5, <1>6 DEF Keeps, Loses

\* With a message more at its end.
LEMMA AppendMarks ==
  ASSUME NEW T, NEW q \in Seq(T), NEW x \in T, NEW S
  PROVE  /\ x \notin S => Keeps(q, Append(q, x), S)
         /\ x \in S => Gains(q, Append(q, x), S)
<1> DEFINE r == Append(q, x)
<1>1. /\ Len(q) \in Nat /\ Len(r) = Len(q) + 1 /\ r[Len(r)] = x
      /\ \A i \in 1..Len(q) : r[i] = q[i] /\ i \in 1..Len(r)
  BY AppendProperties, LenProperties
<1> HIDE DEF r
<1>2. \A i \in 1..Len(r) : i = Len(r) \/ i \in 1..Len(q) BY <1>1
<1>3. x \notin S /\ None(q, S) => None(r, S) BY <1>1, <1>2 DEF None
<1>4. ASSUME x \notin S, One(q, S) PROVE One(r, S)
  <2>1. PICK i \in 1..Len(q) : q[i] \in S /\ \A j \in 1..Len(q) : j # i => q[j] \notin S
    BY <1>4 DEF One
  <2>2. i \in 1..Len(r) /\ r[i] \in S BY <1>1, <2>1
  <2>3. \A j \in 1..Len(r) : j # i => r[j] \notin S BY <1>1, <1>2, <1>4, <2>1
  <2> QED BY <2>2, <2>3 DEF One
<1>5. ASSUME x \in S, None(q, S) PROVE One(r, S)
  <2>1. Len(r) \in 1..Len(r) BY <1>1
  <2>2. \A j \in 1..Len(r) : j # Len(r) => r[j] \notin S BY <1>1, <1>2, <1>5 DEF None
  <2> QED BY <1>1, <1>5, <2>1, <2>2 DEF One
<1> QED BY <1>3, <1>4, <1>5 DEF Keeps, Gains, r

\* With a message more in front.
LEMMA FrontMarks ==
  ASSUME NEW T, NEW q \in Seq(T), NEW x \in T, NEW S
  PROVE  /\ x \notin S => Keeps(q, <<x>> \o q, S)
         /\ x \in S => Gains(q, <<x>> \o q, S)
<1> DEFINE r == <<x>> \o q
<1>1. /\ Len(q) \in Nat /\ Len(r) = Len(q) + 1 /\ r[1] = x
      /\ \A i \in 2..Len(r) : r[i] = q[i - 1] /\ i - 1 \in 1..Len(q)
      /\ \A i \in 1..Len(q) : r[i + 1] = q[i] /\ i + 1 \in 2..Len(r)
  <2>1. <<x>> \in Seq(T) /\ Len(<<x>>) = 1 /\ <<x>>[1] = x
    OBVIOUS
  <2> QED BY <2>1, ConcatProperties, LenProperties
<1> HIDE DEF r
<1>2. \A i \in 1..Len(r) : i = 1 \/ i \in 2..Len(r) BY <1>1
<1>3. x \notin S /\ None(q, S) => None(r, S) BY <1>1, <1>2 DEF None
<1>4. ASSUME x \notin S, One(q, S) PROVE One(r, S)
  <2>1. PICK i \in 1..Len(q) : q[i] \in S /\ \A j \in 1..Len(q) : j # i => q[j] \notin S
    BY <1>4 DEF One
  <2>2. i + 1 \in 1..Len(r) /\ r[i + 1] \in S BY <1>1, <2>1
  <2>3. ASSUME NEW j \in 1..Len(r), j # i + 1 PROVE r[j] \notin S
    <3>1. CASE j = 1 BY <1>1, <1>4, <3>1
    <3>2. CASE j # 1
      <4>1. j \in 2..Len(r) BY <1>2, <3>2
      <4>2. r[j] = q[j - 1] /\ j - 1 \in 1..Len(q) BY <1>1, <4>1
      <4>3. j - 1 # i BY <2>3, <2>1
      <4> QED BY <2>1, <4>2, <4>3
    <3> QED BY <3>1, <3>2
  <2> QED BY <2>2, <2>3 DEF One
<1>5. ASSUME x \in S, None(q, S) PROVE One(r, S)
  <2>1. 1 \in 1..Len(r) BY <1>1
  <2>2. \A j \in 1..Len(r) : j # 1 => r[j] \notin S BY <1>1, <1>2, <1>5 DEF None
  <2> QED BY <1>1, <1>5, <2>1, <2>2 DEF One
<1> QED BY <1>3, <1>4, <1>5 DEF Keeps, Gains, r

\* With its messages changed in ways that do not matter.
LEMMA SameMarks ==
  ASSUME NEW q, NEW r, NEW S, Len(r) = Len(q),
         \A i \in 1..Len(q) : r[i] \in S <=> q[i] \in S
  PROVE  Keeps(q, r, S)
BY DEF Keeps, None, One

\* Two changes, one after the other.
LEMMA TwoChanges ==
  ASSUME NEW q, NEW r, NEW s, NEW S
  PROVE  /\ Keeps(q, q, S)
         /\ Keeps(q, r, S) /\ Keeps(r, s, S) => Keeps(q, s, S)
         /\ Keeps(q, r, S) /\ Gains(r, s, S) => Gains(q, s, S)
         /\ Loses(q, r, S) /\ Keeps(r, s, S) => Loses(q, s, S)
         /\ Loses(q, r, S) /\ Gains(r, s, S) => Keeps(q, s, S)
BY DEF Keeps, Gains, Loses

\* That a queue holds a mark.
LEMMA HoldsMark ==
  ASSUME NEW T, NEW q \in Seq(T), NEW x \in T, NEW S
  PROVE  /\ q # <<>> /\ Head(q) \notin S => (~None(q, S) => ~None(Tail(q), S))
         /\ q # <<>> => (None(q, S) => None(Tail(q), S))
         /\ ~None(q, S) => ~None(Append(q, x), S)
         /\ x \in S => ~None(Append(q, x), S)
         /\ x \notin S => (None(q, S) => None(Append(q, x), S))
<1>1. q # <<>> => /\ Head(q) \notin S => (~None(q, S) => ~None(Tail(q), S))
                  /\ None(q, S) => None(Tail(q), S)
  <2> SUFFICES ASSUME q # <<>>
               PROVE  /\ Head(q) \notin S => (~None(q, S) => ~None(Tail(q), S))
                      /\ None(q, S) => None(Tail(q), S)
    OBVIOUS
  <2>1. /\ Len(q) \in Nat \ {0} /\ Len(Tail(q)) = Len(q) - 1 /\ Head(q) = q[1]
        /\ \A i \in 1..Len(Tail(q)) : Tail(q)[i] = q[i + 1] /\ i + 1 \in 1..Len(q)
    BY HeadTailProperties, EmptySeq, LenProperties
  <2>2. \A i \in 1..Len(q) : i = 1 \/ (i - 1 \in 1..Len(Tail(q)) /\ Tail(q)[i - 1] = q[i])
    BY <2>1
  <2>3. Head(q) \notin S => (~None(q, S) => ~None(Tail(q), S)) BY <2>1, <2>2 DEF None
  <2>4. None(q, S) => None(Tail(q), S) BY <2>1 DEF None
  <2> QED BY <2>3, <2>4
<1>2. /\ ~None(q, S) => ~None(Append(q, x), S)
      /\ x \in S => ~None(Append(q, x), S)
  <2> DEFINE r == Append(q, x)
  <2>1. /\ Len(q) \in Nat /\ Len(r) = Len(q) + 1 /\ r[Len(r)] = x
        /\ \A i \in 1..Len(q) : r[i] = q[i] /\ i \in 1..Len(r)
    BY AppendProperties, LenProperties
  <2> HIDE DEF r
  <2>2. Len(r) \in 1..Len(r) BY <2>1
  <2>3. ~None(q, S) => ~None(r, S) BY <2>1 DEF None
  <2>4. x \in S => ~None(r, S) BY <2>1, <2>2 DEF None
  <2> QED BY <2>3, <2>4 DEF r
<1>3. x \notin S => (None(q, S) => None(Append(q, x), S)) BY AppendMarks DEF Keeps
<1> QED BY <1>1, <1>2, <1>3

-------------------------------------------------------------------------------
(* Where the operation in progress of a node is. *)

Answers == {"DATA_VALUE_REPLY", "DATA_VALUE_REPLY_E", "INVALIDATE_OTHER_ACK",
            "ROLLBACK", "CACHE_READ_REPLY", "CACHE_UPDATE_ACK"}
Accesses == {"CACHE_READ", "CACHE_UPDATE"}

\* The messages that stand for the operation of n: its requests to the home, in the
\* incoming queue of any node m and in blocked queues, the answers to it in its own
\* incoming queue, and its requests to its cache.
AskMarks(n) == {msg \in Message : msg.src = n /\ msg.type \in HomeRequest}
InMarks(n, m) == AskMarks(n) \cup {msg \in Message : m = n /\ msg.type \in Answers}
CacheMarks == {r \in CacheMessage : r.type \in Accesses}

\* The queues the operation of a node may be in.
In(m) == <<"in", m>>
Blk(m, a) == <<"blocked", m, a>>
Own == <<"cache">>
Place == {In(m) : m \in Node} \cup {Blk(m, a) : m \in Node, a \in Addr} \cup {Own}

QueueAt(n, p) == CASE p[1] = "in" -> incomingMsgQueue[p[2]]
                   [] p[1] = "blocked" -> blockedMsgMap[p[2]][p[3]]
                   [] OTHER -> cacheMsgQueue[n]
MarksAt(n, p) == CASE p[1] = "in" -> InMarks(n, p[2])
                   [] p[1] = "blocked" -> AskMarks(n)
                   [] OTHER -> CacheMarks

Free(n, p) == None(QueueAt(n, p), MarksAt(n, p))
Lone(n, p) == One(QueueAt(n, p), MarksAt(n, p))

\* The operation in progress is in one queue, and there once.
Outstanding(n) ==
  IF currentMemOpSuccessful[n]
  THEN \A p \in Place : Free(n, p)
  ELSE \E p \in Place : Lone(n, p) /\ \A r \in Place \ {p} : Free(n, r)

\* Only requests wait in blocked queues.
NoRequest == {msg \in Message : msg.type \notin HomeRequest \cup OwnerRequest}
RequestsWait == \A m \in Node, a \in Addr : None(blockedMsgMap[m][a], NoRequest)

-------------------------------------------------------------------------------
(* That the cache does not lose a read needs that it has the line: a line    *)
(* leaves the cache only when the operation in progress evicts it, and the   *)
(* node hears of that before the operation is done.                          *)

AlertsOf(a) == {msg \in Message : msg.type = "CACHE_EVICTION_ALERT" /\ msg.addr = a}
UpdatesOf(a) == {r \in CacheMessage : r.type = "CACHE_UPDATE" /\ r.addr = a}
ReadsOf(a) == {r \in CacheMessage : r.type = "CACHE_READ" /\ r.addr = a}

\* Behind an alert is the ACK of the update that evicted the line.
AcksFollow(q) ==
  \A i \in 1..Len(q) : q[i].type = "CACHE_EVICTION_ALERT"
    => \E j \in 1..Len(q) : i < j /\ q[j].type = "CACHE_UPDATE_ACK"

\* A line with a status is in the cache, or the alert or its update is on its way.
LinePresent(n, a) ==
  cacheLineStatus[n][a] # "I"
    => \/ Holds(Lines(n, a), a)
       \/ ~None(incomingMsgQueue[n], AlertsOf(a))
       \/ ~None(cacheMsgQueue[n], UpdatesOf(a))

\* A line the cache is asked to read is in the cache.
ReadFound(n, a) == ~None(cacheMsgQueue[n], ReadsOf(a)) => Holds(Lines(n, a), a)

LinesInv ==
  /\ \A n \in Node : AcksFollow(incomingMsgQueue[n])
  /\ \A n \in Node, a \in Addr : LinePresent(n, a) /\ ReadFound(n, a)

\* The inductive invariant.
OutstandingInv ==
  /\ BlockingInv
  /\ RequestsWait
  /\ \A n \in Node : Outstanding(n)
  /\ LinesInv

-------------------------------------------------------------------------------
(* A step seen from the operation of one node. *)

\* The places are distinct and there are no others.
LEMMA Places ==
  /\ \A m \in Node : In(m) \in Place
  /\ \A m \in Node, a \in Addr : Blk(m, a) \in Place
  /\ Own \in Place
  /\ \A m, k \in Node : In(m) = In(k) => m = k
  /\ \A m, k \in Node, a, b \in Addr : Blk(m, a) = Blk(k, b) => m = k /\ a = b
  /\ \A m, k \in Node, a \in Addr : In(m) # Blk(k, a) /\ In(m) # Own /\ Blk(k, a) # Own
  /\ \A p \in Place : \/ \E m \in Node : p = In(m)
                      \/ \E m \in Node, a \in Addr : p = Blk(m, a)
                      \/ p = Own
BY DEF Place, In, Blk, Own

\* The queue of each place, and the marks in it.
LEMMA QueuesAtPlaces ==
  ASSUME NEW n \in Node
  PROVE  /\ \A m \in Node : QueueAt(n, In(m)) = incomingMsgQueue[m]
                            /\ MarksAt(n, In(m)) = InMarks(n, m)
         /\ \A m \in Node, a \in Addr : QueueAt(n, Blk(m, a)) = blockedMsgMap[m][a]
                                        /\ MarksAt(n, Blk(m, a)) = AskMarks(n)
         /\ QueueAt(n, Own) = cacheMsgQueue[n] /\ MarksAt(n, Own) = CacheMarks
BY DEF QueueAt, MarksAt, In, Blk, Own

PlaceKeeps(n, p) == Keeps(QueueAt(n, p), QueueAt(n, p)', MarksAt(n, p))
PlaceGains(n, p) == Gains(QueueAt(n, p), QueueAt(n, p)', MarksAt(n, p))
PlaceLoses(n, p) == Loses(QueueAt(n, p), QueueAt(n, p)', MarksAt(n, p))

\* The operation stays where it is; goes from p to r; begins at p; ends at p.
Stays(n) == \A p \in Place : PlaceKeeps(n, p)
Goes(n, p, r) == PlaceLoses(n, p) /\ PlaceGains(n, r) /\ p # r
                 /\ \A s \in Place \ {p, r} : PlaceKeeps(n, s)
Begins(n, p) == PlaceGains(n, p) /\ \A s \in Place \ {p} : PlaceKeeps(n, s)
Ends(n, p) == PlaceLoses(n, p) /\ \A s \in Place \ {p} : PlaceKeeps(n, s)

\* What a step of the handlers does to the operation of n.
Follows(n) ==
  \/ /\ currentMemOpSuccessful'[n] = currentMemOpSuccessful[n]
     /\ Stays(n) \/ \E p, r \in Place : Goes(n, p, r)
  \/ currentMemOpSuccessful[n] /\ ~currentMemOpSuccessful'[n] /\ \E p \in Place : Begins(n, p)
  \/ currentMemOpSuccessful'[n] /\ \E p \in Place : Ends(n, p)

\* A place that keeps, gains or loses marks is free or alone accordingly.
LEMMA PlaceMeans ==
  ASSUME NEW n \in Node, NEW p \in Place
  PROVE  /\ PlaceKeeps(n, p) => (Free(n, p) => Free(n, p)') /\ (Lone(n, p) => Lone(n, p)')
         /\ PlaceGains(n, p) => (Free(n, p) => Lone(n, p)')
         /\ PlaceLoses(n, p) => ~Free(n, p) /\ (Lone(n, p) => Free(n, p)')
<1>1. MarksAt(n, p)' = MarksAt(n, p)
  BY DEF MarksAt, InMarks, AskMarks, CacheMarks
<1> QED BY <1>1 DEF PlaceKeeps, PlaceGains, PlaceLoses, Keeps, Gains, Loses, Free, Lone

\* After a step that follows the operation it is still in one place.
LEMMA OutstandingFollows ==
  ASSUME NEW n \in Node, Outstanding(n), Follows(n)
  PROVE  Outstanding(n)'
<1>1. CASE currentMemOpSuccessful[n]
  <2>1. \A p \in Place : Free(n, p) BY <1>1 DEF Outstanding
  <2>2. \A p, r \in Place : ~Goes(n, p, r) BY <2>1, PlaceMeans DEF Goes
  <2>3. \A p \in Place : ~Ends(n, p) BY <2>1, PlaceMeans DEF Ends
  <2>4. CASE Stays(n) /\ currentMemOpSuccessful'[n] = currentMemOpSuccessful[n]
    BY <1>1, <2>1, <2>4, PlaceMeans DEF Stays, Outstanding
  <2>5. CASE ~currentMemOpSuccessful'[n] /\ \E p \in Place : Begins(n, p)
    BY <1>1, <2>1, <2>5, PlaceMeans DEF Begins, Outstanding
  <2> QED BY <2>2, <2>3, <2>4, <2>5 DEF Follows
<1>2. CASE ~currentMemOpSuccessful[n]
  <2>1. PICK q \in Place : Lone(n, q) /\ \A r \in Place \ {q} : Free(n, r)
    BY <1>2 DEF Outstanding
  <2>2. CASE Stays(n) /\ currentMemOpSuccessful'[n] = currentMemOpSuccessful[n]
    BY <1>2, <2>1, <2>2, PlaceMeans DEF Stays, Outstanding
  <2>3. ASSUME NEW p \in Place, NEW r \in Place, Goes(n, p, r),
               currentMemOpSuccessful'[n] = currentMemOpSuccessful[n]
        PROVE  Outstanding(n)'
    <3>1. p = q BY <2>1, <2>3, PlaceMeans DEF Goes
    <3>2. Free(n, p)' /\ Lone(n, r)' BY <2>1, <2>3, <3>1, PlaceMeans DEF Goes
    <3>3. \A s \in Place \ {p, r} : Free(n, s)' BY <2>1, <2>3, <3>1, PlaceMeans DEF Goes
    <3> QED BY <1>2, <2>3, <3>2, <3>3 DEF Outstanding
  <2>4. ASSUME NEW p \in Place, Ends(n, p), currentMemOpSuccessful'[n]
        PROVE  Outstanding(n)'
    <3>1. p = q BY <2>1, <2>4, PlaceMeans DEF Ends
    <3>2. Free(n, p)' BY <2>1, <2>4, <3>1, PlaceMeans DEF Ends
    <3>3. \A s \in Place \ {p} : Free(n, s)' BY <2>1, <2>4, <3>1, PlaceMeans DEF Ends
    <3> QED BY <2>4, <3>2, <3>3 DEF Outstanding
  <2> QED BY <1>2, <2>2, <2>3, <2>4 DEF Follows
<1> QED BY <1>1, <1>2

-------------------------------------------------------------------------------
(* What handleMessage does to the queues, seen from the operation of o. *)

\* What keeping, gaining and losing mean for each kind of place.
LEMMA KindsOfChange ==
  ASSUME NEW o \in Node
  PROVE  /\ \A m \in Node :
              LET q == incomingMsgQueue[m]  r == incomingMsgQueue'[m]  S == InMarks(o, m)
              IN  /\ PlaceKeeps(o, In(m)) <=> Keeps(q, r, S)
                  /\ PlaceGains(o, In(m)) <=> Gains(q, r, S)
                  /\ PlaceLoses(o, In(m)) <=> Loses(q, r, S)
         /\ \A m \in Node, a \in Addr :
              LET q == blockedMsgMap[m][a]  r == blockedMsgMap'[m][a]  S == AskMarks(o)
              IN  /\ PlaceKeeps(o, Blk(m, a)) <=> Keeps(q, r, S)
                  /\ PlaceGains(o, Blk(m, a)) <=> Gains(q, r, S)
                  /\ PlaceLoses(o, Blk(m, a)) <=> Loses(q, r, S)
         /\ LET q == cacheMsgQueue[o]  r == cacheMsgQueue'[o]
            IN  /\ PlaceKeeps(o, Own) <=> Keeps(q, r, CacheMarks)
                /\ PlaceGains(o, Own) <=> Gains(q, r, CacheMarks)
                /\ PlaceLoses(o, Own) <=> Loses(q, r, CacheMarks)
BY DEF PlaceKeeps, PlaceGains, PlaceLoses, QueueAt, MarksAt, In, Blk, Own

\* The incoming queues, the blocked queues: all keep, all but one.
InsKeep(o) == \A m \in Node : PlaceKeeps(o, In(m))
InsLose(o, n) == PlaceLoses(o, In(n)) /\ \A m \in Node \ {n} : PlaceKeeps(o, In(m))
InsGain(o, n) == PlaceGains(o, In(n)) /\ \A m \in Node \ {n} : PlaceKeeps(o, In(m))
InsPass(o, n, k) == /\ n # k /\ PlaceLoses(o, In(n)) /\ PlaceGains(o, In(k))
                    /\ \A m \in Node \ {n, k} : PlaceKeeps(o, In(m))
BlksKeep(S) == \A m \in Node, a \in Addr : Keeps(blockedMsgMap[m][a], blockedMsgMap'[m][a], S)
BlksLose(S, n, b) ==
  /\ Loses(blockedMsgMap[n][b], blockedMsgMap'[n][b], S)
  /\ \A m \in Node, a \in Addr :
       m # n \/ a # b => Keeps(blockedMsgMap[m][a], blockedMsgMap'[m][a], S)
BlksGain(S, n, b) ==
  /\ Gains(blockedMsgMap[n][b], blockedMsgMap'[n][b], S)
  /\ \A m \in Node, a \in Addr :
       m # n \/ a # b => Keeps(blockedMsgMap[m][a], blockedMsgMap'[m][a], S)

\* The ways in which a step follows an operation.
LEMMA StepOfPlaces ==
  ASSUME NEW o \in Node, NEW n \in Node, NEW k \in Node, NEW b \in Addr
  PROVE  /\ InsKeep(o) /\ BlksKeep(AskMarks(o)) /\ PlaceKeeps(o, Own) => Stays(o)
         /\ InsPass(o, n, k) /\ BlksKeep(AskMarks(o)) /\ PlaceKeeps(o, Own) => Goes(o, In(n), In(k))
         /\ InsLose(o, n) /\ BlksGain(AskMarks(o), k, b) /\ PlaceKeeps(o, Own)
              => Goes(o, In(n), Blk(k, b))
         /\ InsGain(o, n) /\ BlksLose(AskMarks(o), k, b) /\ PlaceKeeps(o, Own)
              => Goes(o, Blk(k, b), In(n))
         /\ InsLose(o, n) /\ BlksKeep(AskMarks(o)) /\ PlaceGains(o, Own) => Goes(o, In(n), Own)
         /\ InsGain(o, n) /\ BlksKeep(AskMarks(o)) /\ PlaceLoses(o, Own) => Goes(o, Own, In(n))
         /\ InsLose(o, n) /\ BlksKeep(AskMarks(o)) /\ PlaceKeeps(o, Own) => Ends(o, In(n))
         /\ InsGain(o, n) /\ BlksKeep(AskMarks(o)) /\ PlaceKeeps(o, Own) => Begins(o, In(n))
         /\ InsKeep(o) /\ BlksKeep(AskMarks(o)) /\ PlaceGains(o, Own) => Begins(o, Own)
<1>1. InsKeep(o) /\ BlksKeep(AskMarks(o)) /\ PlaceKeeps(o, Own) => Stays(o)
  BY Places, KindsOfChange DEF InsKeep, BlksKeep, Stays
<1>2. InsPass(o, n, k) /\ BlksKeep(AskMarks(o)) /\ PlaceKeeps(o, Own) => Goes(o, In(n), In(k))
  BY Places, KindsOfChange DEF InsPass, BlksKeep, Goes
<1>3. InsLose(o, n) /\ BlksGain(AskMarks(o), k, b) /\ PlaceKeeps(o, Own)
        => Goes(o, In(n), Blk(k, b))
  BY Places, KindsOfChange DEF InsLose, BlksGain, Goes
<1>4. InsGain(o, n) /\ BlksLose(AskMarks(o), k, b) /\ PlaceKeeps(o, Own)
        => Goes(o, Blk(k, b), In(n))
  BY Places, KindsOfChange DEF InsGain, BlksLose, Goes
<1>5. InsLose(o, n) /\ BlksKeep(AskMarks(o)) /\ PlaceGains(o, Own) => Goes(o, In(n), Own)
  BY Places, KindsOfChange DEF InsLose, BlksKeep, Goes
<1>6. InsGain(o, n) /\ BlksKeep(AskMarks(o)) /\ PlaceLoses(o, Own) => Goes(o, Own, In(n))
  BY Places, KindsOfChange DEF InsGain, BlksKeep, Goes
<1>7. InsLose(o, n) /\ BlksKeep(AskMarks(o)) /\ PlaceKeeps(o, Own) => Ends(o, In(n))
  BY Places, KindsOfChange DEF InsLose, BlksKeep, Ends
<1>8. InsGain(o, n) /\ BlksKeep(AskMarks(o)) /\ PlaceKeeps(o, Own) => Begins(o, In(n))
  BY Places, KindsOfChange DEF InsGain, BlksKeep, Begins
<1>9. InsKeep(o) /\ BlksKeep(AskMarks(o)) /\ PlaceGains(o, Own) => Begins(o, Own)
  BY Places, KindsOfChange DEF InsKeep, BlksKeep, Begins
<1> QED BY <1>1, <1>2, <1>3, <1>4, <1>5, <1>6, <1>7, <1>8, <1>9

\* The message in hand is out of the queue it came in by.
LEMMA RestMarks ==
  ASSUME TypeOK, NEW n \in Node, Handling(n), NEW o \in Node
  PROVE  /\ Draining \/ Current(n) \notin InMarks(o, n)
              => \A m \in Node : Keeps(incomingMsgQueue[m], Rest(n)[m], InMarks(o, m))
         /\ ~Draining /\ Current(n) \in InMarks(o, n)
              => Loses(incomingMsgQueue[n], Rest(n)[n], InMarks(o, n))
         /\ \A m \in Node \ {n} : Rest(n)[m] = incomingMsgQueue[m]
<1>1. incomingMsgQueue \in [Node -> Seq(Message)] BY DEF TypeOK
<1>2. CASE Draining
  BY <1>2, TwoChanges DEF Rest
<1>3. CASE ~Draining
  <2>1. incomingMsgQueue[n] \in Seq(Message) /\ incomingMsgQueue[n] # <<>>
    BY <1>1, <1>3 DEF Handling, Arrived
  <2>2. /\ Rest(n)[n] = Tail(incomingMsgQueue[n]) /\ Current(n) = Head(incomingMsgQueue[n])
        /\ \A m \in Node \ {n} : Rest(n)[m] = incomingMsgQueue[m]
    BY <1>1, <1>3 DEF Rest, Current
  <2>3. \A m \in Node \ {n} : Keeps(incomingMsgQueue[m], Rest(n)[m], InMarks(o, m))
    BY <2>2, TwoChanges
  <2> QED BY <1>3, <2>1, <2>2, <2>3, TailMarks
<1> QED BY <1>2, <1>3

\* Answers that are no answer to a requester.
Quiet == OwnerRequest \cup {"INVALIDATE_ACK", "DATA_WRITE_BACK"}

\* No answer, or one that does not concern the operation of o.
LEMMA QuietMarks ==
  ASSUME TypeOK, NEW n \in Node, Handling(n), NEW o \in Node,
         \/ NoReply(n)
         \/ \E dsts : \E type \in Quiet : Reply(n, dsts, type)
         \/ \E s \in Node \ {o} : \E type \in Answers : Reply(n, {s}, type)
  PROVE  /\ Draining \/ Current(n) \notin InMarks(o, n) => InsKeep(o)
         /\ ~Draining /\ Current(n) \in InMarks(o, n) => InsLose(o, n)
<1>1. /\ Rest(n) \in [Node -> Seq(Message)] /\ A(n) \in Addr /\ nodeLatency \in Nat
  BY CurrentType DEF TypeOK
<1>2. ASSUME NEW m \in Node
      PROVE  Keeps(Rest(n)[m], incomingMsgQueue'[m], InMarks(o, m))
  <2>1. CASE NoReply(n) BY <2>1, TwoChanges DEF NoReply
  <2>2. ASSUME NEW dsts, NEW type \in MessageType, Reply(n, dsts, type),
               m \in dsts => NewMessage(n, A(n), type, nodeLatency) \notin InMarks(o, m)
        PROVE  Keeps(Rest(n)[m], incomingMsgQueue'[m], InMarks(o, m))
    <3> DEFINE x == NewMessage(n, A(n), type, nodeLatency)
    <3>1. x \in Message BY <1>1, NewMessageType
    <3>2. incomingMsgQueue'[m] = IF m \in dsts THEN Append(Rest(n)[m], x) ELSE Rest(n)[m]
      BY <2>2 DEF Reply, SendMsgToNode, A
    <3> HIDE DEF x
    <3>3. CASE m \in dsts
      BY <1>1, <2>2, <3>1, <3>2, <3>3, AppendMarks DEF x
    <3>4. CASE m \notin dsts BY <3>2, <3>4, TwoChanges
    <3> QED BY <3>3, <3>4
  <2>3. CASE \E dsts : \E type \in Quiet : Reply(n, dsts, type)
    <3>0. PICK dsts : \E type \in Quiet : Reply(n, dsts, type) BY <2>3
    <3>1. PICK type \in Quiet : Reply(n, dsts, type) BY <3>0
    <3>2. type \in MessageType BY DEF Quiet, MessageType, NodeReply
    <3>3. NewMessage(n, A(n), type, nodeLatency) \notin InMarks(o, m)
      BY DEF NewMessage, InMarks, AskMarks, Quiet, OwnerRequest, HomeRequest, Answers
    <3> QED BY <2>2, <3>1, <3>2, <3>3
  <2>4. CASE \E s \in Node \ {o} : \E type \in Answers : Reply(n, {s}, type)
    <3>1. PICK s \in Node \ {o}, type \in Answers : Reply(n, {s}, type) BY <2>4
    <3>2. type \in MessageType BY DEF Answers, MessageType, NodeReply, CacheReply
    <3>3. m = s => NewMessage(n, A(n), type, nodeLatency) \notin InMarks(o, m)
      BY DEF NewMessage, InMarks, AskMarks, HomeRequest, Answers
    <3> QED BY <2>2, <3>1, <3>2, <3>3
  <2> QED BY <2>1, <2>3, <2>4
<1>3. CASE Draining \/ Current(n) \notin InMarks(o, n)
  <2>1. \A m \in Node : Keeps(incomingMsgQueue[m], incomingMsgQueue'[m], InMarks(o, m))
    BY <1>2, <1>3, RestMarks, TwoChanges
  <2> QED BY <1>3, <2>1, KindsOfChange DEF InsKeep
<1>4. CASE ~Draining /\ Current(n) \in InMarks(o, n)
  <2>1. Loses(incomingMsgQueue[n], incomingMsgQueue'[n], InMarks(o, n))
    BY <1>2, <1>4, RestMarks, TwoChanges
  <2>2. \A m \in Node \ {n} : Keeps(incomingMsgQueue[m], incomingMsgQueue'[m], InMarks(o, m))
    BY <1>2, RestMarks
  <2> QED BY <1>4, <2>1, <2>2, KindsOfChange DEF InsLose
<1> QED BY <1>3, <1>4

\* The answer o waits for.
LEMMA AnswerMarks ==
  ASSUME TypeOK, NEW n \in Node, Handling(n), NEW o \in Node,
         NEW type \in Answers, Reply(n, {o}, type)
  PROVE  /\ Draining \/ Current(n) \notin InMarks(o, n) => InsGain(o, o)
         /\ ~Draining /\ Current(n) \in InMarks(o, n)
              => IF n = o THEN InsKeep(o) ELSE InsPass(o, n, o)
<1> DEFINE x == NewMessage(n, A(n), type, nodeLatency)
<1>1. /\ Rest(n) \in [Node -> Seq(Message)] /\ A(n) \in Addr /\ nodeLatency \in Nat
  BY CurrentType DEF TypeOK
<1>2. type \in MessageType BY DEF Answers, MessageType, NodeReply, CacheReply
<1>3. x \in Message BY <1>1, <1>2, NewMessageType
<1>4. x \in InMarks(o, o) BY <1>3 DEF NewMessage, InMarks
<1>5. \A m \in Node :
        incomingMsgQueue'[m] = IF m = o THEN Append(Rest(n)[m], x) ELSE Rest(n)[m]
  BY DEF Reply, SendMsgToNode, A
<1> HIDE DEF x
<1>6. Gains(Rest(n)[o], incomingMsgQueue'[o], InMarks(o, o))
  BY <1>1, <1>3, <1>4, <1>5, AppendMarks
<1>7. \A m \in Node \ {o} : Keeps(Rest(n)[m], incomingMsgQueue'[m], InMarks(o, m))
  BY <1>5, TwoChanges
<1>8. CASE Draining \/ Current(n) \notin InMarks(o, n)
  <2>1. Gains(incomingMsgQueue[o], incomingMsgQueue'[o], InMarks(o, o))
    BY <1>6, <1>8, RestMarks, TwoChanges
  <2>2. \A m \in Node \ {o} : Keeps(incomingMsgQueue[m], incomingMsgQueue'[m], InMarks(o, m))
    BY <1>7, <1>8, RestMarks, TwoChanges
  <2> QED BY <1>8, <2>1, <2>2, KindsOfChange DEF InsGain
<1>9. CASE ~Draining /\ Current(n) \in InMarks(o, n)
  <2>1. Loses(incomingMsgQueue[n], Rest(n)[n], InMarks(o, n)) BY <1>9, RestMarks
  <2>2. \A m \in Node \ {n, o} : Keeps(incomingMsgQueue[m], incomingMsgQueue'[m], InMarks(o, m))
    BY <1>7, RestMarks
  <2>3. CASE n = o
    <3>1. Keeps(incomingMsgQueue[o], incomingMsgQueue'[o], InMarks(o, o))
      BY <1>6, <2>1, <2>3, TwoChanges
    <3> QED BY <1>9, <2>2, <2>3, <3>1, KindsOfChange DEF InsKeep
  <2>4. CASE n # o
    <3>1. Loses(incomingMsgQueue[n], incomingMsgQueue'[n], InMarks(o, n))
      BY <1>7, <2>1, <2>4, TwoChanges
    <3>2. Gains(incomingMsgQueue[o], incomingMsgQueue'[o], InMarks(o, o))
      BY <1>6, <2>4, RestMarks
    <3> QED BY <1>9, <2>2, <2>4, <3>1, <3>2, KindsOfChange DEF InsPass
  <2> QED BY <2>3, <2>4
<1> QED BY <1>8, <1>9

\* Blocked queues of which one changes.
LEMMA OneQueueMarks ==
  ASSUME TypeOK, NEW n \in Node, NEW b \in Addr, NEW q,
         blockedMsgMap' = [blockedMsgMap EXCEPT ![n][b] = q], NEW S
  PROVE  /\ Keeps(blockedMsgMap[n][b], q, S) => BlksKeep(S)
         /\ Loses(blockedMsgMap[n][b], q, S) => BlksLose(S, n, b)
         /\ Gains(blockedMsgMap[n][b], q, S) => BlksGain(S, n, b)
<1>1. \A m \in Node, a \in Addr :
        blockedMsgMap'[m][a] = IF m = n /\ a = b THEN q ELSE blockedMsgMap[m][a]
  BY DEF TypeOK
<1>2. \A m \in Node, a \in Addr :
        m # n \/ a # b => Keeps(blockedMsgMap[m][a], blockedMsgMap'[m][a], S)
  BY <1>1, TwoChanges
<1>3. blockedMsgMap'[n][b] = q BY <1>1
<1> QED BY <1>2, <1>3 DEF BlksKeep, BlksLose, BlksGain

\* handleMessage returns true.
LEMMA DoneMarks ==
  ASSUME BlockingInv, NEW n \in Node, Handling(n), Done(n), NEW S
  PROVE  /\ ~Draining \/ Current(n) \notin S => BlksKeep(S)
         /\ Draining /\ Current(n) \in S => BlksLose(S, n, drainAddr)
<1>1. TypeOK /\ BlockedInOrder BY DEF BlockingInv
<1>2. CASE Draining
  <2> DEFINE q == blockedMsgMap[n][drainAddr]
  <2>1. q \in Seq(Message) /\ q # <<>> /\ Current(n) = Head(q) /\ drainAddr \in Addr
    BY <1>1, <1>2, DrainsOwnAddress DEF Current, TypeOK
  <2>2. blockedMsgMap' = [blockedMsgMap EXCEPT ![n][drainAddr] = Tail(q)]
    BY <1>2 DEF Done
  <2> HIDE DEF q
  <2>3. /\ Current(n) \notin S => Keeps(q, Tail(q), S)
        /\ Current(n) \in S => Loses(q, Tail(q), S)
    BY <2>1, TailMarks
  <2> QED BY <1>1, <1>2, <2>1, <2>2, <2>3, OneQueueMarks DEF q
<1>3. CASE ~Draining
  <2>1. blockedMsgMap' = blockedMsgMap BY <1>3 DEF Done
  <2> QED BY <1>3, <2>1, TwoChanges DEF BlksKeep
<1> QED BY <1>2, <1>3

\* handleMessage returns false: a message that came in goes into a blocked
\* queue, one that was taken up from there stays.
LEMMA BlockMarks ==
  ASSUME BlockingInv, NEW n \in Node, Handling(n), NEW serviced \in BOOLEAN,
         Block(n, serviced), NEW S,
         [Current(n) EXCEPT !.serviced = serviced] \in S <=> Current(n) \in S
  PROVE  /\ Draining \/ Current(n) \notin S => BlksKeep(S)
         /\ ~Draining /\ Current(n) \in S => BlksGain(S, n, A(n))
<1> DEFINE msg == [Current(n) EXCEPT !.serviced = serviced]
           q == blockedMsgMap[n][A(n)]
<1>1. TypeOK /\ BlockedInOrder BY DEF BlockingInv
<1>2. Current(n) \in Message /\ A(n) \in Addr BY <1>1, CurrentType
<1>3. /\ msg \in Message /\ msg.addr = A(n)
      /\ msg \in S <=> Current(n) \in S
  BY <1>2 DEF Message, A, AskMarks
<1>4. q \in Seq(Message) BY <1>1, <1>2 DEF TypeOK
<1>5. blockedMsgMap' = [blockedMsgMap EXCEPT ![n][A(n)] =
                          IF Draining THEN <<msg>> \o Tail(q) ELSE AddToBlocked(q, msg)]
  <2>1. blockedMsgMap' = [blockedMsgMap EXCEPT ![n][msg.addr] =
                            IF Draining THEN <<msg>> \o Tail(@) ELSE AddToBlocked(@, msg)]
    BY DEF Block
  <2> HIDE DEF msg
  <2> QED BY <1>3, <2>1
<1>6. Draining => q # <<>> /\ Current(n) = Head(q) /\ Tail(q) \in Seq(Message)
  BY <1>1, DrainsOwnAddress DEF Current
<1> HIDE DEF msg, q
<1>7. CASE Draining
  <2>1. /\ Current(n) \notin S => Keeps(q, Tail(q), S)
        /\ Current(n) \in S => Loses(q, Tail(q), S)
    BY <1>4, <1>6, <1>7, TailMarks
  <2>2. /\ msg \notin S => Keeps(Tail(q), <<msg>> \o Tail(q), S)
        /\ msg \in S => Gains(Tail(q), <<msg>> \o Tail(q), S)
    BY <1>3, <1>6, <1>7, FrontMarks
  <2>3. Keeps(q, <<msg>> \o Tail(q), S) BY <1>3, <2>1, <2>2, TwoChanges
  <2> QED BY <1>1, <1>2, <1>5, <1>7, <2>3, OneQueueMarks DEF q
<1>8. CASE ~Draining
  <2>1. /\ msg \notin S => Keeps(q, AddToBlocked(q, msg), S)
        /\ msg \in S => Gains(q, AddToBlocked(q, msg), S)
    BY <1>3, <1>4, FrontMarks, AppendMarks DEF AddToBlocked
  <2> QED BY <1>1, <1>2, <1>3, <1>5, <1>8, <2>1, OneQueueMarks DEF q
<1> QED BY <1>7, <1>8

\* The first blocked message of the line has been answered.
LEMMA UnblockMarks ==
  ASSUME BlockingInv, NEW n \in Node, Handling(n), Waiting(n) # <<>>, Unblock(n), NEW S
  PROVE  /\ Head(Waiting(n)) \notin S => BlksKeep(S)
         /\ Head(Waiting(n)) \in S => BlksLose(S, n, A(n))
<1>1. TypeOK /\ A(n) \in Addr BY CurrentType DEF BlockingInv
<1>2. Waiting(n) = blockedMsgMap[n][A(n)] /\ Waiting(n) \in Seq(Message)
  BY <1>1 DEF Waiting, A, TypeOK
<1>3. blockedMsgMap' = [blockedMsgMap EXCEPT ![n][A(n)] = Tail(Waiting(n))]
  BY <1>2 DEF Unblock, A
<1>4. /\ Head(Waiting(n)) \notin S
           => Keeps(Waiting(n), Tail(Waiting(n)), S)
      /\ Head(Waiting(n)) \in S
           => Loses(Waiting(n), Tail(Waiting(n)), S)
  BY <1>2, TailMarks
<1> QED BY <1>1, <1>2, <1>3, <1>4, OneQueueMarks

-------------------------------------------------------------------------------
(* The actions, seen from the operation of o. *)

\* The message in hand is the one that stands for the operation of o.
LEMMA HandMarks ==
  ASSUME TypeOK, NEW n \in Node, Handling(n), NEW o \in Node
  PROVE  /\ Current(n).type \in HomeRequest
              => /\ Current(n) \in AskMarks(o) <=> o = Source(n)
                 /\ Current(n) \in InMarks(o, n) <=> o = Source(n)
         /\ Current(n).type \in Answers
              => Current(n) \notin AskMarks(o) /\ (Current(n) \in InMarks(o, n) <=> o = n)
         /\ Current(n).type \notin HomeRequest \cup Answers
              => Current(n) \notin AskMarks(o) /\ Current(n) \notin InMarks(o, n)
<1>1. Current(n) \in Message BY CurrentType
<1> QED BY <1>1 DEF AskMarks, InMarks, Source, HomeRequest, Answers

\* Marking a request as being serviced leaves it the mark it is.
LEMMA ServicedMarks ==
  ASSUME TypeOK, NEW n \in Node, Handling(n), NEW o \in Node, NEW serviced \in BOOLEAN
  PROVE  [Current(n) EXCEPT !.serviced = serviced] \in AskMarks(o) <=> Current(n) \in AskMarks(o)
<1>1. Current(n) \in Message BY CurrentType
<1> QED BY <1>1 DEF Message, AskMarks

\* An operation goes on while no memory operation begins or is done.
LEMMA FollowsByMoves ==
  ASSUME NEW o \in Node, UNCHANGED currentMemOpSuccessful,
         Stays(o) \/ \E p, r \in Place : Goes(o, p, r)
  PROVE  Follows(o)
BY DEF Follows

\* The requests at a cache keep where its queue stays.
LEMMA OwnKept ==
  ASSUME NEW o \in Node, UNCHANGED cacheMsgQueue
  PROVE  PlaceKeeps(o, Own)
BY KindsOfChange, TwoChanges

\* A request of a node to the home that waits, or is being serviced.
LEMMA BlockedFollows ==
  ASSUME BlockingInv, NEW n \in Node, Handling(n), Current(n).type \in HomeRequest,
         NEW serviced \in BOOLEAN, Block(n, serviced),
         NoReply(n) \/ \E dsts : \E type \in Quiet : Reply(n, dsts, type),
         UNCHANGED <<cacheMsgQueue, currentMemOpSuccessful>>, NEW o \in Node
  PROVE  Follows(o)
<1>1. TypeOK /\ A(n) \in Addr BY CurrentType DEF BlockingInv
<1>2. PlaceKeeps(o, Own) BY OwnKept
<1>3. CASE Draining \/ o # Source(n)
  <2>1. InsKeep(o) BY <1>1, <1>3, HandMarks, QuietMarks
  <2>2. BlksKeep(AskMarks(o)) BY <1>1, <1>3, HandMarks, ServicedMarks, BlockMarks
  <2> QED BY <1>1, <1>2, <2>1, <2>2, StepOfPlaces, FollowsByMoves
<1>4. CASE ~Draining /\ o = Source(n)
  <2>1. InsLose(o, n) BY <1>1, <1>4, HandMarks, QuietMarks
  <2>2. BlksGain(AskMarks(o), n, A(n)) BY <1>1, <1>4, HandMarks, ServicedMarks, BlockMarks
  <2>3. Goes(o, In(n), Blk(n, A(n))) BY <1>1, <1>2, <2>1, <2>2, StepOfPlaces
  <2> QED BY <1>1, <2>3, Places, FollowsByMoves
<1> QED BY <1>3, <1>4

\* A request of a node to the home that is answered at once.
LEMMA AnsweredFollows ==
  ASSUME BlockingInv, NEW n \in Node, Handling(n), Current(n).type \in HomeRequest, Done(n),
         NEW type \in Answers, Reply(n, {Source(n)}, type),
         UNCHANGED <<cacheMsgQueue, currentMemOpSuccessful>>, NEW o \in Node
  PROVE  Follows(o)
<1>1. TypeOK /\ Source(n) \in Node /\ drainAddr \in Addr BY CurrentType DEF BlockingInv, TypeOK
<1>2. PlaceKeeps(o, Own) BY OwnKept
<1>3. CASE o # Source(n)
  <2>1. InsKeep(o) BY <1>1, <1>3, HandMarks, QuietMarks
  <2>2. BlksKeep(AskMarks(o)) BY <1>1, <1>3, HandMarks, DoneMarks
  <2> QED BY <1>1, <1>2, <2>1, <2>2, StepOfPlaces, FollowsByMoves
<1>4. CASE o = Source(n) /\ Draining
  <2>1. InsGain(o, o) BY <1>1, <1>4, HandMarks, AnswerMarks
  <2>2. BlksLose(AskMarks(o), n, drainAddr) BY <1>1, <1>4, HandMarks, DoneMarks
  <2>3. Goes(o, Blk(n, drainAddr), In(o)) BY <1>1, <1>2, <2>1, <2>2, StepOfPlaces
  <2> QED BY <1>1, <2>3, Places, FollowsByMoves
<1>5. CASE o = Source(n) /\ ~Draining
  <2>1. IF n = o THEN InsKeep(o) ELSE InsPass(o, n, o) BY <1>1, <1>5, HandMarks, AnswerMarks
  <2>2. BlksKeep(AskMarks(o)) BY <1>1, <1>5, HandMarks, DoneMarks
  <2>3. Stays(o) \/ Goes(o, In(n), In(o)) BY <1>1, <1>2, <2>1, <2>2, StepOfPlaces
  <2> QED BY <1>1, <2>3, Places, FollowsByMoves
<1> QED BY <1>3, <1>4, <1>5

\* The handlers of requests follow every operation, ...
LEMMA HomeRequestFollows ==
  ASSUME BlockingInv, NEW n \in Node, NEW o \in Node,
         \/ HomeBusy(n)
         \/ ReadMissShares(n) \/ ReadMissGivesExclusive(n) \/ ReadMissFetches(n)
         \/ WriteMissUncached(n) \/ WriteMissInvalidates(n) \/ WriteMissFetches(n)
         \/ InvalidateOtherRollsBack(n) \/ InvalidateOtherInvalidates(n)
         \/ InvalidateOtherGrants(n)
  PROVE  Follows(o)
<1>0. PICK type \in HomeRequest : Handles(n, type)
  BY DEF HomeBusy, ReadMissShares, ReadMissGivesExclusive, ReadMissFetches, WriteMissUncached,
         WriteMissInvalidates, WriteMissFetches, InvalidateOtherRollsBack,
         InvalidateOtherInvalidates, InvalidateOtherGrants, ReadMiss, WriteMiss, HomeRequest
<1>1. Handling(n) /\ Current(n).type \in HomeRequest BY <1>0, HandlesWhat
<1>2. UNCHANGED <<cacheMsgQueue, currentMemOpSuccessful>>
  BY DEF HomeBusy, ReadMissShares, ReadMissGivesExclusive, ReadMissFetches, WriteMissUncached,
         WriteMissInvalidates, WriteMissFetches, InvalidateOtherRollsBack,
         InvalidateOtherInvalidates, InvalidateOtherGrants, ReadMiss, WriteMiss, procVars
<1>3. CASE HomeBusy(n) BY <1>1, <1>2, <1>3, BlockedFollows DEF HomeBusy
<1>4. CASE ReadMissFetches(n) \/ WriteMissInvalidates(n) \/ WriteMissFetches(n)
           \/ InvalidateOtherInvalidates(n)
  <2>1. Block(n, TRUE) /\ \E dsts : \E reply \in Quiet : Reply(n, dsts, reply)
    BY <1>4 DEF ReadMissFetches, WriteMissInvalidates, WriteMissFetches,
                InvalidateOtherInvalidates, Quiet, OwnerRequest
  <2> QED BY <1>1, <1>2, <2>1, BlockedFollows
<1>5. CASE ReadMissShares(n) \/ ReadMissGivesExclusive(n) \/ WriteMissUncached(n)
           \/ InvalidateOtherRollsBack(n) \/ InvalidateOtherGrants(n)
  <2>1. Done(n) /\ \E reply \in Answers : Reply(n, {Source(n)}, reply)
    BY <1>5 DEF ReadMissShares, ReadMissGivesExclusive, WriteMissUncached,
                InvalidateOtherRollsBack, InvalidateOtherGrants, Answers
  <2> QED BY <1>1, <1>2, <2>1, AnsweredFollows
<1> QED BY <1>3, <1>4, <1>5

\* A message that does not stand for an operation, answered by one that does not.
LEMMA QuietFollows ==
  ASSUME BlockingInv, NEW n \in Node, Handling(n),
         Current(n).type \notin HomeRequest \cup Answers,
         Done(n) \/ Block(n, TRUE)
           \/ (Unblock(n) /\ Waiting(n) # <<>> /\ Head(Waiting(n)).type \notin HomeRequest),
         NoReply(n) \/ \E dsts : \E type \in Quiet : Reply(n, dsts, type),
         UNCHANGED currentMemOpSuccessful, NEW o \in Node, PlaceKeeps(o, Own)
  PROVE  Follows(o)
<1>1. TypeOK BY DEF BlockingInv
<1>2. InsKeep(o) BY <1>1, HandMarks, QuietMarks
<1>3. BlksKeep(AskMarks(o))
  <2>1. CASE Done(n) BY <1>1, <2>1, HandMarks, DoneMarks
  <2>2. CASE Block(n, TRUE) BY <1>1, <2>2, HandMarks, ServicedMarks, BlockMarks
  <2>3. CASE Unblock(n) /\ Waiting(n) # <<>> /\ Head(Waiting(n)).type \notin HomeRequest
    <3>1. Head(Waiting(n)) \notin AskMarks(o) BY <2>3 DEF AskMarks
    <3> QED BY <2>3, <3>1, UnblockMarks
  <2> QED BY <2>1, <2>2, <2>3
<1>4. PICK a \in Addr : TRUE BY ContextAssumption
<1> QED BY <1>2, <1>3, StepOfPlaces, FollowsByMoves, <1>4

\* A request of the cache that is no access.
LEMMA SentQuietly ==
  ASSUME TypeOK, NEW n \in Node, NEW a \in Addr, NEW type \in CacheRequest \ Accesses,
         SendMsgToCache(n, a, type), NEW o \in Node
  PROVE  PlaceKeeps(o, Own)
<1> DEFINE x == [type |-> type, addr |-> a, latency |-> cacheLatency]
<1>1. cacheMsgQueue \in [Node -> Seq(CacheMessage)] BY DEF TypeOK
<1>2. x \in CacheMessage /\ x \notin CacheMarks BY DEF CacheMessage, CacheMarks, TypeOK
<1>3. cacheMsgQueue'[o] = IF o = n THEN Append(cacheMsgQueue[o], x) ELSE cacheMsgQueue[o]
  BY <1>1 DEF SendMsgToCache
<1> HIDE DEF x
<1>4. Keeps(cacheMsgQueue[o], cacheMsgQueue'[o], CacheMarks)
  BY <1>1, <1>2, <1>3, AppendMarks, TwoChanges, ZenonT(40)
<1> QED BY <1>4, KindsOfChange

\* ... those of the home's requests to a holder, ...
LEMMA OwnerRequestFollows ==
  ASSUME BlockingInv, NEW n \in Node, NEW o \in Node,
         InvalidateAbsent(n) \/ FetchAbsent(n) \/ Invalidate(n) \/ Fetch(n)
  PROVE  Follows(o)
<1>0. PICK type \in OwnerRequest : Handles(n, type)
  BY DEF InvalidateAbsent, FetchAbsent, Invalidate, Fetch, OwnerRequest
<1>1. TypeOK /\ Handling(n) /\ Current(n).type \in OwnerRequest
  BY <1>0, HandlesWhat DEF BlockingInv
<1>2. A(n) \in Addr BY <1>1, CurrentType
<1>3. Current(n).type \notin HomeRequest \cup Answers
  BY <1>1 DEF OwnerRequest, HomeRequest, Answers
<1>4. PlaceKeeps(o, Own) /\ UNCHANGED currentMemOpSuccessful
  <2>1. CASE InvalidateAbsent(n) \/ FetchAbsent(n)
    BY <2>1, OwnKept DEF InvalidateAbsent, FetchAbsent, procVars
  <2>2. CASE Invalidate(n) \/ Fetch(n)
    <3>1. UNCHANGED currentMemOpSuccessful
          /\ \E request \in CacheRequest \ Accesses : SendMsgToCache(n, A(n), request)
      BY <2>2 DEF Invalidate, Fetch, procVars, CacheRequest, Accesses
    <3> QED BY <1>1, <1>2, <3>1, SentQuietly
  <2> QED BY <2>1, <2>2
<1>5. /\ Done(n) \/ Block(n, TRUE)
      /\ NoReply(n) \/ \E dsts : \E reply \in Quiet : Reply(n, dsts, reply)
  BY DEF InvalidateAbsent, FetchAbsent, Invalidate, Fetch, Quiet
<1> QED BY <1>1, <1>3, <1>4, <1>5, QuietFollows

\* The first request of the line that waits is answered.
LEMMA GrantedFollows ==
  ASSUME BlockingInv, NEW n \in Node, Handling(n),
         Current(n).type \notin HomeRequest \cup Answers,
         Unblock(n), Waiting(n) # <<>>, Head(Waiting(n)).type \in HomeRequest,
         NEW type \in Answers, Reply(n, {Head(Waiting(n)).src}, type),
         UNCHANGED <<cacheMsgQueue, currentMemOpSuccessful>>, NEW o \in Node
  PROVE  Follows(o)
<1> DEFINE first == Head(Waiting(n))
<1>1. /\ TypeOK /\ A(n) \in Addr /\ first \in Message /\ first.src \in Node
  BY CurrentType, FirstWaiting DEF BlockingInv
<1>2. first \in AskMarks(o) <=> o = first.src BY <1>1 DEF AskMarks
<1>3. PlaceKeeps(o, Own) BY OwnKept
<1>4. Current(n) \notin InMarks(o, n) BY <1>1, HandMarks
<1>5. CASE o # first.src
  <2>1. InsKeep(o) BY <1>1, <1>4, <1>5, QuietMarks
  <2>2. BlksKeep(AskMarks(o)) BY <1>2, <1>5, UnblockMarks
  <2> QED BY <1>1, <1>3, <2>1, <2>2, StepOfPlaces, FollowsByMoves
<1>6. CASE o = first.src
  <2>1. InsGain(o, o) BY <1>1, <1>4, <1>6, AnswerMarks
  <2>2. BlksLose(AskMarks(o), n, A(n)) BY <1>2, <1>6, UnblockMarks
  <2>3. Goes(o, Blk(n, A(n)), In(o)) BY <1>1, <1>3, <2>1, <2>2, StepOfPlaces
  <2> QED BY <1>1, <2>3, Places, FollowsByMoves
<1> QED BY <1>5, <1>6

\* ... those of the holders' answers, ...
LEMMA HolderAnswerFollows ==
  ASSUME BlockingInv, NEW n \in Node, NEW o \in Node,
         \/ InvalidateAckCounts(n) \/ InvalidateAckGrants(n)
         \/ WriteBackAnswersWrite(n) \/ WriteBackAnswersRead(n) \/ WriteBackEvicts(n)
  PROVE  Follows(o)
<1>0. PICK type \in {"INVALIDATE_ACK", "DATA_WRITE_BACK"} : Handles(n, type)
  BY DEF InvalidateAckCounts, InvalidateAckGrants, WriteBackAnswersWrite,
         WriteBackAnswersRead, WriteBackEvicts, InvalidateAck, WriteBack
<1>1. /\ Handling(n) /\ ~EmptyFront(n) /\ AssertsHold(n) /\ Current(n).type = type
      /\ UNCHANGED <<cacheMsgQueue, currentMemOpSuccessful>>
  BY <1>0, HandlesWhat DEF Handles, InvalidateAckCounts, InvalidateAckGrants,
     WriteBackAnswersWrite, WriteBackAnswersRead, WriteBackEvicts, InvalidateAck, WriteBack,
     procVars
<1>2. Current(n).type \notin HomeRequest \cup Answers BY <1>1 DEF HomeRequest, Answers
<1>3. CASE InvalidateAckCounts(n) \/ WriteBackEvicts(n)
  <2>1. Done(n) /\ NoReply(n) BY <1>3 DEF InvalidateAckCounts, WriteBackEvicts
  <2> QED BY <1>1, <1>2, <2>1, OwnKept, QuietFollows
<1>4. CASE InvalidateAckGrants(n)
  <2>1. Current(n).type = "INVALIDATE_ACK" /\ LastAck(n) /\ Unblock(n)
        /\ \E reply \in Answers : Reply(n, {Head(Waiting(n)).src}, reply)
    BY <1>4, HandlesWhat DEF InvalidateAckGrants, InvalidateAck, Answers
  <2>2. Waiting(n) # <<>> BY <1>1, <2>1 DEF EmptyFront, TakesFront
  <2>3. Head(Waiting(n)).type \in HomeRequest
    BY <1>1, <2>1, <2>2 DEF AssertsHold, Asserts, FrontIn, HomeRequest
  <2> QED BY <1>1, <1>2, <2>1, <2>2, <2>3, GrantedFollows
<1>5. CASE WriteBackAnswersWrite(n) \/ WriteBackAnswersRead(n)
  <2>1. Waiting(n) # <<>> /\ Unblock(n) /\ Head(Waiting(n)).type \in HomeRequest
        /\ \E reply \in Answers : Reply(n, {Head(Waiting(n)).src}, reply)
    BY <1>5 DEF WriteBackAnswersWrite, WriteBackAnswersRead, HomeRequest, Answers
  <2> QED BY <1>1, <1>2, <2>1, GrantedFollows
<1> QED BY <1>3, <1>4, <1>5

\* Only requests wait in blocked queues, so any other message that is handled has
\* come in.
LEMMA OthersCameIn ==
  ASSUME TypeOK, RequestsWait, NEW n \in Node, Handling(n),
         Current(n).type \notin HomeRequest \cup OwnerRequest
  PROVE  ~Draining /\ Current(n) = Head(incomingMsgQueue[n])
<1>1. CASE Draining
  <2> DEFINE q == blockedMsgMap[n][drainAddr]
  <2>1. q \in Seq(Message) /\ q # <<>> /\ Current(n) = Head(q) /\ None(q, NoRequest)
    BY <1>1 DEF TypeOK, Handling, Draining, Current, RequestsWait
  <2> HIDE DEF q
  <2>2. Head(q) = q[1] /\ 1 \in 1..Len(q) BY <2>1, EmptySeq, LenProperties
  <2>3. Head(q) \in Message BY <2>1, HeadTailProperties
  <2> QED BY <2>1, <2>2, <2>3 DEF None, NoRequest
<1> QED BY <1>1 DEF Current

\* An answer to the operation of n has come in, and goes.
LEMMA TakenMarks ==
  ASSUME BlockingInv, RequestsWait, NEW n \in Node, Handling(n), Current(n).type \in Answers,
         Done(n), NoReply(n), NEW o \in Node
  PROVE  /\ BlksKeep(AskMarks(o))
         /\ IF o = n THEN InsLose(o, n) ELSE InsKeep(o)
<1>1. TypeOK BY DEF BlockingInv
<1>2. Current(n).type \notin HomeRequest \cup OwnerRequest
  BY DEF Answers, HomeRequest, OwnerRequest
<1>3. ~Draining BY <1>1, <1>2, OthersCameIn
<1>4. BlksKeep(AskMarks(o)) BY <1>1, <1>3, DoneMarks
<1>5. IF o = n THEN InsLose(o, n) ELSE InsKeep(o) BY <1>1, <1>3, HandMarks, QuietMarks
<1> QED BY <1>4, <1>5

\* A request of the cache that is an access.
LEMMA SentMarks ==
  ASSUME TypeOK, NEW n \in Node, NEW a \in Addr, NEW type \in Accesses,
         SendMsgToCache(n, a, type), NEW o \in Node
  PROVE  IF o = n THEN PlaceGains(o, Own) ELSE PlaceKeeps(o, Own)
<1> DEFINE x == [type |-> type, addr |-> a, latency |-> cacheLatency]
<1>1. cacheMsgQueue \in [Node -> Seq(CacheMessage)] BY DEF TypeOK
<1>2. x \in CacheMessage /\ x \in CacheMarks
  BY DEF CacheMessage, CacheMarks, TypeOK, Accesses, CacheRequest
<1>3. cacheMsgQueue'[o] = IF o = n THEN Append(cacheMsgQueue[o], x) ELSE cacheMsgQueue[o]
  BY <1>1 DEF SendMsgToCache
<1> HIDE DEF x
<1>4. IF o = n THEN Gains(cacheMsgQueue[o], cacheMsgQueue'[o], CacheMarks)
               ELSE Keeps(cacheMsgQueue[o], cacheMsgQueue'[o], CacheMarks)
  BY <1>1, <1>2, <1>3, AppendMarks, TwoChanges
<1> QED BY <1>4, KindsOfChange

\* ... and those of the answers to the operation.
LEMMA AnswerFollows ==
  ASSUME BlockingInv, RequestsWait, NEW n \in Node, NEW o \in Node,
         \/ InvalidateOtherAck(n) \/ DataValueReply(n) \/ Rollback(n)
         \/ MemOpDone(n)
  PROVE  Follows(o)
<1>0. PICK type \in Answers : Handles(n, type)
  BY DEF InvalidateOtherAck, DataValueReply, Rollback, MemOpDone, Answers
<1>1. TypeOK /\ Handling(n) /\ Current(n).type \in Answers /\ A(n) \in Addr
  BY <1>0, HandlesWhat, CurrentType DEF BlockingInv
<1>2. Done(n) /\ NoReply(n)
  BY DEF InvalidateOtherAck, DataValueReply, Rollback, MemOpDone
<1>3. BlksKeep(AskMarks(o)) /\ IF o = n THEN InsLose(o, n) ELSE InsKeep(o)
  BY <1>1, <1>2, TakenMarks
<1>4. CASE InvalidateOtherAck(n) \/ DataValueReply(n)
  <2>1. SendMsgToCache(n, A(n), "CACHE_UPDATE") /\ UNCHANGED currentMemOpSuccessful
    BY <1>4 DEF InvalidateOtherAck, DataValueReply, procVars
  <2>2. IF o = n THEN PlaceGains(o, Own) ELSE PlaceKeeps(o, Own)
    BY <1>1, <2>1, SentMarks DEF Accesses
  <2>3. Stays(o) \/ Goes(o, In(n), Own) BY <1>1, <1>3, <2>2, StepOfPlaces
  <2> QED BY <2>1, <2>3, Places, FollowsByMoves
<1>5. CASE Rollback(n) \/ MemOpDone(n)
  <2>1. MemOpSucceeds(n) /\ UNCHANGED cacheMsgQueue BY <1>5 DEF Rollback, MemOpDone
  <2>2. currentMemOpSuccessful'[o] = IF o = n THEN TRUE ELSE currentMemOpSuccessful[o]
    BY <1>1, <2>1 DEF MemOpSucceeds, TypeOK
  <2>3. PlaceKeeps(o, Own) BY <2>1, OwnKept
  <2>4. IF o = n THEN Ends(o, In(n)) ELSE Stays(o) BY <1>1, <1>3, <2>3, StepOfPlaces
  <2> QED BY <2>2, <2>4, Places DEF Follows
<1> QED BY <1>4, <1>5

\* The cache's answers to a request of the home, and its alerts, are no answers to
\* an operation.
LEMMA CacheAnswerFollows ==
  ASSUME BlockingInv, NEW n \in Node, NEW o \in Node, CacheAck(n) \/ EvictionAlert(n)
  PROVE  Follows(o)
<1>0. PICK type \in {"CACHE_INVALIDATE_ACK", "CACHE_FETCH_ACK", "CACHE_EVICTION_ALERT"} :
        Handles(n, type)
  BY DEF CacheAck, EvictionAlert
<1>1. /\ Handling(n) /\ ~EmptyFront(n) /\ AssertsHold(n) /\ Current(n).type = type
      /\ UNCHANGED <<cacheMsgQueue, currentMemOpSuccessful>>
  BY <1>0, HandlesWhat DEF Handles, CacheAck, EvictionAlert, procVars
<1>2. Current(n).type \notin HomeRequest \cup Answers BY <1>1 DEF HomeRequest, Answers
<1>3. CASE CacheAck(n)
  <2>1. Unblock(n) /\ \E dsts : \E reply \in Quiet : Reply(n, dsts, reply)
        /\ Current(n).type \in {"CACHE_INVALIDATE_ACK", "CACHE_FETCH_ACK"}
    BY <1>3, HandlesWhat DEF CacheAck, Quiet
  <2>2. Waiting(n) # <<>> BY <1>1, <2>1 DEF EmptyFront, TakesFront
  <2>3. Head(Waiting(n)).type \notin HomeRequest
    BY <1>1, <2>1, <2>2 DEF AssertsHold, Asserts, FrontIn, HomeRequest
  <2> QED BY <1>1, <1>2, <2>1, <2>2, <2>3, OwnKept, QuietFollows
<1>4. CASE EvictionAlert(n)
  <2>1. Done(n) /\ (NoReply(n) \/ \E dsts : \E reply \in Quiet : Reply(n, dsts, reply))
    BY <1>4 DEF EvictionAlert, Quiet
  <2> QED BY <1>1, <1>2, <2>1, OwnKept, QuietFollows
<1> QED BY <1>3, <1>4

-------------------------------------------------------------------------------
(* The cache, the handler's tick and the processor. *)

\* Ageing changes no mark.
LEMMA OlderMessages ==
  ASSUME NEW q \in Seq(Message)
  PROVE  /\ Len(Older(q)) = Len(q)
         /\ \A i \in 1..Len(q) :
              /\ Older(q)[i] \in Message /\ q[i] \in Message
              /\ Older(q)[i].type = q[i].type /\ Older(q)[i].src = q[i].src
              /\ Older(q)[i].addr = q[i].addr
<1>1. Len(Older(q)) = Len(q) BY LenProperties DEF Older
<1>2. Older(q) \in Seq(Message) BY OlderType
<1>3. ASSUME NEW i \in 1..Len(q)
      PROVE  /\ Older(q)[i] \in Message /\ q[i] \in Message
             /\ Older(q)[i].type = q[i].type /\ Older(q)[i].src = q[i].src
             /\ Older(q)[i].addr = q[i].addr
  <2>1. Older(q)[i] \in Message /\ q[i] \in Message BY <1>1, <1>2
  <2>2. Older(q)[i] = [q[i] EXCEPT !.latency = IF @ > 0 THEN @ - 1 ELSE @] BY DEF Older
  <2> QED BY <2>1, <2>2 DEF Message
<1> QED BY <1>1, <1>3

\* Requests to a cache that have aged are the same requests.
LEMMA OlderRequests ==
  ASSUME NEW q \in Seq(CacheMessage)
  PROVE  /\ Len(Older(q)) = Len(q)
         /\ \A i \in 1..Len(q) :
              /\ Older(q)[i] \in CacheMessage /\ q[i] \in CacheMessage
              /\ Older(q)[i].type = q[i].type /\ Older(q)[i].addr = q[i].addr
<1>1. Len(Older(q)) = Len(q) BY LenProperties DEF Older
<1>2. Older(q) \in Seq(CacheMessage) BY OlderCacheType
<1>3. ASSUME NEW i \in 1..Len(q)
      PROVE  /\ Older(q)[i] \in CacheMessage /\ q[i] \in CacheMessage
             /\ Older(q)[i].type = q[i].type /\ Older(q)[i].addr = q[i].addr
  <2>1. Older(q)[i] \in CacheMessage /\ q[i] \in CacheMessage BY <1>1, <1>2
  <2>2. Older(q)[i] = [q[i] EXCEPT !.latency = IF @ > 0 THEN @ - 1 ELSE @] BY DEF Older
  <2> QED BY <2>1, <2>2 DEF CacheMessage
<1> QED BY <1>1, <1>3

\* Ageing follows every operation.
LEMMA TickFollows ==
  ASSUME BlockingInv, NEW n \in Node, NEW o \in Node, CacheTick(n) \/ HandlerTick(n)
  PROVE  Follows(o)
<1>1. /\ incomingMsgQueue \in [Node -> Seq(Message)]
      /\ cacheMsgQueue \in [Node -> Seq(CacheMessage)]
  BY DEF BlockingInv, TypeOK
<1>2. UNCHANGED <<blockedMsgMap, currentMemOpSuccessful>>
  BY DEF CacheTick, HandlerTick, procVars
<1>3. BlksKeep(AskMarks(o)) BY <1>2, TwoChanges DEF BlksKeep
<1>4. InsKeep(o)
  <2>1. \A m \in Node : incomingMsgQueue'[m] = incomingMsgQueue[m]
                        \/ incomingMsgQueue'[m] = Older(incomingMsgQueue[m])
    BY <1>1 DEF CacheTick, HandlerTick
  <2>2. ASSUME NEW m \in Node
        PROVE  Keeps(incomingMsgQueue[m], Older(incomingMsgQueue[m]), InMarks(o, m))
    <3>1. incomingMsgQueue[m] \in Seq(Message) BY <1>1
    <3> QED BY <3>1, OlderMessages, SameMarks DEF InMarks, AskMarks
  <2> QED BY <2>1, <2>2, TwoChanges, KindsOfChange DEF InsKeep
<1>5. PlaceKeeps(o, Own)
  <2>1. cacheMsgQueue'[o] = cacheMsgQueue[o] \/ cacheMsgQueue'[o] = Older(cacheMsgQueue[o])
    BY <1>1 DEF CacheTick, HandlerTick, cacheVars
  <2>2. Keeps(cacheMsgQueue[o], Older(cacheMsgQueue[o]), CacheMarks)
    <3>1. cacheMsgQueue[o] \in Seq(CacheMessage) BY <1>1
    <3> QED BY <3>1, OlderRequests, SameMarks DEF CacheMarks
  <2> QED BY <2>1, <2>2, TwoChanges, KindsOfChange
<1>6. PICK a \in Addr : TRUE BY ContextAssumption
<1> QED BY <1>2, <1>3, <1>4, <1>5, <1>6, StepOfPlaces, FollowsByMoves

\* The cache takes up its first request.
LEMMA ServesMarks ==
  ASSUME TypeOK, NEW n \in Node, NEW type \in CacheRequest, CacheServes(n, type), NEW o \in Node
  PROVE  /\ o # n \/ type \notin Accesses => PlaceKeeps(o, Own)
         /\ o = n /\ type \in Accesses => PlaceLoses(o, Own)
         /\ BlksKeep(AskMarks(o))
         /\ UNCHANGED currentMemOpSuccessful
         /\ Head(cacheMsgQueue[n]) \in CacheMessage /\ Head(cacheMsgQueue[n]).type = type
         /\ Head(cacheMsgQueue[n]).addr \in Addr
<1>1. /\ cacheMsgQueue \in [Node -> Seq(CacheMessage)] /\ cacheMsgQueue[n] # <<>>
      /\ Head(cacheMsgQueue[n]).type = type
      /\ cacheMsgQueue' = [cacheMsgQueue EXCEPT ![n] = Tail(cacheMsgQueue[n])]
      /\ UNCHANGED <<blockedMsgMap, currentMemOpSuccessful>>
  BY DEF TypeOK, CacheServes, Arrived, procVars
<1>2. Head(cacheMsgQueue[n]) \in CacheMessage BY <1>1, HeadTailProperties
<1>3. Head(cacheMsgQueue[n]).addr \in Addr BY <1>2 DEF CacheMessage
<1>4. Head(cacheMsgQueue[n]) \in CacheMarks <=> type \in Accesses
  BY <1>1, <1>2 DEF CacheMarks
<1>5. BlksKeep(AskMarks(o)) BY <1>1, TwoChanges DEF BlksKeep
<1>6. cacheMsgQueue'[o] = IF o = n THEN Tail(cacheMsgQueue[o]) ELSE cacheMsgQueue[o] BY <1>1
<1>7. IF o = n /\ type \in Accesses
      THEN Loses(cacheMsgQueue[o], cacheMsgQueue'[o], CacheMarks)
      ELSE Keeps(cacheMsgQueue[o], cacheMsgQueue'[o], CacheMarks)
  <2>1. CASE o = n
    <3>1. cacheMsgQueue[n] \in Seq(CacheMessage) BY <1>1
    <3> QED BY <1>1, <1>4, <1>6, <2>1, <3>1, TailMarks
  <2>2. CASE o # n BY <1>6, <2>2, TwoChanges
  <2> QED BY <2>1, <2>2
<1>8. IF o = n /\ type \in Accesses THEN PlaceLoses(o, Own) ELSE PlaceKeeps(o, Own)
  BY <1>7, KindsOfChange
<1> QED BY <1>1, <1>2, <1>3, <1>5, <1>8

\* What the cache answers.
LEMMA CacheRepliesMarks ==
  ASSUME TypeOK, NEW n \in Node, NEW a \in Addr, NEW type \in CacheReply,
         CacheReplies(n, a, type), NEW o \in Node
  PROVE  IF o = n /\ type \in Answers THEN InsGain(o, o) ELSE InsKeep(o)
<1> DEFINE x == NewMessage(n, a, type, cacheLatency)
<1>1. incomingMsgQueue \in [Node -> Seq(Message)] BY DEF TypeOK
<1>2. x \in Message BY NewMessageType DEF TypeOK, MessageType
<1>3. x \in InMarks(o, n) <=> o = n /\ type \in Answers
  BY <1>2 DEF InMarks, AskMarks, NewMessage, CacheReply, HomeRequest
<1>4. \A m \in Node : incomingMsgQueue'[m] = IF m = n THEN Append(incomingMsgQueue[m], x)
                                                      ELSE incomingMsgQueue[m]
  BY <1>1 DEF CacheReplies
<1> HIDE DEF x
<1>5. \A m \in Node \ {n} : Keeps(incomingMsgQueue[m], incomingMsgQueue'[m], InMarks(o, m))
  BY <1>4, TwoChanges
<1>6. /\ x \in InMarks(o, n) => Gains(incomingMsgQueue[n], incomingMsgQueue'[n], InMarks(o, n))
      /\ x \notin InMarks(o, n) => Keeps(incomingMsgQueue[n], incomingMsgQueue'[n], InMarks(o, n))
  BY <1>1, <1>2, <1>4, AppendMarks
<1>7. CASE o = n /\ type \in Answers BY <1>3, <1>5, <1>6, <1>7, KindsOfChange DEF InsGain
<1>8. CASE ~(o = n /\ type \in Answers) BY <1>3, <1>5, <1>6, <1>8, KindsOfChange DEF InsKeep
<1> QED BY <1>7, <1>8

\* The cache has the line it is asked to read.
LEMMA ReadsAreFound ==
  ASSUME TypeOK, LinesInv, NEW n \in Node, CacheServes(n, "CACHE_READ")
  PROVE  LET a == Head(cacheMsgQueue[n]).addr IN Holds(Lines(n, a), a)
<1> DEFINE q == cacheMsgQueue[n]
           a == Head(q).addr
<1>1. q \in Seq(CacheMessage) /\ q # <<>> /\ Head(q).type = "CACHE_READ"
  BY DEF TypeOK, CacheServes, Arrived
<1>2. Head(q) \in CacheMessage BY <1>1, HeadTailProperties
<1>3. a \in Addr /\ Head(q) \in ReadsOf(a) BY <1>1, <1>2 DEF CacheMessage, ReadsOf
<1>4. Head(q) = q[1] /\ 1 \in 1..Len(q) BY <1>1, EmptySeq, LenProperties
<1>5. ~None(q, ReadsOf(a)) BY <1>3, <1>4 DEF None
<1> QED BY <1>3, <1>5 DEF LinesInv, ReadFound

\* So does every step of a cache.
LEMMA CacheFollows ==
  ASSUME BlockingInv, LinesInv, NEW n \in Node, NEW o \in Node,
         \/ CacheReads(n) \/ CacheInvalidates(n) \/ CacheFetches(n)
         \/ CacheUpdates(n) \/ CacheUpdateEvicts(n) \/ CacheLineNotFound(n)
  PROVE  Follows(o)
<1> DEFINE a == Head(cacheMsgQueue[n]).addr
<1>1. TypeOK BY DEF BlockingInv
<1>2. PICK b \in Addr : TRUE BY ContextAssumption
<1>3. CASE CacheReads(n) \/ CacheUpdates(n)
  <2>1. PICK type \in Accesses : CacheServes(n, type) BY <1>3 DEF CacheReads, CacheUpdates, Accesses
  <2>2. \E reply \in CacheReply \cap Answers : CacheReplies(n, a, reply)
    BY <1>3 DEF CacheReads, CacheUpdates, CacheReply, Answers
  <2>3. type \in CacheRequest BY DEF Accesses, CacheRequest
  <2>4. a \in Addr /\ UNCHANGED currentMemOpSuccessful /\ BlksKeep(AskMarks(o))
        /\ IF o = n THEN PlaceLoses(o, Own) ELSE PlaceKeeps(o, Own)
    BY <1>1, <2>1, <2>3, ServesMarks
  <2> HIDE DEF a
  <2>5. IF o = n THEN InsGain(o, o) ELSE InsKeep(o) BY <1>1, <2>2, <2>4, CacheRepliesMarks
  <2>6. Stays(o) \/ Goes(o, Own, In(o)) BY <1>2, <2>4, <2>5, StepOfPlaces
  <2> QED BY <2>4, <2>6, Places, FollowsByMoves
<1>4. CASE CacheInvalidates(n) \/ CacheFetches(n)
  <2>1. PICK type \in CacheRequest \ Accesses : CacheServes(n, type)
    BY <1>4 DEF CacheInvalidates, CacheFetches, Accesses, CacheRequest
  <2>2. \E reply \in CacheReply \ Answers : CacheReplies(n, a, reply)
    BY <1>4 DEF CacheInvalidates, CacheFetches, CacheReply, Answers
  <2>3. a \in Addr /\ UNCHANGED currentMemOpSuccessful /\ BlksKeep(AskMarks(o))
        /\ PlaceKeeps(o, Own)
    BY <1>1, <2>1, ServesMarks
  <2> HIDE DEF a
  <2>4. InsKeep(o) BY <1>1, <2>2, <2>3, CacheRepliesMarks
  <2> QED BY <1>2, <2>3, <2>4, StepOfPlaces, FollowsByMoves
<1>5. CASE CacheLineNotFound(n)
  <2>1. PICK type \in CacheRequest \ {"CACHE_UPDATE"} : CacheServes(n, type)
    BY <1>5 DEF CacheLineNotFound
  <2>2. type # "CACHE_READ" BY <1>1, <1>5, <2>1, ReadsAreFound DEF CacheLineNotFound
  <2>3. type \in CacheRequest \ Accesses BY <2>1, <2>2 DEF Accesses
  <2>4. UNCHANGED currentMemOpSuccessful /\ BlksKeep(AskMarks(o)) /\ PlaceKeeps(o, Own)
    BY <1>1, <2>1, <2>3, ServesMarks
  <2>5. InsKeep(o) BY <1>5, TwoChanges, KindsOfChange DEF CacheLineNotFound, InsKeep
  <2> QED BY <1>2, <2>4, <2>5, StepOfPlaces, FollowsByMoves
<1>6. CASE CacheUpdateEvicts(n)
  <2> DEFINE alert == NewMessage(0, Victim(Lines(n, a)), "CACHE_EVICTION_ALERT", cacheLatency)
             ack == NewMessage(n, a, "CACHE_UPDATE_ACK", cacheLatency)
             q == incomingMsgQueue[n]
  <2>1. CacheServes(n, "CACHE_UPDATE") /\ Evicts(Lines(n, a), a, Ways)
    BY <1>6 DEF CacheUpdateEvicts, a
  <2>2. a \in Addr /\ UNCHANGED currentMemOpSuccessful /\ BlksKeep(AskMarks(o))
        /\ IF o = n THEN PlaceLoses(o, Own) ELSE PlaceKeeps(o, Own)
    BY <1>1, <2>1, ServesMarks DEF Accesses, CacheRequest
  <2>3. Lines(n, a) \in Seq(Addr)
    <3> HIDE DEF a
    <3>1. SetIndex[a] \in CacheSets BY <2>2 DEF CacheSets
    <3> QED BY <1>1, <3>1 DEF TypeOK, Lines
  <2>4. Victim(Lines(n, a)) \in Addr BY <2>1, <2>2, <2>3, UpdateLineType
  <2>5. alert \in Message /\ ack \in Message
    BY <1>1, <2>2, <2>4, ZeroIsNode, NewMessageType DEF MessageType, CacheReply, TypeOK
  <2>6. alert \notin InMarks(o, n) /\ (ack \in InMarks(o, n) <=> o = n)
    BY <2>5 DEF InMarks, AskMarks, NewMessage, HomeRequest, Answers
  <2>7. incomingMsgQueue \in [Node -> Seq(Message)] /\ q \in Seq(Message) BY <1>1 DEF TypeOK
  <2>8. incomingMsgQueue' = [incomingMsgQueue EXCEPT ![n] = @ \o <<alert, ack>>]
    BY <1>6 DEF CacheUpdateEvicts, a
  <2> HIDE DEF alert, ack, a
  <2>9. q \o <<alert, ack>> = Append(Append(q, alert), ack) BY <2>5, <2>7
  <2>10. incomingMsgQueue'[n] = Append(Append(q, alert), ack)
         /\ \A m \in Node \ {n} : incomingMsgQueue'[m] = incomingMsgQueue[m]
    BY <2>7, <2>8, <2>9
  <2> HIDE DEF q
  <2>11. Append(q, alert) \in Seq(Message) BY <2>5, <2>7, AppendProperties
  <2>12. Keeps(q, Append(q, alert), InMarks(o, n)) BY <2>5, <2>6, <2>7, AppendMarks
  <2>13. /\ o # n => Keeps(Append(q, alert), Append(Append(q, alert), ack), InMarks(o, n))
         /\ o = n => Gains(Append(q, alert), Append(Append(q, alert), ack), InMarks(o, n))
    BY <2>5, <2>6, <2>11, AppendMarks
  <2>14. \A m \in Node \ {n} : Keeps(incomingMsgQueue[m], incomingMsgQueue'[m], InMarks(o, m))
    BY <2>10, TwoChanges
  <2>15. IF o = n THEN Gains(incomingMsgQueue[n], incomingMsgQueue'[n], InMarks(o, n))
                  ELSE Keeps(incomingMsgQueue[n], incomingMsgQueue'[n], InMarks(o, n))
    <3>1. o = n => Gains(q, Append(Append(q, alert), ack), InMarks(o, n))
      BY <2>12, <2>13, TwoChanges
    <3>2. o # n => Keeps(q, Append(Append(q, alert), ack), InMarks(o, n))
      BY <2>12, <2>13, TwoChanges
    <3> QED BY <2>10, <3>1, <3>2 DEF q
  <2>16. IF o = n THEN InsGain(o, o) ELSE InsKeep(o)
    BY <2>14, <2>15, KindsOfChange DEF InsGain, InsKeep
  <2>17. Stays(o) \/ Goes(o, Own, In(o)) BY <1>2, <2>2, <2>16, StepOfPlaces
  <2> QED BY <2>2, <2>17, Places, FollowsByMoves
<1> QED BY <1>3, <1>4, <1>5, <1>6

\* A memory operation begins with one request, to the home or to the cache.
LEMMA StartFollows ==
  ASSUME BlockingInv, NEW n \in Node, NEW o \in Node, HandleMemOpRequest(n)
  PROVE  Follows(o)
<1>1. /\ TypeOK
      /\ incomingMsgQueue \in [Node -> Seq(Message)]
      /\ currentMemOpSuccessful \in [Node -> BOOLEAN]
  BY DEF BlockingInv, TypeOK
<1>2. PICK addr \in Addr : \/ WriteInvalid(n, addr) \/ WriteShared(n, addr)
                           \/ WriteOwned(n, addr)
                           \/ ReadInvalid(n, addr) \/ ReadValid(n, addr)
  BY DEF HandleMemOpRequest
<1>3. PICK op \in Op : ProcessorStarts(n, op)
  BY <1>2 DEF WriteInvalid, WriteShared, WriteOwned, ReadInvalid, ReadValid, WriteRequest,
              ReadRequest, Op
<1>4. /\ currentMemOpSuccessful[n] /\ ~currentMemOpSuccessful'[n]
      /\ o # n => currentMemOpSuccessful'[o] = currentMemOpSuccessful[o]
      /\ UNCHANGED blockedMsgMap
  BY <1>1, <1>3 DEF ProcessorStarts, ProcessorTurn
<1>5. BlksKeep(AskMarks(o)) BY <1>4, TwoChanges DEF BlksKeep
<1>6. \/ \E type \in HomeRequest : AskHome(n, addr, type)
      \/ \E type \in Accesses : AskCache(n, addr, type)
  BY <1>2 DEF WriteInvalid, WriteShared, WriteOwned, ReadInvalid, ReadValid, HomeRequest, Accesses
<1>7. CASE \E type \in HomeRequest : AskHome(n, addr, type)
  <2>1. PICK type \in HomeRequest : AskHome(n, addr, type) BY <1>7
  <2> DEFINE x == NewMessage(n, addr, type, nodeLatency)
             h == Home[addr]
  <2>2. h \in Node BY ContextAssumption
  <2>3. x \in Message BY <1>1, NewMessageType DEF TypeOK, MessageType
  <2>4. \A m \in Node : x \in InMarks(o, m) <=> o = n
    BY <2>3 DEF InMarks, AskMarks, NewMessage, HomeRequest, Answers
  <2>5. /\ \A m \in Node : incomingMsgQueue'[m]
                           = IF m = h THEN Append(incomingMsgQueue[m], x) ELSE incomingMsgQueue[m]
        /\ UNCHANGED cacheMsgQueue
    BY <2>1 DEF AskHome, SendMsgToNode
  <2> HIDE DEF x, h
  <2>6. \A m \in Node \ {h} : Keeps(incomingMsgQueue[m], incomingMsgQueue'[m], InMarks(o, m))
    BY <2>5, TwoChanges
  <2>7. incomingMsgQueue[h] \in Seq(Message) BY <1>1, <2>2
  <2>8. IF o = n THEN Gains(incomingMsgQueue[h], incomingMsgQueue'[h], InMarks(o, h))
                 ELSE Keeps(incomingMsgQueue[h], incomingMsgQueue'[h], InMarks(o, h))
    BY <2>2, <2>3, <2>4, <2>5, <2>7, AppendMarks
  <2>9. IF o = n THEN InsGain(o, h) ELSE InsKeep(o)
    BY <2>2, <2>6, <2>8, KindsOfChange DEF InsGain, InsKeep
  <2>10. PlaceKeeps(o, Own) BY <2>5, OwnKept
  <2>11. IF o = n THEN Begins(o, In(h)) ELSE Stays(o)
    BY <1>5, <2>2, <2>9, <2>10, StepOfPlaces
  <2> QED BY <1>4, <2>2, <2>11, Places DEF Follows
<1>8. CASE \E type \in Accesses : AskCache(n, addr, type)
  <2>1. PICK type \in Accesses : SendMsgToCache(n, addr, type) /\ UNCHANGED incomingMsgQueue
    BY <1>8 DEF AskCache
  <2>2. IF o = n THEN PlaceGains(o, Own) ELSE PlaceKeeps(o, Own) BY <1>1, <2>1, SentMarks
  <2>3. InsKeep(o) BY <2>1, TwoChanges, KindsOfChange DEF InsKeep
  <2>4. IF o = n THEN Begins(o, Own) ELSE Stays(o) BY <1>5, <2>2, <2>3, StepOfPlaces
  <2> QED BY <1>4, <2>4, Places DEF Follows
<1> QED BY <1>6, <1>7, <1>8

\* Nothing happens to the operations.
LEMMA IdleFollows ==
  ASSUME NEW o \in Node,
         UNCHANGED <<incomingMsgQueue, blockedMsgMap, cacheMsgQueue, currentMemOpSuccessful>>
  PROVE  Follows(o)
<1>1. InsKeep(o) BY TwoChanges, KindsOfChange DEF InsKeep
<1>2. BlksKeep(AskMarks(o)) BY TwoChanges DEF BlksKeep
<1>3. PICK a \in Addr : TRUE BY ContextAssumption
<1> QED BY <1>1, <1>2, <1>3, OwnKept, StepOfPlaces, FollowsByMoves

\* So does every step.
LEMMA EveryStepFollows ==
  ASSUME OutstandingInv, [Next]_vars, NEW o \in Node
  PROVE  Follows(o)
<1>1. BlockingInv /\ RequestsWait /\ LinesInv BY DEF OutstandingInv
<1>2. CASE Next
  <2>1. PICK n \in Node : \/ CacheRun(n)
                          \/ HandlerTick(n) \/ HandleMessage(n) \/ DrainEnds(n)
                          \/ ProcessorWaits(n) \/ HandleMemOpRequest(n)
    BY <1>2 DEF Next
  <2>2. CASE CacheRun(n) BY <1>1, <2>2, TickFollows, CacheFollows DEF CacheRun
  <2>3. CASE HandlerTick(n) BY <1>1, <2>3, TickFollows
  <2>4. CASE DrainEnds(n) \/ ProcessorWaits(n) \/ HandlerStops(n)
    BY <2>4, IdleFollows DEF DrainEnds, ProcessorWaits, ProcessorTurn, HandlerStops, Stops,
                             cacheVars, procVars
  <2>5. CASE HandleMessage(n)
    BY <1>1, <2>4, <2>5, HomeRequestFollows, OwnerRequestFollows, HolderAnswerFollows,
       AnswerFollows, CacheAnswerFollows
       DEF HandleMessage
  <2>6. CASE HandleMemOpRequest(n) BY <1>1, <2>6, StartFollows
  <2> QED BY <2>1, <2>2, <2>3, <2>4, <2>5, <2>6
<1>3. CASE UNCHANGED vars BY <1>3, IdleFollows DEF vars, cacheVars, procVars
<1> QED BY <1>2, <1>3

-------------------------------------------------------------------------------
(* The other parts of the invariant. *)

\* Only requests wait.
LEMMA WaitStep ==
  ASSUME BlockingInv, RequestsWait, [Next]_vars
  PROVE  RequestsWait'
<1>1. ASSUME BlksKeep(NoRequest) PROVE RequestsWait'
  BY <1>1 DEF BlksKeep, Keeps, RequestsWait
<1>2. ASSUME UNCHANGED blockedMsgMap PROVE RequestsWait'
  BY <1>2 DEF RequestsWait
<1>3. TypeOK BY DEF BlockingInv
<1>4. ASSUME NEW n \in Node, Handling(n), Done(n) PROVE RequestsWait'
  <2>1. CASE ~Draining \/ Current(n) \notin NoRequest
    BY <1>1, <1>4, <2>1, DoneMarks
  <2>2. CASE Current(n) \in NoRequest
    <3>1. Current(n).type \notin HomeRequest \cup OwnerRequest BY <2>2 DEF NoRequest
    <3> QED BY <1>3, <1>4, <2>1, <3>1, OthersCameIn
  <2> QED BY <2>1, <2>2
<1>5. ASSUME NEW n \in Node, Handling(n), NEW serviced \in BOOLEAN, Block(n, serviced),
             Current(n).type \in HomeRequest \cup OwnerRequest
      PROVE  RequestsWait'
  <2>1. Current(n) \in Message BY <1>3, <1>5, CurrentType
  <2>2. /\ Current(n) \notin NoRequest
        /\ [Current(n) EXCEPT !.serviced = serviced] \notin NoRequest
    BY <1>5, <2>1 DEF NoRequest, Message
  <2>3. BlksKeep(NoRequest) BY <1>5, <2>2, BlockMarks
  <2> QED BY <1>1, <2>3
<1>6. ASSUME NEW n \in Node, Handling(n), Waiting(n) # <<>>, Unblock(n)
      PROVE  RequestsWait'
  <2>1. Waiting(n) \in Seq(Message) /\ None(Waiting(n), NoRequest)
    BY <1>3, <1>6, CurrentType DEF Waiting, A, TypeOK, RequestsWait
  <2>2. Head(Waiting(n)) = Waiting(n)[1] /\ 1 \in 1..Len(Waiting(n))
    BY <1>6, <2>1, EmptySeq, LenProperties
  <2>3. Head(Waiting(n)) \notin NoRequest BY <2>1, <2>2 DEF None
  <2> QED BY <1>1, <1>6, <2>3, UnblockMarks
<1>7. ASSUME NEW n \in Node, HandleMessage(n) PROVE RequestsWait'
  <2>1. CASE HandlerStops(n) BY <1>2, <2>1 DEF HandlerStops, Stops
  <2>2. CASE HomeBusy(n) \/ ReadMissFetches(n) \/ WriteMissInvalidates(n) \/ WriteMissFetches(n)
             \/ InvalidateOtherInvalidates(n) \/ Invalidate(n) \/ Fetch(n)
    <3>1. PICK type \in HomeRequest \cup OwnerRequest : Handles(n, type)
      BY <2>2 DEF HomeBusy, ReadMissFetches, WriteMissInvalidates, WriteMissFetches, ReadMiss,
                  WriteMiss, InvalidateOtherInvalidates, Invalidate, Fetch, HomeRequest,
                  OwnerRequest
    <3>2. \E serviced \in BOOLEAN : Block(n, serviced)
      BY <2>2 DEF HomeBusy, ReadMissFetches, WriteMissInvalidates, WriteMissFetches,
                  InvalidateOtherInvalidates, Invalidate, Fetch
    <3> QED BY <1>5, <3>1, <3>2, HandlesWhat
  <2>3. CASE \/ ReadMissShares(n) \/ ReadMissGivesExclusive(n) \/ WriteMissUncached(n)
             \/ InvalidateOtherRollsBack(n) \/ InvalidateOtherGrants(n)
             \/ InvalidateAbsent(n) \/ FetchAbsent(n)
             \/ InvalidateAckCounts(n) \/ WriteBackEvicts(n)
             \/ InvalidateOtherAck(n) \/ DataValueReply(n) \/ Rollback(n) \/ MemOpDone(n)
             \/ EvictionAlert(n)
    <3>1. Handling(n) /\ Done(n)
      BY <2>3, HandlesWhat
         DEF ReadMissShares, ReadMissGivesExclusive, WriteMissUncached, InvalidateOtherRollsBack,
             InvalidateOtherGrants, InvalidateAbsent, FetchAbsent, InvalidateAckCounts,
             WriteBackEvicts, InvalidateOtherAck, DataValueReply, Rollback, MemOpDone,
             EvictionAlert, ReadMiss, WriteMiss, InvalidateAck, WriteBack
    <3> QED BY <1>4, <3>1
  <2>4. CASE InvalidateAckGrants(n) \/ CacheAck(n)
    <3>1. /\ Handling(n) /\ ~EmptyFront(n) /\ Unblock(n)
          /\ TakesFront(n)
      BY <2>4, HandlesWhat DEF InvalidateAckGrants, CacheAck, InvalidateAck, TakesFront
    <3>2. Waiting(n) # <<>> BY <3>1 DEF EmptyFront
    <3> QED BY <1>6, <3>1, <3>2
  <2>5. CASE WriteBackAnswersWrite(n) \/ WriteBackAnswersRead(n)
    <3>1. Handling(n) /\ Unblock(n) /\ Waiting(n) # <<>>
      BY <2>5, HandlesWhat DEF WriteBackAnswersWrite, WriteBackAnswersRead, WriteBack
    <3> QED BY <1>6, <3>1
  <2> QED BY <1>7, <2>1, <2>2, <2>3, <2>4, <2>5 DEF HandleMessage
<1>8. ASSUME NEW n \in Node,
             \/ CacheRun(n) \/ HandlerTick(n) \/ DrainEnds(n)
             \/ ProcessorWaits(n) \/ HandleMemOpRequest(n)
      PROVE  UNCHANGED blockedMsgMap
  BY <1>8 DEF CacheRun, CacheTick, CacheReads, CacheInvalidates, CacheFetches, CacheUpdates,
     CacheUpdateEvicts, CacheLineNotFound, CacheServes, HandlerTick, DrainEnds, ProcessorWaits,
     ProcessorTurn, HandleMemOpRequest, WriteInvalid, WriteShared, WriteOwned, ReadInvalid,
     ReadValid, WriteRequest, ReadRequest, ProcessorStarts
<1>9. CASE Next BY <1>2, <1>7, <1>8, <1>9 DEF Next
<1>10. CASE UNCHANGED vars BY <1>2, <1>10 DEF vars
<1> QED BY <1>9, <1>10

\* Alerts and the ACKs behind them in a queue that changes.
LEMMA TailFollow ==
  ASSUME NEW q \in Seq(Message), q # <<>>, AcksFollow(q)
  PROVE  AcksFollow(Tail(q))
<1>1. /\ Len(q) \in Nat \ {0} /\ Len(Tail(q)) = Len(q) - 1
      /\ \A i \in 1..Len(Tail(q)) : Tail(q)[i] = q[i + 1] /\ i + 1 \in 1..Len(q)
  BY HeadTailProperties, EmptySeq, LenProperties
<1>2. ASSUME NEW i \in 1..Len(Tail(q)), Tail(q)[i].type = "CACHE_EVICTION_ALERT"
      PROVE  \E j \in 1..Len(Tail(q)) : i < j /\ Tail(q)[j].type = "CACHE_UPDATE_ACK"
  <2>1. q[i + 1].type = "CACHE_EVICTION_ALERT" /\ i + 1 \in 1..Len(q) BY <1>1, <1>2
  <2>2. PICK j \in 1..Len(q) : i + 1 < j /\ q[j].type = "CACHE_UPDATE_ACK"
    BY <2>1 DEF AcksFollow
  <2>3. j - 1 \in 1..Len(Tail(q)) /\ i < j - 1 /\ (j - 1) + 1 = j BY <1>1, <2>2
  <2>4. Tail(q)[j - 1] = q[j] BY <1>1, <2>3
  <2> QED BY <2>2, <2>3, <2>4
<1> QED BY <1>2 DEF AcksFollow

\* Behind each alert is still its ACK after a message, or the two together, is sent.
LEMMA AppendFollow ==
  ASSUME NEW q \in Seq(Message), AcksFollow(q), NEW x \in Message
  PROVE  /\ x.type # "CACHE_EVICTION_ALERT" => AcksFollow(Append(q, x))
         /\ \A y \in Message : x.type = "CACHE_EVICTION_ALERT" /\ y.type = "CACHE_UPDATE_ACK"
              => AcksFollow(Append(Append(q, x), y))
<1> DEFINE r == Append(q, x)
<1>1. /\ r \in Seq(Message) /\ Len(q) \in Nat /\ Len(r) = Len(q) + 1 /\ r[Len(r)] = x
      /\ \A i \in 1..Len(q) : r[i] = q[i] /\ i \in 1..Len(r)
  BY AppendProperties, LenProperties
<1> HIDE DEF r
<1>2. \A i \in 1..Len(r) : i = Len(r) \/ i \in 1..Len(q) BY <1>1
<1>3. \A i \in 1..Len(q) : r[i].type = "CACHE_EVICTION_ALERT"
        => \E j \in 1..Len(r) : i < j /\ r[j].type = "CACHE_UPDATE_ACK"
  BY <1>1 DEF AcksFollow
<1>4. x.type # "CACHE_EVICTION_ALERT" => AcksFollow(r) BY <1>1, <1>2, <1>3 DEF AcksFollow
<1>5. ASSUME NEW y \in Message, y.type = "CACHE_UPDATE_ACK" PROVE AcksFollow(Append(r, y))
  <2> DEFINE s == Append(r, y)
  <2>1. /\ Len(s) = Len(r) + 1 /\ s[Len(s)] = y
        /\ \A i \in 1..Len(r) : s[i] = r[i] /\ i \in 1..Len(s)
    BY <1>1, AppendProperties
  <2> HIDE DEF s
  <2>2. Len(s) \in 1..Len(s) /\ \A i \in 1..Len(s) : i = Len(s) \/ i < Len(s) BY <1>1, <2>1
  <2>3. y.type # "CACHE_EVICTION_ALERT" BY <1>5
  <2>4. AcksFollow(s) BY <1>5, <2>1, <2>2, <2>3 DEF AcksFollow
  <2> QED BY <2>4 DEF s
<1> QED BY <1>4, <1>5 DEF r

\* A message is handled, and what is answered is no alert.
LEMMA HandledAlerts ==
  ASSUME TypeOK, LinesInv, NEW n \in Node, Handling(n),
         NoReply(n)
           \/ \E dsts : \E type \in MessageType \ {"CACHE_EVICTION_ALERT"} : Reply(n, dsts, type)
  PROVE  /\ \A m \in Node : AcksFollow(incomingMsgQueue'[m])
         /\ \A m \in Node, a \in Addr :
              ~None(incomingMsgQueue[m], AlertsOf(a)) /\ (m = n => Current(n) \notin AlertsOf(a))
                => ~None(incomingMsgQueue'[m], AlertsOf(a))
<1> SUFFICES ASSUME NEW m \in Node
             PROVE  /\ AcksFollow(incomingMsgQueue'[m])
                    /\ \A a \in Addr :
                         ~None(incomingMsgQueue[m], AlertsOf(a))
                             /\ (m = n => Current(n) \notin AlertsOf(a))
                           => ~None(incomingMsgQueue'[m], AlertsOf(a))
  OBVIOUS
<1> DEFINE q == incomingMsgQueue[m]
           r == Rest(n)[m]
<1>1. /\ q \in Seq(Message) /\ AcksFollow(q) /\ r \in Seq(Message)
      /\ Rest(n) \in [Node -> Seq(Message)]
      /\ A(n) \in Addr /\ nodeLatency \in Nat
  BY CurrentType DEF TypeOK, LinesInv
<1>2. r = q \/ (m = n /\ q # <<>> /\ Current(n) = Head(q) /\ r = Tail(q))
  BY DEF Rest, Current, Handling, Arrived, Draining, TypeOK
<1>3. AcksFollow(r) BY <1>1, <1>2, TailFollow
<1>4. ASSUME NEW a \in Addr, ~None(q, AlertsOf(a)), m = n => Current(n) \notin AlertsOf(a)
      PROVE  ~None(r, AlertsOf(a))
  <2> HIDE DEF q, r
  <2> QED BY <1>1, <1>2, <1>4, HoldsMark, CurrentType
<1>5. CASE NoReply(n)
  <2>1. incomingMsgQueue'[m] = r BY <1>5 DEF NoReply
  <2> QED BY <1>3, <1>4, <2>1
<1>6. ASSUME NEW dsts, NEW type \in MessageType \ {"CACHE_EVICTION_ALERT"}, Reply(n, dsts, type)
      PROVE  /\ AcksFollow(incomingMsgQueue'[m])
             /\ \A a \in Addr : ~None(r, AlertsOf(a)) => ~None(incomingMsgQueue'[m], AlertsOf(a))
  <2> DEFINE x == NewMessage(n, A(n), type, nodeLatency)
  <2>1. x \in Message BY <1>1, <1>6, NewMessageType
  <2>2. x.type # "CACHE_EVICTION_ALERT" BY <1>6 DEF NewMessage
  <2>3. incomingMsgQueue'[m] = IF m \in dsts THEN Append(r, x) ELSE r
    BY <1>6 DEF Reply, SendMsgToNode, A
  <2> HIDE DEF x, r
  <2> QED BY <1>1, <1>3, <2>1, <2>2, <2>3, AppendFollow, HoldsMark
<1> QED BY <1>4, <1>5, <1>6

\* While no line leaves a cache, the lines stay present.
LEMMA LinesKept ==
  ASSUME LinesInv, UNCHANGED cache,
         \A m \in Node : AcksFollow(incomingMsgQueue'[m]),
         \A m \in Node, a \in Addr : cacheLineStatus'[m][a] # "I"
           => \/ cacheLineStatus[m][a] # "I"
                   /\ (~None(incomingMsgQueue[m], AlertsOf(a))
                         => ~None(incomingMsgQueue'[m], AlertsOf(a)))
              \/ ~None(cacheMsgQueue'[m], UpdatesOf(a)),
         \A m \in Node, a \in Addr :
           /\ ~None(cacheMsgQueue[m], UpdatesOf(a)) => ~None(cacheMsgQueue'[m], UpdatesOf(a))
           /\ None(cacheMsgQueue[m], ReadsOf(a)) => None(cacheMsgQueue'[m], ReadsOf(a))
  PROVE  LinesInv'
<1> SUFFICES ASSUME NEW m \in Node, NEW a \in Addr
             PROVE  AcksFollow(incomingMsgQueue[m])' /\ LinePresent(m, a)' /\ ReadFound(m, a)'
  BY DEF LinesInv
<1>1. Lines(m, a)' = Lines(m, a) BY DEF Lines
<1>2. /\ None(incomingMsgQueue[m], AlertsOf(a))' <=> None(incomingMsgQueue'[m], AlertsOf(a))
      /\ None(cacheMsgQueue[m], UpdatesOf(a))' <=> None(cacheMsgQueue'[m], UpdatesOf(a))
      /\ None(cacheMsgQueue[m], ReadsOf(a))' <=> None(cacheMsgQueue'[m], ReadsOf(a))
  BY DEF AlertsOf, UpdatesOf, ReadsOf
<1>3. Holds(Lines(m, a), a)' <=> Holds(Lines(m, a), a) BY <1>1 DEF Holds
<1>4. LinePresent(m, a) /\ ReadFound(m, a) BY DEF LinesInv
<1>5. LinePresent(m, a)' BY <1>2, <1>3, <1>4 DEF LinePresent
<1>6. ReadFound(m, a)' BY <1>2, <1>3, <1>4 DEF ReadFound
<1> QED BY <1>5, <1>6

\* A request of the cache that is no read.
LEMMA SentLines ==
  ASSUME TypeOK, NEW n \in Node, NEW b \in Addr, NEW type \in CacheRequest \ {"CACHE_READ"},
         SendMsgToCache(n, b, type)
  PROVE  /\ \A m \in Node, a \in Addr :
              /\ ~None(cacheMsgQueue[m], UpdatesOf(a)) => ~None(cacheMsgQueue'[m], UpdatesOf(a))
              /\ None(cacheMsgQueue[m], ReadsOf(a)) => None(cacheMsgQueue'[m], ReadsOf(a))
         /\ type = "CACHE_UPDATE" => ~None(cacheMsgQueue'[n], UpdatesOf(b))
<1> DEFINE x == [type |-> type, addr |-> b, latency |-> cacheLatency]
<1>1. cacheMsgQueue \in [Node -> Seq(CacheMessage)] BY DEF TypeOK
<1>2. /\ x \in CacheMessage /\ \A a \in Addr : x \notin ReadsOf(a)
      /\ type = "CACHE_UPDATE" => x \in UpdatesOf(b)
  BY DEF CacheMessage, ReadsOf, UpdatesOf, TypeOK
<1>3. \A m \in Node : cacheMsgQueue'[m] = IF m = n THEN Append(cacheMsgQueue[m], x)
                                                  ELSE cacheMsgQueue[m]
  BY <1>1 DEF SendMsgToCache
<1> HIDE DEF x
<1>4. \A m \in Node : cacheMsgQueue[m] \in Seq(CacheMessage) BY <1>1
<1> QED BY <1>2, <1>3, <1>4, HoldsMark

\* The handlers keep the lines in the caches.
LEMMA HandleMessageLines ==
  ASSUME BlockingInv, RequestsWait, LinesInv, NEW n \in Node, HandleMessage(n)
  PROVE  LinesInv'
<1>1. TypeOK /\ cacheLineStatus \in [Node -> [Addr -> ProtocolStatus]]
  BY DEF BlockingInv, TypeOK
<1>2. CASE HandlerStops(n)
  BY <1>2, LinesKept DEF HandlerStops, Stops, cacheVars, LinesInv
<1>3. CASE EvictionAlert(n)
  <2>1. /\ Handling(n) /\ Current(n).type = "CACHE_EVICTION_ALERT"
        /\ UNCHANGED <<cache, cacheMsgQueue>>
    BY <1>3, HandlesWhat DEF EvictionAlert
  <2>2. NoReply(n) \/ \E dsts : \E type \in MessageType \ {"CACHE_EVICTION_ALERT"} :
                        Reply(n, dsts, type)
    BY <1>3 DEF EvictionAlert, MessageType, NodeReply
  <2>3. A(n) \in Addr /\ Current(n) \in Message BY <1>1, <2>1, CurrentType
  <2>4. \A m \in Node, a \in Addr : cacheLineStatus'[m][a]
          = IF m = n /\ a = A(n) THEN "I" ELSE cacheLineStatus[m][a]
    BY <1>1, <1>3, <2>3 DEF EvictionAlert, SetStatus
  <2>5. \A a \in Addr : Current(n) \in AlertsOf(a) => a = A(n) BY DEF AlertsOf, A
  <2> QED BY <1>1, <2>1, <2>2, <2>4, <2>5, HandledAlerts, LinesKept
<1>4. ASSUME NEW type \in MessageType \ {"CACHE_EVICTION_ALERT"}, Handles(n, type),
             NoReply(n)
               \/ \E dsts : \E reply \in MessageType \ {"CACHE_EVICTION_ALERT"} :
                    Reply(n, dsts, reply)
      PROVE  /\ Handling(n) /\ A(n) \in Addr /\ UNCHANGED cache
             /\ \A m \in Node : AcksFollow(incomingMsgQueue'[m])
             /\ \A m \in Node, a \in Addr :
                  ~None(incomingMsgQueue[m], AlertsOf(a))
                    => ~None(incomingMsgQueue'[m], AlertsOf(a))
  <2>1. Handling(n) /\ Current(n).type = type /\ UNCHANGED cache /\ A(n) \in Addr
    BY <1>1, <1>4, HandlesWhat, CurrentType
  <2>2. \A a \in Addr : Current(n) \notin AlertsOf(a) BY <2>1 DEF AlertsOf
  <2> QED BY <1>1, <1>4, <2>1, <2>2, HandledAlerts
<1>5. CASE InvalidateOtherAck(n) \/ DataValueReply(n)
  <2>1. PICK type \in {"DATA_VALUE_REPLY", "DATA_VALUE_REPLY_E", "INVALIDATE_OTHER_ACK"} :
          Handles(n, type)
    BY <1>5 DEF InvalidateOtherAck, DataValueReply
  <2>2. type \in MessageType \ {"CACHE_EVICTION_ALERT"} BY DEF MessageType, NodeReply
  <2>3. NoReply(n) /\ SendMsgToCache(n, A(n), "CACHE_UPDATE")
    BY <1>5 DEF InvalidateOtherAck, DataValueReply
  <2>4. \E status : SetStatus(n, A(n), status)
    BY <1>5 DEF InvalidateOtherAck, DataValueReply
  <2>5. A(n) \in Addr /\ UNCHANGED cache BY <1>4, <2>1, <2>2, <2>3
  <2>6. \A m \in Node, a \in Addr :
          m # n \/ a # A(n) => cacheLineStatus'[m][a] = cacheLineStatus[m][a]
    BY <1>1, <2>4, <2>5 DEF SetStatus
  <2>7. /\ \A m \in Node, a \in Addr :
             /\ ~None(cacheMsgQueue[m], UpdatesOf(a)) => ~None(cacheMsgQueue'[m], UpdatesOf(a))
             /\ None(cacheMsgQueue[m], ReadsOf(a)) => None(cacheMsgQueue'[m], ReadsOf(a))
        /\ ~None(cacheMsgQueue'[n], UpdatesOf(A(n)))
    BY <1>1, <2>3, <2>5, SentLines DEF CacheRequest
  <2>8. /\ \A m \in Node : AcksFollow(incomingMsgQueue'[m])
        /\ \A m \in Node, a \in Addr :
             ~None(incomingMsgQueue[m], AlertsOf(a)) => ~None(incomingMsgQueue'[m], AlertsOf(a))
    BY <1>4, <2>1, <2>2, <2>3
  <2> QED BY <2>5, <2>6, <2>7, <2>8, LinesKept
<1>6. CASE Invalidate(n) \/ Fetch(n)
  <2>1. PICK type \in OwnerRequest : Handles(n, type)
    BY <1>6 DEF Invalidate, Fetch, OwnerRequest
  <2>2. type \in MessageType \ {"CACHE_EVICTION_ALERT"} BY DEF MessageType, OwnerRequest
  <2>3. /\ NoReply(n)
        /\ \E request \in CacheRequest \ {"CACHE_READ"} : SendMsgToCache(n, A(n), request)
    BY <1>6 DEF Invalidate, Fetch, CacheRequest
  <2>4. cacheLineStatus[n][A(n)] # "I" /\ \E status : SetStatus(n, A(n), status)
    BY <1>6 DEF Invalidate, Fetch, LineStatus
  <2>5. A(n) \in Addr /\ UNCHANGED cache BY <1>4, <2>1, <2>2, <2>3
  <2>6. \A m \in Node, a \in Addr :
          cacheLineStatus'[m][a] # "I" => cacheLineStatus[m][a] # "I"
    BY <1>1, <2>4, <2>5 DEF SetStatus
  <2>7. \A m \in Node, a \in Addr :
          /\ ~None(cacheMsgQueue[m], UpdatesOf(a)) => ~None(cacheMsgQueue'[m], UpdatesOf(a))
          /\ None(cacheMsgQueue[m], ReadsOf(a)) => None(cacheMsgQueue'[m], ReadsOf(a))
    BY <1>1, <2>3, <2>5, SentLines
  <2>8. /\ \A m \in Node : AcksFollow(incomingMsgQueue'[m])
        /\ \A m \in Node, a \in Addr :
             ~None(incomingMsgQueue[m], AlertsOf(a)) => ~None(incomingMsgQueue'[m], AlertsOf(a))
    BY <1>4, <2>1, <2>2, <2>3
  <2> QED BY <2>5, <2>6, <2>7, <2>8, LinesKept
<1>7. ASSUME UNCHANGED <<cacheMsgQueue, cacheLineStatus>>,
             NEW type \in MessageType \ {"CACHE_EVICTION_ALERT"}, Handles(n, type),
             NoReply(n)
               \/ \E dsts : \E reply \in MessageType \ {"CACHE_EVICTION_ALERT"} :
                    Reply(n, dsts, reply)
      PROVE  LinesInv'
  BY <1>4, <1>7, LinesKept
<1>8. CASE \/ HomeBusy(n)
           \/ ReadMissShares(n) \/ ReadMissGivesExclusive(n) \/ ReadMissFetches(n)
           \/ WriteMissUncached(n) \/ WriteMissInvalidates(n) \/ WriteMissFetches(n)
           \/ InvalidateOtherRollsBack(n) \/ InvalidateOtherInvalidates(n)
           \/ InvalidateOtherGrants(n)
  <2>1. PICK type \in HomeRequest : Handles(n, type)
    BY <1>8
       DEF HomeBusy, ReadMissShares, ReadMissGivesExclusive, ReadMissFetches, WriteMissUncached,
           WriteMissInvalidates, WriteMissFetches, InvalidateOtherRollsBack,
           InvalidateOtherInvalidates, InvalidateOtherGrants, ReadMiss, WriteMiss, HomeRequest
  <2>2. UNCHANGED <<cacheMsgQueue, cacheLineStatus>>
    BY <1>8
       DEF HomeBusy, ReadMissShares, ReadMissGivesExclusive, ReadMissFetches, WriteMissUncached,
           WriteMissInvalidates, WriteMissFetches, InvalidateOtherRollsBack,
           InvalidateOtherInvalidates, InvalidateOtherGrants, ReadMiss, WriteMiss
  <2>3. NoReply(n) \/ \E dsts : \E reply \in MessageType \ {"CACHE_EVICTION_ALERT"} :
                        Reply(n, dsts, reply)
    BY <1>8
       DEF HomeBusy, ReadMissShares, ReadMissGivesExclusive, ReadMissFetches, WriteMissUncached,
           WriteMissInvalidates, WriteMissFetches, InvalidateOtherRollsBack,
           InvalidateOtherInvalidates, InvalidateOtherGrants, MessageType, NodeReply, OwnerRequest
  <2>4. type \in MessageType \ {"CACHE_EVICTION_ALERT"} BY DEF MessageType, HomeRequest
  <2> QED BY <1>7, <2>1, <2>2, <2>3, <2>4
<1>9. CASE \/ InvalidateAbsent(n) \/ FetchAbsent(n)
           \/ InvalidateAckCounts(n) \/ InvalidateAckGrants(n)
           \/ WriteBackAnswersWrite(n) \/ WriteBackAnswersRead(n) \/ WriteBackEvicts(n)
           \/ Rollback(n) \/ MemOpDone(n) \/ CacheAck(n)
  <2>1. PICK type \in MessageType \ {"CACHE_EVICTION_ALERT"} : Handles(n, type)
    BY <1>9
       DEF InvalidateAbsent, FetchAbsent, InvalidateAckCounts, InvalidateAckGrants,
           WriteBackAnswersWrite, WriteBackAnswersRead, WriteBackEvicts, Rollback, MemOpDone,
           CacheAck, InvalidateAck, WriteBack, MessageType, OwnerRequest, NodeReply, CacheReply
  <2>2. UNCHANGED <<cacheMsgQueue, cacheLineStatus>>
    BY <1>9
       DEF InvalidateAbsent, FetchAbsent, InvalidateAckCounts, InvalidateAckGrants,
           WriteBackAnswersWrite, WriteBackAnswersRead, WriteBackEvicts, Rollback, MemOpDone,
           CacheAck, InvalidateAck, WriteBack
  <2>3. NoReply(n) \/ \E dsts : \E reply \in MessageType \ {"CACHE_EVICTION_ALERT"} :
                        Reply(n, dsts, reply)
    BY <1>9
       DEF InvalidateAbsent, FetchAbsent, InvalidateAckCounts, InvalidateAckGrants,
           WriteBackAnswersWrite, WriteBackAnswersRead, WriteBackEvicts, Rollback, MemOpDone,
           CacheAck, MessageType, NodeReply
  <2> QED BY <1>7, <2>1, <2>2, <2>3
<1> QED BY <1>2, <1>3, <1>5, <1>6, <1>8, <1>9 DEF HandleMessage

-------------------------------------------------------------------------------
(* The lines of the caches, in the steps of the caches and the processors. *)

\* Lines move: one leaves its cache with an alert and no read of it asked for, and one
\* that is read or was to be updated is there.
LEMMA LinesMoved ==
  ASSUME LinesInv,
         \A m \in Node : AcksFollow(incomingMsgQueue'[m]),
         \A m \in Node, a \in Addr :
           /\ cacheLineStatus'[m][a] # "I" => cacheLineStatus[m][a] # "I"
           /\ Holds(Lines(m, a), a)
                => \/ Holds(Lines(m, a), a)'
                   \/ /\ ~None(incomingMsgQueue'[m], AlertsOf(a))
                      /\ None(cacheMsgQueue'[m], ReadsOf(a))
           /\ ~None(incomingMsgQueue[m], AlertsOf(a)) => ~None(incomingMsgQueue'[m], AlertsOf(a))
           /\ ~None(cacheMsgQueue[m], UpdatesOf(a))
                => ~None(cacheMsgQueue'[m], UpdatesOf(a)) \/ Holds(Lines(m, a), a)'
           /\ None(cacheMsgQueue[m], ReadsOf(a))
                => None(cacheMsgQueue'[m], ReadsOf(a)) \/ Holds(Lines(m, a), a)'
  PROVE  LinesInv'
<1> SUFFICES ASSUME NEW m \in Node, NEW a \in Addr
             PROVE  AcksFollow(incomingMsgQueue[m])' /\ LinePresent(m, a)' /\ ReadFound(m, a)'
  BY DEF LinesInv
<1>1. /\ None(incomingMsgQueue[m], AlertsOf(a))' <=> None(incomingMsgQueue'[m], AlertsOf(a))
      /\ None(cacheMsgQueue[m], UpdatesOf(a))' <=> None(cacheMsgQueue'[m], UpdatesOf(a))
      /\ None(cacheMsgQueue[m], ReadsOf(a))' <=> None(cacheMsgQueue'[m], ReadsOf(a))
  BY DEF AlertsOf, UpdatesOf, ReadsOf
<1>2. LinePresent(m, a) /\ ReadFound(m, a) BY DEF LinesInv
<1>3. LinePresent(m, a)' BY <1>1, <1>2 DEF LinePresent
<1>4. ReadFound(m, a)' BY <1>1, <1>2 DEF ReadFound
<1> QED BY <1>3, <1>4

\* updateLine leaves the line in the set, and the others but the one it evicts.
LEMMA UpdateHolds ==
  ASSUME NEW lines \in Seq(Addr), NEW a \in Addr
  PROVE  /\ Holds(UpdateLine(lines, a, Ways), a)
         /\ \A b \in Addr : Holds(lines, b)
              => \/ Holds(UpdateLine(lines, a, Ways), b)
                 \/ Evicts(lines, a, Ways) /\ b = Victim(lines)
<1>1. ASSUME NEW q \in Seq(Addr)
      PROVE  /\ Holds(Append(q, a), a)
             /\ \A b \in Addr : Holds(q, b) => Holds(Append(q, a), b)
  <2>1. /\ Len(q) \in Nat /\ Len(Append(q, a)) = Len(q) + 1 /\ Append(q, a)[Len(q) + 1] = a
        /\ \A i \in 1..Len(q) : Append(q, a)[i] = q[i] /\ i \in 1..Len(Append(q, a))
    BY AppendProperties, LenProperties
  <2>2. Len(q) + 1 \in 1..Len(Append(q, a)) BY <2>1
  <2> QED BY <2>1, <2>2 DEF Holds
<1>2. CASE Holds(lines, a)
  <2> DEFINE i == CHOOSE j \in 1..Len(lines) : lines[j] = a
             s == SubSeq(lines, 1, i - 1)
             t == SubSeq(lines, i + 1, Len(lines))
             r == s \o t
  <2>1. i \in 1..Len(lines) /\ lines[i] = a BY <1>2 DEF Holds
  <2> HIDE DEF i
  <2>2. /\ Len(lines) \in Nat
        /\ s \in Seq(Addr) /\ Len(s) = i - 1 /\ \A j \in 1..(i - 1) : s[j] = lines[j]
    BY <2>1, SubSeqProperties, LenProperties
  <2>3. t \in Seq(Addr) /\ Len(t) = Len(lines) - i
        /\ \A j \in 1..(Len(lines) - i) : t[j] = lines[i + j]
    BY <2>1, <2>2, SubSeqProperties
  <2> HIDE DEF s, t
  <2>4. /\ r \in Seq(Addr) /\ Len(r) = Len(lines) - 1
        /\ \A j \in 1..(i - 1) : r[j] = s[j]
        /\ \A j \in i..Len(r) : r[j] = t[j - (i - 1)]
    BY <2>1, <2>2, <2>3, ConcatProperties
  <2> HIDE DEF r
  <2>5. ASSUME NEW b \in Addr, Holds(lines, b), b # a PROVE Holds(r, b)
    <3>1. PICK j \in 1..Len(lines) : lines[j] = b BY <2>5 DEF Holds
    <3>2. j # i BY <2>1, <2>5, <3>1
    <3>3. CASE j < i
      <4>1. j \in 1..(i - 1) /\ j \in 1..Len(r) BY <2>1, <2>2, <2>4, <3>3
      <4> QED BY <2>2, <2>4, <3>1, <4>1 DEF Holds
    <3>4. CASE j > i
      <4>1. j - 1 \in i..Len(r) /\ j - 1 \in 1..Len(r) BY <2>1, <2>2, <2>4, <3>4
      <4>2. /\ j - i \in 1..(Len(lines) - i) /\ (j - 1) - (i - 1) = j - i /\ i + (j - i) = j
        BY <2>1, <2>2, <3>4
      <4>3. r[j - 1] = t[j - i] BY <2>4, <4>1, <4>2
      <4>4. t[j - i] = lines[j] BY <2>3, <4>2
      <4> QED BY <3>1, <4>1, <4>3, <4>4 DEF Holds
    <3> QED BY <2>1, <3>1, <3>2, <3>3, <3>4
  <2>6. UpdateLine(lines, a, Ways) = Append(r, a)
    <3>1. UpdateLine(lines, a, Ways) = r \o <<a>>
      BY <1>2 DEF UpdateLine, Touch, i, s, t, r
    <3>2. r \o <<a>> = Append(r, a) BY <2>4
    <3> QED BY <3>1, <3>2
  <2> QED BY <1>1, <2>4, <2>5, <2>6
<1>3. CASE ~Holds(lines, a) /\ Evicts(lines, a, Ways)
  <2>1. lines # <<>> BY <1>3, ContextAssumption, EmptySeq DEF Evicts
  <2>2. /\ Tail(lines) \in Seq(Addr) /\ Len(Tail(lines)) = Len(lines) - 1
        /\ Head(lines) = lines[1] /\ Len(lines) \in Nat \ {0}
        /\ \A j \in 1..Len(Tail(lines)) : Tail(lines)[j] = lines[j + 1]
    BY <2>1, HeadTailProperties, EmptySeq, LenProperties
  <2>3. UpdateLine(lines, a, Ways) = Append(Tail(lines), a) BY <1>3 DEF UpdateLine
  <2>4. ASSUME NEW b \in Addr, Holds(lines, b), b # Victim(lines) PROVE Holds(Tail(lines), b)
    <3>1. PICK j \in 1..Len(lines) : lines[j] = b BY <2>4 DEF Holds
    <3>2. j # 1 BY <2>2, <2>4, <3>1 DEF Victim
    <3>3. j - 1 \in 1..Len(Tail(lines)) /\ (j - 1) + 1 = j BY <2>2, <3>1, <3>2
    <3>4. Tail(lines)[j - 1] = lines[j] BY <2>2, <3>3
    <3> QED BY <3>1, <3>3, <3>4 DEF Holds
  <2> QED BY <1>1, <1>3, <2>2, <2>3, <2>4
<1>4. CASE ~Holds(lines, a) /\ ~Evicts(lines, a, Ways)
  BY <1>1, <1>4 DEF UpdateLine
<1> QED BY <1>2, <1>3, <1>4

\* Ageing.
LEMMA TickLines ==
  ASSUME BlockingInv, LinesInv, NEW n \in Node, CacheTick(n) \/ HandlerTick(n)
  PROVE  LinesInv'
<1>1. /\ incomingMsgQueue \in [Node -> Seq(Message)]
      /\ cacheMsgQueue \in [Node -> Seq(CacheMessage)]
  BY DEF BlockingInv, TypeOK
<1>2. UNCHANGED <<cache, cacheLineStatus>>
  BY DEF CacheTick, HandlerTick, cacheVars
<1>3. ASSUME NEW m \in Node
      PROVE  /\ AcksFollow(incomingMsgQueue'[m])
             /\ \A a \in Addr : None(incomingMsgQueue'[m], AlertsOf(a))
                                  <=> None(incomingMsgQueue[m], AlertsOf(a))
  <2> DEFINE q == incomingMsgQueue[m]
  <2>1. q \in Seq(Message) /\ AcksFollow(q) BY <1>1 DEF LinesInv
  <2>2. incomingMsgQueue'[m] = q \/ incomingMsgQueue'[m] = Older(q)
    BY <1>1 DEF CacheTick, HandlerTick
  <2> HIDE DEF q
  <2>3. /\ Len(Older(q)) = Len(q)
        /\ \A i \in 1..Len(q) :
             /\ Older(q)[i] \in Message /\ q[i] \in Message
             /\ Older(q)[i].type = q[i].type /\ Older(q)[i].addr = q[i].addr
    BY <2>1, OlderMessages
  <2>4. AcksFollow(Older(q)) BY <2>1, <2>3 DEF AcksFollow
  <2>5. \A a \in Addr : None(Older(q), AlertsOf(a)) <=> None(q, AlertsOf(a))
    BY <2>3 DEF None, AlertsOf
  <2>6. \A a \in Addr : None(incomingMsgQueue'[m], AlertsOf(a)) <=> None(q, AlertsOf(a))
    BY <2>2, <2>5
  <2> QED BY <2>1, <2>2, <2>4, <2>6 DEF q
<1>4. ASSUME NEW m \in Node, NEW a \in Addr
      PROVE  /\ None(cacheMsgQueue'[m], UpdatesOf(a)) <=> None(cacheMsgQueue[m], UpdatesOf(a))
             /\ None(cacheMsgQueue'[m], ReadsOf(a)) <=> None(cacheMsgQueue[m], ReadsOf(a))
  <2> DEFINE q == cacheMsgQueue[m]
  <2>1. q \in Seq(CacheMessage) BY <1>1
  <2>2. cacheMsgQueue'[m] = q \/ cacheMsgQueue'[m] = Older(q)
    BY <1>1 DEF CacheTick, HandlerTick, cacheVars
  <2> HIDE DEF q
  <2>3. /\ Len(Older(q)) = Len(q)
        /\ \A i \in 1..Len(q) :
             /\ Older(q)[i] \in CacheMessage /\ q[i] \in CacheMessage
             /\ Older(q)[i].type = q[i].type /\ Older(q)[i].addr = q[i].addr
    BY <2>1, OlderRequests
  <2>4. /\ None(Older(q), UpdatesOf(a)) <=> None(q, UpdatesOf(a))
        /\ None(Older(q), ReadsOf(a)) <=> None(q, ReadsOf(a))
    BY <2>3 DEF None, UpdatesOf, ReadsOf
  <2> QED BY <2>2, <2>4 DEF q
<1> QED BY <1>2, <1>3, <1>4, LinesKept

\* The cache takes up a request: no read is added, and no update of another line lost.
LEMMA ServesLines ==
  ASSUME TypeOK, NEW n \in Node, NEW type \in CacheRequest, CacheServes(n, type),
         NEW m \in Node, NEW b \in Addr
  PROVE  /\ UNCHANGED cacheLineStatus
         /\ None(cacheMsgQueue[m], ReadsOf(b)) => None(cacheMsgQueue'[m], ReadsOf(b))
         /\ ~None(cacheMsgQueue[m], UpdatesOf(b))
              => \/ ~None(cacheMsgQueue'[m], UpdatesOf(b))
                 \/ m = n /\ type = "CACHE_UPDATE" /\ b = Head(cacheMsgQueue[n]).addr
<1> DEFINE q == cacheMsgQueue[n]
<1>1. /\ q \in Seq(CacheMessage) /\ q # <<>> /\ Head(q).type = type
      /\ \A k \in Node : cacheMsgQueue'[k] = IF k = n THEN Tail(q) ELSE cacheMsgQueue[k]
      /\ UNCHANGED cacheLineStatus
  BY DEF TypeOK, CacheServes, Arrived
<1> HIDE DEF q
<1>2. Head(q) \in UpdatesOf(b) => type = "CACHE_UPDATE" /\ b = Head(q).addr
  BY <1>1 DEF UpdatesOf
<1>3. PICK x \in CacheMessage : TRUE BY <1>1, HeadTailProperties
<1>4. /\ None(q, ReadsOf(b)) => None(Tail(q), ReadsOf(b))
      /\ Head(q) \notin UpdatesOf(b) => (~None(q, UpdatesOf(b)) => ~None(Tail(q), UpdatesOf(b)))
  BY <1>1, <1>3, HoldsMark
<1> QED BY <1>1, <1>2, <1>4 DEF q

\* The cache answers with no alert.
LEMMA RepliesLines ==
  ASSUME TypeOK, LinesInv, NEW n \in Node, NEW a \in Addr,
         NEW type \in CacheReply \ {"CACHE_EVICTION_ALERT"}, CacheReplies(n, a, type),
         NEW m \in Node
  PROVE  /\ AcksFollow(incomingMsgQueue'[m])
         /\ \A b \in Addr : ~None(incomingMsgQueue[m], AlertsOf(b))
              => ~None(incomingMsgQueue'[m], AlertsOf(b))
<1> DEFINE x == NewMessage(n, a, type, cacheLatency)
           q == incomingMsgQueue[m]
<1>1. x \in Message BY NewMessageType DEF TypeOK, MessageType
<1>2. x.type # "CACHE_EVICTION_ALERT" BY DEF NewMessage
<1>3. q \in Seq(Message) /\ AcksFollow(q) BY DEF TypeOK, LinesInv
<1>4. incomingMsgQueue'[m] = IF m = n THEN Append(q, x) ELSE q
  BY DEF CacheReplies, TypeOK
<1> HIDE DEF x
<1>5. AcksFollow(Append(q, x))
      /\ \A b \in Addr : ~None(q, AlertsOf(b)) => ~None(Append(q, x), AlertsOf(b))
  <2> HIDE DEF q
  <2> QED BY <1>1, <1>2, <1>3, AppendFollow, HoldsMark
<1> QED BY <1>3, <1>4, <1>5

\* The set of a line is a sequence of lines.
LEMMA LinesType ==
  ASSUME TypeOK, NEW n \in Node, NEW a \in Addr
  PROVE  Lines(n, a) \in Seq(Addr)
<1>1. SetIndex[a] \in CacheSets BY DEF CacheSets
<1> QED BY <1>1 DEF TypeOK, Lines

\* The caches do: an update brings the line, and an alert goes with what it evicts.
LEMMA CacheLines ==
  ASSUME BlockingInv, LinesInv, NEW n \in Node, Outstanding(n), CacheRun(n)
  PROVE  LinesInv'
<1> DEFINE a == Head(cacheMsgQueue[n]).addr
           L == Lines(n, a)
<1>1. TypeOK BY DEF BlockingInv
<1>2. CASE CacheTick(n) BY <1>2, TickLines
<1>3. CASE CacheReads(n) \/ CacheInvalidates(n) \/ CacheFetches(n)
  <2>1. PICK type \in CacheRequest \ {"CACHE_UPDATE"} : CacheServes(n, type)
    BY <1>3 DEF CacheReads, CacheInvalidates, CacheFetches, CacheRequest
  <2>2. PICK reply \in CacheReply \ {"CACHE_EVICTION_ALERT"} : CacheReplies(n, a, reply)
    BY <1>3 DEF CacheReads, CacheInvalidates, CacheFetches, CacheReply
  <2>3. a \in Addr BY <1>1, <2>1, ServesMarks
  <2>4. SetLines(n, a, Lines(n, a))
    BY <1>3 DEF CacheReads, CacheInvalidates, CacheFetches, ReadLine, InvalidateLine, FetchLine
  <2> HIDE DEF a
  <2>5. UNCHANGED cache
    <3>1. cache \in [Node -> [CacheSets -> Seq(Addr)]] /\ SetIndex[a] \in CacheSets
      BY <1>1, <2>3 DEF TypeOK, CacheSets
    <3> QED BY <2>4, <3>1 DEF SetLines, Lines
  <2>6. \A m \in Node : AcksFollow(incomingMsgQueue'[m]) BY <1>1, <2>2, <2>3, RepliesLines
  <2>7. \A m \in Node, b \in Addr : ~None(incomingMsgQueue[m], AlertsOf(b))
          => ~None(incomingMsgQueue'[m], AlertsOf(b))
    BY <1>1, <2>2, <2>3, RepliesLines
  <2>8. \A m \in Node, b \in Addr :
          /\ UNCHANGED cacheLineStatus
          /\ None(cacheMsgQueue[m], ReadsOf(b)) => None(cacheMsgQueue'[m], ReadsOf(b))
          /\ ~None(cacheMsgQueue[m], UpdatesOf(b)) => ~None(cacheMsgQueue'[m], UpdatesOf(b))
    BY <1>1, <2>1, ServesLines
  <2> QED BY <2>5, <2>6, <2>7, <2>8, LinesKept
<1>4. CASE CacheLineNotFound(n)
  <2>1. PICK type \in CacheRequest \ {"CACHE_UPDATE"} : CacheServes(n, type)
    BY <1>4 DEF CacheLineNotFound
  <2>2. UNCHANGED <<incomingMsgQueue, cache>> BY <1>4 DEF CacheLineNotFound
  <2>3. \A m \in Node, b \in Addr :
          /\ UNCHANGED cacheLineStatus
          /\ None(cacheMsgQueue[m], ReadsOf(b)) => None(cacheMsgQueue'[m], ReadsOf(b))
          /\ ~None(cacheMsgQueue[m], UpdatesOf(b)) => ~None(cacheMsgQueue'[m], UpdatesOf(b))
    BY <1>1, <2>1, ServesLines
  <2>4. \A m \in Node : AcksFollow(incomingMsgQueue'[m]) BY <2>2 DEF LinesInv
  <2> QED BY <2>2, <2>3, <2>4, LinesKept
<1>5. ASSUME NEW c \in Addr, c = a, NEW l \in Seq(Addr), l = Lines(n, c),
             CacheServes(n, "CACHE_UPDATE"), SetLines(n, c, UpdateLine(l, c, Ways)),
             \A m \in Node : AcksFollow(incomingMsgQueue'[m]),
             \A m \in Node, b \in Addr : ~None(incomingMsgQueue[m], AlertsOf(b))
               => ~None(incomingMsgQueue'[m], AlertsOf(b)),
             Evicts(l, c, Ways) => ~None(incomingMsgQueue'[n], AlertsOf(Victim(l)))
      PROVE  LinesInv'
  <2>1. "CACHE_UPDATE" \in CacheRequest BY DEF CacheRequest
  <2>2. \A m \in Node, b \in Addr :
          /\ UNCHANGED cacheLineStatus
          /\ None(cacheMsgQueue[m], ReadsOf(b)) => None(cacheMsgQueue'[m], ReadsOf(b))
          /\ ~None(cacheMsgQueue[m], UpdatesOf(b))
               => ~None(cacheMsgQueue'[m], UpdatesOf(b)) \/ (m = n /\ b = c)
    BY <1>1, <1>5, <2>1, ServesLines
  <2>3. \A b \in Addr : None(cacheMsgQueue'[n], ReadsOf(b))
    <3> DEFINE q == cacheMsgQueue[n]
    <3>1. /\ q \in Seq(CacheMessage) /\ q # <<>> /\ Head(q).type = "CACHE_UPDATE"
          /\ cacheMsgQueue'[n] = Tail(q)
      BY <1>1, <1>5 DEF TypeOK, CacheServes, Arrived
    <3> HIDE DEF q
    <3>2. Head(q) \in CacheMessage BY <3>1, HeadTailProperties
    <3>3. Head(q) \in CacheMarks BY <3>1, <3>2 DEF CacheMarks, Accesses
    <3>4. Loses(q, Tail(q), CacheMarks) BY <3>1, <3>3, TailMarks
    <3>5. ~Free(n, Own) BY <3>4, QueuesAtPlaces DEF Free, Loses, q
    <3>6. Lone(n, Own) BY <3>5, Places DEF Outstanding
    <3>7. None(Tail(q), CacheMarks) BY <3>4, <3>6, QueuesAtPlaces DEF Lone, Loses, q
    <3> QED BY <3>1, <3>7 DEF None, CacheMarks, ReadsOf, Accesses
  <2>4. /\ cache \in [Node -> [CacheSets -> Seq(Addr)]]
        /\ \A b \in Addr : SetIndex[b] \in CacheSets
    BY <1>1 DEF TypeOK, CacheSets
  <2>5. \A m \in Node, b \in Addr :
          Lines(m, b)' = IF m = n /\ SetIndex[b] = SetIndex[c] THEN UpdateLine(l, c, Ways)
                                                               ELSE Lines(m, b)
    BY <1>5, <2>4 DEF SetLines, Lines
  <2>6. \A b \in Addr : SetIndex[b] = SetIndex[c] => Lines(n, b) = l BY <1>5 DEF Lines
  <2>7. \A m \in Node, b \in Addr : Holds(Lines(m, b), b)' <=> Holds(Lines(m, b)', b)
    BY DEF Holds
  <2>8. Holds(Lines(n, c), c)'
    <3>1. Holds(UpdateLine(l, c, Ways), c) BY <1>5, UpdateHolds
    <3>2. Lines(n, c)' = UpdateLine(l, c, Ways) BY <2>5
    <3>3. Holds(Lines(n, c)', c) BY <3>1, <3>2
    <3> QED BY <2>7, <3>3
  <2>9. ASSUME NEW m \in Node, NEW b \in Addr, Holds(Lines(m, b), b), ~Holds(Lines(m, b), b)'
        PROVE  m = n /\ Evicts(l, c, Ways) /\ b = Victim(l)
    <3>1. m = n /\ SetIndex[b] = SetIndex[c] BY <2>5, <2>7, <2>9
    <3>2. Holds(l, b) /\ ~Holds(UpdateLine(l, c, Ways), b) BY <2>5, <2>6, <2>7, <2>9, <3>1
    <3> QED BY <1>5, <3>1, <3>2, UpdateHolds
  <2> QED BY <1>5, <2>2, <2>3, <2>8, <2>9, LinesMoved
<1>6. CASE CacheUpdates(n)
  <2>1. /\ CacheServes(n, "CACHE_UPDATE") /\ SetLines(n, a, UpdateLine(L, a, Ways))
        /\ ~Evicts(L, a, Ways) /\ CacheReplies(n, a, "CACHE_UPDATE_ACK")
    BY <1>6 DEF CacheUpdates
  <2>2. a \in Addr BY <1>1, <2>1, ServesMarks DEF CacheRequest
  <2>3. "CACHE_UPDATE_ACK" \in CacheReply \ {"CACHE_EVICTION_ALERT"} BY DEF CacheReply
  <2>4. L \in Seq(Addr) BY <1>1, <2>2, LinesType
  <2>5. \A m \in Node : AcksFollow(incomingMsgQueue'[m])
    BY <1>1, <2>1, <2>2, <2>3, RepliesLines
  <2>6. \A m \in Node, b \in Addr : ~None(incomingMsgQueue[m], AlertsOf(b))
          => ~None(incomingMsgQueue'[m], AlertsOf(b))
    BY <1>1, <2>1, <2>2, <2>3, RepliesLines
  <2> QED BY <1>5, <2>1, <2>2, <2>4, <2>5, <2>6
<1>7. CASE CacheUpdateEvicts(n)
  <2>1. PICK c \in Addr : c = a
    BY <1>1, <1>7, ServesMarks DEF CacheUpdateEvicts, CacheRequest
  <2>2. PICK l \in Seq(Addr) : l = Lines(n, c) BY <1>1, LinesType
  <2> DEFINE alert == NewMessage(0, Victim(l), "CACHE_EVICTION_ALERT", cacheLatency)
             ack == NewMessage(n, c, "CACHE_UPDATE_ACK", cacheLatency)
             q == incomingMsgQueue[n]
             r == Append(Append(q, alert), ack)
  <2>3. /\ CacheServes(n, "CACHE_UPDATE") /\ SetLines(n, c, UpdateLine(l, c, Ways))
        /\ Evicts(l, c, Ways)
        /\ incomingMsgQueue' = [incomingMsgQueue EXCEPT ![n] = @ \o <<alert, ack>>]
    BY <1>7, <2>1, <2>2 DEF CacheUpdateEvicts
  <2>4. Victim(l) \in Addr BY <2>3, UpdateLineType
  <2>5. alert \in Message /\ ack \in Message
    BY <1>1, <2>4, ZeroIsNode, NewMessageType DEF MessageType, CacheReply, TypeOK
  <2>6. alert.type = "CACHE_EVICTION_ALERT" /\ alert.addr = Victim(l)
        /\ ack.type = "CACHE_UPDATE_ACK"
    BY DEF NewMessage
  <2>7. incomingMsgQueue \in [Node -> Seq(Message)] /\ q \in Seq(Message) /\ AcksFollow(q)
    BY <1>1 DEF TypeOK, LinesInv
  <2> HIDE DEF alert, ack
  <2>8. q \o <<alert, ack>> = r BY <2>5, <2>7
  <2>9. \A m \in Node : incomingMsgQueue'[m] = IF m = n THEN r ELSE incomingMsgQueue[m]
    BY <2>3, <2>7, <2>8
  <2> HIDE DEF q
  <2>10. Append(q, alert) \in Seq(Message) BY <2>5, <2>7, AppendProperties
  <2>11. AcksFollow(r) BY <2>5, <2>6, <2>7, AppendFollow
  <2>12. \A b \in Addr : ~None(q, AlertsOf(b)) => ~None(r, AlertsOf(b))
    BY <2>5, <2>7, <2>10, HoldsMark
  <2>13. ~None(r, AlertsOf(Victim(l)))
    <3>1. alert \in AlertsOf(Victim(l)) BY <2>5, <2>6 DEF AlertsOf
    <3>2. ~None(Append(q, alert), AlertsOf(Victim(l))) BY <2>5, <2>7, <3>1, HoldsMark
    <3> QED BY <2>5, <2>10, <3>2, HoldsMark
  <2> HIDE DEF r
  <2>14. \A m \in Node : AcksFollow(incomingMsgQueue'[m]) BY <2>9, <2>11 DEF LinesInv
  <2>15. \A m \in Node, b \in Addr : ~None(incomingMsgQueue[m], AlertsOf(b))
           => ~None(incomingMsgQueue'[m], AlertsOf(b))
    BY <2>9, <2>12 DEF q
  <2>16. ~None(incomingMsgQueue'[n], AlertsOf(Victim(l))) BY <2>9, <2>13
  <2> QED BY <1>5, <2>1, <2>2, <2>3, <2>14, <2>15, <2>16
<1> QED BY <1>2, <1>3, <1>4, <1>6, <1>7 DEF CacheRun

\* A node with no operation in progress has every line it has a status for.
LEMMA IdleHasLines ==
  ASSUME TypeOK, LinesInv, NEW n \in Node, Outstanding(n), currentMemOpSuccessful[n],
         NEW a \in Addr, cacheLineStatus[n][a] # "I"
  PROVE  Holds(Lines(n, a), a)
<1>1. \A p \in Place : Free(n, p) BY DEF Outstanding
<1>2. None(incomingMsgQueue[n], InMarks(n, n)) /\ None(cacheMsgQueue[n], CacheMarks)
  BY <1>1, Places, QueuesAtPlaces DEF Free
<1>3. AcksFollow(incomingMsgQueue[n]) /\ LinePresent(n, a) BY DEF LinesInv
<1>4. None(incomingMsgQueue[n], AlertsOf(a))
  <2> DEFINE q == incomingMsgQueue[n]
  <2>1. q \in Seq(Message) /\ AcksFollow(q) /\ None(q, InMarks(n, n)) BY <1>2, <1>3 DEF TypeOK
  <2> HIDE DEF q
  <2>2. SUFFICES ASSUME NEW i \in 1..Len(q), q[i] \in AlertsOf(a) PROVE FALSE
    BY DEF None, q
  <2>3. PICK j \in 1..Len(q) : q[j].type = "CACHE_UPDATE_ACK"
    BY <2>1, <2>2 DEF AcksFollow, AlertsOf
  <2>4. q[j] \in Message BY <2>1
  <2>5. q[j] \in InMarks(n, n) BY <2>3, <2>4 DEF InMarks, Answers
  <2> QED BY <2>1, <2>5 DEF None
<1>5. None(cacheMsgQueue[n], UpdatesOf(a))
  BY <1>2 DEF None, CacheMarks, UpdatesOf, Accesses
<1> QED BY <1>3, <1>4, <1>5 DEF LinePresent

\* The processor starts an operation: a read goes to the cache only when the line is there.
LEMMA StartLines ==
  ASSUME BlockingInv, LinesInv, NEW n \in Node, Outstanding(n), HandleMemOpRequest(n)
  PROVE  LinesInv'
<1>1. /\ TypeOK
      /\ incomingMsgQueue \in [Node -> Seq(Message)]
      /\ cacheMsgQueue \in [Node -> Seq(CacheMessage)]
      /\ cacheLineStatus \in [Node -> [Addr -> ProtocolStatus]]
  BY DEF BlockingInv, TypeOK
<1>2. PICK addr \in Addr : \/ WriteInvalid(n, addr) \/ WriteShared(n, addr)
                           \/ WriteOwned(n, addr)
                           \/ ReadInvalid(n, addr) \/ ReadValid(n, addr)
  BY DEF HandleMemOpRequest
<1>3. UNCHANGED cache /\ currentMemOpSuccessful[n]
  BY <1>2 DEF WriteInvalid, WriteShared, WriteOwned, ReadInvalid, ReadValid, WriteRequest,
              ReadRequest, ProcessorStarts, ProcessorTurn
<1>4. \A m \in Node, b \in Addr : cacheLineStatus'[m][b] # "I" => cacheLineStatus[m][b] # "I"
  <2>1. \/ UNCHANGED cacheLineStatus
        \/ cacheLineStatus[n][addr] \in {"M", "E"} /\ SetStatus(n, addr, "M")
    BY <1>2 DEF WriteInvalid, WriteShared, WriteOwned, ReadInvalid, ReadValid, ReadRequest
  <2>2. CASE UNCHANGED cacheLineStatus BY <2>2
  <2>3. CASE cacheLineStatus[n][addr] \in {"M", "E"} /\ SetStatus(n, addr, "M")
    <3>1. \A m \in Node, b \in Addr :
            m # n \/ b # addr => cacheLineStatus'[m][b] = cacheLineStatus[m][b]
      BY <1>1, <2>3 DEF SetStatus
    <3> QED BY <2>3, <3>1
  <2> QED BY <2>1, <2>2, <2>3
<1>5. \A m \in Node, b \in Addr : Holds(Lines(m, b), b)' <=> Holds(Lines(m, b), b)
  BY <1>3 DEF Holds, Lines
<1>6. CASE WriteInvalid(n, addr) \/ WriteShared(n, addr) \/ ReadInvalid(n, addr)
  <2>1. PICK type \in HomeRequest : AskHome(n, addr, type)
    BY <1>6 DEF WriteInvalid, WriteShared, ReadInvalid, HomeRequest
  <2> DEFINE x == NewMessage(n, addr, type, nodeLatency)
  <2>2. x \in Message BY <1>1, NewMessageType DEF TypeOK, MessageType
  <2>3. x.type # "CACHE_EVICTION_ALERT" BY DEF NewMessage, HomeRequest
  <2>4. /\ \A m \in Node : incomingMsgQueue'[m] = IF m = Home[addr]
                             THEN Append(incomingMsgQueue[m], x) ELSE incomingMsgQueue[m]
        /\ UNCHANGED cacheMsgQueue
    BY <2>1 DEF AskHome, SendMsgToNode
  <2> HIDE DEF x
  <2>5. ASSUME NEW m \in Node
        PROVE  /\ AcksFollow(incomingMsgQueue'[m])
               /\ \A b \in Addr : ~None(incomingMsgQueue[m], AlertsOf(b))
                    => ~None(incomingMsgQueue'[m], AlertsOf(b))
    <3> DEFINE q == incomingMsgQueue[m]
    <3>1. q \in Seq(Message) /\ AcksFollow(q) BY <1>1 DEF LinesInv
    <3>2. incomingMsgQueue'[m] = q \/ incomingMsgQueue'[m] = Append(q, x) BY <2>4
    <3> HIDE DEF q
    <3>3. AcksFollow(Append(q, x)) BY <2>2, <2>3, <3>1, AppendFollow
    <3>4. \A b \in Addr : ~None(q, AlertsOf(b)) => ~None(Append(q, x), AlertsOf(b))
      BY <2>2, <3>1, HoldsMark
    <3> QED BY <3>1, <3>2, <3>3, <3>4 DEF q
  <2>6. \A m \in Node, b \in Addr :
          /\ ~None(cacheMsgQueue[m], UpdatesOf(b)) => ~None(cacheMsgQueue'[m], UpdatesOf(b))
          /\ None(cacheMsgQueue[m], ReadsOf(b)) => None(cacheMsgQueue'[m], ReadsOf(b))
    BY <2>4
  <2> QED BY <1>4, <1>5, <2>5, <2>6, LinesMoved
<1>7. CASE WriteOwned(n, addr)
  <2>1. SendMsgToCache(n, addr, "CACHE_UPDATE") /\ UNCHANGED incomingMsgQueue
    BY <1>7 DEF WriteOwned, AskCache
  <2>2. \A m \in Node, b \in Addr :
          /\ ~None(cacheMsgQueue[m], UpdatesOf(b)) => ~None(cacheMsgQueue'[m], UpdatesOf(b))
          /\ None(cacheMsgQueue[m], ReadsOf(b)) => None(cacheMsgQueue'[m], ReadsOf(b))
    BY <1>1, <2>1, SentLines DEF CacheRequest
  <2>3. \A m \in Node : AcksFollow(incomingMsgQueue'[m]) BY <2>1 DEF LinesInv
  <2> QED BY <1>4, <1>5, <2>1, <2>2, <2>3, LinesMoved
<1>8. CASE ReadValid(n, addr)
  <2>1. /\ SendMsgToCache(n, addr, "CACHE_READ") /\ UNCHANGED incomingMsgQueue
        /\ cacheLineStatus[n][addr] # "I"
    BY <1>8 DEF ReadValid, AskCache
  <2>2. Holds(Lines(n, addr), addr) BY <1>1, <1>3, <2>1, IdleHasLines
  <2> DEFINE x == [type |-> "CACHE_READ", addr |-> addr, latency |-> cacheLatency]
  <2>3. x \in CacheMessage /\ x.type = "CACHE_READ" /\ x.addr = addr
    BY <1>1 DEF CacheMessage, CacheRequest, TypeOK
  <2>4. \A m \in Node : cacheMsgQueue'[m] = IF m = n THEN Append(cacheMsgQueue[m], x)
                                                    ELSE cacheMsgQueue[m]
    BY <1>1, <2>1 DEF SendMsgToCache
  <2> HIDE DEF x
  <2>5. ASSUME NEW m \in Node, NEW b \in Addr
        PROVE  /\ ~None(cacheMsgQueue[m], UpdatesOf(b)) => ~None(cacheMsgQueue'[m], UpdatesOf(b))
               /\ None(cacheMsgQueue[m], ReadsOf(b))
                    => None(cacheMsgQueue'[m], ReadsOf(b)) \/ (m = n /\ b = addr)
    <3>1. cacheMsgQueue[m] \in Seq(CacheMessage) BY <1>1
    <3>2. x \in ReadsOf(b) => b = addr BY <2>3 DEF ReadsOf
    <3> QED BY <2>3, <2>4, <3>1, <3>2, HoldsMark
  <2>6. \A m \in Node : AcksFollow(incomingMsgQueue'[m]) BY <2>1 DEF LinesInv
  <2> QED BY <1>4, <1>5, <2>1, <2>2, <2>5, <2>6, LinesMoved
<1> QED BY <1>2, <1>6, <1>7, <1>8

\* Nothing happens to the lines.
LEMMA IdleLines ==
  ASSUME LinesInv, UNCHANGED <<cache, cacheLineStatus, incomingMsgQueue, cacheMsgQueue>>
  PROVE  LinesInv'
<1>1. \A m \in Node : AcksFollow(incomingMsgQueue'[m]) BY DEF LinesInv
<1> QED BY <1>1, LinesKept

\* Every step does.
LEMMA LinesStep ==
  ASSUME OutstandingInv, [Next]_vars
  PROVE  LinesInv'
<1>1. BlockingInv /\ RequestsWait /\ LinesInv /\ \A n \in Node : Outstanding(n)
  BY DEF OutstandingInv
<1>2. CASE Next
  <2>1. PICK n \in Node : \/ CacheRun(n)
                          \/ HandlerTick(n) \/ HandleMessage(n) \/ DrainEnds(n)
                          \/ ProcessorWaits(n) \/ HandleMemOpRequest(n)
    BY <1>2 DEF Next
  <2>2. CASE CacheRun(n) BY <1>1, <2>2, CacheLines
  <2>3. CASE HandlerTick(n) BY <1>1, <2>3, TickLines
  <2>4. CASE HandleMessage(n) BY <1>1, <2>4, HandleMessageLines
  <2>5. CASE DrainEnds(n) \/ ProcessorWaits(n)
    BY <1>1, <2>5, IdleLines DEF DrainEnds, ProcessorWaits, ProcessorTurn, cacheVars
  <2>6. CASE HandleMemOpRequest(n) BY <1>1, <2>6, StartLines
  <2> QED BY <2>1, <2>2, <2>3, <2>4, <2>5, <2>6
<1>3. CASE UNCHANGED vars BY <1>1, <1>3, IdleLines DEF vars, cacheVars
<1> QED BY <1>2, <1>3

-------------------------------------------------------------------------------
(* The invariant, and what it says of the numbers of messages. *)

\* The invariant holds initially, ...
LEMMA OutstandingInit == Init => OutstandingInv
<1> SUFFICES ASSUME Init PROVE OutstandingInv OBVIOUS
<1>1. BlockingInv BY BlockingInit
<1>2. /\ \A n \in Node : incomingMsgQueue[n] = <<>> /\ cacheMsgQueue[n] = <<>>
                         /\ currentMemOpSuccessful[n]
      /\ \A n \in Node, a \in Addr : blockedMsgMap[n][a] = <<>> /\ cacheLineStatus[n][a] = "I"
  BY DEF Init
<1>3. \A S : None(<<>>, S) BY DEF None
<1>4. RequestsWait BY <1>2, <1>3 DEF RequestsWait
<1>5. ASSUME NEW n \in Node PROVE Outstanding(n)
  <2>1. \A p \in Place : QueueAt(n, p) = <<>> BY <1>2, QueuesAtPlaces, Places
  <2> QED BY <1>2, <1>3, <2>1 DEF Outstanding, Free
<1>6. LinesInv
  BY <1>2, <1>3 DEF LinesInv, AcksFollow, LinePresent, ReadFound
<1> QED BY <1>1, <1>4, <1>5, <1>6 DEF OutstandingInv

\* ... and every step keeps it.
LEMMA OutstandingStep == OutstandingInv /\ [Next]_vars => OutstandingInv'
<1> SUFFICES ASSUME OutstandingInv, [Next]_vars PROVE OutstandingInv' OBVIOUS
<1>1. BlockingInv /\ RequestsWait /\ \A n \in Node : Outstanding(n) BY DEF OutstandingInv
<1>2. BlockingInv' BY <1>1, BlockingStep
<1>3. RequestsWait' BY <1>1, WaitStep
<1>4. \A n \in Node : Outstanding(n)' BY <1>1, EveryStepFollows, OutstandingFollows
<1>5. LinesInv' BY LinesStep
<1> QED BY <1>2, <1>3, <1>4, <1>5 DEF OutstandingInv

\* The places of the marks in all the incoming queues, in all the blocked queues, among
\* the answers and at the cache.
Counted(n, I, B, R, C) ==
  /\ \A x : x \in I <=> \E m \in Node : \E i \in 1..Len(incomingMsgQueue[m]) :
                          x = <<m, i>> /\ incomingMsgQueue[m][i] \in AskMarks(n)
  /\ \A x : x \in B <=> \E m \in Node, a \in Addr : \E i \in 1..Len(blockedMsgMap[m][a]) :
                          x = <<m, a, i>> /\ blockedMsgMap[m][a][i] \in AskMarks(n)
  /\ \A x : x \in R <=> \E i \in 1..Len(incomingMsgQueue[n]) :
                          /\ x = <<n, i>>
                          /\ incomingMsgQueue[n][i] \in InMarks(n, n) \ AskMarks(n)
  /\ \A x : x \in C <=> x \in 1..Len(cacheMsgQueue[n]) /\ cacheMsgQueue[n][x] \in CacheMarks

\* The sets OneOutstanding counts hold these places.
LEMMA CountedPlaces ==
  ASSUME TypeOK, NEW n \in Node
  PROVE  LET Request(msg) == msg.src = n /\ msg.type \in HomeRequest
             Answer(msg) ==
               msg.type \in {"DATA_VALUE_REPLY", "DATA_VALUE_REPLY_E", "INVALIDATE_OTHER_ACK",
                             "ROLLBACK", "CACHE_READ_REPLY", "CACHE_UPDATE_ACK"}
             Access(r) == r.type \in {"CACHE_READ", "CACHE_UPDATE"}
         IN  Counted(n, InFlight(Request), Blocked(Request),
                     {p \in InFlight(Answer) : p[1] = n}, AtCache(n, Access))
<1> DEFINE Request(msg) == msg.src = n /\ msg.type \in HomeRequest
           Answer(msg) ==
             msg.type \in {"DATA_VALUE_REPLY", "DATA_VALUE_REPLY_E", "INVALIDATE_OTHER_ACK",
                           "ROLLBACK", "CACHE_READ_REPLY", "CACHE_UPDATE_ACK"}
           Access(r) == r.type \in {"CACHE_READ", "CACHE_UPDATE"}
<1>1. \A m \in Node : /\ DOMAIN incomingMsgQueue[m] = 1..Len(incomingMsgQueue[m])
                      /\ \A i \in 1..Len(incomingMsgQueue[m]) : incomingMsgQueue[m][i] \in Message
  <2>1. \A m \in Node : incomingMsgQueue[m] \in Seq(Message) BY DEF TypeOK
  <2> QED BY <2>1, LenProperties
<1>2. \A m \in Node, a \in Addr :
        /\ DOMAIN blockedMsgMap[m][a] = 1..Len(blockedMsgMap[m][a])
        /\ \A i \in 1..Len(blockedMsgMap[m][a]) : blockedMsgMap[m][a][i] \in Message
  <2>1. \A m \in Node, a \in Addr : blockedMsgMap[m][a] \in Seq(Message) BY DEF TypeOK
  <2> QED BY <2>1, LenProperties
<1>3. /\ DOMAIN cacheMsgQueue[n] = 1..Len(cacheMsgQueue[n])
      /\ \A i \in 1..Len(cacheMsgQueue[n]) : cacheMsgQueue[n][i] \in CacheMessage
  <2>1. cacheMsgQueue[n] \in Seq(CacheMessage) BY DEF TypeOK
  <2> QED BY <2>1, LenProperties
<1>4. \A msg \in Message : /\ Request(msg) <=> msg \in AskMarks(n)
                           /\ Answer(msg) <=> msg \in InMarks(n, n) \ AskMarks(n)
  BY DEF AskMarks, InMarks, Answers, HomeRequest
<1>5. \A r \in CacheMessage : Access(r) <=> r \in CacheMarks BY DEF CacheMarks, Accesses
<1> HIDE DEF Request, Answer, Access
<1>6. \A x : x \in InFlight(Request) <=>
        \E m \in Node : \E i \in 1..Len(incomingMsgQueue[m]) :
          x = <<m, i>> /\ incomingMsgQueue[m][i] \in AskMarks(n)
  BY <1>1, <1>4 DEF InFlight
<1>7. \A x : x \in Blocked(Request) <=>
        \E m \in Node, a \in Addr : \E i \in 1..Len(blockedMsgMap[m][a]) :
          x = <<m, a, i>> /\ blockedMsgMap[m][a][i] \in AskMarks(n)
  BY <1>2, <1>4 DEF Blocked
<1>8. \A x : x \in {p \in InFlight(Answer) : p[1] = n} <=>
        \E i \in 1..Len(incomingMsgQueue[n]) :
          x = <<n, i>> /\ incomingMsgQueue[n][i] \in InMarks(n, n) \ AskMarks(n)
  BY <1>1, <1>4 DEF InFlight
<1>9. \A x : x \in AtCache(n, Access) <=>
        x \in 1..Len(cacheMsgQueue[n]) /\ cacheMsgQueue[n][x] \in CacheMarks
  BY <1>3, <1>5 DEF AtCache
<1>10. Counted(n, InFlight(Request), Blocked(Request), {p \in InFlight(Answer) : p[1] = n},
               AtCache(n, Access))
  BY <1>6, <1>7, <1>8, <1>9 DEF Counted
<1> QED BY <1>10 DEF Request, Answer, Access

\* All these sets are empty, or all but one, which has one element.
OneAtMost(n, I, B, R, C) ==
  IF currentMemOpSuccessful[n]
  THEN I = {} /\ B = {} /\ R = {} /\ C = {}
  ELSE \E x : \/ I = {x} /\ B = {} /\ R = {} /\ C = {}
              \/ I = {} /\ B = {x} /\ R = {} /\ C = {}
              \/ I = {} /\ B = {} /\ R = {x} /\ C = {}
              \/ I = {} /\ B = {} /\ R = {} /\ C = {x}

\* A node with its operation in one place has one message to count.
LEMMA OneCounted ==
  ASSUME TypeOK, NEW n \in Node, Outstanding(n), NEW I, NEW B, NEW R, NEW C,
         Counted(n, I, B, R, C)
  PROVE  OneAtMost(n, I, B, R, C)
<1>1. ASSUME \A m \in Node : Free(n, In(m)) PROVE I = {} /\ R = {}
  <2>1. \A m \in Node : \A i \in 1..Len(incomingMsgQueue[m]) :
          incomingMsgQueue[m][i] \notin InMarks(n, m)
    BY <1>1, QueuesAtPlaces DEF Free, None
  <2>2. \A m \in Node : AskMarks(n) \subseteq InMarks(n, m) BY DEF InMarks
  <2> QED BY <2>1, <2>2 DEF Counted
<1>2. ASSUME \A m \in Node, a \in Addr : Free(n, Blk(m, a)) PROVE B = {}
  BY <1>2, QueuesAtPlaces DEF Free, None, Counted
<1>3. Free(n, Own) => C = {} BY QueuesAtPlaces DEF Free, None, Counted
<1>4. CASE currentMemOpSuccessful[n]
  BY <1>1, <1>2, <1>3, <1>4, Places DEF Outstanding, OneAtMost
<1>5. CASE ~currentMemOpSuccessful[n]
  <2>1. PICK p \in Place : Lone(n, p) /\ \A r \in Place \ {p} : Free(n, r)
    BY <1>5 DEF Outstanding
  <2>2. /\ \A m \in Node : p # In(m) => Free(n, In(m))
        /\ \A m \in Node, a \in Addr : p # Blk(m, a) => Free(n, Blk(m, a))
        /\ p # Own => Free(n, Own)
    BY <2>1, Places
  <2>3. CASE p = Own
    <3>1. I = {} /\ R = {}
      <4>1. \A m \in Node : Free(n, In(m)) BY <2>2, <2>3 DEF In, Own
      <4> QED BY <1>1, <4>1
    <3>2. B = {}
      <4>1. \A m \in Node, a \in Addr : Free(n, Blk(m, a)) BY <2>2, <2>3, Places
      <4> QED BY <1>2, <4>1
    <3>3. PICK i \in 1..Len(cacheMsgQueue[n]) :
            /\ cacheMsgQueue[n][i] \in CacheMarks
            /\ \A j \in 1..Len(cacheMsgQueue[n]) : j # i => cacheMsgQueue[n][j] \notin CacheMarks
      BY <2>1, <2>3, QueuesAtPlaces DEF Lone, One
    <3>4. C = {i} BY <3>3 DEF Counted
    <3> QED BY <1>5, <3>1, <3>2, <3>4 DEF OneAtMost
  <2>4. ASSUME NEW m \in Node, NEW a \in Addr, p = Blk(m, a)
        PROVE  I = {} /\ R = {} /\ C = {} /\ \E x : B = {x}
    <3>1. I = {} /\ R = {} /\ C = {}
      <4>1. \A k \in Node : Free(n, In(k)) BY <2>2, <2>4, Places
      <4>2. Free(n, Own) BY <2>2, <2>4, Places
      <4> QED BY <1>1, <1>3, <4>1, <4>2
    <3>2. PICK i \in 1..Len(blockedMsgMap[m][a]) :
            /\ blockedMsgMap[m][a][i] \in AskMarks(n)
            /\ \A j \in 1..Len(blockedMsgMap[m][a]) :
                 j # i => blockedMsgMap[m][a][j] \notin AskMarks(n)
      BY <2>1, <2>4, QueuesAtPlaces DEF Lone, One
    <3>3. \A k \in Node, b \in Addr : k # m \/ b # a =>
            \A j \in 1..Len(blockedMsgMap[k][b]) : blockedMsgMap[k][b][j] \notin AskMarks(n)
      BY <2>2, <2>4, Places, QueuesAtPlaces DEF Free, None
    <3>4. B = {<<m, a, i>>} BY <3>2, <3>3 DEF Counted
    <3> QED BY <3>1, <3>4
  <2>5. ASSUME NEW m \in Node, p = In(m)
        PROVE  /\ B = {} /\ C = {}
               /\ \E x : (I = {x} /\ R = {}) \/ (I = {} /\ R = {x})
    <3>1. B = {} /\ C = {}
      <4>1. \A k \in Node, a \in Addr : Free(n, Blk(k, a)) BY <2>2, <2>5, Places
      <4>2. Free(n, Own) BY <2>2, <2>5 DEF In, Own
      <4> QED BY <1>2, <1>3, <4>1, <4>2
    <3>2. PICK i \in 1..Len(incomingMsgQueue[m]) :
            /\ incomingMsgQueue[m][i] \in InMarks(n, m)
            /\ \A j \in 1..Len(incomingMsgQueue[m]) :
                 j # i => incomingMsgQueue[m][j] \notin InMarks(n, m)
      BY <2>1, <2>5, QueuesAtPlaces DEF Lone, One
    <3>3. \A k \in Node : k # m =>
            \A j \in 1..Len(incomingMsgQueue[k]) : incomingMsgQueue[k][j] \notin InMarks(n, k)
      BY <2>2, <2>5, Places, QueuesAtPlaces DEF Free, None
    <3>4. \A k \in Node : AskMarks(n) \subseteq InMarks(n, k)
      BY DEF InMarks
    <3>5. \A k \in Node : k # n => InMarks(n, k) = AskMarks(n)
      BY DEF InMarks
    <3>6. CASE incomingMsgQueue[m][i] \in AskMarks(n)
      <4>1. I = {<<m, i>>} BY <3>2, <3>3, <3>4, <3>6 DEF Counted
      <4>2. R = {} BY <3>2, <3>3, <3>4, <3>6 DEF Counted
      <4> QED BY <3>1, <4>1, <4>2
    <3>7. CASE incomingMsgQueue[m][i] \notin AskMarks(n)
      <4>1. m = n BY <3>2, <3>7, <3>5
      <4>2. I = {} BY <3>2, <3>3, <3>4, <3>7 DEF Counted
      <4>3. R = {<<n, i>>} BY <3>2, <3>3, <3>4, <3>7, <4>1 DEF Counted
      <4> QED BY <3>1, <4>2, <4>3
    <3> QED BY <3>6, <3>7
  <2> QED BY <1>5, <2>3, <2>4, <2>5, Places DEF OneAtMost
<1> QED BY <1>4, <1>5

\* A memory operation in progress is in exactly one place, and a processor that has none
\* has left nothing behind: for every number of contexts, every task, every latency and
\* every size of the caches, evictions included, no request is lost or answered twice.
THEOREM OneOutstandingAlways == Spec => []OneOutstanding
<1>1. OutstandingInv => OneOutstanding
  <2> SUFFICES ASSUME OutstandingInv, NEW n \in Node
               PROVE  LET Request(msg) == msg.src = n /\ msg.type \in HomeRequest
                          Answer(msg) ==
                            msg.type \in {"DATA_VALUE_REPLY", "DATA_VALUE_REPLY_E",
                                          "INVALIDATE_OTHER_ACK", "ROLLBACK",
                                          "CACHE_READ_REPLY", "CACHE_UPDATE_ACK"}
                          Access(r) == r.type \in {"CACHE_READ", "CACHE_UPDATE"}
                          answers == {p \in InFlight(Answer) : p[1] = n}
                      IN  Cardinality(InFlight(Request)) + Cardinality(Blocked(Request))
                            + Cardinality(answers) + Cardinality(AtCache(n, Access))
                          = IF currentMemOpSuccessful[n] THEN 0 ELSE 1
    BY DEF OneOutstanding
  <2> DEFINE Request(msg) == msg.src = n /\ msg.type \in HomeRequest
             Answer(msg) ==
               msg.type \in {"DATA_VALUE_REPLY", "DATA_VALUE_REPLY_E", "INVALIDATE_OTHER_ACK",
                             "ROLLBACK", "CACHE_READ_REPLY", "CACHE_UPDATE_ACK"}
             Access(r) == r.type \in {"CACHE_READ", "CACHE_UPDATE"}
             I == InFlight(Request)
             B == Blocked(Request)
             R == {p \in InFlight(Answer) : p[1] = n}
             C == AtCache(n, Access)
  <2>1. TypeOK /\ Outstanding(n) BY DEF OutstandingInv, BlockingInv
  <2>2. Counted(n, I, B, R, C)
    BY <2>1, CountedPlaces
  <2> HIDE DEF I, B, R, C
  <2>3. OneAtMost(n, I, B, R, C)
    BY <2>1, <2>2, OneCounted
  <2>4. Cardinality({}) = 0 /\ \A x : Cardinality({x}) = 1 BY FS_EmptySet, FS_Singleton
  <2>5. Cardinality(I) + Cardinality(B) + Cardinality(R) + Cardinality(C)
        = IF currentMemOpSuccessful[n] THEN 0 ELSE 1
    BY <2>3, <2>4 DEF OneAtMost
  <2> QED BY <2>5 DEF I, B, R, C
<1> QED BY <1>1, OutstandingInit, OutstandingStep, PTL DEF Spec

\* A read is only sent to a cache that has the line, and no eviction takes the line away
\* before the cache gets to the read.
ReadsFound ==
  \A n \in Node : \A i \in DOMAIN cacheMsgQueue[n] :
    LET r == cacheMsgQueue[n][i]
    IN  r.type = "CACHE_READ" => Holds(Lines(n, r.addr), r.addr)

\* "Cache only gets this request when the line exists" says the comment on readLine: of
\* the reads of the processor it is true for every number of contexts and size of the
\* caches, though a FETCH can find that its line was evicted.
THEOREM ReadsFoundAlways == Spec => []ReadsFound
<1>1. OutstandingInv => ReadsFound
  <2> SUFFICES ASSUME OutstandingInv, NEW n \in Node, NEW i \in DOMAIN cacheMsgQueue[n],
                      cacheMsgQueue[n][i].type = "CACHE_READ"
               PROVE  Holds(Lines(n, cacheMsgQueue[n][i].addr), cacheMsgQueue[n][i].addr)
    BY DEF ReadsFound
  <2> DEFINE r == cacheMsgQueue[n][i]
  <2>1. TypeOK /\ LinesInv BY DEF OutstandingInv, BlockingInv
  <2>2. cacheMsgQueue[n] \in Seq(CacheMessage) BY <2>1 DEF TypeOK
  <2>3. r \in CacheMessage /\ i \in 1..Len(cacheMsgQueue[n]) BY <2>2, LenProperties
  <2>4. r.addr \in Addr /\ r \in ReadsOf(r.addr) BY <2>3 DEF CacheMessage, ReadsOf
  <2>5. ~None(cacheMsgQueue[n], ReadsOf(r.addr)) BY <2>3, <2>4 DEF None
  <2> QED BY <2>1, <2>4, <2>5 DEF LinesInv, ReadFound
<1> QED BY <1>1, OutstandingInit, OutstandingStep, PTL DEF Spec

==============================================================================
