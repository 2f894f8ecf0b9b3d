---------------------------- MODULE CoherenceLines ----------------------------
(***************************************************************************)
(* The invariant of a line that the home, the nodes and their messages     *)
(* keep between them, and what the actions of the handlers do to it.       *)
(* CoherenceProofs puts them together.                                     *)
(***************************************************************************)
EXTENDS OutstandingProofs

\* No cache set has to give up a line: its memory was zero, and the lines that fall into it
\* fit into its ways.
LinesOf(s) == {a \in Addr : SetIndex[a] = s}
LinesFit ==
  /\ InitialLines \subseteq {<<>>}
  /\ \A s \in CacheSets : IsFiniteSet(LinesOf(s)) /\ Cardinality(LinesOf(s)) <= Ways

-------------------------------------------------------------------------------
(* The invariant. *)

\* A set holds each of its lines once.
SetFits(n, s) ==
  Len(cache[n][s]) <= Cardinality({a \in LinesOf(s) : Holds(cache[n][s], a)})

\* Messages of the line a: of these types, and of these types from n.
About(a, types) == {msg \in Message : msg.addr = a /\ msg.type \in types}
AboutFrom(a, types, n) == {msg \in About(a, types) : msg.src = n}

Grant == {"DATA_VALUE_REPLY", "DATA_VALUE_REPLY_E", "INVALIDATE_OTHER_ACK"}
HomeAnswer == {"INVALIDATE_ACK", "DATA_WRITE_BACK"}
CacheAnswer == {"CACHE_INVALIDATE_ACK", "CACHE_FETCH_ACK"}
GrantsOf(a) == About(a, Grant)
AsksOf(a) == About(a, OwnerRequest)
AcksOf(a, n) == AboutFrom(a, HomeAnswer, n)

\* A request is about the operation in progress.
FitsOp(msg) ==
  /\ msg.addr = currentMemOp[msg.src].addr
  /\ currentMemOp[msg.src].type = IF msg.type = "READ_MISS" THEN "read" ELSE "write"

\* What each message of m's incoming queue, of the blocked queue of a, and of the queue of
\* m's cache is.
IncomingOK(m, msg) ==
  /\ ~msg.serviced
  /\ msg.type # "CACHE_EVICTION_ALERT"
  /\ msg.type \in HomeRequest \cup HomeAnswer => Home[msg.addr] = m
  /\ msg.type \in OwnerRequest \cup {"INVALIDATE_OTHER_ACK"} => msg.src = Home[msg.addr]
  /\ msg.type \in HomeRequest => FitsOp(msg)
  /\ msg.type \in Answers => msg.addr = currentMemOp[m].addr
  /\ msg.type = "DATA_VALUE_REPLY_E" => currentMemOp[m].type = "read"
  /\ msg.type = "INVALIDATE_OTHER_ACK" => currentMemOp[m].type = "write"
BlockedOK(m, a, msg) ==
  /\ msg.type \in HomeRequest => Home[a] = m /\ FitsOp(msg)
  /\ msg.type \in OwnerRequest => msg.src = Home[a] /\ msg.serviced
RequestOK(m, r) ==
  r.type \in Accesses => r.addr = currentMemOp[m].addr

MessagesOK ==
  \A m \in Node :
    /\ \A i \in 1..Len(incomingMsgQueue[m]) : IncomingOK(m, incomingMsgQueue[m][i])
    /\ \A a \in Addr : \A i \in 1..Len(blockedMsgMap[m][a]) :
         BlockedOK(m, a, blockedMsgMap[m][a][i])
    /\ \A i \in 1..Len(cacheMsgQueue[m]) : RequestOK(m, cacheMsgQueue[m][i])

\* A node that misses a line does not have it.
Misses(a, n) == AboutFrom(a, {"READ_MISS", "WRITE_MISS"}, n)
MissesOK ==
  \A n, m \in Node, a \in Addr :
    cacheLineStatus[n][a] # "I"
      => None(incomingMsgQueue[m], Misses(a, n)) /\ None(blockedMsgMap[m][a], Misses(a, n))

\* Only the first message of a blocked queue may be a request of a home to a holder.
FirstType(n, a) == IF blockedMsgMap[n][a] = <<>> THEN "none" ELSE Head(blockedMsgMap[n][a]).type
HoldersFirst ==
  \A n \in Node, a \in Addr : \A i \in 1..Len(blockedMsgMap[n][a]) :
    i > 1 => blockedMsgMap[n][a][i].type \in HomeRequest

\* The requests that wait at the home of a; the first is served, or none is.
Requests(a) ==
  LET q == blockedMsgMap[Home[a]][a]
  IN  IF FirstType(Home[a], a) \in OwnerRequest THEN Tail(q) ELSE q
Serving(a) == Requests(a) # <<>> /\ Head(Requests(a)).serviced
Served(a) == Head(Requests(a))

\* Where a request of the home to n is: nowhere, on its way, with n's cache, or answered.
Clear(n, a) ==
  /\ None(incomingMsgQueue[n], AsksOf(a))
  /\ FirstType(n, a) \notin OwnerRequest
  /\ None(incomingMsgQueue[Home[a]], AcksOf(a, n))
Asked(n, a, type) ==
  /\ One(incomingMsgQueue[n], AsksOf(a)) /\ ~None(incomingMsgQueue[n], About(a, {type}))
  /\ FirstType(n, a) \notin OwnerRequest
  /\ None(incomingMsgQueue[Home[a]], AcksOf(a, n))
AtHolder(n, a, type) ==
  /\ None(incomingMsgQueue[n], AsksOf(a))
  /\ FirstType(n, a) = type
  /\ None(incomingMsgQueue[Home[a]], AcksOf(a, n))
Answered(n, a, type) ==
  /\ None(incomingMsgQueue[n], AsksOf(a))
  /\ FirstType(n, a) \notin OwnerRequest
  /\ One(incomingMsgQueue[Home[a]], AcksOf(a, n))
  /\ ~None(incomingMsgQueue[Home[a]], AboutFrom(a, {type}, n))

\* What n has of the line a, a grant on its way counted in.
NoGrant(n, a) == None(incomingMsgQueue[n], GrantsOf(a))
Granted(n, a, type) ==
  One(incomingMsgQueue[n], GrantsOf(a)) /\ ~None(incomingMsgQueue[n], About(a, {type}))
Has(n, a, status) == cacheLineStatus[n][a] = status /\ NoGrant(n, a)
Shares(n, a) ==
  \/ Has(n, a, "S")
  \/ /\ cacheLineStatus[n][a] = "I" /\ Granted(n, a, "DATA_VALUE_REPLY")
     /\ currentMemOp[n].type = "read"
Owns(n, a) ==
  \/ \E status \in OwnedLine : Has(n, a, status)
  \/ /\ cacheLineStatus[n][a] = "I" /\ Granted(n, a, "DATA_VALUE_REPLY")
     /\ currentMemOp[n].type = "write"
  \/ /\ cacheLineStatus[n][a] = "I" /\ Granted(n, a, "DATA_VALUE_REPLY_E")
     /\ protocol = "MESI"
  \/ /\ cacheLineStatus[n][a] \in {"S", "I"} /\ Granted(n, a, "INVALIDATE_OTHER_ACK")
Lacks(n, a) == Has(n, a, "I") /\ Clear(n, a)

\* The requests of the home on their way through a holder.
Invalidating(n, a) ==
  \/ Asked(n, a, "INVALIDATE") /\ Shares(n, a)
  \/ AtHolder(n, a, "INVALIDATE") /\ Has(n, a, "I")
  \/ Answered(n, a, "INVALIDATE_ACK") /\ Has(n, a, "I")
Fetching(n, a, type, status) ==
  \/ Asked(n, a, type) /\ Owns(n, a)
  \/ AtHolder(n, a, type) /\ Has(n, a, status)
  \/ Answered(n, a, "DATA_WRITE_BACK") /\ Has(n, a, status)

Mask(a) == directory[a].processorMask
Busy(a) == {n \in Node : ~Clear(n, a)}

\* The home serves no request of the line: the directory knows who has it, ...
AtRest(a) ==
  /\ ~Serving(a)
  /\ pendingInvAckCount[a] = 0
  /\ \A n \in Node \ Mask(a) : Lacks(n, a)
  /\ \/ directory[a].status \in {"ABSENT", "UNCACHED"} /\ Mask(a) = {}
     \/ /\ directory[a].status = "SHARED" /\ Mask(a) # {}
        /\ \A n \in Mask(a) : Shares(n, a) /\ Clear(n, a)
     \/ /\ directory[a].status \in OwnedEntry
        /\ \E o \in Node : Mask(a) = {o} /\ Owns(o, a) /\ Clear(o, a)

\* ... it waits for the ACKs of the sharers, ...
AwaitsAcks(a) ==
  /\ Serving(a) /\ Served(a).type \in {"WRITE_MISS", "INVALIDATE_OTHER"}
  /\ directory[a].status = "SHARED"
  /\ \A n \in Node \ Mask(a) : Lacks(n, a)
  /\ \A n \in Mask(a) :
       IF Served(a).type = "INVALIDATE_OTHER" /\ n = Served(a).src
       THEN Shares(n, a) /\ Clear(n, a)
       ELSE Invalidating(n, a) \/ Lacks(n, a)
  /\ Busy(a) # {} /\ pendingInvAckCount[a] = Cardinality(Busy(a))

\* ... or for the owner.
AwaitsOwner(a) ==
  /\ Serving(a) /\ Served(a).type \in {"READ_MISS", "WRITE_MISS"}
  /\ directory[a].status \in OwnedEntry
  /\ pendingInvAckCount[a] = 0
  /\ \E o \in Node \ {Served(a).src} :
       /\ Mask(a) = {o}
       /\ IF Served(a).type = "READ_MISS" THEN Fetching(o, a, "FETCH", "S")
                                          ELSE Fetching(o, a, "FETCH_INVALIDATE", "I")
       /\ \A n \in Node \ {o} : Lacks(n, a)

\* A grant reaches its node before the next request of the home for the line.
Before(q, S, T) == \A i, j \in 1..Len(q) : q[i] \in S /\ q[j] \in T => i < j
GrantsFirst(a) == \A n \in Node : Before(incomingMsgQueue[n], GrantsOf(a), AsksOf(a))

LineInv(a) == GrantsFirst(a) /\ (AtRest(a) \/ AwaitsAcks(a) \/ AwaitsOwner(a))

\* The request in front of the blocked queue is with the cache once, or its answer is back.
AsCache(a, types) == {r \in CacheMessage : r.addr = a /\ r.type \in types}
CacheAsk == {"CACHE_INVALIDATE", "CACHE_FETCH"}
AtCacheOnce(n, a) ==
  /\ FirstType(n, a) \notin OwnerRequest
       => /\ None(cacheMsgQueue[n], AsCache(a, CacheAsk))
          /\ None(incomingMsgQueue[n], About(a, CacheAnswer))
  /\ \/ None(cacheMsgQueue[n], AsCache(a, CacheAsk))
     \/ None(incomingMsgQueue[n], About(a, CacheAnswer))
  /\ ~None(cacheMsgQueue[n], AsCache(a, CacheAsk)) => One(cacheMsgQueue[n], AsCache(a, CacheAsk))
  /\ ~None(incomingMsgQueue[n], About(a, CacheAnswer))
       => One(incomingMsgQueue[n], About(a, CacheAnswer))
  /\ IF FirstType(n, a) = "FETCH"
     THEN /\ None(cacheMsgQueue[n], AsCache(a, {"CACHE_INVALIDATE"}))
          /\ None(incomingMsgQueue[n], About(a, {"CACHE_INVALIDATE_ACK"}))
     ELSE /\ None(cacheMsgQueue[n], AsCache(a, {"CACHE_FETCH"}))
          /\ None(incomingMsgQueue[n], About(a, {"CACHE_FETCH_ACK"}))

\* Such a request finds the line, or follows the update that brings it.
AsksFound(n, a) ==
  ~Holds(Lines(n, a), a)
    => \A i \in 1..Len(cacheMsgQueue[n]) : cacheMsgQueue[n][i] \in AsCache(a, CacheAsk)
         => \E j \in 1..Len(cacheMsgQueue[n]) : j < i /\ cacheMsgQueue[n][j] \in UpdatesOf(a)

CacheInv == \A n \in Node, a \in Addr : AtCacheOnce(n, a) /\ AsksFound(n, a)

CoherenceInv ==
  /\ OutstandingInv
  /\ \A n \in Node, s \in CacheSets : SetFits(n, s)
  /\ MessagesOK /\ MissesOK /\ HoldersFirst
  /\ \A a \in Addr : LineInv(a)
  /\ CacheInv
  /\ halt = "no"

-------------------------------------------------------------------------------
(* What a step does to the messages of a set S in a queue. *)

\* The same as before; of one it is known that it stays one.
Like(q, r, S) == (None(q, S) <=> None(r, S)) /\ (One(q, S) => One(r, S))

\* Taking the front leaves the messages of S alone, or takes one of them.
LEMMA TailLike ==
  ASSUME NEW q \in Seq(Message), q # <<>>, NEW S
  PROVE  /\ Head(q) \notin S => Like(q, Tail(q), S)
         /\ Head(q) \in S => ~None(q, S) /\ (One(q, S) => None(Tail(q), S))
  BY TailMarks, HoldsMark DEF Like, Keeps, Loses

\* Appending a message leaves those of S alone, or adds one to them.
LEMMA AppendLike ==
  ASSUME NEW q \in Seq(Message), NEW x \in Message, NEW S
  PROVE  /\ x \notin S => Like(q, Append(q, x), S)
         /\ x \in S => ~None(Append(q, x), S) /\ (None(q, S) => One(Append(q, x), S))
  BY AppendMarks, HoldsMark DEF Like, Keeps, Gains

\* That a queue has as many messages of S is reflexive and transitive.
LEMMA LikeTwice ==
  ASSUME NEW q, NEW r, NEW s, NEW S
  PROVE  Like(q, q, S) /\ (Like(q, r, S) /\ Like(r, s, S) => Like(q, s, S))
  BY DEF Like

\* The order of two kinds of messages.
LEMMA TailBefore ==
  ASSUME NEW q \in Seq(Message), q # <<>>, NEW S, NEW T, Before(q, S, T)
  PROVE  Before(Tail(q), S, T) /\ (Head(q) \in T => None(q, S))
<1>1. /\ Len(Tail(q)) = Len(q) - 1 /\ Len(q) \in Nat /\ Len(q) >= 1 /\ Head(q) = q[1]
      /\ \A i \in 1..Len(Tail(q)) : Tail(q)[i] = q[i + 1]
  BY HeadTailProperties, EmptySeq, LenProperties
<1>2. Before(Tail(q), S, T)
  <2> SUFFICES ASSUME NEW i \in 1..Len(Tail(q)), NEW j \in 1..Len(Tail(q)),
                      Tail(q)[i] \in S, Tail(q)[j] \in T
               PROVE  i < j
    BY DEF Before
  <2>1. i + 1 \in 1..Len(q) /\ j + 1 \in 1..Len(q) BY <1>1
  <2>2. q[i + 1] \in S /\ q[j + 1] \in T BY <1>1
  <2>3. i + 1 < j + 1 BY <2>1, <2>2 DEF Before
  <2> QED BY <1>1, <2>3
<1>3. Head(q) \in T => None(q, S)
  <2> SUFFICES ASSUME Head(q) \in T, NEW i \in 1..Len(q), q[i] \in S PROVE FALSE
    BY DEF None
  <2>1. 1 \in 1..Len(q) BY <1>1
  <2>2. i < 1 BY <1>1, <2>1 DEF Before
  <2> QED BY <2>2
<1> QED BY <1>2, <1>3

\* Appending keeps S in front of T, where no message of T waits for one of S.
LEMMA AppendBefore ==
  ASSUME NEW q \in Seq(Message), NEW x \in Message, NEW S, NEW T, Before(q, S, T),
         x \in S => None(q, T) /\ x \notin T
  PROVE  Before(Append(q, x), S, T)
<1> DEFINE r == Append(q, x)
<1>1. /\ Len(q) \in Nat /\ Len(r) = Len(q) + 1 /\ r[Len(q) + 1] = x
      /\ \A i \in 1..Len(q) : r[i] = q[i]
  BY AppendProperties, LenProperties
<1> HIDE DEF r
<1> SUFFICES ASSUME NEW i \in 1..Len(r), NEW j \in 1..Len(r), r[i] \in S, r[j] \in T
             PROVE  i < j
  BY DEF Before, r
<1>2. CASE i \in 1..Len(q) /\ j \in 1..Len(q) BY <1>1, <1>2 DEF Before
<1>3. CASE i = Len(q) + 1
  <2>1. x \in S BY <1>1, <1>3
  <2>2. j # Len(q) + 1 BY <1>1, <2>1
  <2>3. j \in 1..Len(q) BY <1>1, <2>2
  <2> QED BY <1>1, <2>1, <2>3 DEF None
<1>4. CASE i \in 1..Len(q) /\ j = Len(q) + 1 BY <1>1, <1>4
<1> QED BY <1>1, <1>2, <1>3, <1>4

\* The queues without the message in hand.
LEMMA RestLike ==
  ASSUME TypeOK, NEW n \in Node, Handling(n), NEW m \in Node
  PROVE  /\ Rest(n)[m] \in Seq(Message)
         /\ \A S : /\ Draining \/ m # n \/ Current(n) \notin S
                        => Like(incomingMsgQueue[m], Rest(n)[m], S)
                   /\ ~Draining /\ m = n /\ Current(n) \in S
                        => /\ ~None(incomingMsgQueue[m], S)
                           /\ One(incomingMsgQueue[m], S) => None(Rest(n)[m], S)
         /\ \A S, T : Before(incomingMsgQueue[m], S, T) => Before(Rest(n)[m], S, T)
<1>1. incomingMsgQueue \in [Node -> Seq(Message)] BY DEF TypeOK
<1>2. CASE Draining \/ m # n
  <2>1. Rest(n)[m] = incomingMsgQueue[m] BY <1>1, <1>2 DEF Rest
  <2> QED BY <1>1, <1>2, <2>1, LikeTwice
<1>3. CASE ~Draining /\ m = n
  <2>1. incomingMsgQueue[n] \in Seq(Message) /\ incomingMsgQueue[n] # <<>>
    BY <1>1, <1>3 DEF Handling, Arrived
  <2>2. Rest(n)[n] = Tail(incomingMsgQueue[n]) /\ Current(n) = Head(incomingMsgQueue[n])
    BY <1>1, <1>3 DEF Rest, Current
  <2>3. Tail(incomingMsgQueue[n]) \in Seq(Message) BY <2>1, HeadTailProperties
  <2> QED BY <1>3, <2>1, <2>2, <2>3, TailLike, TailBefore
<1> QED BY <1>2, <1>3

\* The queues after an answer.
LEMMA ReplyLike ==
  ASSUME TypeOK, NEW n \in Node, Handling(n), NEW dsts, NEW type \in MessageType,
         Reply(n, dsts, type), NEW m \in Node
  PROVE  LET x == NewMessage(n, A(n), type, nodeLatency)
         IN  /\ x \in Message
             /\ \A S : LET taken == ~Draining /\ m = n /\ Current(n) \in S
                           sent == m \in dsts /\ x \in S
                       IN  /\ ~taken /\ ~sent => Like(incomingMsgQueue[m], incomingMsgQueue'[m], S)
                           /\ taken /\ ~sent
                                => /\ ~None(incomingMsgQueue[m], S)
                                   /\ One(incomingMsgQueue[m], S) => None(incomingMsgQueue'[m], S)
                           /\ ~taken /\ sent
                                => /\ ~None(incomingMsgQueue'[m], S)
                                   /\ None(incomingMsgQueue[m], S) => One(incomingMsgQueue'[m], S)
             /\ \A S, T : /\ Before(incomingMsgQueue[m], S, T)
                          /\ m \in dsts /\ x \in S
                               => /\ None(incomingMsgQueue[m], T) /\ x \notin T
                                  /\ ~(~Draining /\ m = n /\ Current(n) \in T)
                          => Before(incomingMsgQueue'[m], S, T)
<1> DEFINE x == NewMessage(n, A(n), type, nodeLatency)
           q == incomingMsgQueue[m]
           p == Rest(n)[m]
<1>1. A(n) \in Addr /\ nodeLatency \in Nat BY CurrentType DEF TypeOK
<1>2. x \in Message BY <1>1, NewMessageType
<1>3. incomingMsgQueue'[m] = IF m \in dsts THEN Append(p, x) ELSE p
  BY DEF Reply, SendMsgToNode, A
<1>4. p \in Seq(Message) BY RestLike
<1>5. \A S : /\ Draining \/ m # n \/ Current(n) \notin S => Like(q, p, S)
             /\ ~Draining /\ m = n /\ Current(n) \in S
                  => ~None(q, S) /\ (One(q, S) => None(p, S))
  BY RestLike
<1>6. \A S, T : Before(q, S, T) => Before(p, S, T) BY RestLike
<1> HIDE DEF x, p, q
<1>7. \A S : LET taken == ~Draining /\ m = n /\ Current(n) \in S
                 sent == m \in dsts /\ x \in S
             IN  /\ ~taken /\ ~sent => Like(q, incomingMsgQueue'[m], S)
                 /\ taken /\ ~sent => ~None(q, S) /\ (One(q, S) => None(incomingMsgQueue'[m], S))
                 /\ ~taken /\ sent => /\ ~None(incomingMsgQueue'[m], S)
                                      /\ None(q, S) => One(incomingMsgQueue'[m], S)
  <2> TAKE S
  <2>1. CASE m \notin dsts BY <1>3, <1>5, <2>1
  <2>2. CASE m \in dsts
    <3>1. /\ x \notin S => Like(p, incomingMsgQueue'[m], S)
          /\ x \in S => /\ ~None(incomingMsgQueue'[m], S)
                        /\ None(p, S) => One(incomingMsgQueue'[m], S)
      BY <1>2, <1>3, <1>4, <2>2, AppendLike
    <3> QED BY <1>5, <2>2, <3>1 DEF Like
  <2> QED BY <2>1, <2>2
<1>8. \A S, T : /\ Before(q, S, T)
                /\ m \in dsts /\ x \in S
                     => None(q, T) /\ x \notin T /\ ~(~Draining /\ m = n /\ Current(n) \in T)
                => Before(incomingMsgQueue'[m], S, T)
  <2> SUFFICES ASSUME NEW S, NEW T, Before(q, S, T),
                      m \in dsts /\ x \in S
                        => None(q, T) /\ x \notin T /\ ~(~Draining /\ m = n /\ Current(n) \in T)
               PROVE  Before(incomingMsgQueue'[m], S, T)
    OBVIOUS
  <2>1. Before(p, S, T) BY <1>6
  <2>2. CASE m \notin dsts BY <1>3, <2>1, <2>2
  <2>3. CASE m \in dsts
    <3>1. x \in S => None(p, T) BY <1>5, <2>3 DEF Like
    <3> QED BY <1>2, <1>3, <1>4, <2>1, <2>3, <3>1, AppendBefore
  <2> QED BY <2>2, <2>3
<1> QED BY <1>2, <1>7, <1>8 DEF x, q

\* The messages of S, by what becomes of them.
LEMMA Unmoved ==
  ASSUME TypeOK, NEW n \in Node, Handling(n), NEW dsts, NEW type \in MessageType,
         Reply(n, dsts, type), NEW m \in Node, NEW S,
         Draining \/ m # n \/ Current(n) \notin S,
         m \notin dsts \/ NewMessage(n, A(n), type, nodeLatency) \notin S
  PROVE  Like(incomingMsgQueue[m], incomingMsgQueue'[m], S)
  BY ReplyLike

\* A message taken up from the queue is gone from it, where its handler sends none like it.
LEMMA Taken ==
  ASSUME TypeOK, NEW n \in Node, Handling(n), ~Draining, NEW dsts, NEW type \in MessageType,
         Reply(n, dsts, type), NEW S, Current(n) \in S,
         n \notin dsts \/ NewMessage(n, A(n), type, nodeLatency) \notin S
  PROVE  /\ ~None(incomingMsgQueue[n], S)
         /\ One(incomingMsgQueue[n], S) => None(incomingMsgQueue'[n], S)
  BY ReplyLike

\* A message sent is in the queue of the node it is sent to, once if there was none.
LEMMA Sent ==
  ASSUME TypeOK, NEW n \in Node, Handling(n), NEW dsts, NEW type \in MessageType,
         Reply(n, dsts, type), NEW m \in Node, m \in dsts, NEW S,
         Draining \/ m # n \/ Current(n) \notin S,
         NewMessage(n, A(n), type, nodeLatency) \in S
  PROVE  /\ ~None(incomingMsgQueue'[m], S)
         /\ None(incomingMsgQueue[m], S) => One(incomingMsgQueue'[m], S)
  BY ReplyLike

\* No answer is an answer to nobody.
LEMMA NoReplyIsReply ==
  ASSUME TypeOK, NEW n \in Node, Handling(n), NoReply(n)
  PROVE  Reply(n, {}, "ROLLBACK") /\ "ROLLBACK" \in MessageType
<1>1. Rest(n) \in [Node -> Seq(Message)] BY CurrentType
<1>2. Rest(n) = [d \in Node |-> Rest(n)[d]] BY <1>1
<1>3. "ROLLBACK" \in MessageType BY DEF MessageType, NodeReply
<1> QED BY <1>2, <1>3 DEF NoReply, Reply, SendMsgToNode

-------------------------------------------------------------------------------
(* What keeps the roles of a node. *)

\* What n has of the line a stays as it is, ...
GrantSame(n, a) ==
  /\ \A types \in SUBSET Grant :
       Like(incomingMsgQueue[n], incomingMsgQueue'[n], About(a, types))
  /\ cacheLineStatus'[n][a] = cacheLineStatus[n][a]
  /\ NoGrant(n, a) \/ currentMemOp'[n] = currentMemOp[n]

\* ... and where the home's request to it is.
FirstSame(n, a) ==
  \/ FirstType(n, a)' = FirstType(n, a)
  \/ FirstType(n, a)' \notin OwnerRequest /\ FirstType(n, a) \notin OwnerRequest
AsksSame(n, a) ==
  \A types \in SUBSET OwnerRequest :
    Like(incomingMsgQueue[n], incomingMsgQueue'[n], About(a, types))
AcksSame(n, a) ==
  \A types \in SUBSET HomeAnswer :
    Like(incomingMsgQueue[Home[a]], incomingMsgQueue'[Home[a]], AboutFrom(a, types, n))
TokenSame(n, a) == AsksSame(n, a) /\ AcksSame(n, a) /\ FirstSame(n, a)

\* Where status, grants and the operation stay, a node shares or owns the line as before.
LEMMA GrantKept ==
  ASSUME NEW n \in Node, NEW a \in Addr, GrantSame(n, a), protocol' = protocol
  PROVE  /\ \A status : Has(n, a, status)' <=> Has(n, a, status)
         /\ Shares(n, a) => Shares(n, a)'
         /\ Owns(n, a) => Owns(n, a)'
<1>1. NoGrant(n, a)' <=> NoGrant(n, a) BY DEF GrantSame, NoGrant, GrantsOf, Like
<1>2. \A status : Has(n, a, status)' <=> Has(n, a, status) BY <1>1 DEF Has, GrantSame
<1>3. \A type \in Grant : Granted(n, a, type) => Granted(n, a, type)'
  BY DEF GrantSame, Granted, GrantsOf, Like
<1>4. \A type \in Grant : Granted(n, a, type) => currentMemOp'[n] = currentMemOp[n]
  BY NoneOrOne DEF GrantSame, Granted, GrantsOf, NoGrant
<1>5. OwnedLine' = OwnedLine BY DEF OwnedLine
<1>6. {"DATA_VALUE_REPLY", "DATA_VALUE_REPLY_E", "INVALIDATE_OTHER_ACK"} = Grant BY DEF Grant
<1>7. Shares(n, a) => Shares(n, a)' BY <1>2, <1>3, <1>4, <1>6 DEF Shares, GrantSame
<1>8. Owns(n, a) => Owns(n, a)' BY <1>2, <1>3, <1>4, <1>5, <1>6 DEF Owns, GrantSame
<1> QED BY <1>2, <1>7, <1>8

\* Where a node's requests and ACKs stay, its part in the transaction stays.
LEMMA TokenKept ==
  ASSUME NEW n \in Node, NEW a \in Addr, TokenSame(n, a)
  PROVE  /\ Clear(n, a)' <=> Clear(n, a)
         /\ \A type \in OwnerRequest : /\ Asked(n, a, type) => Asked(n, a, type)'
                                       /\ AtHolder(n, a, type) => AtHolder(n, a, type)'
         /\ \A type \in HomeAnswer : Answered(n, a, type) => Answered(n, a, type)'
<1>1. /\ Like(incomingMsgQueue[n], incomingMsgQueue'[n], AsksOf(a))
      /\ \A type \in OwnerRequest :
           Like(incomingMsgQueue[n], incomingMsgQueue'[n], About(a, {type}))
  BY DEF TokenSame, AsksSame, AsksOf
<1>2. /\ Like(incomingMsgQueue[Home[a]], incomingMsgQueue'[Home[a]], AcksOf(a, n))
      /\ \A type \in HomeAnswer :
           Like(incomingMsgQueue[Home[a]], incomingMsgQueue'[Home[a]], AboutFrom(a, {type}, n))
  BY DEF TokenSame, AcksSame, AcksOf
<1>3. FirstSame(n, a) BY DEF TokenSame
<1>4. Clear(n, a)' <=> Clear(n, a) BY <1>1, <1>2, <1>3 DEF Clear, Like, FirstSame
<1>5. ASSUME NEW type \in OwnerRequest
      PROVE  /\ Asked(n, a, type) => Asked(n, a, type)'
             /\ AtHolder(n, a, type) => AtHolder(n, a, type)'
  BY <1>1, <1>2, <1>3 DEF Asked, AtHolder, Like, FirstSame
<1>6. ASSUME NEW type \in HomeAnswer
      PROVE  Answered(n, a, type) => Answered(n, a, type)'
  BY <1>1, <1>2, <1>3 DEF Answered, Like, FirstSame
<1> QED BY <1>4, <1>5, <1>6

\* What n has to do with the line: the roles LineInv is made of.
RolesStay(n, a) ==
  /\ Lacks(n, a) => Lacks(n, a)'
  /\ Shares(n, a) => Shares(n, a)'
  /\ Owns(n, a) => Owns(n, a)'
  /\ Clear(n, a)' <=> Clear(n, a)
  /\ Invalidating(n, a) => Invalidating(n, a)'
  /\ \A type \in OwnerRequest, status \in {"S", "I"} :
       Fetching(n, a, type, status) => Fetching(n, a, type, status)'

\* Both together: the part of a node in the line's phase stays.
LEMMA RolesKept ==
  ASSUME NEW n \in Node, NEW a \in Addr, GrantSame(n, a), TokenSame(n, a), protocol' = protocol
  PROVE  RolesStay(n, a)
<1>1. "INVALIDATE" \in OwnerRequest /\ "INVALIDATE_ACK" \in HomeAnswer
      /\ "DATA_WRITE_BACK" \in HomeAnswer
  BY DEF OwnerRequest, HomeAnswer
<1>2. Lacks(n, a) => Lacks(n, a)' BY GrantKept, TokenKept DEF Lacks
<1>3. /\ Shares(n, a) => Shares(n, a)'
      /\ Owns(n, a) => Owns(n, a)'
      /\ Clear(n, a)' <=> Clear(n, a)
  BY GrantKept, TokenKept
<1>4. Invalidating(n, a) => Invalidating(n, a)'
  BY <1>1, GrantKept, TokenKept DEF Invalidating
<1>5. \A type \in OwnerRequest : \A status :
        Fetching(n, a, type, status) => Fetching(n, a, type, status)'
  BY <1>1, GrantKept, TokenKept DEF Fetching
<1> QED BY <1>2, <1>3, <1>4, <1>5 DEF RolesStay

\* A node that neither lacks the line nor has it in the states S and I alone goes on
\* sharing or owning it: a grant arrives, or an exclusive line is written.
LEMMA RightKept ==
  ASSUME NEW n \in Node, NEW a \in Addr, ~Has(n, a, "I"), ~Has(n, a, "S"), TokenSame(n, a),
         Shares(n, a) => Shares(n, a)', Owns(n, a) => Owns(n, a)'
  PROVE  RolesStay(n, a)
<1>1. "INVALIDATE" \in OwnerRequest BY DEF OwnerRequest
<1>2. ~Lacks(n, a) BY DEF Lacks
<1>3. Clear(n, a)' <=> Clear(n, a) BY TokenKept
<1>4. Invalidating(n, a) => Invalidating(n, a)'
  BY <1>1, TokenKept DEF Invalidating
<1>5. \A type \in OwnerRequest, status \in {"S", "I"} :
        Fetching(n, a, type, status) => Fetching(n, a, type, status)'
  BY TokenKept DEF Fetching
<1> QED BY <1>2, <1>3, <1>4, <1>5 DEF RolesStay

\* The home serves what it served before, and its entry is the same but for one that is
\* made when it is looked up.
ServingSame(a) ==
  /\ Serving(a)' <=> Serving(a)
  /\ Serving(a) => Served(a)' = Served(a)
DirSame(a) ==
  /\ Mask(a)' = Mask(a)
  /\ \/ directory'[a].status = directory[a].status
     \/ {directory'[a].status, directory[a].status} \subseteq {"ABSENT", "UNCACHED"}

\* The nodes of a directory entry are nodes.
LEMMA MaskType ==
  ASSUME TypeOK, NEW a \in Addr
  PROVE  Mask(a) \subseteq Node /\ directory[a] \in Entries(Node)
  BY DEF TypeOK, Mask, Entries

\* A line keeps its phase where the home's part and that of every node stay.
LEMMA LineKept ==
  ASSUME TypeOK, NEW a \in Addr, LineInv(a), ServingSame(a), DirSame(a), protocol' = protocol,
         pendingInvAckCount'[a] = pendingInvAckCount[a], GrantsFirst(a)',
         \A n \in Node : RolesStay(n, a)
  PROVE  LineInv(a)'
<1>0. OwnedEntry' = OwnedEntry /\ "SHARED" \notin OwnedEntry /\ "UNCACHED" \notin OwnedEntry
      /\ "ABSENT" \notin OwnedEntry
  BY DEF OwnedEntry
<1>a. Mask(a) \subseteq Node /\ Mask(a)' = Mask(a) BY MaskType DEF DirSame
<1>b. (\A n \in Node \ Mask(a) : Lacks(n, a)) => \A n \in Node \ Mask(a)' : Lacks(n, a)'
  BY <1>a DEF RolesStay
<1>c. directory[a].status \in {"SHARED"} \cup OwnedEntry =>
        directory'[a].status = directory[a].status
  BY <1>0 DEF DirSame
<1>1. CASE AtRest(a)
  <2>1. /\ ~Serving(a)' /\ pendingInvAckCount'[a] = 0
        /\ \A n \in Node \ Mask(a)' : Lacks(n, a)'
    BY <1>1, <1>b DEF AtRest, ServingSame
  <2>2. CASE directory[a].status \in {"ABSENT", "UNCACHED"} /\ Mask(a) = {}
    <3>1. directory'[a].status \in {"ABSENT", "UNCACHED"} /\ Mask(a)' = {}
      BY <1>a, <2>2 DEF DirSame
    <3>2. AtRest(a)' BY <2>1, <3>1 DEF AtRest
    <3> QED BY <3>2 DEF LineInv
  <2>3. CASE /\ directory[a].status = "SHARED" /\ Mask(a) # {}
             /\ \A n \in Mask(a) : Shares(n, a) /\ Clear(n, a)
    <3>1. \A n \in Mask(a)' : Shares(n, a)' /\ Clear(n, a)' BY <1>a, <2>3 DEF RolesStay
    <3>2. directory'[a].status = "SHARED" /\ Mask(a)' # {} BY <1>a, <1>c, <2>3
    <3>3. AtRest(a)' BY <2>1, <3>1, <3>2 DEF AtRest
    <3> QED BY <3>3 DEF LineInv
  <2>4. CASE /\ directory[a].status \in OwnedEntry
             /\ \E o \in Node : Mask(a) = {o} /\ Owns(o, a) /\ Clear(o, a)
    <3>1. directory'[a].status \in OwnedEntry' BY <1>0, <1>c, <2>4
    <3>2. PICK o \in Node : Mask(a) = {o} /\ Owns(o, a) /\ Clear(o, a) BY <2>4
    <3>3. Mask(a)' = {o} /\ Owns(o, a)' /\ Clear(o, a)' BY <1>a, <3>2 DEF RolesStay
    <3>4. AtRest(a)' BY <2>1, <3>1, <3>3 DEF AtRest
    <3> QED BY <3>4 DEF LineInv
  <2> QED BY <1>1, <2>2, <2>3, <2>4 DEF AtRest
<1>2. CASE AwaitsAcks(a)
  <2>1. /\ Serving(a)' /\ Served(a)' = Served(a)
        /\ Served(a).type \in {"WRITE_MISS", "INVALIDATE_OTHER"}
        /\ directory[a].status = "SHARED"
    BY <1>2 DEF AwaitsAcks, ServingSame
  <2>2. directory'[a].status = "SHARED" /\ \A n \in Node \ Mask(a)' : Lacks(n, a)'
    BY <1>2, <1>b, <1>c, <2>1 DEF AwaitsAcks
  <2>3. \A n \in Mask(a)' :
          IF Served(a)'.type = "INVALIDATE_OTHER" /\ n = Served(a)'.src
          THEN Shares(n, a)' /\ Clear(n, a)'
          ELSE Invalidating(n, a)' \/ Lacks(n, a)'
    <3> TAKE n \in Mask(a)'
    <3>1. n \in Node /\ n \in Mask(a) BY <1>a
    <3>2. IF Served(a).type = "INVALIDATE_OTHER" /\ n = Served(a).src
          THEN Shares(n, a) /\ Clear(n, a)
          ELSE Invalidating(n, a) \/ Lacks(n, a)
      BY <1>2, <3>1 DEF AwaitsAcks
    <3> QED BY <2>1, <3>1, <3>2 DEF RolesStay
  <2>4. Busy(a)' = Busy(a) BY DEF Busy, RolesStay
  <2>5. Busy(a)' # {} /\ pendingInvAckCount'[a] = Cardinality(Busy(a)')
    BY <1>2, <2>4 DEF AwaitsAcks
  <2>6. AwaitsAcks(a)' BY <2>1, <2>2, <2>3, <2>5 DEF AwaitsAcks
  <2> QED BY <2>6 DEF LineInv
<1>3. CASE AwaitsOwner(a)
  <2>1. /\ Serving(a)' /\ Served(a)' = Served(a)
        /\ Served(a).type \in {"READ_MISS", "WRITE_MISS"}
        /\ directory'[a].status \in OwnedEntry'
        /\ pendingInvAckCount'[a] = 0
    BY <1>0, <1>3, <1>c DEF AwaitsOwner, ServingSame
  <2>2. PICK o \in Node \ {Served(a).src} :
          /\ Mask(a) = {o}
          /\ IF Served(a).type = "READ_MISS" THEN Fetching(o, a, "FETCH", "S")
                                             ELSE Fetching(o, a, "FETCH_INVALIDATE", "I")
          /\ \A n \in Node \ {o} : Lacks(n, a)
    BY <1>3 DEF AwaitsOwner
  <2>3. {"FETCH", "FETCH_INVALIDATE"} \subseteq OwnerRequest BY DEF OwnerRequest
  <2>4. IF Served(a)'.type = "READ_MISS" THEN Fetching(o, a, "FETCH", "S")'
                                         ELSE Fetching(o, a, "FETCH_INVALIDATE", "I")'
    BY <2>1, <2>2, <2>3 DEF RolesStay
  <2>5. \A n \in Node \ {o} : Lacks(n, a)' BY <2>2 DEF RolesStay
  <2>6. AwaitsOwner(a)' BY <1>a, <2>1, <2>2, <2>4, <2>5 DEF AwaitsOwner
  <2> QED BY <2>6 DEF LineInv
<1> QED BY <1>1, <1>2, <1>3 DEF LineInv

-------------------------------------------------------------------------------
(* The message in hand, and what an answer changes for a line. *)

\* What the kinds of message have in common and what keeps them apart.
LEMMA Kinds ==
  /\ Grant \subseteq NodeReply /\ HomeAnswer \subseteq NodeReply /\ CacheAnswer \subseteq CacheReply
  /\ Grant \subseteq Answers
  /\ \A type \in Grant : type \notin HomeAnswer \cup OwnerRequest \cup HomeRequest \cup CacheReply
  /\ \A type \in HomeAnswer : type \notin OwnerRequest \cup HomeRequest \cup CacheReply \cup Answers
  /\ \A type \in OwnerRequest : type \notin HomeRequest \cup CacheReply \cup Answers
  /\ \A type \in HomeRequest : type \notin CacheReply \cup Answers
  /\ CacheReply \cup HomeRequest \cup OwnerRequest \cup NodeReply = MessageType
  BY DEF Grant, HomeAnswer, CacheAnswer, NodeReply, CacheReply, HomeRequest, OwnerRequest,
         MessageType, Answers

\* The message in hand is about its own line, and from its own source.
LEMMA HandAbout ==
  ASSUME TypeOK, NEW n \in Node, Handling(n), NEW b, NEW types
  PROVE  /\ Current(n) \in About(b, types) <=> b = A(n) /\ Current(n).type \in types
         /\ \A m : Current(n) \in AboutFrom(b, types, m)
                     <=> b = A(n) /\ Current(n).type \in types /\ m = Source(n)
  BY CurrentType DEF About, AboutFrom, A, Source

\* So is the one that is sent, from the node that handles.
LEMMA SentAbout ==
  ASSUME TypeOK, NEW n \in Node, Handling(n), NEW type \in MessageType, NEW b, NEW types
  PROVE  LET x == NewMessage(n, A(n), type, nodeLatency)
         IN  /\ x \in About(b, types) <=> b = A(n) /\ type \in types
             /\ \A m : x \in AboutFrom(b, types, m) <=> b = A(n) /\ type \in types /\ m = n
<1>1. A(n) \in Addr /\ nodeLatency \in Nat BY CurrentType DEF TypeOK
<1>2. NewMessage(n, A(n), type, nodeLatency) \in Message BY <1>1, NewMessageType
<1> QED BY <1>2 DEF About, AboutFrom, NewMessage

\* Grants, requests of the home and answers to it that are neither taken nor sent.
LEMMA GrantsUnmoved ==
  ASSUME TypeOK, NEW n \in Node, Handling(n), NEW dsts, NEW type \in MessageType,
         Reply(n, dsts, type), NEW m \in Node, NEW b \in Addr,
         b = A(n) => /\ ~Draining /\ m = n => Current(n).type \notin Grant
                     /\ m \in dsts => type \notin Grant
  PROVE  \A types \in SUBSET Grant :
           Like(incomingMsgQueue[m], incomingMsgQueue'[m], About(b, types))
<1> TAKE types \in SUBSET Grant
<1> DEFINE x == NewMessage(n, A(n), type, nodeLatency)
           S == About(b, types)
<1>1. Current(n) \in S <=> b = A(n) /\ Current(n).type \in types BY HandAbout
<1>2. x \in S <=> b = A(n) /\ type \in types BY SentAbout
<1>3. (Draining \/ m # n \/ Current(n) \notin S) /\ (m \notin dsts \/ x \notin S) BY <1>1, <1>2
<1> QED BY <1>3, Unmoved

\* A handler leaves a node's requests of the home alone unless it takes or sends one.
LEMMA AsksUnmoved ==
  ASSUME TypeOK, NEW n \in Node, Handling(n), NEW dsts, NEW type \in MessageType,
         Reply(n, dsts, type), NEW m \in Node, NEW b \in Addr,
         b = A(n) => /\ ~Draining /\ m = n => Current(n).type \notin OwnerRequest
                     /\ m \in dsts => type \notin OwnerRequest
  PROVE  AsksSame(m, b)
<1> SUFFICES ASSUME NEW types \in SUBSET OwnerRequest
             PROVE  Like(incomingMsgQueue[m], incomingMsgQueue'[m], About(b, types))
  BY DEF AsksSame
<1> DEFINE x == NewMessage(n, A(n), type, nodeLatency)
           S == About(b, types)
<1>1. Current(n) \in S <=> b = A(n) /\ Current(n).type \in types BY HandAbout
<1>2. x \in S <=> b = A(n) /\ type \in types BY SentAbout
<1>3. (Draining \/ m # n \/ Current(n) \notin S) /\ (m \notin dsts \/ x \notin S) BY <1>1, <1>2
<1> QED BY <1>3, Unmoved

\* Nor does it touch a node's ACKs unless it takes or sends one.
LEMMA AcksUnmoved ==
  ASSUME TypeOK, NEW n \in Node, Handling(n), NEW dsts, NEW type \in MessageType,
         Reply(n, dsts, type), NEW m \in Node, NEW b \in Addr,
         b = A(n) => /\ ~Draining /\ n = Home[b] /\ m = Source(n)
                          => Current(n).type \notin HomeAnswer
                     /\ Home[b] \in dsts /\ m = n => type \notin HomeAnswer
  PROVE  AcksSame(m, b)
<1> SUFFICES ASSUME NEW types \in SUBSET HomeAnswer
             PROVE  Like(incomingMsgQueue[Home[b]], incomingMsgQueue'[Home[b]],
                         AboutFrom(b, types, m))
  BY DEF AcksSame
<1> DEFINE x == NewMessage(n, A(n), type, nodeLatency)
           S == AboutFrom(b, types, m)
<1>0. Home[b] \in Node BY ContextAssumption
<1>1. Current(n) \in S <=> b = A(n) /\ Current(n).type \in types /\ m = Source(n) BY HandAbout
<1>2. x \in S <=> b = A(n) /\ type \in types /\ m = n BY SentAbout
<1>3. /\ Draining \/ Home[b] # n \/ Current(n) \notin S
      /\ Home[b] \notin dsts \/ x \notin S
  BY <1>1, <1>2
<1> QED BY <1>0, <1>3, Unmoved

\* Grants stay in front of requests where a grant is sent only to who has none.
LEMMA OrderUnmoved ==
  ASSUME TypeOK, NEW n \in Node, Handling(n), NEW dsts, NEW type \in MessageType,
         Reply(n, dsts, type), NEW b \in Addr, GrantsFirst(b),
         b = A(n) /\ type \in Grant
           => \A m \in Node : m \in dsts => None(incomingMsgQueue[m], AsksOf(b))
  PROVE  GrantsFirst(b)'
<1> SUFFICES ASSUME NEW m \in Node
             PROVE  Before(incomingMsgQueue'[m], GrantsOf(b), AsksOf(b))
  BY DEF GrantsFirst
<1> DEFINE x == NewMessage(n, A(n), type, nodeLatency)
           S == GrantsOf(b)
           T == AsksOf(b)
           q == incomingMsgQueue[m]
<1>1. Before(q, S, T) BY DEF GrantsFirst
<1>2. (x \in S <=> b = A(n) /\ type \in Grant) /\ (x \in T <=> b = A(n) /\ type \in OwnerRequest)
  BY SentAbout DEF GrantsOf, AsksOf
<1>3. ~Draining /\ m = n /\ Current(n) \in T => ~None(q, T)
  <2> SUFFICES ASSUME ~Draining, m = n, Current(n) \in T PROVE ~None(q, T) OBVIOUS
  <2>1. q \in Seq(Message) /\ q # <<>> /\ Current(n) = Head(q)
    BY DEF Handling, Arrived, TypeOK, Current
  <2>2. 1 \in 1..Len(q) /\ Head(q) = q[1]
    BY <2>1, HeadTailProperties, EmptySeq, LenProperties
  <2> HIDE DEF T, q
  <2> QED BY <2>1, <2>2 DEF None
<1>4. m \in dsts /\ x \in S
        => None(q, T) /\ x \notin T /\ ~(~Draining /\ m = n /\ Current(n) \in T)
  BY <1>2, <1>3, Kinds
<1> HIDE DEF S, T, q
<1>5. \A U, V : /\ Before(q, U, V)
                /\ m \in dsts /\ x \in U
                     => None(q, V) /\ x \notin V /\ ~(~Draining /\ m = n /\ Current(n) \in V)
                => Before(incomingMsgQueue'[m], U, V)
  BY ReplyLike DEF q
<1>6. Before(incomingMsgQueue'[m], S, T) BY <1>1, <1>4, <1>5
<1> QED BY <1>6 DEF S, T

\* A line that is not the line of the message in hand.
LEMMA OtherLine ==
  ASSUME TypeOK, NEW n \in Node, Handling(n), NEW dsts, NEW type \in MessageType,
         Reply(n, dsts, type), NEW b \in Addr \ {A(n)}, NEW m \in Node
  PROVE  /\ \A types \in SUBSET Grant :
              Like(incomingMsgQueue[m], incomingMsgQueue'[m], About(b, types))
         /\ AsksSame(m, b) /\ AcksSame(m, b)
         /\ GrantsFirst(b) => GrantsFirst(b)'
  BY GrantsUnmoved, AsksUnmoved, AcksUnmoved, OrderUnmoved

-------------------------------------------------------------------------------
(* One message of a line arrives or is taken. *)

\* The message in hand came in by the front of the incoming queue.
LEMMA InHand ==
  ASSUME TypeOK, NEW n \in Node, Handling(n), ~Draining
  PROVE  /\ incomingMsgQueue[n] \in Seq(Message) /\ incomingMsgQueue[n] # <<>>
         /\ 1 \in 1..Len(incomingMsgQueue[n])
         /\ Current(n) = incomingMsgQueue[n][1] /\ Current(n) = Head(incomingMsgQueue[n])
         /\ \A S : Current(n) \in S => ~None(incomingMsgQueue[n], S)
<1>1. incomingMsgQueue[n] \in Seq(Message) /\ incomingMsgQueue[n] # <<>>
  BY DEF Handling, Arrived, TypeOK
<1>2. 1 \in 1..Len(incomingMsgQueue[n]) /\ Head(incomingMsgQueue[n]) = incomingMsgQueue[n][1]
  BY <1>1, HeadTailProperties, EmptySeq, LenProperties
<1>3. Current(n) = incomingMsgQueue[n][1] /\ Current(n) = Head(incomingMsgQueue[n])
  BY <1>2 DEF Current
<1> QED BY <1>1, <1>2, <1>3 DEF None

\* A grant sent to a node that has none is the one on its way to it.
LEMMA GrantArrives ==
  ASSUME TypeOK, NEW n \in Node, Handling(n), NEW a \in Addr, a = A(n),
         NEW dsts, NEW type \in Grant, Reply(n, dsts, type),
         NEW m \in Node, m \in dsts, NoGrant(m, a),
         Draining \/ m # n \/ Current(n).type \notin Grant
  PROVE  Granted(m, a, type)'
<1> DEFINE x == NewMessage(n, A(n), type, nodeLatency)
<1>0. type \in MessageType BY Kinds DEF MessageType
<1>1. \A types : /\ Current(n) \in About(a, types) <=> Current(n).type \in types
                 /\ x \in About(a, types) <=> type \in types
  BY <1>0, HandAbout, SentAbout
<1>3. One(incomingMsgQueue'[m], About(a, Grant))
  BY <1>0, <1>1, Sent DEF NoGrant, GrantsOf
<1>4. ~None(incomingMsgQueue'[m], About(a, {type}))
  BY <1>0, <1>1, Sent
<1> QED BY <1>3, <1>4 DEF Granted, GrantsOf

\* A request of the home sent to a node with none asks it.
LEMMA AskArrives ==
  ASSUME TypeOK, NEW n \in Node, Handling(n), NEW a \in Addr, a = A(n),
         NEW dsts, NEW type \in OwnerRequest, Reply(n, dsts, type),
         NEW m \in Node, m \in dsts, Clear(m, a),
         Draining \/ m # n \/ Current(n).type \notin OwnerRequest,
         AcksSame(m, a), FirstSame(m, a)
  PROVE  Asked(m, a, type)'
<1> DEFINE x == NewMessage(n, A(n), type, nodeLatency)
<1>0. type \in MessageType BY Kinds DEF MessageType
<1>1. \A types : /\ Current(n) \in About(a, types) <=> Current(n).type \in types
                 /\ x \in About(a, types) <=> type \in types
  BY <1>0, HandAbout, SentAbout
<1>3. One(incomingMsgQueue'[m], About(a, OwnerRequest))
  BY <1>0, <1>1, Sent DEF Clear, AsksOf
<1>4. ~None(incomingMsgQueue'[m], About(a, {type}))
  BY <1>0, <1>1, Sent
<1>5. FirstType(m, a)' \notin OwnerRequest BY DEF FirstSame, Clear
<1>6. None(incomingMsgQueue'[Home[a]], AcksOf(a, m))
  BY DEF AcksSame, AcksOf, Like, Clear
<1> QED BY <1>3, <1>4, <1>5, <1>6 DEF Asked, AsksOf

\* The holder n answers a request of the home.
LEMMA AckArrives ==
  ASSUME TypeOK, NEW n \in Node, Handling(n), NEW a \in Addr, a = A(n),
         NEW dsts, NEW type \in HomeAnswer, Reply(n, dsts, type), Home[a] \in dsts,
         Draining \/ Current(n).type \notin HomeAnswer,
         None(incomingMsgQueue[Home[a]], AcksOf(a, n)),
         None(incomingMsgQueue[n], AsksOf(a)), AsksSame(n, a),
         FirstType(n, a)' \notin OwnerRequest
  PROVE  Answered(n, a, type)'
<1> DEFINE x == NewMessage(n, A(n), type, nodeLatency)
<1>0. type \in MessageType /\ Home[a] \in Node BY Kinds, ContextAssumption DEF MessageType
<1>1. \A types : Current(n) \in AboutFrom(a, types, n) => Current(n).type \in types
  BY HandAbout
<1>2. \A types : x \in AboutFrom(a, types, n) <=> type \in types
  BY <1>0, SentAbout, SMTT(30)
<1>3. One(incomingMsgQueue'[Home[a]], AboutFrom(a, HomeAnswer, n))
  BY <1>0, <1>1, <1>2, Sent DEF AcksOf
<1>4. ~None(incomingMsgQueue'[Home[a]], AboutFrom(a, {type}, n))
  BY <1>0, <1>1, <1>2, Sent
<1>5. None(incomingMsgQueue'[n], AsksOf(a)) BY DEF AsksSame, AsksOf, Like
<1> QED BY <1>3, <1>4, <1>5 DEF Answered, AcksOf

\* What each kind of message in hand says of its node, ...
LEMMA GrantHere ==
  ASSUME TypeOK, NEW n \in Node, Handling(n), ~Draining, NEW a \in Addr, a = A(n),
         Current(n).type \in Grant
  PROVE  /\ ~NoGrant(n, a)
         /\ \A granted \in Grant : Granted(n, a, granted) => granted = Current(n).type
<1> DEFINE q == incomingMsgQueue[n]
<1>1. \A types : Current(n) \in About(a, types) <=> Current(n).type \in types
  BY HandAbout
<1>2. ~NoGrant(n, a) BY <1>1, InHand DEF NoGrant, GrantsOf
<1>3. ASSUME NEW granted \in Grant, Granted(n, a, granted)
      PROVE  granted = Current(n).type
  <2>1. One(q, GrantsOf(a)) /\ ~None(q, About(a, {granted})) BY <1>3 DEF Granted
  <2>2. 1 \in 1..Len(q) /\ Current(n) = q[1] BY InHand
  <2>3. About(a, {granted}) \subseteq GrantsOf(a) BY DEF GrantsOf, About
  <2>4. Current(n) \in GrantsOf(a) BY <1>1 DEF GrantsOf
  <2> HIDE DEF q
  <2>5. q[1] \in About(a, {granted}) BY <2>1, <2>2, <2>3, <2>4 DEF One, None
  <2> QED BY <1>1, <2>2, <2>5
<1> QED BY <1>2, <1>3

\* A node that takes up a request of the home has had its grant and is asked once.
LEMMA AskHere ==
  ASSUME TypeOK, NEW n \in Node, Handling(n), ~Draining, NEW a \in Addr, a = A(n),
         Current(n).type \in OwnerRequest, GrantsFirst(a)
  PROVE  /\ ~Clear(n, a) /\ NoGrant(n, a)
         /\ \A ask \in OwnerRequest : ~AtHolder(n, a, ask)
         /\ \A ack \in HomeAnswer : ~Answered(n, a, ack)
         /\ \A ask \in OwnerRequest : Asked(n, a, ask) => ask = Current(n).type
<1> DEFINE q == incomingMsgQueue[n]
<1>1. \A types : Current(n) \in About(a, types) <=> Current(n).type \in types
  BY HandAbout
<1>2. ~None(q, AsksOf(a)) BY <1>1, InHand DEF AsksOf
<1>3. NoGrant(n, a)
  <2>1. q \in Seq(Message) /\ q # <<>> /\ Head(q) \in AsksOf(a) BY <1>1, InHand DEF AsksOf
  <2>2. Before(q, GrantsOf(a), AsksOf(a)) BY DEF GrantsFirst
  <2> HIDE DEF q
  <2>3. None(q, GrantsOf(a)) BY <2>1, <2>2, TailBefore
  <2> QED BY <2>3 DEF NoGrant, q
<1>4. ASSUME NEW ask \in OwnerRequest, Asked(n, a, ask)
      PROVE  ask = Current(n).type
  <2>1. One(q, AsksOf(a)) /\ ~None(q, About(a, {ask})) BY <1>4 DEF Asked
  <2>2. 1 \in 1..Len(q) /\ Current(n) = q[1] BY InHand
  <2>3. About(a, {ask}) \subseteq AsksOf(a) BY DEF AsksOf, About
  <2>4. Current(n) \in AsksOf(a) BY <1>1 DEF AsksOf
  <2>5. Current(n) \in About(a, {ask})
    <3> HIDE DEF q
    <3> QED BY <2>1, <2>2, <2>3, <2>4 DEF One, None
  <2> QED BY <1>1, <2>5
<1> QED BY <1>2, <1>3, <1>4 DEF Clear, AtHolder, Answered

\* A home that takes up an ACK knows that its sender has no other message of the kind.
LEMMA AckHere ==
  ASSUME TypeOK, NEW n \in Node, Handling(n), ~Draining, NEW a \in Addr, a = A(n), Home[a] = n,
         Current(n).type \in HomeAnswer, NEW s \in Node, s = Source(n)
  PROVE  /\ ~Clear(s, a)
         /\ \A ask \in OwnerRequest : ~Asked(s, a, ask) /\ ~AtHolder(s, a, ask)
         /\ \A ack \in HomeAnswer : Answered(s, a, ack) => ack = Current(n).type
<1> DEFINE q == incomingMsgQueue[n]
<1>1. \A types : Current(n) \in AboutFrom(a, types, s) <=> Current(n).type \in types
  BY HandAbout
<1>2. ~None(q, AcksOf(a, s)) BY <1>1, InHand DEF AcksOf
<1>3. ASSUME NEW ack \in HomeAnswer, Answered(s, a, ack)
      PROVE  ack = Current(n).type
  <2>1. One(q, AcksOf(a, s)) /\ ~None(q, AboutFrom(a, {ack}, s)) BY <1>3 DEF Answered
  <2>2. 1 \in 1..Len(q) /\ Current(n) = q[1] BY InHand
  <2>3. AboutFrom(a, {ack}, s) \subseteq AcksOf(a, s) BY DEF AcksOf, AboutFrom, About
  <2>4. Current(n) \in AcksOf(a, s) BY <1>1 DEF AcksOf
  <2>5. Current(n) \in AboutFrom(a, {ack}, s)
    <3> HIDE DEF q
    <3> QED BY <2>1, <2>2, <2>3, <2>4 DEF One, None
  <2> QED BY <1>1, <2>5
<1> QED BY <1>2, <1>3 DEF Clear, Asked, AtHolder

\* ... and that it is gone when it has been taken.
LEMMA GrantTaken ==
  ASSUME TypeOK, NEW n \in Node, Handling(n), ~Draining, NEW a \in Addr, a = A(n),
         Current(n).type \in Grant,
         NEW dsts, NEW type \in MessageType \ Grant, Reply(n, dsts, type)
  PROVE  \A granted \in Grant : Granted(n, a, granted) => NoGrant(n, a)'
<1>1. /\ Current(n) \in GrantsOf(a)
      /\ NewMessage(n, A(n), type, nodeLatency) \notin GrantsOf(a)
  BY HandAbout, SentAbout DEF GrantsOf
<1> QED BY <1>1, Taken DEF NoGrant, Granted

\* After the request of the home is taken up no other is in that queue.
LEMMA AskTaken ==
  ASSUME TypeOK, NEW n \in Node, Handling(n), ~Draining, NEW a \in Addr, a = A(n),
         Current(n).type \in OwnerRequest,
         NEW dsts, NEW type \in MessageType \ OwnerRequest, Reply(n, dsts, type)
  PROVE  \A ask \in OwnerRequest : Asked(n, a, ask) => None(incomingMsgQueue'[n], AsksOf(a))
<1>1. /\ Current(n) \in AsksOf(a)
      /\ NewMessage(n, A(n), type, nodeLatency) \notin AsksOf(a)
  BY HandAbout, SentAbout DEF AsksOf
<1> QED BY <1>1, Taken DEF Asked

\* After the ACK is taken up its sender's part in the transaction is over.
LEMMA AckTaken ==
  ASSUME TypeOK, NEW n \in Node, Handling(n), ~Draining, NEW a \in Addr, a = A(n), Home[a] = n,
         Current(n).type \in HomeAnswer, NEW s \in Node, s = Source(n),
         NEW dsts, NEW type \in MessageType \ (HomeAnswer \cup OwnerRequest),
         Reply(n, dsts, type), FirstSame(s, a)
  PROVE  \A ack \in HomeAnswer : Answered(s, a, ack) => Clear(s, a)'
<1> SUFFICES ASSUME NEW ack \in HomeAnswer, Answered(s, a, ack) PROVE Clear(s, a)'
  OBVIOUS
<1>1. /\ Current(n) \in AcksOf(a, s)
      /\ NewMessage(n, A(n), type, nodeLatency) \notin AcksOf(a, s)
  BY HandAbout, SentAbout DEF AcksOf
<1>2. None(incomingMsgQueue'[n], AcksOf(a, s)) BY <1>1, Taken DEF Answered
<1>3. AsksSame(s, a) BY AsksUnmoved, Kinds
<1>4. None(incomingMsgQueue'[s], AsksOf(a)) BY <1>3 DEF Answered, AsksSame, AsksOf, Like
<1>5. FirstType(s, a)' \notin OwnerRequest BY DEF Answered, FirstSame
<1> QED BY <1>2, <1>4, <1>5 DEF Clear

-------------------------------------------------------------------------------
(* The blocked queues: what is in front, and which request is served. *)

\* The front of a blocked queue, and the requests that wait in it.
LEMMA QueueIs ==
  ASSUME NEW m \in Node, NEW b \in Addr
  PROVE  /\ blockedMsgMap[m][b] = <<>> => FirstType(m, b) = "none"
         /\ blockedMsgMap[m][b] # <<>> => FirstType(m, b) = Head(blockedMsgMap[m][b]).type
         /\ m = Home[b] /\ FirstType(m, b) \notin OwnerRequest => Requests(b) = blockedMsgMap[m][b]
         /\ m = Home[b] /\ FirstType(m, b) \in OwnerRequest
              => Requests(b) = Tail(blockedMsgMap[m][b])
         /\ "none" \notin OwnerRequest /\ "none" \notin HomeRequest
         /\ \A type \in HomeRequest : type \notin OwnerRequest
  BY DEF FirstType, Requests, OwnerRequest, HomeRequest

\* The same after a step that leaves the queue r.
LEMMA QueueBecomes ==
  ASSUME NEW m \in Node, NEW b \in Addr, NEW r, blockedMsgMap'[m][b] = r
  PROVE  /\ r = <<>> => FirstType(m, b)' = "none"
         /\ r # <<>> => FirstType(m, b)' = Head(r).type
         /\ m = Home[b] /\ FirstType(m, b)' \notin OwnerRequest => Requests(b)' = r
         /\ m = Home[b] /\ FirstType(m, b)' \in OwnerRequest => Requests(b)' = Tail(r)
  BY DEF FirstType, Requests

\* A queue the step leaves alone.
LEMMA QueueSame ==
  ASSUME NEW m \in Node, NEW b \in Addr, blockedMsgMap'[m][b] = blockedMsgMap[m][b]
  PROVE  FirstSame(m, b) /\ (m = Home[b] => ServingSame(b))
<1>1. FirstType(m, b)' = FirstType(m, b) BY DEF FirstType
<1>2. m = Home[b] => Requests(b)' = Requests(b) BY <1>1 DEF Requests
<1> QED BY <1>1, <1>2 DEF FirstSame, ServingSame, Serving, Served

\* What a step changes of the blocked queues is the queue of a at n.
OnlyQueue(n, a) ==
  \A m \in Node, b \in Addr : m # n \/ b # a => blockedMsgMap'[m][b] = blockedMsgMap[m][b]

\* An assignment to a blocked queue changes that one alone.
LEMMA OneQueue ==
  ASSUME TypeOK, NEW n \in Node, NEW a \in Addr, NEW r,
         blockedMsgMap' = [blockedMsgMap EXCEPT ![n][a] = r]
  PROVE  OnlyQueue(n, a) /\ blockedMsgMap'[n][a] = r
<1>1. blockedMsgMap \in [Node -> [Addr -> Seq(Message)]] BY DEF TypeOK
<1> QED BY <1>1 DEF OnlyQueue

\* All others keep their fronts, and the lines of other homes what they serve.
LEMMA OneQueueFirst ==
  ASSUME NEW n \in Node, NEW a \in Addr, OnlyQueue(n, a)
  PROVE  /\ \A m \in Node, b \in Addr : m # n \/ b # a => FirstSame(m, b)
         /\ \A b \in Addr : Home[b] # n \/ b # a => ServingSame(b)
<1>1. \A b \in Addr : Home[b] \in Node BY ContextAssumption
<1> QED BY <1>1, QueueSame DEF OnlyQueue

\* Behind a request to the home are requests that are not served.
LEMMA RestWaits ==
  ASSUME NEW q \in Seq(Message), q # <<>>, NEW a, InOrder(q, a), Head(q).type \in HomeRequest,
         Tail(q) # <<>>
  PROVE  Head(Tail(q)).type \in HomeRequest /\ ~Head(Tail(q)).serviced
<1> DEFINE r == Tail(q)
<1>1. /\ Len(q) \in Nat /\ Len(q) >= 1 /\ Head(q) = q[1] /\ r \in Seq(Message)
      /\ Len(r) = Len(q) - 1 /\ \A i \in 1..Len(r) : r[i] = q[i + 1]
  BY HeadTailProperties, EmptySeq, LenProperties
<1>2. Len(r) \in Nat /\ Len(r) >= 1 /\ Head(r) = r[1]
  BY <1>1, HeadTailProperties, EmptySeq, LenProperties
<1>3. r[1] = q[2] /\ 1 \in 1..Len(q) /\ 2 \in 1..Len(q) /\ 1 < 2 BY <1>1, <1>2
<1>4. q[2].type \in HomeRequest /\ ~q[2].serviced BY <1>1, <1>3 DEF InOrder
<1> QED BY <1>2, <1>3, <1>4

\* A queue without its first message, a request to the home: none is served then.
LEMMA NoneServed ==
  ASSUME TypeOK, BlockedInOrder, NEW n \in Node, NEW a \in Addr,
         blockedMsgMap[n][a] # <<>>, Head(blockedMsgMap[n][a]).type \in HomeRequest,
         blockedMsgMap' = [blockedMsgMap EXCEPT ![n][a] = Tail(blockedMsgMap[n][a])]
  PROVE  /\ OnlyQueue(n, a) /\ \A m \in Node, b \in Addr : FirstSame(m, b)
         /\ n = Home[a] => ~Serving(a)' /\ Requests(a) = blockedMsgMap[n][a]
<1> DEFINE q == blockedMsgMap[n][a]
<1>1. q \in Seq(Message) /\ InOrder(q, a) BY DEF TypeOK, BlockedInOrder
<1>2. OnlyQueue(n, a) /\ blockedMsgMap'[n][a] = Tail(q) BY OneQueue
<1>3. Tail(q) # <<>> => Head(Tail(q)).type \in HomeRequest /\ ~Head(Tail(q)).serviced
  <2> HIDE DEF q
  <2> SUFFICES ASSUME Tail(q) # <<>>
               PROVE  Head(Tail(q)).type \in HomeRequest /\ ~Head(Tail(q)).serviced
    OBVIOUS
  <2>1. Head(q).type \in HomeRequest /\ q # <<>> BY DEF q
  <2> QED BY <1>1, <2>1, RestWaits
<1>4. FirstType(n, a) \notin OwnerRequest BY QueueIs
<1>5. FirstType(n, a)' \notin OwnerRequest BY <1>2, <1>3, QueueIs, QueueBecomes, SMTT(30)
<1>6. \A m \in Node, b \in Addr : FirstSame(m, b)
  BY <1>2, <1>4, <1>5, OneQueueFirst DEF FirstSame
<1>7. n = Home[a] => Requests(a) = q /\ Requests(a)' = Tail(q)
  BY <1>2, <1>4, <1>5, QueueIs, QueueBecomes, ZenonT(40)
<1> QED BY <1>2, <1>3, <1>6, <1>7 DEF Serving

\* handleMessage returns true.
LEMMA DoneFirst ==
  ASSUME BlockingInv, NEW n \in Node, Handling(n), Done(n),
         Draining => Current(n).type \in HomeRequest
  PROVE  /\ \A m \in Node, b \in Addr : FirstSame(m, b)
         /\ \A b \in Addr : ServingSame(b)
<1>0. \A b \in Addr : Home[b] \in Node BY ContextAssumption
<1>1. CASE ~Draining
  <2>1. blockedMsgMap' = blockedMsgMap BY <1>1 DEF Done
  <2> QED BY <1>0, <2>1, QueueSame
<1>2. CASE Draining
  <2>0. PICK a \in Addr : a = drainAddr BY DEF BlockingInv, TypeOK
  <2>1. TypeOK /\ BlockedInOrder BY DEF BlockingInv
  <2>2. /\ blockedMsgMap[n][a] # <<>> /\ ~Head(blockedMsgMap[n][a]).serviced
        /\ Head(blockedMsgMap[n][a]).type \in HomeRequest
    BY <1>2, <2>0 DEF Handling, Current, Draining
  <2>3. blockedMsgMap' = [blockedMsgMap EXCEPT ![n][a] = Tail(blockedMsgMap[n][a])]
    BY <1>2, <2>0 DEF Done
  <2>4. /\ OnlyQueue(n, a) /\ \A m \in Node, b \in Addr : FirstSame(m, b)
        /\ n = Home[a] => ~Serving(a)' /\ Requests(a) = blockedMsgMap[n][a]
    BY <2>1, <2>2, <2>3, NoneServed
  <2>5. n = Home[a] => ~Serving(a) BY <2>2, <2>4 DEF Serving
  <2>6. \A b \in Addr : ServingSame(b)
    <3> TAKE b \in Addr
    <3>1. CASE Home[b] # n \/ b # a BY <2>4, <3>1, OneQueueFirst
    <3>2. CASE Home[b] = n /\ b = a BY <2>4, <2>5, <3>2 DEF ServingSame
    <3> QED BY <3>1, <3>2
  <2> QED BY <2>4, <2>6
<1> QED BY <1>1, <1>2

\* A message more at the end, or in front.
LEMMA AppendFront ==
  ASSUME NEW q \in Seq(Message), NEW x \in Message
  PROVE  LET r == Append(q, x)
         IN  /\ r # <<>>
             /\ q = <<>> => Head(r) = x
             /\ q # <<>> => Head(r) = Head(q) /\ Tail(r) # <<>>
             /\ q # <<>> /\ Tail(q) = <<>> => Head(Tail(r)) = x
             /\ q # <<>> /\ Tail(q) # <<>> => Head(Tail(r)) = Head(Tail(q))
<1> DEFINE r == Append(q, x)
<1>1. /\ r \in Seq(Message) /\ Len(q) \in Nat /\ Len(r) = Len(q) + 1 /\ r[Len(q) + 1] = x
      /\ \A i \in 1..Len(q) : r[i] = q[i]
  BY AppendProperties, LenProperties
<1> HIDE DEF r
<1>2. r # <<>> /\ Head(r) = r[1] BY <1>1, HeadTailProperties, EmptySeq, LenProperties
<1>3. CASE q = <<>> BY <1>1, <1>2, <1>3, EmptySeq DEF r
<1>4. CASE q # <<>>
  <2>1. /\ Len(q) >= 1 /\ Head(q) = q[1] /\ Tail(q) \in Seq(Message) /\ Len(Tail(q)) = Len(q) - 1
        /\ \A i \in 1..Len(Tail(q)) : Tail(q)[i] = q[i + 1]
    BY <1>1, <1>4, HeadTailProperties, EmptySeq, LenProperties
  <2>2. /\ Tail(r) \in Seq(Message) /\ Len(Tail(r)) = Len(q)
        /\ \A i \in 1..Len(Tail(r)) : Tail(r)[i] = r[i + 1]
    BY <1>1, <1>2, HeadTailProperties
  <2>3. Tail(r) # <<>> /\ Head(Tail(r)) = Tail(r)[1]
    BY <2>1, <2>2, HeadTailProperties, EmptySeq
  <2>4. Head(Tail(r)) = r[2] /\ Head(r) = Head(q) BY <1>1, <1>2, <2>1, <2>2, <2>3
  <2>5. Tail(q) = <<>> => Head(Tail(r)) = x
    <3> HAVE Tail(q) = <<>>
    <3>1. Len(<<>>) = 0 BY EmptySeq
    <3>2. Len(Tail(q)) = 0 BY <3>1
    <3>3. Len(q) - 1 = 0 BY <2>1, <3>2
    <3>4. Len(q) \in Nat BY <1>1
    <3>a. Len(q) = 1 BY <3>3, <3>4
    <3>5. Len(q) + 1 = 2 BY <3>a
    <3>6. r[2] = x BY <1>1, <3>5
    <3> QED BY <2>4, <3>6
  <2>6. Tail(q) # <<>> => Head(Tail(r)) = Head(Tail(q))
    <3> HAVE Tail(q) # <<>>
    <3>1. Len(Tail(q)) \in Nat /\ Len(Tail(q)) >= 1 /\ Head(Tail(q)) = Tail(q)[1]
      BY <2>1, HeadTailProperties, EmptySeq, LenProperties
    <3>2. 2 \in 1..Len(q) /\ Tail(q)[1] = q[2] BY <1>1, <2>1, <3>1
    <3> QED BY <1>1, <2>4, <3>1, <3>2
  <2> QED BY <1>2, <1>4, <2>3, <2>4, <2>5, <2>6 DEF r
<1> QED BY <1>3, <1>4

\* What a sequence is with an element put in front.
LEMMA FrontFront ==
  ASSUME NEW q \in Seq(Message), NEW x \in Message
  PROVE  <<x>> \o q # <<>> /\ Head(<<x>> \o q) = x /\ Tail(<<x>> \o q) = q
<1> DEFINE r == <<x>> \o q
<1>0. <<x>> \in Seq(Message) /\ Len(<<x>>) = 1 /\ <<x>>[1] = x OBVIOUS
<1>1. /\ Len(q) \in Nat /\ r \in Seq(Message) /\ Len(r) = 1 + Len(q) /\ r[1] = x
      /\ \A i \in 1..Len(q) : r[i + 1] = q[i]
  BY <1>0, ConcatProperties, LenProperties
<1> HIDE DEF r
<1>2. /\ r # <<>> /\ Head(r) = r[1] /\ Tail(r) \in Seq(Message) /\ Len(Tail(r)) = Len(q)
      /\ \A i \in 1..Len(Tail(r)) : Tail(r)[i] = r[i + 1]
  BY <1>1, HeadTailProperties, EmptySeq, LenProperties
<1>3. Tail(r) = q
  <2>1. \A i \in 1..Len(q) : Tail(r)[i] = q[i] BY <1>1, <1>2
  <2> QED BY <1>2, <2>1, SeqEqual
<1> QED BY <1>1, <1>2, <1>3 DEF r

\* handleMessage returns false.
Marked(n, serviced) == [Current(n) EXCEPT !.serviced = serviced]

\* What Block leaves in the blocked queue: the message in hand at the front or the back.
LEMMA BlockIs ==
  ASSUME TypeOK, NEW n \in Node, Handling(n), NEW a \in Addr, a = A(n),
         NEW serviced \in BOOLEAN, Block(n, serviced)
  PROVE  LET msg == Marked(n, serviced)
             q == blockedMsgMap[n][a]
         IN  /\ msg \in Message /\ msg.type = Current(n).type /\ msg.src = Source(n)
             /\ msg.addr = a /\ msg.serviced = serviced
             /\ OnlyQueue(n, a) /\ q \in Seq(Message)
             /\ Draining => blockedMsgMap'[n][a] = <<msg>> \o Tail(q)
             /\ ~Draining /\ Current(n).type \in OwnerRequest
                  => blockedMsgMap'[n][a] = <<msg>> \o q
             /\ ~Draining /\ Current(n).type \notin OwnerRequest
                  => blockedMsgMap'[n][a] = Append(q, msg)
<1> DEFINE msg == Marked(n, serviced)
           q == blockedMsgMap[n][a]
<1>1. Current(n) \in Message BY CurrentType
<1>2. /\ msg \in Message /\ msg.type = Current(n).type /\ msg.src = Source(n)
      /\ msg.addr = a /\ msg.serviced = serviced
  BY <1>1 DEF Message, A, Source, Marked
<1>3. q \in Seq(Message) BY DEF TypeOK
<1>4. PICK r : r = IF Draining THEN <<msg>> \o Tail(q) ELSE AddToBlocked(q, msg) OBVIOUS
<1>5. blockedMsgMap' = [blockedMsgMap EXCEPT ![n][a] = r]
  <2>1. blockedMsgMap' = [blockedMsgMap EXCEPT ![n][msg.addr] =
                            IF Draining THEN <<msg>> \o Tail(@) ELSE AddToBlocked(@, msg)]
    BY DEF Block, Marked
  <2> HIDE DEF msg
  <2> QED BY <1>2, <1>4, <2>1
<1>6. OnlyQueue(n, a) /\ blockedMsgMap'[n][a] = r
  <2>1. blockedMsgMap \in [Node -> [Addr -> Seq(Message)]] BY DEF TypeOK
  <2> QED BY <1>5, <2>1 DEF OnlyQueue
<1> HIDE DEF msg, q
<1>7. /\ Draining => r = <<msg>> \o Tail(q)
      /\ ~Draining /\ Current(n).type \in OwnerRequest => r = <<msg>> \o q
      /\ ~Draining /\ Current(n).type \notin OwnerRequest => r = Append(q, msg)
  BY <1>2, <1>4 DEF AddToBlocked
<1> QED BY <1>2, <1>3, <1>6, <1>7 DEF msg, q

\* A request that is not taken up.
LEMMA BlockWaits ==
  ASSUME BlockingInv, NEW n \in Node, Handling(n), ~Serviceable(n),
         Current(n).type \in HomeRequest, Block(n, FALSE)
  PROVE  /\ \A m \in Node, b \in Addr : FirstSame(m, b)
         /\ \A b \in Addr : ServingSame(b)
<1>0. TypeOK BY DEF BlockingInv
<1>1. PICK a \in Addr : a = A(n) BY <1>0, CurrentType
<1> DEFINE q == blockedMsgMap[n][a]
           r == blockedMsgMap'[n][a]
<1>2. ~Draining /\ q # <<>> BY <1>1 DEF Serviceable, A
<1>3. PICK x \in Message : x.type \in HomeRequest /\ ~x.serviced /\ r = Append(q, x)
  BY <1>0, <1>1, <1>2, BlockIs, QueueIs
<1>4. OnlyQueue(n, a) /\ q \in Seq(Message) BY <1>0, <1>1, BlockIs
<1>5. /\ r # <<>> /\ Head(r) = Head(q) /\ Tail(r) # <<>>
      /\ Tail(q) = <<>> => Head(Tail(r)) = x
      /\ Tail(q) # <<>> => Head(Tail(r)) = Head(Tail(q))
  BY <1>2, <1>3, <1>4, AppendFront, SMTT(30)
<1>6. FirstType(n, a)' = FirstType(n, a) BY <1>2, <1>5 DEF FirstType
<1>7. n = Home[a] => ServingSame(a)
  <2> HAVE n = Home[a]
  <2>1. CASE FirstType(n, a) \in OwnerRequest
    <3>1. Requests(a) = Tail(q) /\ Requests(a)' = Tail(r) BY <1>6, <2>1 DEF Requests
    <3> QED BY <1>3, <1>5, <3>1 DEF ServingSame, Serving, Served
  <2>2. CASE FirstType(n, a) \notin OwnerRequest
    <3>1. Requests(a) = q /\ Requests(a)' = r BY <1>6, <2>2 DEF Requests
    <3> QED BY <1>2, <1>5, <3>1 DEF ServingSame, Serving, Served
  <2> QED BY <2>1, <2>2
<1>8. \A m \in Node, b \in Addr : FirstSame(m, b)
  BY <1>4, <1>6, OneQueueFirst DEF FirstSame
<1>9. \A b \in Addr : ServingSame(b)
  <2> TAKE b \in Addr
  <2>1. CASE Home[b] # n \/ b # a BY <1>4, <2>1, OneQueueFirst
  <2>2. CASE Home[b] = n /\ b = a BY <1>7, <2>2
  <2> QED BY <2>1, <2>2
<1> QED BY <1>8, <1>9

\* A request that is served now.
LEMMA BlockServes ==
  ASSUME BlockingInv, NEW n \in Node, Handling(n), Serviceable(n),
         Current(n).type \in HomeRequest, NEW a \in Addr, a = A(n), n = Home[a], Block(n, TRUE)
  PROVE  /\ \A m \in Node, b \in Addr : FirstSame(m, b)
         /\ \A b \in Addr \ {a} : ServingSame(b)
         /\ ~Serving(a) /\ Serving(a)'
         /\ Served(a)'.type = Current(n).type /\ Served(a)'.src = Source(n)
<1>0. TypeOK /\ BlockedInOrder BY DEF BlockingInv
<1> DEFINE q == blockedMsgMap[n][a]
           r == blockedMsgMap'[n][a]
           x == Marked(n, TRUE)
<1>1. /\ x \in Message /\ x.type = Current(n).type /\ x.src = Source(n) /\ x.serviced
      /\ OnlyQueue(n, a) /\ q \in Seq(Message)
      /\ Draining => r = <<x>> \o Tail(q)
      /\ ~Draining => r = Append(q, x)
  BY <1>0, BlockIs, QueueIs
<1> HIDE DEF x
<1>2. CASE ~Draining
  <2>1. q = <<>> BY <1>2 DEF Serviceable, A
  <2>2. r # <<>> /\ Head(r) = x BY <1>1, <1>2, <2>1, AppendFront
  <2>3. FirstType(n, a)' \notin OwnerRequest /\ FirstType(n, a) \notin OwnerRequest
    BY <1>1, <2>1, <2>2, QueueIs, QueueBecomes
  <2>4. Requests(a)' = r /\ Requests(a) = q BY <2>3 DEF Requests
  <2>5. ~Serving(a) /\ Serving(a)' /\ Served(a)' = x
    BY <1>1, <2>1, <2>2, <2>4 DEF Serving, Served
  <2> QED BY <1>1, <2>3, <2>5, OneQueueFirst DEF FirstSame
<1>3. CASE Draining
  <2>1. q # <<>> /\ Current(n) = Head(q) /\ ~Head(q).serviced
    BY <1>0, <1>3, DrainsOwnAddress DEF Handling, Draining, Current
  <2>2. Tail(q) \in Seq(Message) BY <1>1, <2>1, HeadTailProperties
  <2>3. r # <<>> /\ Head(r) = x BY <1>1, <1>3, <2>2, FrontFront
  <2>a. FirstType(n, a) = Head(q).type /\ FirstType(n, a)' = x.type
    BY <2>1, <2>3 DEF FirstType
  <2>4. FirstType(n, a)' \notin OwnerRequest /\ FirstType(n, a) \notin OwnerRequest
    BY <1>1, <2>1, <2>a, Kinds
  <2>5. Requests(a)' = r /\ Requests(a) = q BY <2>4 DEF Requests
  <2>6. ~Serving(a) /\ Serving(a)' /\ Served(a)' = x
    BY <1>1, <2>1, <2>3, <2>5 DEF Serving, Served
  <2> QED BY <1>1, <2>4, <2>6, OneQueueFirst DEF FirstSame
<1> QED BY <1>2, <1>3

\* A request of the home that waits for the cache goes in front.
LEMMA BlockHolder ==
  ASSUME BlockingInv, NEW n \in Node, Handling(n), ~Draining,
         Current(n).type \in OwnerRequest, NEW a \in Addr, a = A(n),
         FirstType(n, a) \notin OwnerRequest, NEW serviced \in BOOLEAN, Block(n, serviced)
  PROVE  /\ FirstType(n, a)' = Current(n).type
         /\ \A m \in Node, b \in Addr : m # n \/ b # a => FirstSame(m, b)
         /\ \A b \in Addr : ServingSame(b)
<1>0. TypeOK /\ BlockedInOrder BY DEF BlockingInv
<1> DEFINE q == blockedMsgMap[n][a]
           r == blockedMsgMap'[n][a]
           x == Marked(n, serviced)
<1>1. /\ x \in Message /\ x.type = Current(n).type
      /\ OnlyQueue(n, a) /\ q \in Seq(Message) /\ r = <<x>> \o q
  BY <1>0, BlockIs
<1> HIDE DEF x
<1>2. r # <<>> /\ Head(r) = x /\ Tail(r) = q BY <1>1, FrontFront
<1>3. FirstType(n, a)' = Current(n).type BY <1>1, <1>2 DEF FirstType
<1>4. n = Home[a] => ServingSame(a)
  <2> HAVE n = Home[a]
  <2>1. Requests(a) = q /\ Requests(a)' = q BY <1>2, <1>3 DEF Requests
  <2> QED BY <2>1 DEF ServingSame, Serving, Served
<1>5. \A b \in Addr : ServingSame(b)
  <2> TAKE b \in Addr
  <2>1. CASE Home[b] # n \/ b # a BY <1>1, <2>1, OneQueueFirst
  <2>2. CASE Home[b] = n /\ b = a BY <1>4, <2>2
  <2> QED BY <2>1, <2>2
<1> QED BY <1>1, <1>3, <1>5, OneQueueFirst

\* The first blocked message of the line has been answered: a request of the home, ...
LEMMA UnblockIs ==
  ASSUME TypeOK, NEW n \in Node, Handling(n), NEW a \in Addr, a = A(n), Unblock(n)
  PROVE  /\ Waiting(n) = blockedMsgMap[n][a]
         /\ blockedMsgMap' = [blockedMsgMap EXCEPT ![n][a] = Tail(blockedMsgMap[n][a])]
         /\ OnlyQueue(n, a) /\ blockedMsgMap'[n][a] = Tail(blockedMsgMap[n][a])
<1>1. blockedMsgMap' = [blockedMsgMap EXCEPT ![n][a] = Tail(blockedMsgMap[n][a])]
  BY DEF Unblock, A
<1>2. blockedMsgMap \in [Node -> [Addr -> Seq(Message)]] BY DEF TypeOK
<1> QED BY <1>1, <1>2 DEF OnlyQueue, Waiting, A

\* A holder that unblocks drops the request of the home and nothing else.
LEMMA UnblockHolder ==
  ASSUME BlockingInv, HoldersFirst, NEW n \in Node, Handling(n), NEW a \in Addr, a = A(n),
         FirstType(n, a) \in OwnerRequest, Unblock(n)
  PROVE  /\ FirstType(n, a)' \notin OwnerRequest
         /\ \A m \in Node, b \in Addr : m # n \/ b # a => FirstSame(m, b)
         /\ \A b \in Addr : ServingSame(b)
<1>0. TypeOK BY DEF BlockingInv
<1> DEFINE q == blockedMsgMap[n][a]
           r == blockedMsgMap'[n][a]
<1>1. OnlyQueue(n, a) /\ r = Tail(q) BY <1>0, UnblockIs
<1>2. q # <<>> /\ q \in Seq(Message) BY <1>0, QueueIs DEF TypeOK
<1>3. r # <<>> => Head(r).type \in HomeRequest
  <2> HAVE r # <<>>
  <2>1. /\ Len(q) \in Nat /\ r \in Seq(Message) /\ Len(r) = Len(q) - 1
        /\ \A i \in 1..Len(r) : r[i] = q[i + 1]
    BY <1>1, <1>2, HeadTailProperties, LenProperties
  <2>2. Len(r) \in Nat /\ Len(r) >= 1 /\ Head(r) = r[1]
    BY <2>1, HeadTailProperties, EmptySeq, LenProperties
  <2>3. Head(r) = q[2] /\ 2 \in 1..Len(q) BY <2>1, <2>2
  <2> QED BY <2>3 DEF HoldersFirst
<1>4. FirstType(n, a)' \notin OwnerRequest BY <1>3, QueueIs, QueueBecomes
<1>5. n = Home[a] => ServingSame(a)
  <2> HAVE n = Home[a]
  <2>1. Requests(a) = r /\ Requests(a)' = r BY <1>1, <1>4 DEF Requests
  <2> QED BY <2>1 DEF ServingSame, Serving, Served
<1>6. \A b \in Addr : ServingSame(b)
  <2> TAKE b \in Addr
  <2>1. CASE Home[b] # n \/ b # a BY <1>1, <2>1, OneQueueFirst
  <2>2. CASE Home[b] = n /\ b = a BY <1>5, <2>2
  <2> QED BY <2>1, <2>2
<1> QED BY <1>1, <1>4, <1>6, OneQueueFirst

\* ... or the request the home served.
LEMMA ServedInFront ==
  ASSUME TypeOK, NEW a \in Addr, Serving(a), FirstType(Home[a], a) \notin OwnerRequest
  PROVE  /\ blockedMsgMap[Home[a]][a] # <<>>
         /\ Served(a) = Head(blockedMsgMap[Home[a]][a])
  BY DEF Serving, Served, Requests

\* A home that unblocks drops the request it served and serves no other yet.
LEMMA UnblockServed ==
  ASSUME BlockingInv, NEW n \in Node, Handling(n), NEW a \in Addr, a = A(n), n = Home[a],
         Serving(a), FirstType(n, a) \notin OwnerRequest, Served(a).type \in HomeRequest,
         Unblock(n)
  PROVE  /\ \A m \in Node, b \in Addr : FirstSame(m, b)
         /\ \A b \in Addr \ {a} : ServingSame(b)
         /\ ~Serving(a)'
         /\ Waiting(n) # <<>> /\ Head(Waiting(n)) = Served(a)
<1>0. TypeOK /\ BlockedInOrder BY DEF BlockingInv
<1>1. blockedMsgMap[n][a] # <<>> /\ Head(blockedMsgMap[n][a]) = Served(a)
  BY <1>0, ServedInFront
<1>2. /\ Waiting(n) = blockedMsgMap[n][a]
      /\ blockedMsgMap' = [blockedMsgMap EXCEPT ![n][a] = Tail(blockedMsgMap[n][a])]
  BY <1>0, UnblockIs
<1>3. /\ OnlyQueue(n, a) /\ \A m \in Node, b \in Addr : FirstSame(m, b)
      /\ ~Serving(a)'
  BY <1>0, <1>1, <1>2, NoneServed
<1> QED BY <1>1, <1>2, <1>3, OneQueueFirst

-------------------------------------------------------------------------------
(* The messages of the queues after a step. *)

\* The elements of the tail of a sequence, ...
LEMMA TailElements ==
  ASSUME NEW T, NEW q \in Seq(T), q # <<>>
  PROVE  \A i \in 1..Len(Tail(q)) : i + 1 \in 1..Len(q) /\ Tail(q)[i] = q[i + 1]
<1>1. /\ Len(q) \in Nat /\ Len(Tail(q)) = Len(q) - 1
      /\ \A i \in 1..Len(Tail(q)) : Tail(q)[i] = q[i + 1]
  BY HeadTailProperties, LenProperties
<1> QED BY <1>1

\* ... of a sequence with one appended, ...
LEMMA AppendElements ==
  ASSUME NEW T, NEW q \in Seq(T), NEW x \in T
  PROVE  \A i \in 1..Len(Append(q, x)) :
           \/ i \in 1..Len(q) /\ Append(q, x)[i] = q[i]
           \/ i = Len(q) + 1 /\ Append(q, x)[i] = x
<1>1. /\ Len(q) \in Nat /\ Len(Append(q, x)) = Len(q) + 1 /\ Append(q, x)[Len(q) + 1] = x
      /\ \A i \in 1..Len(q) : Append(q, x)[i] = q[i]
  BY AppendProperties, LenProperties
<1> QED BY <1>1

\* ... and with one put in front.
LEMMA FrontElements ==
  ASSUME NEW T, NEW q \in Seq(T), NEW x \in T
  PROVE  \A i \in 1..Len(<<x>> \o q) :
           \/ i = 1 /\ (<<x>> \o q)[i] = x
           \/ i - 1 \in 1..Len(q) /\ (<<x>> \o q)[i] = q[i - 1]
<1> DEFINE r == <<x>> \o q
<1>0. <<x>> \in Seq(T) /\ Len(<<x>>) = 1 /\ <<x>>[1] = x OBVIOUS
<1>1. /\ Len(q) \in Nat /\ r \in Seq(T) /\ Len(r) = 1 + Len(q) /\ r[1] = x
      /\ \A i \in 1..Len(q) : r[i + 1] = q[i]
  BY <1>0, ConcatProperties, LenProperties
<1> HIDE DEF r
<1> SUFFICES ASSUME NEW i \in 1..Len(r)
             PROVE  (i = 1 /\ r[i] = x) \/ (i - 1 \in 1..Len(q) /\ r[i] = q[i - 1])
  BY DEF r
<1>2. CASE i = 1 BY <1>1, <1>2
<1>3. CASE i # 1
  <2>1. i - 1 \in 1..Len(q) /\ (i - 1) + 1 = i BY <1>1, <1>3
  <2>2. r[(i - 1) + 1] = q[i - 1] BY <1>1, <2>1
  <2> QED BY <2>1, <2>2
<1> QED BY <1>2, <1>3

\* A message of a blocked queue was blocked before, or is x; and requests of the home are
\* first still.
FromBlocked(n, a, x) ==
  \A m \in Node, b \in Addr : \A i \in 1..Len(blockedMsgMap'[m][b]) :
    \/ \E j \in 1..Len(blockedMsgMap[m][b]) : blockedMsgMap'[m][b][i] = blockedMsgMap[m][b][j]
    \/ m = n /\ b = a /\ blockedMsgMap'[m][b][i] = x
HoldersAfter(n, a, x) == FromBlocked(n, a, x) /\ HoldersFirst'

\* What is left of a blocked queue follows its front as HoldersFirst asks.
LEMMA OthersFrom ==
  ASSUME HoldersFirst, NEW n \in Node, NEW a \in Addr, OnlyQueue(n, a), NEW x,
         \A i \in 1..Len(blockedMsgMap'[n][a]) :
           /\ \/ \E j \in 1..Len(blockedMsgMap[n][a]) :
                   blockedMsgMap'[n][a][i] = blockedMsgMap[n][a][j]
              \/ blockedMsgMap'[n][a][i] = x
           /\ i > 1 => blockedMsgMap'[n][a][i].type \in HomeRequest
  PROVE  HoldersAfter(n, a, x)
<1>1. ASSUME NEW m \in Node, NEW b \in Addr, NEW i \in 1..Len(blockedMsgMap'[m][b])
      PROVE  /\ \/ \E j \in 1..Len(blockedMsgMap[m][b]) :
                     blockedMsgMap'[m][b][i] = blockedMsgMap[m][b][j]
                \/ m = n /\ b = a /\ blockedMsgMap'[m][b][i] = x
             /\ i > 1 => blockedMsgMap'[m][b][i].type \in HomeRequest
  <2>1. CASE m = n /\ b = a BY <1>1, <2>1
  <2>2. CASE m # n \/ b # a
    <3>1. blockedMsgMap'[m][b] = blockedMsgMap[m][b] BY <2>2 DEF OnlyQueue
    <3> QED BY <1>1, <3>1 DEF HoldersFirst
  <2> QED BY <2>1, <2>2
<1> QED BY <1>1 DEF HoldersAfter, FromBlocked, HoldersFirst

\* So it is where no blocked queue changes, ...
LEMMA SameFrom ==
  ASSUME HoldersFirst, blockedMsgMap' = blockedMsgMap, NEW n, NEW a, NEW x
  PROVE  HoldersAfter(n, a, x)
  BY DEF HoldersAfter, FromBlocked, HoldersFirst

\* ... where one loses its front, ...
LEMMA TailFrom ==
  ASSUME TypeOK, HoldersFirst, NEW n \in Node, NEW a \in Addr, OnlyQueue(n, a), NEW x,
         blockedMsgMap[n][a] # <<>>, blockedMsgMap'[n][a] = Tail(blockedMsgMap[n][a])
  PROVE  HoldersAfter(n, a, x)
<1> DEFINE q == blockedMsgMap[n][a]
           r == blockedMsgMap'[n][a]
<1>1. q \in Seq(Message) BY DEF TypeOK
<1>2. \A i \in 1..Len(q) : i > 1 => q[i].type \in HomeRequest BY DEF HoldersFirst
<1>3. Len(q) \in Nat BY <1>1, LenProperties
<1>4. ASSUME NEW i \in 1..Len(r)
      PROVE  /\ \E j \in 1..Len(q) : r[i] = q[j]
             /\ i > 1 => r[i].type \in HomeRequest
  <2>1. i + 1 \in 1..Len(q) /\ r[i] = q[i + 1] BY <1>1, <1>4, TailElements
  <2>2. i + 1 > 1 BY <1>4
  <2> QED BY <1>2, <2>1, <2>2
<1> QED BY <1>4, OthersFrom

\* ... where the handler is done with the message in hand, ...
LEMMA DoneFrom ==
  ASSUME BlockingInv, HoldersFirst, NEW n \in Node, Handling(n), Done(n), NEW a \in Addr, NEW x
  PROVE  HoldersAfter(n, a, x)
<1>1. CASE ~Draining
  <2>1. blockedMsgMap' = blockedMsgMap BY <1>1 DEF Done
  <2> QED BY <2>1, SameFrom
<1>2. CASE Draining
  <2>0. TypeOK BY DEF BlockingInv
  <2>1. PICK b \in Addr : b = drainAddr BY <2>0 DEF TypeOK
  <2>2. blockedMsgMap[n][b] # <<>> BY <1>2, <2>1 DEF Handling, Draining
  <2>3. blockedMsgMap' = [blockedMsgMap EXCEPT ![n][b] = Tail(blockedMsgMap[n][b])]
    BY <1>2, <2>1 DEF Done
  <2>4. blockedMsgMap \in [Node -> [Addr -> Seq(Message)]] BY <2>0 DEF TypeOK
  <2>5. OnlyQueue(n, b) /\ blockedMsgMap'[n][b] = Tail(blockedMsgMap[n][b])
    BY <2>3, <2>4 DEF OnlyQueue
  <2>6. PICK y : y = blockedMsgMap[n][b][1] OBVIOUS
  <2>7. HoldersAfter(n, b, y) BY <2>0, <2>2, <2>5, TailFrom
  <2>8. 1 \in 1..Len(blockedMsgMap[n][b])
    BY <2>2, <2>4, EmptySeq
  <2> QED BY <2>6, <2>7, <2>8 DEF HoldersAfter, FromBlocked
<1> QED BY <1>1, <1>2

\* ... where it unblocks, ...
LEMMA UnblockFrom ==
  ASSUME BlockingInv, HoldersFirst, NEW n \in Node, Handling(n), NEW a \in Addr, a = A(n),
         Waiting(n) # <<>>, Unblock(n), NEW x
  PROVE  HoldersAfter(n, a, x)
<1>0. TypeOK BY DEF BlockingInv
<1> QED BY <1>0, UnblockIs, TailFrom

\* ... and where it blocks a request.
LEMMA BlockFrom ==
  ASSUME BlockingInv, RequestsWait, HoldersFirst, NEW n \in Node, Handling(n),
         NEW a \in Addr, a = A(n), NEW serviced \in BOOLEAN, Block(n, serviced),
         \/ Current(n).type \in HomeRequest
         \/ ~Draining /\ FirstType(n, a) \notin OwnerRequest
              /\ Current(n).type \in OwnerRequest,
         NEW x, x = Marked(n, serviced)
  PROVE  HoldersAfter(n, a, x)
<1>0. TypeOK BY DEF BlockingInv
<1> DEFINE q == blockedMsgMap[n][a]
           r == blockedMsgMap'[n][a]
<1>1. /\ x \in Message /\ x.type = Current(n).type /\ OnlyQueue(n, a) /\ q \in Seq(Message)
      /\ Draining => r = <<x>> \o Tail(q)
      /\ ~Draining /\ Current(n).type \in OwnerRequest => r = <<x>> \o q
      /\ ~Draining /\ Current(n).type \notin OwnerRequest => r = Append(q, x)
  BY <1>0, BlockIs
<1>2. \A i \in 1..Len(q) : i > 1 => q[i].type \in HomeRequest BY DEF HoldersFirst
<1>3. Len(q) \in Nat BY <1>1, LenProperties
<1>4. ASSUME NEW i \in 1..Len(r)
      PROVE  /\ (\E j \in 1..Len(q) : r[i] = q[j]) \/ r[i] = x
             /\ i > 1 => r[i].type \in HomeRequest
  <2>1. CASE Draining
    <3>1. q # <<>> BY <1>0, <2>1, DrainsOwnAddress DEF BlockingInv
    <3>2. Tail(q) \in Seq(Message) BY <1>1, <3>1, HeadTailProperties
    <3>3. (i = 1 /\ r[i] = x) \/ (i - 1 \in 1..Len(Tail(q)) /\ r[i] = Tail(q)[i - 1])
      BY <1>1, <1>4, <2>1, <3>2, FrontElements
    <3>4. CASE i = 1 /\ r[i] = x BY <3>4
    <3>5. CASE i - 1 \in 1..Len(Tail(q)) /\ r[i] = Tail(q)[i - 1]
      <4>1. (i - 1) + 1 \in 1..Len(q) /\ r[i] = q[(i - 1) + 1]
        BY <1>1, <3>1, <3>5, TailElements
      <4>2. (i - 1) + 1 = i BY <1>4
      <4> QED BY <1>2, <4>1, <4>2
    <3> QED BY <3>3, <3>4, <3>5
  <2>2. CASE ~Draining /\ Current(n).type \in HomeRequest
    <3>1. r = Append(q, x) BY <1>1, <2>2, Kinds
    <3>2. \/ i \in 1..Len(q) /\ r[i] = q[i]
          \/ i = Len(q) + 1 /\ r[i] = x
      BY <1>1, <1>4, <3>1, AppendElements
    <3> QED BY <1>1, <1>2, <2>2, <3>2
  <2>3. CASE ~Draining /\ Current(n).type \in OwnerRequest /\ FirstType(n, a) \notin OwnerRequest
    <3>a. r = <<x>> \o q /\ q \in Seq(Message) /\ x \in Message BY <1>1, <2>3
    <3>1. (i = 1 /\ r[i] = x) \/ (i - 1 \in 1..Len(q) /\ r[i] = q[i - 1])
      <4>1. i \in 1..Len(r) BY <1>4
      <4> HIDE DEF r, q
      <4> QED BY <3>a, <4>1, FrontElements
    <3>2. CASE i = 1 /\ r[i] = x BY <3>2
    <3>3. CASE i - 1 \in 1..Len(q) /\ r[i] = q[i - 1]
      <4>1. q[i - 1] \in Message /\ q[i - 1] \notin NoRequest
        BY <1>1, <3>3, ElementOfSeq DEF RequestsWait, None
      <4>2. q[i - 1].type \in HomeRequest \cup OwnerRequest BY <4>1 DEF NoRequest
      <4>3. CASE i - 1 > 1 BY <1>2, <3>3, <4>3
      <4>4. CASE i - 1 = 1
        <5>1. q # <<>> /\ Head(q) = q[1]
          BY <1>1, <3>3, <4>4, HeadTailProperties, EmptySeq
        <5>2. FirstType(n, a) = q[1].type BY <5>1 DEF FirstType
        <5> QED BY <2>3, <3>3, <4>2, <4>4, <5>2
      <4> QED BY <1>4, <3>3, <4>3, <4>4
    <3> QED BY <3>1, <3>2, <3>3
  <2> QED BY <2>1, <2>2, <2>3
<1> QED BY <1>1, <1>4, OthersFrom

\* A message that has come in had come in before, or is x.
FromIncoming(dsts, x) ==
  \A m \in Node : \A i \in 1..Len(incomingMsgQueue'[m]) :
    \/ \E j \in 1..Len(incomingMsgQueue[m]) : incomingMsgQueue'[m][i] = incomingMsgQueue[m][j]
    \/ m \in dsts /\ incomingMsgQueue'[m][i] = x

\* A queue that was passed to, and taken from, has old messages and the new one.
LEMMA SentFrom ==
  ASSUME NEW q \in Seq(Message), NEW p \in Seq(Message), NEW x \in Message, NEW sent \in BOOLEAN,
         NEW r, p = q \/ (q # <<>> /\ p = Tail(q)), r = IF sent THEN Append(p, x) ELSE p,
         NEW i \in 1..Len(r)
  PROVE  (\E j \in 1..Len(q) : r[i] = q[j]) \/ (sent /\ r[i] = x)
<1>1. \A k \in 1..Len(p) : \E j \in 1..Len(q) : p[k] = q[j]
  <2>1. CASE p = q BY <2>1
  <2>2. CASE q # <<>> /\ p = Tail(q) BY <2>2, TailElements
  <2> QED BY <2>1, <2>2
<1>2. CASE ~sent BY <1>1, <1>2
<1>3. CASE sent
  <2>1. (i \in 1..Len(p) /\ r[i] = p[i]) \/ (i = Len(p) + 1 /\ r[i] = x)
    BY <1>3, AppendElements
  <2> QED BY <1>1, <1>3, <2>1
<1> QED BY <1>2, <1>3

\* After a reply all messages under way are old or the one that was sent.
LEMMA ReplyFrom ==
  ASSUME TypeOK, NEW n \in Node, Handling(n), NEW dsts, NEW type \in MessageType,
         Reply(n, dsts, type), NEW x, x = NewMessage(n, A(n), type, nodeLatency)
  PROVE  x \in Message /\ FromIncoming(dsts, x)
<1>1. A(n) \in Addr /\ nodeLatency \in Nat BY CurrentType DEF TypeOK
<1>2. x \in Message BY <1>1, NewMessageType
<1>3. ASSUME NEW m \in Node, NEW i \in 1..Len(incomingMsgQueue'[m])
      PROVE  \/ \E j \in 1..Len(incomingMsgQueue[m]) :
                  incomingMsgQueue'[m][i] = incomingMsgQueue[m][j]
             \/ m \in dsts /\ incomingMsgQueue'[m][i] = x
  <2> DEFINE q == incomingMsgQueue[m]
             p == Rest(n)[m]
             r == incomingMsgQueue'[m]
             sent == m \in dsts
  <2>1. q \in Seq(Message) /\ p \in Seq(Message) BY CurrentType DEF TypeOK
  <2>2. r = IF sent THEN Append(p, x) ELSE p BY DEF Reply, SendMsgToNode, A
  <2>3. p = q \/ (q # <<>> /\ p = Tail(q))
    BY DEF Rest, TypeOK, Handling, Draining, Arrived
  <2>4. sent \in BOOLEAN /\ i \in 1..Len(r) BY <1>3
  <2> HIDE DEF q, p, r, sent
  <2>5. (\E j \in 1..Len(q) : r[i] = q[j]) \/ (sent /\ r[i] = x)
    BY <1>2, <2>1, <2>2, <2>3, <2>4, SentFrom
  <2> QED BY <2>5 DEF q, r, sent
<1> QED BY <1>2, <1>3 DEF FromIncoming

-------------------------------------------------------------------------------
(* What the invariant says of the message in hand. *)

\* The operation of a node that is in one place is in no other.
AnswerMsgs == {msg \in Message : msg.type \in Answers}
NoAnswer(o) == None(incomingMsgQueue[o], AnswerMsgs)
NoAsk(o) ==
  \A m \in Node : /\ None(incomingMsgQueue[m], AskMarks(o))
                  /\ \A b \in Addr : None(blockedMsgMap[m][b], AskMarks(o))
NoAccess(o) == None(cacheMsgQueue[o], CacheMarks)

\* A place that is not free of marks is the one place the operation is in.
LEMMA OneMark ==
  ASSUME NEW o \in Node, Outstanding(o), NEW p \in Place, ~Free(o, p)
  PROVE  ~currentMemOpSuccessful[o] /\ Lone(o, p) /\ \A r \in Place \ {p} : Free(o, r)
<1>1. ~currentMemOpSuccessful[o] BY DEF Outstanding
<1>2. PICK s \in Place : Lone(o, s) /\ \A r \in Place \ {s} : Free(o, r) BY <1>1 DEF Outstanding
<1> QED BY <1>1, <1>2

\* What it means for each kind of queue to be free of a node's marks.
LEMMA FreeMeans ==
  ASSUME NEW o \in Node
  PROVE  /\ \A m \in Node : Free(o, In(m)) => None(incomingMsgQueue[m], AskMarks(o))
         /\ \A m \in Node, b \in Addr : Free(o, Blk(m, b)) => None(blockedMsgMap[m][b], AskMarks(o))
         /\ Free(o, In(o)) => NoAnswer(o)
         /\ Free(o, Own) => NoAccess(o)
<1>1. \A m \in Node : AskMarks(o) \subseteq InMarks(o, m) BY DEF InMarks
<1>2. AnswerMsgs \subseteq InMarks(o, o) BY DEF InMarks, AnswerMsgs
<1>3. \A m \in Node : Free(o, In(m)) <=> None(incomingMsgQueue[m], InMarks(o, m))
  BY QueuesAtPlaces DEF Free
<1>4. \A m \in Node, b \in Addr : Free(o, Blk(m, b)) <=> None(blockedMsgMap[m][b], AskMarks(o))
  BY QueuesAtPlaces DEF Free
<1>5. Free(o, Own) <=> None(cacheMsgQueue[o], CacheMarks) BY QueuesAtPlaces DEF Free
<1> QED BY <1>1, <1>2, <1>3, <1>4, <1>5 DEF None, NoAnswer, NoAccess

\* A node with no operation in progress.
LEMMA IdleNode ==
  ASSUME NEW o \in Node, Outstanding(o), currentMemOpSuccessful[o]
  PROVE  NoAnswer(o) /\ NoAsk(o) /\ NoAccess(o)
<1>1. \A p \in Place : Free(o, p) BY DEF Outstanding
<1> QED BY <1>1, FreeMeans, Places DEF NoAsk

\* A node whose request waits in a blocked queue.
LEMMA AskWaits ==
  ASSUME NEW o \in Node, Outstanding(o), NEW m \in Node, NEW b \in Addr,
         ~None(blockedMsgMap[m][b], AskMarks(o))
  PROVE  /\ ~currentMemOpSuccessful[o] /\ NoAnswer(o) /\ NoAccess(o)
<1>1. ~Free(o, Blk(m, b)) BY QueuesAtPlaces DEF Free
<1>2. ~currentMemOpSuccessful[o] /\ \A r \in Place \ {Blk(m, b)} : Free(o, r)
  BY <1>1, OneMark, Places
<1> QED BY <1>2, FreeMeans, Places

\* The message in hand is a request of the node o, or the answer to the node itself.
LEMMA RequestInHand ==
  ASSUME TypeOK, NEW n \in Node, Handling(n), Current(n).type \in HomeRequest,
         Draining => A(n) = drainAddr, NEW o \in Node, o = Source(n), Outstanding(o)
  PROVE  ~currentMemOpSuccessful[o] /\ NoAnswer(o) /\ NoAccess(o)
<1>1. Current(n) \in AskMarks(o) /\ Current(n) \in InMarks(o, n) BY HandMarks
<1>2. CASE Draining
  <2>1. PICK b \in Addr : b = drainAddr BY DEF TypeOK
  <2>2. blockedMsgMap[n][b] \in Seq(Message) /\ blockedMsgMap[n][b] # <<>>
        /\ Current(n) = Head(blockedMsgMap[n][b])
    BY <1>2, <2>1 DEF TypeOK, Handling, Current, Draining
  <2>3. 1 \in 1..Len(blockedMsgMap[n][b]) /\ Current(n) = blockedMsgMap[n][b][1]
    BY <2>2, HeadTailProperties, EmptySeq, LenProperties
  <2>4. ~None(blockedMsgMap[n][b], AskMarks(o)) BY <1>1, <2>3 DEF None
  <2> QED BY <2>4, AskWaits
<1>3. CASE ~Draining
  <2>1. 1 \in 1..Len(incomingMsgQueue[n]) /\ Current(n) = incomingMsgQueue[n][1]
    BY <1>3, InHand
  <2>2. ~Free(o, In(n)) BY <1>1, <2>1, QueuesAtPlaces DEF Free, None
  <2>3. /\ ~currentMemOpSuccessful[o] /\ Lone(o, In(n))
        /\ \A r \in Place \ {In(n)} : Free(o, r)
    BY <2>2, OneMark, Places
  <2>a. Own \in Place \ {In(n)} BY Places, CurrentType
  <2>4. NoAccess(o) BY <2>3, <2>a, FreeMeans
  <2>5. CASE o # n
    <3>1. In(o) \in Place \ {In(n)} BY <2>5, Places
    <3> QED BY <2>3, <2>4, <3>1, FreeMeans
  <2>6. CASE o = n
    <3>1. One(incomingMsgQueue[n], InMarks(n, n)) BY <2>3, <2>6, QueuesAtPlaces DEF Lone
    <3>2. \A j \in 1..Len(incomingMsgQueue[n]) :
            j # 1 => incomingMsgQueue[n][j] \notin InMarks(n, n)
      BY <1>1, <2>1, <2>6, <3>1 DEF One
    <3>3. Current(n) \notin AnswerMsgs BY Kinds DEF AnswerMsgs
    <3>4. AnswerMsgs \subseteq InMarks(n, n) BY DEF InMarks, AnswerMsgs
    <3>5. NoAnswer(n) BY <2>1, <3>2, <3>3, <3>4 DEF NoAnswer, None
    <3> QED BY <2>3, <2>4, <2>6, <3>5
  <2> QED BY <2>5, <2>6
<1> QED BY <1>2, <1>3

\* Who has the answer in hand has nothing else of the operation under way.
LEMMA AnswerInHand ==
  ASSUME TypeOK, RequestsWait, NEW n \in Node, Handling(n), Current(n).type \in Answers,
         Outstanding(n)
  PROVE  ~Draining /\ ~currentMemOpSuccessful[n] /\ NoAsk(n) /\ NoAccess(n)
<1>0. ~Draining BY OthersCameIn, Kinds
<1>1. Current(n) \notin AskMarks(n) /\ Current(n) \in InMarks(n, n) BY HandMarks
<1>2. 1 \in 1..Len(incomingMsgQueue[n]) /\ Current(n) = incomingMsgQueue[n][1]
  BY <1>0, InHand
<1>3. ~Free(n, In(n)) BY <1>1, <1>2, QueuesAtPlaces DEF Free, None
<1>4. /\ ~currentMemOpSuccessful[n] /\ Lone(n, In(n))
      /\ \A r \in Place \ {In(n)} : Free(n, r)
  BY <1>3, OneMark, Places
<1>5. One(incomingMsgQueue[n], InMarks(n, n)) BY <1>4, QueuesAtPlaces DEF Lone
<1>6. \A j \in 1..Len(incomingMsgQueue[n]) : j # 1 => incomingMsgQueue[n][j] \notin InMarks(n, n)
  BY <1>1, <1>2, <1>5 DEF One
<1>7. AskMarks(n) \subseteq InMarks(n, n) BY DEF InMarks
<1>8. None(incomingMsgQueue[n], AskMarks(n)) BY <1>1, <1>2, <1>6, <1>7 DEF None
<1>9. \A m \in Node \ {n} : None(incomingMsgQueue[m], AskMarks(n))
  BY <1>4, FreeMeans, Places
<1>10. \A m \in Node, b \in Addr : None(blockedMsgMap[m][b], AskMarks(n))
  BY <1>4, FreeMeans, Places
<1>a. Own \in Place \ {In(n)} BY Places, CurrentType
<1>11. NoAccess(n) BY <1>4, <1>a, FreeMeans
<1> QED BY <1>0, <1>4, <1>8, <1>9, <1>10, <1>11 DEF NoAsk

\* The invariant has the types and the order of the blocked queues.
LEMMA InvTypes == CoherenceInv => TypeOK /\ BlockingInv
  BY DEF CoherenceInv, OutstandingInv, BlockingInv

\* What the invariant says of the message in hand.
LEMMA Hand ==
  ASSUME CoherenceInv, NEW n \in Node, Handling(n), NEW a \in Addr, a = A(n)
  PROVE  /\ TypeOK /\ BlockedInOrder /\ RequestsWait /\ HoldersFirst /\ BlockingInv
         /\ Current(n) \in Message /\ ~Current(n).serviced
         /\ Draining => Current(n).type \in HomeRequest /\ a = drainAddr
         /\ Current(n).type \in HomeRequest => Home[a] = n /\ FitsOp(Current(n))
         /\ ~Draining => IncomingOK(n, Current(n))
         /\ Current(n) \in Message /\ Source(n) \in Node
<1>1. TypeOK /\ BlockedInOrder /\ RequestsWait /\ HoldersFirst /\ BlockingInv /\ MessagesOK
  BY DEF CoherenceInv, OutstandingInv, BlockingInv
<1>2. Current(n) \in Message /\ Source(n) \in Node BY <1>1, CurrentType
<1>3. CASE ~Draining
  <2>1. 1 \in 1..Len(incomingMsgQueue[n]) /\ Current(n) = incomingMsgQueue[n][1]
    BY <1>1, <1>3, InHand
  <2>2. IncomingOK(n, Current(n)) BY <1>1, <2>1 DEF MessagesOK
  <2> QED BY <1>1, <1>2, <1>3, <2>2 DEF IncomingOK, A
<1>4. CASE Draining
  <2>1. PICK b \in Addr : b = drainAddr BY <1>1 DEF TypeOK
  <2>2. /\ 1 \in 1..Len(blockedMsgMap[n][b]) /\ Current(n) = blockedMsgMap[n][b][1]
        /\ A(n) = b /\ blockedMsgMap[n][b] \in Seq(Message)
    BY <1>1, <1>4, <2>1, DrainsOwnAddress
  <2>3. BlockedOK(n, b, Current(n)) BY <1>1, <2>2 DEF MessagesOK
  <2>4. ~Current(n).serviced BY <1>4 DEF Handling, Current, Draining
  <2>5. Current(n) \notin NoRequest BY <1>1, <2>2 DEF RequestsWait, None
  <2>6. Current(n).type \in HomeRequest BY <1>2, <2>3, <2>4, <2>5 DEF BlockedOK, NoRequest
  <2> QED BY <1>1, <1>2, <1>4, <2>1, <2>2, <2>3, <2>4, <2>6 DEF BlockedOK
<1> QED BY <1>3, <1>4

\* A home that serves no request of the line is at rest.
LEMMA ClearAtRest ==
  ASSUME TypeOK, NEW a \in Addr, AtRest(a)
  PROVE  \A m \in Node : Clear(m, a) /\ (Lacks(m, a) \/ Shares(m, a) \/ Owns(m, a))
<1>1. \A m \in Node \ Mask(a) : Clear(m, a) /\ Lacks(m, a) BY DEF AtRest, Lacks
<1>2. \A m \in Mask(a) : Clear(m, a) /\ (Shares(m, a) \/ Owns(m, a)) BY DEF AtRest
<1> QED BY <1>1, <1>2

\* Whose request is in hand has no answer, no access and no grant under way.
LEMMA RequestHand ==
  ASSUME CoherenceInv, NEW n \in Node, Handling(n), NEW a \in Addr, a = A(n),
         Current(n).type \in HomeRequest, NEW s \in Node, s = Source(n)
  PROVE  /\ n = Home[a]
         /\ ~currentMemOpSuccessful[s] /\ NoAnswer(s) /\ NoAccess(s)
         /\ \A b \in Addr : NoGrant(s, b)
         /\ Current(n).type \in {"READ_MISS", "WRITE_MISS"} => cacheLineStatus[s][a] = "I"
         /\ currentMemOp[s].addr = a
         /\ currentMemOp[s].type = IF Current(n).type = "READ_MISS" THEN "read" ELSE "write"
         /\ Serviceable(n) => ~Serving(a) /\ AtRest(a)
<1>1. TypeOK /\ Home[a] = n /\ FitsOp(Current(n)) /\ (Draining => a = drainAddr) BY Hand
<1>2. Outstanding(s) /\ MissesOK /\ LineInv(a) BY DEF CoherenceInv, OutstandingInv
<1>3. ~currentMemOpSuccessful[s] /\ NoAnswer(s) /\ NoAccess(s) BY <1>1, <1>2, RequestInHand
<1>4. \A b \in Addr : NoGrant(s, b)
  <2> TAKE b \in Addr
  <2>1. GrantsOf(b) \subseteq AnswerMsgs BY Kinds DEF GrantsOf, About, AnswerMsgs
  <2> QED BY <1>3, <2>1 DEF NoGrant, NoAnswer, None
<1>5. Current(n).type \in {"READ_MISS", "WRITE_MISS"} => cacheLineStatus[s][a] = "I"
  <2> HAVE Current(n).type \in {"READ_MISS", "WRITE_MISS"}
  <2>1. Current(n) \in Misses(a, s) BY <1>1, HandAbout DEF Misses
  <2>2. CASE ~Draining
    <3>1. ~None(incomingMsgQueue[n], Misses(a, s)) BY <1>1, <2>1, <2>2, InHand
    <3> QED BY <1>2, <3>1 DEF MissesOK
  <2>3. CASE Draining
    <3>1. PICK b \in Addr : b = drainAddr BY <1>1, <2>3
    <3>2. /\ 1 \in 1..Len(blockedMsgMap[n][b]) /\ Current(n) = blockedMsgMap[n][b][1]
      BY <1>1, <2>3, <3>1, DrainsOwnAddress DEF CoherenceInv, OutstandingInv, BlockingInv
    <3>3. ~None(blockedMsgMap[n][b], Misses(a, s)) BY <2>1, <3>2 DEF None
    <3> QED BY <1>1, <1>2, <2>3, <3>1, <3>3 DEF MissesOK
  <2> QED BY <2>2, <2>3
<1>6. /\ currentMemOp[s].addr = a
      /\ currentMemOp[s].type = IF Current(n).type = "READ_MISS" THEN "read" ELSE "write"
  BY <1>1 DEF FitsOp, A, Source
<1>7. Serviceable(n) => ~Serving(a)
  <2> HAVE Serviceable(n)
  <2>1. CASE ~Draining
    <3>1. blockedMsgMap[n][a] = <<>> BY <2>1 DEF Serviceable, A
    <3>2. Requests(a) = <<>> BY <1>1, <3>1, QueueIs
    <3> QED BY <3>2 DEF Serving
  <2>2. CASE Draining
    <3>1. blockedMsgMap[n][a] # <<>> /\ Current(n) = Head(blockedMsgMap[n][a])
          /\ ~Head(blockedMsgMap[n][a]).serviced
      BY <1>1, <2>2 DEF Handling, Current, Draining
    <3>2. FirstType(n, a) \notin OwnerRequest BY <3>1, QueueIs
    <3>3. Requests(a) = blockedMsgMap[n][a] BY <1>1, <3>2, QueueIs
    <3> QED BY <3>1, <3>3 DEF Serving
  <2> QED BY <2>1, <2>2
<1>8. ~Serving(a) => AtRest(a) BY <1>2 DEF LineInv, AwaitsAcks, AwaitsOwner
<1> QED BY <1>1, <1>3, <1>4, <1>5, <1>6, <1>7, <1>8

-------------------------------------------------------------------------------
(* The lines after a message was handled. *)

\* The nodes it does not concern.
LEMMA Bystander ==
  ASSUME TypeOK, NEW n \in Node, Handling(n), NEW a \in Addr, a = A(n),
         NEW dsts, NEW type \in MessageType, Reply(n, dsts, type), NEW m \in Node,
         ~Draining /\ m = n => Current(n).type \notin Grant \cup OwnerRequest,
         m \in dsts => type \notin Grant \cup OwnerRequest,
         ~Draining /\ n = Home[a] /\ m = Source(n) => Current(n).type \notin HomeAnswer,
         Home[a] \in dsts /\ m = n => type \notin HomeAnswer,
         FirstSame(m, a), cacheLineStatus'[m][a] = cacheLineStatus[m][a],
         currentMemOp'[m] = currentMemOp[m], protocol' = protocol
  PROVE  RolesStay(m, a) /\ GrantSame(m, a) /\ TokenSame(m, a)
<1>1. GrantSame(m, a) BY GrantsUnmoved DEF GrantSame
<1>2. AsksSame(m, a) BY AsksUnmoved
<1>3. AcksSame(m, a) BY AcksUnmoved
<1> QED BY <1>1, <1>2, <1>3, RolesKept DEF TokenSame

\* The lines it does not concern.
OthersSame(a) ==
  /\ \A b \in Addr \ {a} : /\ ServingSame(b) /\ pendingInvAckCount'[b] = pendingInvAckCount[b]
                           /\ directory'[b] = directory[b]
                           /\ \A m \in Node : /\ FirstSame(m, b)
                                              /\ cacheLineStatus'[m][b] = cacheLineStatus[m][b]
  /\ currentMemOp' = currentMemOp /\ protocol' = protocol

\* A handler that keeps the phase of its own line keeps that of all.
LEMMA LinesAfter ==
  ASSUME CoherenceInv, NEW n \in Node, Handling(n), NEW a \in Addr, a = A(n),
         NEW dsts, NEW type \in MessageType, Reply(n, dsts, type), OthersSame(a), LineInv(a)'
  PROVE  \A b \in Addr : LineInv(b)'
<1> SUFFICES ASSUME NEW b \in Addr \ {a} PROVE LineInv(b)' OBVIOUS
<1>1. TypeOK /\ LineInv(b) BY DEF CoherenceInv, OutstandingInv, BlockingInv
<1>2. \A m \in Node : GrantSame(m, b) /\ TokenSame(m, b)
  BY <1>1, OtherLine DEF GrantSame, TokenSame, OthersSame
<1>3. \A m \in Node : RolesStay(m, b) BY <1>2, RolesKept DEF OthersSame
<1>4. DirSame(b) BY DEF DirSame, Mask, OthersSame
<1>5. GrantsFirst(b)' BY <1>1, OtherLine DEF LineInv
<1>6. ServingSame(b) /\ pendingInvAckCount'[b] = pendingInvAckCount[b] /\ protocol' = protocol
  BY DEF OthersSame
<1> QED BY <1>1, <1>3, <1>4, <1>5, <1>6, LineKept

\* The entry of a line at rest, as lookUpEntry returns it.
LEMMA RestEntry ==
  ASSUME TypeOK, NEW n \in Node, Handling(n), NEW a \in Addr, a = A(n), AtRest(a)
  PROVE  /\ Entry(n) \in Entries(Node) /\ Entry(n) # NoEntry
         /\ Entry(n).processorMask = Mask(a)
         /\ Entry(n).status = "UNCACHED" => Mask(a) = {}
         /\ Entry(n).status = "SHARED"
              => Mask(a) # {} /\ \A m \in Mask(a) : Shares(m, a) /\ Clear(m, a)
         /\ Entry(n).status \in OwnedEntry
              => \E o \in Node : Mask(a) = {o} /\ Owns(o, a) /\ Clear(o, a)
         /\ \/ Entry(n).status = directory[a].status
            \/ directory[a].status = "ABSENT" /\ Entry(n).status = "UNCACHED"
<1>1. directory[a] \in Entries(Node) /\ Entry(n) \in Entries(Node) BY EntryType
<1>2. Entry(n) = LookUpEntry(directory[a]) BY DEF Entry
<1>3. directory[a].status = "ABSENT" => directory[a] = NoEntry
  BY <1>1 DEF AtRest, OwnedEntry, Entries, NoEntry, Mask
<1>4. directory[a] = NoEntry => directory[a].status = "ABSENT" BY DEF NoEntry
<1>5. /\ directory[a].status = "ABSENT"
           => Entry(n) = [status |-> "UNCACHED", processorMask |-> {}] /\ Mask(a) = {}
      /\ directory[a].status # "ABSENT" => Entry(n) = directory[a]
  BY <1>2, <1>3, <1>4 DEF LookUpEntry, NoEntry, Mask
<1>6. Entry(n) # NoEntry BY <1>4, <1>5 DEF NoEntry
<1>7. "UNCACHED" \notin OwnedEntry /\ "SHARED" \notin OwnedEntry /\ "ABSENT" \notin OwnedEntry
  BY DEF OwnedEntry
<1>8. CASE directory[a].status = "ABSENT" BY <1>1, <1>5, <1>6, <1>7, <1>8
<1>9. CASE directory[a].status # "ABSENT"
  <2>1. Entry(n) = directory[a] BY <1>5, <1>9
  <2>2. Entry(n).processorMask = Mask(a) BY <2>1 DEF Mask
  <2> QED BY <1>1, <1>6, <1>7, <2>1, <2>2 DEF AtRest
<1> QED BY <1>8, <1>9

\* What updateEntry makes of an entry that is there.
LEMMA UpdateIs ==
  ASSUME NEW e, e # NoEntry, NEW p
  PROVE  /\ UpdateEntry(e, "SHARED", p)
              = [status |-> "SHARED", processorMask |-> e.processorMask \cup {p}]
         /\ \A status \in {"MODIFIED", "EXCLUSIVE"} :
              UpdateEntry(e, status, p) = [status |-> status, processorMask |-> {p}]
  BY DEF UpdateEntry

\* An assignment to the entry of a line, seen from the nodes in it.
LEMMA EntryBecomes ==
  ASSUME TypeOK, NEW a \in Addr, NEW e, SetEntry(a, e)
  PROVE  /\ directory'[a] = e /\ Mask(a)' = e.processorMask
         /\ \A b \in Addr \ {a} : directory'[b] = directory[b]
  BY DEF TypeOK, SetEntry, Mask

\* The owner of an entry with one node is that node.
LEMMA OwnerIs ==
  ASSUME NEW e, NEW o \in Node, e.processorMask = {o}
  PROVE  Owner(e) = o
  BY DEF Owner, Node

\* A line the home does not serve, after a request for it was granted.
LEMMA GrantsRest ==
  ASSUME CoherenceInv, NEW n \in Node, Handling(n), NEW a \in Addr, a = A(n),
         Current(n).type \in HomeRequest, Serviceable(n), NEW s \in Node, s = Source(n),
         NEW type \in Grant, Reply(n, {s}, type), Done(n),
         UNCHANGED <<cacheLineStatus, pendingInvAckCount, currentMemOp, protocol>>
  PROVE  /\ \A m \in Node, b \in Addr : FirstSame(m, b)
         /\ \A b \in Addr : ServingSame(b)
         /\ ~Serving(a)' /\ pendingInvAckCount'[a] = 0
         /\ \A m \in Node \ {s} : RolesStay(m, a)
         /\ Granted(s, a, type)' /\ Clear(s, a)'
         /\ GrantsFirst(a)'
<1>1. TypeOK /\ BlockingInv /\ LineInv(a) BY Hand DEF CoherenceInv
<1>2. /\ n = Home[a] /\ ~Serving(a) /\ AtRest(a) /\ NoGrant(s, a) BY RequestHand
<1>3. \A m \in Node, b \in Addr : FirstSame(m, b) BY <1>1, DoneFirst
<1>4. \A b \in Addr : ServingSame(b) BY <1>1, DoneFirst
<1>5. ~Serving(a)' BY <1>2, <1>4 DEF ServingSame
<1>6. pendingInvAckCount'[a] = 0 BY <1>2 DEF AtRest
<1>7. type \in MessageType /\ type \notin HomeAnswer \cup OwnerRequest
      /\ Current(n).type \notin Grant \cup OwnerRequest \cup HomeAnswer
  BY Kinds DEF MessageType
<1>8. \A m \in Node \ {s} : RolesStay(m, a)
  BY <1>1, <1>3, <1>7, Bystander
<1>9. Granted(s, a, type)' BY <1>1, <1>2, <1>7, GrantArrives
<1>10. Clear(s, a) BY <1>1, <1>2, ClearAtRest
<1>11. AsksSame(s, a) /\ AcksSame(s, a) /\ FirstSame(s, a)
  BY <1>1, <1>3, <1>7, AsksUnmoved, AcksUnmoved
<1>12. Clear(s, a)' BY <1>10, <1>11, TokenKept DEF TokenSame
<1>13. None(incomingMsgQueue[s], AsksOf(a)) BY <1>10 DEF Clear
<1>14. GrantsFirst(a)' BY <1>1, <1>7, <1>13, OrderUnmoved DEF LineInv
<1> QED BY <1>3, <1>4, <1>5, <1>6, <1>8, <1>9, <1>12, <1>14

\* It is at rest again when the entry counts the node in.
LEMMA GrantLine ==
  ASSUME CoherenceInv, NEW n \in Node, Handling(n), NEW a \in Addr, a = A(n),
         Current(n).type \in HomeRequest, Serviceable(n), NEW s \in Node, s = Source(n),
         NEW type \in Grant, Reply(n, {s}, type), Done(n),
         UNCHANGED <<cacheLineStatus, pendingInvAckCount, currentMemOp, protocol>>,
         NEW e, SetEntry(a, e),
         \/ /\ e.status = "SHARED" /\ e.processorMask = Mask(a) \cup {s}
            /\ \A m \in Mask(a) : Shares(m, a) /\ Clear(m, a)
            /\ Granted(s, a, type)' => Shares(s, a)'
         \/ /\ e.status \in OwnedEntry /\ e.processorMask = {s} /\ Mask(a) \subseteq {s}
            /\ Granted(s, a, type)' => Owns(s, a)'
  PROVE  \A b \in Addr : LineInv(b)'
<1>1. TypeOK BY Hand
<1>2. /\ \A m \in Node, b \in Addr : FirstSame(m, b)
      /\ \A b \in Addr : ServingSame(b)
      /\ ~Serving(a)' /\ pendingInvAckCount'[a] = 0
      /\ \A m \in Node \ {s} : RolesStay(m, a)
      /\ Granted(s, a, type)' /\ Clear(s, a)' /\ GrantsFirst(a)'
  BY GrantsRest
<1>3. directory'[a] = e /\ Mask(a)' = e.processorMask
      /\ \A b \in Addr \ {a} : directory'[b] = directory[b]
  BY <1>1, EntryBecomes
<1>4. OwnedEntry' = OwnedEntry BY DEF OwnedEntry
<1>5. AtRest(a) /\ Mask(a) \subseteq Node BY <1>1, RequestHand, MaskType
<1>6. \A m \in Node \ Mask(a)' : Lacks(m, a)'
  <2> TAKE m \in Node \ Mask(a)'
  <2>1. m # s /\ m \in Node \ Mask(a) BY <1>3
  <2>2. Lacks(m, a) BY <1>5, <2>1 DEF AtRest
  <2> QED BY <1>2, <2>1, <2>2 DEF RolesStay
<1>7. AtRest(a)'
  <2>1. CASE /\ e.status = "SHARED" /\ e.processorMask = Mask(a) \cup {s}
             /\ \A m \in Mask(a) : Shares(m, a) /\ Clear(m, a)
             /\ Granted(s, a, type)' => Shares(s, a)'
    <3>1. \A m \in Mask(a)' : Shares(m, a)' /\ Clear(m, a)'
      <4> TAKE m \in Mask(a)'
      <4>1. CASE m = s BY <1>2, <2>1, <4>1
      <4>2. CASE m # s
        <5>1. m \in Mask(a) /\ m \in Node \ {s} BY <1>3, <1>5, <2>1, <4>2
        <5> QED BY <1>2, <2>1, <5>1 DEF RolesStay
      <4> QED BY <4>1, <4>2
    <3>2. directory'[a].status = "SHARED" /\ Mask(a)' # {} BY <1>3, <2>1
    <3> QED BY <1>2, <1>6, <3>1, <3>2 DEF AtRest
  <2>2. CASE /\ e.status \in OwnedEntry /\ e.processorMask = {s} /\ Mask(a) \subseteq {s}
             /\ Granted(s, a, type)' => Owns(s, a)'
    <3>1. directory'[a].status \in OwnedEntry' /\ Mask(a)' = {s} BY <1>3, <1>4, <2>2
    <3>2. Owns(s, a)' /\ Clear(s, a)' BY <1>2, <2>2
    <3> QED BY <1>2, <1>6, <3>1, <3>2 DEF AtRest
  <2> QED BY <2>1, <2>2
<1>8. LineInv(a)' BY <1>2, <1>7 DEF LineInv
<1>9. OthersSame(a) BY <1>2, <1>3 DEF OthersSame
<1>10. type \in MessageType BY Kinds DEF MessageType
<1> QED BY <1>8, <1>9, <1>10, LinesAfter

\* A read of a line that is not owned.
LEMMA ReadMissSharesLines ==
  ASSUME CoherenceInv, NEW n \in Node, ReadMissShares(n)
  PROVE  \A a \in Addr : LineInv(a)'
<1>1. /\ Handling(n) /\ Current(n).type = "READ_MISS" /\ UNCHANGED <<globals, halt, cache>>
      /\ "READ_MISS" \in HomeRequest /\ Serviceable(n)
  BY HandlesWhat DEF ReadMissShares, ReadMiss, HomeRequest
<1>2. TypeOK /\ A(n) \in Addr /\ Source(n) \in Node BY <1>1, InvTypes, CurrentType
<1>3. PICK a \in Addr : a = A(n) BY <1>2
<1>4. PICK s \in Node : s = Source(n) BY <1>2
<1>5. /\ AtRest(a) /\ NoGrant(s, a) /\ cacheLineStatus[s][a] = "I" /\ currentMemOp[s].type = "read"
  BY <1>1, <1>3, <1>4, RequestHand
<1>6. PICK e : e = UpdateEntry(Entry(n), "SHARED", s) OBVIOUS
<1>7. /\ Reply(n, {s}, "DATA_VALUE_REPLY") /\ SetEntry(a, e) /\ Done(n)
      /\ UNCHANGED <<cacheLineStatus, pendingInvAckCount, currentMemOp, protocol>>
      /\ "DATA_VALUE_REPLY" \in Grant
  BY <1>1, <1>3, <1>4, <1>6 DEF ReadMissShares, ReadMiss, procVars, globals, Grant
<1>8. e.status = "SHARED" /\ e.processorMask = Mask(a) \cup {s}
      /\ \A m \in Mask(a) : Shares(m, a) /\ Clear(m, a)
  <2>1. e = [status |-> "SHARED", processorMask |-> Entry(n).processorMask \cup {s}]
    BY <1>1, <1>2, <1>3, <1>5, <1>6, RestEntry, UpdateIs
  <2>2. Entry(n).processorMask = Mask(a) BY <1>1, <1>2, <1>3, <1>5, RestEntry
  <2>3. Entry(n).status \in {"SHARED", "UNCACHED"} BY DEF ReadMissShares
  <2>4. \A m \in Mask(a) : Shares(m, a) /\ Clear(m, a)
    BY <1>1, <1>2, <1>3, <1>5, <2>3, RestEntry
  <2> QED BY <2>1, <2>2, <2>4
<1>9. Granted(s, a, "DATA_VALUE_REPLY")' => Shares(s, a)'
  BY <1>5, <1>7 DEF Shares
<1> QED BY <1>1, <1>3, <1>4, <1>7, <1>8, <1>9, GrantLine

\* A read miss of an uncached line: its sender gets it EXCLUSIVE (MESI).
LEMMA ReadMissGivesExclusiveLines ==
  ASSUME CoherenceInv, NEW n \in Node, ReadMissGivesExclusive(n)
  PROVE  \A a \in Addr : LineInv(a)'
<1>1. /\ Handling(n) /\ Current(n).type = "READ_MISS" /\ UNCHANGED <<globals, halt, cache>>
      /\ "READ_MISS" \in HomeRequest /\ Serviceable(n)
  BY HandlesWhat DEF ReadMissGivesExclusive, ReadMiss, HomeRequest
<1>2. TypeOK /\ A(n) \in Addr /\ Source(n) \in Node BY <1>1, InvTypes, CurrentType
<1>3. PICK a \in Addr : a = A(n) BY <1>2
<1>4. PICK s \in Node : s = Source(n) BY <1>2
<1>5. /\ AtRest(a) /\ NoGrant(s, a) /\ cacheLineStatus[s][a] = "I"
  BY <1>1, <1>3, <1>4, RequestHand
<1>6. PICK e : e = UpdateEntry(Entry(n), "EXCLUSIVE", s) OBVIOUS
<1>7. /\ Reply(n, {s}, "DATA_VALUE_REPLY_E") /\ SetEntry(a, e) /\ Done(n)
      /\ UNCHANGED <<cacheLineStatus, pendingInvAckCount, currentMemOp, protocol>>
      /\ "DATA_VALUE_REPLY_E" \in Grant /\ protocol = "MESI" /\ Entry(n).status = "UNCACHED"
  BY <1>1, <1>3, <1>4, <1>6 DEF ReadMissGivesExclusive, ReadMiss, procVars, globals, Grant
<1>8. e.status \in OwnedEntry /\ e.processorMask = {s} /\ Mask(a) \subseteq {s}
  <2>1. e = [status |-> "EXCLUSIVE", processorMask |-> {s}]
    BY <1>1, <1>2, <1>3, <1>5, <1>6, RestEntry, UpdateIs
  <2>2. Mask(a) = {} BY <1>1, <1>2, <1>3, <1>5, <1>7, RestEntry
  <2> QED BY <1>7, <2>1, <2>2 DEF OwnedEntry
<1>9. Granted(s, a, "DATA_VALUE_REPLY_E")' => Owns(s, a)'
  BY <1>5, <1>7 DEF Owns
<1> QED BY <1>1, <1>3, <1>4, <1>7, <1>8, <1>9, GrantLine

\* A write of a line nobody has.
LEMMA WriteMissUncachedLines ==
  ASSUME CoherenceInv, NEW n \in Node, WriteMissUncached(n)
  PROVE  \A a \in Addr : LineInv(a)'
<1>1. /\ Handling(n) /\ Current(n).type = "WRITE_MISS" /\ UNCHANGED <<globals, halt, cache>>
      /\ "WRITE_MISS" \in HomeRequest /\ Serviceable(n)
  BY HandlesWhat DEF WriteMissUncached, WriteMiss, HomeRequest
<1>2. TypeOK /\ A(n) \in Addr /\ Source(n) \in Node BY <1>1, InvTypes, CurrentType
<1>3. PICK a \in Addr : a = A(n) BY <1>2
<1>4. PICK s \in Node : s = Source(n) BY <1>2
<1>5. /\ AtRest(a) /\ NoGrant(s, a) /\ cacheLineStatus[s][a] = "I" /\ currentMemOp[s].type = "write"
  BY <1>1, <1>3, <1>4, RequestHand
<1>6. PICK e : e = UpdateEntry(Entry(n), "MODIFIED", s) OBVIOUS
<1>7. /\ Reply(n, {s}, "DATA_VALUE_REPLY") /\ SetEntry(a, e) /\ Done(n)
      /\ UNCHANGED <<cacheLineStatus, pendingInvAckCount, currentMemOp, protocol>>
      /\ "DATA_VALUE_REPLY" \in Grant /\ Entry(n).status = "UNCACHED"
  BY <1>1, <1>3, <1>4, <1>6 DEF WriteMissUncached, WriteMiss, procVars, globals, Grant
<1>8. e.status \in OwnedEntry /\ e.processorMask = {s} /\ Mask(a) \subseteq {s}
  <2>1. e = [status |-> "MODIFIED", processorMask |-> {s}]
    BY <1>1, <1>2, <1>3, <1>5, <1>6, RestEntry, UpdateIs
  <2>2. Mask(a) = {} BY <1>1, <1>2, <1>3, <1>5, <1>7, RestEntry
  <2> QED BY <1>7, <2>1, <2>2 DEF OwnedEntry
<1>9. Granted(s, a, "DATA_VALUE_REPLY")' => Owns(s, a)'
  BY <1>5, <1>7 DEF Owns
<1> QED BY <1>1, <1>3, <1>4, <1>7, <1>8, <1>9, GrantLine

\* A write of a line its node is the only one to share.
LEMMA InvalidateOtherGrantsLines ==
  ASSUME CoherenceInv, NEW n \in Node, InvalidateOtherGrants(n)
  PROVE  \A a \in Addr : LineInv(a)'
<1>1. /\ Handling(n) /\ Current(n).type = "INVALIDATE_OTHER" /\ UNCHANGED <<globals, halt, cache>>
      /\ "INVALIDATE_OTHER" \in HomeRequest /\ Serviceable(n)
  BY HandlesWhat DEF InvalidateOtherGrants, HomeRequest
<1>2. TypeOK /\ A(n) \in Addr /\ Source(n) \in Node BY <1>1, InvTypes, CurrentType
<1>3. PICK a \in Addr : a = A(n) BY <1>2
<1>4. PICK s \in Node : s = Source(n) BY <1>2
<1>5. AtRest(a) /\ NoGrant(s, a) /\ Mask(a) \subseteq Node
  BY <1>1, <1>2, <1>3, <1>4, RequestHand, MaskType
<1>6. PICK e : e = UpdateEntry(Entry(n), "MODIFIED", s) OBVIOUS
<1>7. /\ Reply(n, {s}, "INVALIDATE_OTHER_ACK") /\ SetEntry(a, e) /\ Done(n)
      /\ UNCHANGED <<cacheLineStatus, pendingInvAckCount, currentMemOp, protocol>>
      /\ "INVALIDATE_OTHER_ACK" \in Grant
      /\ Entry(n).status = "SHARED" /\ Entry(n).processorMask \ {s} = {}
  BY <1>1, <1>3, <1>4, <1>6 DEF InvalidateOtherGrants, OtherSharers, procVars, globals, Grant
<1>8. e.status \in OwnedEntry /\ e.processorMask = {s}
  BY <1>1, <1>2, <1>3, <1>5, <1>6, RestEntry, UpdateIs DEF OwnedEntry
<1>9. Mask(a) = {s} /\ Shares(s, a)
  <2>1. Mask(a) # {} /\ Mask(a) \ {s} = {} BY <1>1, <1>2, <1>3, <1>5, <1>7, RestEntry
  <2>2. Mask(a) = {s} BY <2>1
  <2> QED BY <1>1, <1>2, <1>3, <1>5, <1>7, <2>2, RestEntry
<1>10. cacheLineStatus[s][a] = "S"
  <2>1. ~Granted(s, a, "DATA_VALUE_REPLY") BY <1>5, NoneOrOne DEF Granted, NoGrant
  <2> QED BY <1>9, <2>1 DEF Shares, Has
<1>11. Granted(s, a, "INVALIDATE_OTHER_ACK")' => Owns(s, a)'
  BY <1>7, <1>10 DEF Owns
<1> QED BY <1>1, <1>3, <1>4, <1>7, <1>8, <1>9, <1>11, GrantLine

\* Messages that are about no right to a line.
LEMMA OtherMessage ==
  ASSUME CoherenceInv, NEW n \in Node, Handling(n),
         Current(n).type \notin Grant \cup OwnerRequest \cup HomeAnswer,
         NEW dsts, NEW type \in MessageType \ (Grant \cup OwnerRequest \cup HomeAnswer),
         Reply(n, dsts, type),
         \A m \in Node, b \in Addr : FirstSame(m, b), \A b \in Addr : ServingSame(b),
         \A b \in Addr : DirSame(b),
         UNCHANGED <<cacheLineStatus, pendingInvAckCount, currentMemOp, protocol>>
  PROVE  \A b \in Addr : LineInv(b)'
<1>1. TypeOK BY InvTypes
<1>2. PICK a \in Addr : a = A(n) BY <1>1, CurrentType
<1> TAKE b \in Addr
<1>3. LineInv(b) BY DEF CoherenceInv
<1>4. \A m \in Node : GrantSame(m, b)
  BY <1>1, GrantsUnmoved DEF GrantSame
<1>5. \A m \in Node : TokenSame(m, b)
  BY <1>1, AsksUnmoved, AcksUnmoved DEF TokenSame
<1>6. \A m \in Node : RolesStay(m, b) BY <1>4, <1>5, RolesKept
<1>7. GrantsFirst(b)' BY <1>1, <1>3, OrderUnmoved DEF LineInv
<1> QED BY <1>1, <1>3, <1>6, <1>7, LineKept

\* A write that has to be tried again, and a request that waits.
LEMMA RollsBackLines ==
  ASSUME CoherenceInv, NEW n \in Node, InvalidateOtherRollsBack(n)
  PROVE  \A a \in Addr : LineInv(a)'
<1>1. /\ Handling(n) /\ Current(n).type = "INVALIDATE_OTHER" /\ UNCHANGED <<globals, halt, cache>>
      /\ "INVALIDATE_OTHER" \in HomeRequest /\ Serviceable(n)
  BY HandlesWhat DEF InvalidateOtherRollsBack, HomeRequest
<1>2. BlockingInv /\ TypeOK /\ A(n) \in Addr /\ Source(n) \in Node BY <1>1, InvTypes, CurrentType
<1>3. PICK a \in Addr : a = A(n) BY <1>2
<1>4. PICK s \in Node : s = Source(n) BY <1>2
<1>5. AtRest(a) BY <1>1, <1>3, <1>4, RequestHand
<1>6. /\ Reply(n, {s}, "ROLLBACK") /\ SetEntry(a, Entry(n)) /\ Done(n)
      /\ UNCHANGED <<cacheLineStatus, pendingInvAckCount, currentMemOp, protocol>>
      /\ "ROLLBACK" \in MessageType /\ "ROLLBACK" \notin Grant \cup OwnerRequest \cup HomeAnswer
  BY <1>1, <1>3, <1>4
     DEF InvalidateOtherRollsBack, procVars, globals, Grant, OwnerRequest, HomeAnswer,
         MessageType, NodeReply
<1>7. \A b \in Addr : DirSame(b)
  <2>1. directory'[a] = Entry(n) /\ Mask(a)' = Entry(n).processorMask
        /\ \A b \in Addr \ {a} : directory'[b] = directory[b]
    BY <1>2, <1>6, EntryBecomes
  <2>2. DirSame(a) BY <1>1, <1>2, <1>3, <1>5, <2>1, RestEntry DEF DirSame
  <2> QED BY <2>1, <2>2 DEF DirSame, Mask
<1>8. (\A m \in Node, b \in Addr : FirstSame(m, b)) /\ \A b \in Addr : ServingSame(b)
  BY <1>1, <1>2, <1>6, DoneFirst
<1>9. Current(n).type \notin Grant \cup OwnerRequest \cup HomeAnswer BY <1>1, Kinds
<1> QED BY <1>1, <1>6, <1>7, <1>8, <1>9, OtherMessage

\* A request the home blocks behind another changes no line.
LEMMA HomeBusyLines ==
  ASSUME CoherenceInv, NEW n \in Node, HomeBusy(n)
  PROVE  \A a \in Addr : LineInv(a)'
<1>1. /\ Handling(n) /\ Current(n).type \in HomeRequest /\ UNCHANGED <<globals, halt, cache>>
      /\ ~Serviceable(n) /\ Block(n, FALSE)
  BY HandlesWhat DEF HomeBusy
<1>2. BlockingInv /\ TypeOK BY InvTypes
<1>3. Reply(n, {}, "ROLLBACK") /\ "ROLLBACK" \in MessageType
  BY <1>1, <1>2, NoReplyIsReply DEF HomeBusy
<1>4. /\ UNCHANGED <<cacheLineStatus, pendingInvAckCount, currentMemOp, protocol, directory>>
      /\ "ROLLBACK" \notin Grant \cup OwnerRequest \cup HomeAnswer
  BY <1>1 DEF HomeBusy, procVars, homeVars, globals, Grant, OwnerRequest, HomeAnswer
<1>5. \A b \in Addr : DirSame(b) BY <1>4 DEF DirSame, Mask
<1>6. (\A m \in Node, b \in Addr : FirstSame(m, b)) /\ \A b \in Addr : ServingSame(b)
  BY <1>1, <1>2, BlockWaits
<1>7. Current(n).type \notin Grant \cup OwnerRequest \cup HomeAnswer BY <1>1, Kinds
<1> QED BY <1>1, <1>3, <1>4, <1>5, <1>6, <1>7, OtherMessage

\* The end of an operation, and its repetition.
LEMMA OperationLines ==
  ASSUME CoherenceInv, NEW n \in Node, MemOpDone(n) \/ Rollback(n)
  PROVE  \A a \in Addr : LineInv(a)'
<1>1. /\ Handling(n) /\ Current(n).type \in {"CACHE_READ_REPLY", "CACHE_UPDATE_ACK", "ROLLBACK"}
      /\ UNCHANGED <<globals, halt, cache>> /\ Done(n) /\ NoReply(n)
  BY HandlesWhat DEF MemOpDone, Rollback
<1>2. BlockingInv /\ TypeOK BY InvTypes
<1>3. Reply(n, {}, "ROLLBACK") /\ "ROLLBACK" \in MessageType
  BY <1>1, <1>2, NoReplyIsReply
<1>4. /\ UNCHANGED <<cacheLineStatus, pendingInvAckCount, currentMemOp, protocol, directory>>
  BY <1>1 DEF MemOpDone, Rollback, homeVars, globals
<1>5. \A b \in Addr : DirSame(b) BY <1>4 DEF DirSame, Mask
<1>6. PICK a \in Addr : a = A(n) BY <1>1, <1>2, CurrentType
<1>7. ~Draining
  BY <1>1, <1>6, Hand DEF HomeRequest
<1>8. (\A m \in Node, b \in Addr : FirstSame(m, b)) /\ \A b \in Addr : ServingSame(b)
  BY <1>1, <1>2, <1>7, DoneFirst
<1>9. /\ Current(n).type \notin Grant \cup OwnerRequest \cup HomeAnswer
      /\ "ROLLBACK" \notin Grant \cup OwnerRequest \cup HomeAnswer
  BY <1>1 DEF Grant, OwnerRequest, HomeAnswer
<1> QED BY <1>1, <1>3, <1>4, <1>5, <1>8, <1>9, OtherMessage

\* A line the home does not serve, after holders were asked for it.
LEMMA AsksRest ==
  ASSUME CoherenceInv, NEW n \in Node, Handling(n), NEW a \in Addr, a = A(n),
         Current(n).type \in HomeRequest, Serviceable(n), NEW s \in Node, s = Source(n),
         NEW dsts, NEW ask \in OwnerRequest, Reply(n, dsts, ask), Block(n, TRUE),
         UNCHANGED <<cacheLineStatus, currentMemOp, protocol>>
  PROVE  /\ \A m \in Node, b \in Addr : FirstSame(m, b)
         /\ \A b \in Addr \ {a} : ServingSame(b)
         /\ Serving(a)' /\ Served(a)'.type = Current(n).type /\ Served(a)'.src = s
         /\ \A m \in Node : m \in dsts => /\ Asked(m, a, ask)'
                                          /\ Shares(m, a) => Shares(m, a)'
                                          /\ Owns(m, a) => Owns(m, a)'
         /\ \A m \in Node \ dsts : RolesStay(m, a)
         /\ GrantsFirst(a)'
<1>1. TypeOK /\ BlockingInv /\ LineInv(a) BY InvTypes DEF CoherenceInv
<1>2. n = Home[a] /\ ~Serving(a) /\ AtRest(a) BY RequestHand
<1>3. /\ \A m \in Node, b \in Addr : FirstSame(m, b)
      /\ \A b \in Addr \ {a} : ServingSame(b)
      /\ Serving(a)' /\ Served(a)'.type = Current(n).type /\ Served(a)'.src = s
  BY <1>1, <1>2, BlockServes
<1>4. ask \in MessageType /\ ask \notin Grant \cup HomeAnswer
      /\ Current(n).type \notin Grant \cup OwnerRequest \cup HomeAnswer
  BY Kinds DEF MessageType
<1>5. \A m \in Node : AcksSame(m, a) /\ GrantSame(m, a)
  BY <1>1, <1>4, GrantsUnmoved, AcksUnmoved DEF GrantSame
<1>6. ASSUME NEW m \in Node, m \in dsts PROVE Asked(m, a, ask)'
  <2>1. Clear(m, a) BY <1>1, <1>2, ClearAtRest
  <2> QED BY <1>1, <1>3, <1>4, <1>5, <1>6, <2>1, AskArrives
<1>7. \A m \in Node : /\ Shares(m, a) => Shares(m, a)'
                      /\ Owns(m, a) => Owns(m, a)'
  BY <1>5, GrantKept
<1>8. \A m \in Node \ dsts : RolesStay(m, a) BY <1>1, <1>3, <1>4, Bystander
<1>9. GrantsFirst(a)' BY <1>1, <1>4, OrderUnmoved DEF LineInv
<1> QED BY <1>3, <1>6, <1>7, <1>8, <1>9

\* The home asks the owner.
LEMMA AskOwnerLine ==
  ASSUME CoherenceInv, NEW n \in Node, Handling(n), NEW a \in Addr, a = A(n),
         Serviceable(n), NEW s \in Node, s = Source(n),
         Current(n).type = "READ_MISS" \/ Current(n).type = "WRITE_MISS", NEW ask,
         ask = IF Current(n).type = "READ_MISS" THEN "FETCH" ELSE "FETCH_INVALIDATE",
         Entry(n).status \in OwnedEntry, Reply(n, {Owner(Entry(n))}, ask),
         SetEntry(a, Entry(n)), Block(n, TRUE),
         UNCHANGED <<cacheLineStatus, pendingInvAckCount, currentMemOp, protocol>>
  PROVE  \A b \in Addr : LineInv(b)'
<1>1. TypeOK BY InvTypes
<1>2. /\ Current(n).type \in HomeRequest /\ ask \in OwnerRequest /\ ask \in MessageType
  BY DEF HomeRequest, OwnerRequest, MessageType
<1>3. /\ AtRest(a) /\ NoGrant(s, a) /\ cacheLineStatus[s][a] = "I" BY <1>2, RequestHand
<1>4. PICK o \in Node : Mask(a) = {o} /\ Owns(o, a) /\ Clear(o, a) BY <1>1, <1>3, RestEntry
<1>5. Entry(n).processorMask = {o} BY <1>1, <1>3, <1>4, RestEntry
<1>6. Reply(n, {o}, ask) BY <1>5, OwnerIs
<1>7. o # s
  <2>1. \A type : ~Granted(s, a, type) BY <1>3, NoneOrOne DEF Granted, NoGrant
  <2>2. ~Owns(s, a) BY <1>3, <2>1 DEF Owns, Has, OwnedLine
  <2> QED BY <1>4, <2>2
<1>8. /\ \A m \in Node, b \in Addr : FirstSame(m, b)
      /\ \A b \in Addr \ {a} : ServingSame(b)
      /\ Serving(a)' /\ Served(a)'.type = Current(n).type /\ Served(a)'.src = s
      /\ Asked(o, a, ask)' /\ Owns(o, a)'
      /\ \A m \in Node \ {o} : RolesStay(m, a)
      /\ GrantsFirst(a)'
  BY <1>2, <1>4, <1>6, AsksRest
<1>9. /\ directory'[a] = Entry(n) /\ Mask(a)' = {o}
      /\ \A b \in Addr \ {a} : directory'[b] = directory[b]
  BY <1>1, <1>5, EntryBecomes
<1>10. directory'[a].status \in OwnedEntry' BY <1>9 DEF OwnedEntry
<1>11. pendingInvAckCount'[a] = 0 BY <1>3 DEF AtRest
<1>12. \A m \in Node \ {o} : Lacks(m, a)' BY <1>3, <1>4, <1>8 DEF AtRest, RolesStay
<1>13. IF Served(a)'.type = "READ_MISS" THEN Fetching(o, a, "FETCH", "S")'
                                        ELSE Fetching(o, a, "FETCH_INVALIDATE", "I")'
  BY <1>8 DEF Fetching
<1>14. AwaitsOwner(a)'
  <2>1. o \in Node \ {Served(a)'.src} BY <1>7, <1>8
  <2> QED BY <1>8, <1>9, <1>10, <1>11, <1>12, <1>13, <2>1 DEF AwaitsOwner
<1>15. LineInv(a)' BY <1>8, <1>14 DEF LineInv
<1>16. OthersSame(a) BY <1>8, <1>9 DEF OthersSame
<1> QED BY <1>2, <1>6, <1>15, <1>16, LinesAfter

\* The home asks sharers: those that are not the writer itself.
LEMMA AskSharersLine ==
  ASSUME CoherenceInv, NEW n \in Node, Handling(n), NEW a \in Addr, a = A(n),
         Serviceable(n), NEW s \in Node, s = Source(n),
         Current(n).type = "WRITE_MISS" \/ Current(n).type = "INVALIDATE_OTHER", NEW dsts,
         dsts = IF Current(n).type = "INVALIDATE_OTHER" THEN Mask(a) \ {s} ELSE Mask(a),
         Entry(n).status = "SHARED", dsts # {}, Reply(n, dsts, "INVALIDATE"),
         AwaitInvalidateAcks(a, Cardinality(dsts)), SetEntry(a, Entry(n)), Block(n, TRUE),
         UNCHANGED <<cacheLineStatus, currentMemOp, protocol>>
  PROVE  \A b \in Addr : LineInv(b)'
<1>1. TypeOK BY InvTypes
<1>2. /\ Current(n).type \in HomeRequest /\ "INVALIDATE" \in OwnerRequest
      /\ "INVALIDATE" \in MessageType
  BY DEF HomeRequest, OwnerRequest, MessageType
<1>3. AtRest(a) /\ Mask(a) \subseteq Node BY <1>1, <1>2, RequestHand, MaskType
<1>4. /\ Entry(n).processorMask = Mask(a)
      /\ \A m \in Mask(a) : Shares(m, a) /\ Clear(m, a)
  BY <1>1, <1>3, RestEntry
<1>5. /\ \A m \in Node, b \in Addr : FirstSame(m, b)
      /\ \A b \in Addr \ {a} : ServingSame(b)
      /\ Serving(a)' /\ Served(a)'.type = Current(n).type /\ Served(a)'.src = s
      /\ \A m \in Node : m \in dsts => /\ Asked(m, a, "INVALIDATE")'
                                       /\ Shares(m, a) => Shares(m, a)'
      /\ \A m \in Node \ dsts : RolesStay(m, a)
      /\ GrantsFirst(a)'
  BY <1>2, AsksRest
<1>6. /\ directory'[a] = Entry(n) /\ Mask(a)' = Mask(a)
      /\ \A b \in Addr \ {a} : directory'[b] = directory[b]
  BY <1>1, <1>4, EntryBecomes
<1>7. /\ pendingInvAckCount'[a] = Cardinality(dsts)
      /\ \A b \in Addr \ {a} : pendingInvAckCount'[b] = pendingInvAckCount[b]
  BY <1>1, <1>3 DEF AwaitInvalidateAcks, AtRest, TypeOK
<1>8. \A m \in Node \ Mask(a)' : Lacks(m, a)'
  <2> TAKE m \in Node \ Mask(a)'
  <2>1. m \in Node \ Mask(a) /\ m \in Node \ dsts BY <1>6
  <2>2. Lacks(m, a) BY <1>3, <2>1 DEF AtRest
  <2> QED BY <1>5, <2>1, <2>2 DEF RolesStay
<1>9. \A m \in Mask(a)' : IF Served(a)'.type = "INVALIDATE_OTHER" /\ m = Served(a)'.src
                          THEN Shares(m, a)' /\ Clear(m, a)'
                          ELSE Invalidating(m, a)' \/ Lacks(m, a)'
  <2> TAKE m \in Mask(a)'
  <2>1. m \in Mask(a) /\ m \in Node /\ Shares(m, a) /\ Clear(m, a) BY <1>3, <1>4, <1>6
  <2>2. CASE m \in dsts
    <3>1. Invalidating(m, a)' BY <1>5, <2>1, <2>2 DEF Invalidating
    <3>2. ~(Served(a)'.type = "INVALIDATE_OTHER" /\ m = Served(a)'.src) BY <1>5, <2>2
    <3> QED BY <3>1, <3>2
  <2>3. CASE m \notin dsts
    <3>1. m = s /\ Current(n).type = "INVALIDATE_OTHER" BY <2>1, <2>3
    <3>2. Shares(m, a)' /\ Clear(m, a)' BY <1>5, <2>1, <2>3 DEF RolesStay
    <3> QED BY <1>5, <3>1, <3>2
  <2> QED BY <2>2, <2>3
<1>10. Busy(a)' = dsts
  <2>1. \A m \in Node : m \in dsts => ~Clear(m, a)'
    BY <1>5, NoneOrOne DEF Asked, Clear
  <2>2. \A m \in Node \ dsts : Clear(m, a)'
    <3>1. \A m \in Node : Clear(m, a) BY <1>1, <1>3, ClearAtRest
    <3> QED BY <1>5, <3>1 DEF RolesStay
  <2>3. dsts \subseteq Node BY <1>3
  <2> QED BY <2>1, <2>2, <2>3 DEF Busy
<1>11. directory'[a].status = "SHARED" BY <1>6
<1>12. AwaitsAcks(a)' BY <1>5, <1>7, <1>8, <1>9, <1>10, <1>11 DEF AwaitsAcks
<1>13. LineInv(a)' BY <1>5, <1>12 DEF LineInv
<1>14. OthersSame(a) BY <1>5, <1>6, <1>7 DEF OthersSame
<1> QED BY <1>2, <1>13, <1>14, LinesAfter

\* The requests for which others are asked.
LEMMA AskLines ==
  ASSUME CoherenceInv, NEW n \in Node,
         \/ ReadMissFetches(n) \/ WriteMissFetches(n)
         \/ WriteMissInvalidates(n) \/ InvalidateOtherInvalidates(n)
  PROVE  \A a \in Addr : LineInv(a)'
<1>1. /\ Handling(n) /\ Serviceable(n) /\ UNCHANGED <<globals, halt, cache>>
      /\ Current(n).type \in {"READ_MISS", "WRITE_MISS", "INVALIDATE_OTHER"}
      /\ UNCHANGED <<cacheLineStatus, currentMemOp, protocol>>
  BY HandlesWhat DEF ReadMissFetches, WriteMissFetches, WriteMissInvalidates,
                     InvalidateOtherInvalidates, ReadMiss, WriteMiss, procVars, globals
<1>2. TypeOK /\ A(n) \in Addr /\ Source(n) \in Node BY <1>1, InvTypes, CurrentType
<1>3. PICK a \in Addr : a = A(n) BY <1>2
<1>4. PICK s \in Node : s = Source(n) BY <1>2
<1>5. AtRest(a) /\ Entry(n).processorMask = Mask(a)
  BY <1>1, <1>2, <1>3, <1>4, RequestHand, RestEntry DEF HomeRequest
<1>6. CASE ReadMissFetches(n)
  <2>1. /\ Current(n).type = "READ_MISS" /\ Entry(n).status \in OwnedEntry
        /\ Reply(n, {Owner(Entry(n))}, "FETCH") /\ SetEntry(a, Entry(n)) /\ Block(n, TRUE)
        /\ UNCHANGED pendingInvAckCount
    BY <1>3, <1>6, HandlesWhat DEF ReadMissFetches, ReadMiss
  <2> QED BY <1>1, <1>3, <1>4, <2>1, AskOwnerLine
<1>7. CASE WriteMissFetches(n)
  <2>1. /\ Current(n).type = "WRITE_MISS" /\ Entry(n).status \in OwnedEntry
        /\ Reply(n, {Owner(Entry(n))}, "FETCH_INVALIDATE") /\ SetEntry(a, Entry(n))
        /\ Block(n, TRUE) /\ UNCHANGED pendingInvAckCount
    BY <1>3, <1>7, HandlesWhat DEF WriteMissFetches, WriteMiss
  <2> QED BY <1>1, <1>3, <1>4, <2>1, AskOwnerLine
<1>8. CASE WriteMissInvalidates(n)
  <2>1. /\ Current(n).type = "WRITE_MISS" /\ Entry(n).status = "SHARED"
        /\ Reply(n, Mask(a), "INVALIDATE") /\ SetEntry(a, Entry(n)) /\ Block(n, TRUE)
        /\ AwaitInvalidateAcks(a, Cardinality(Mask(a)))
    BY <1>3, <1>5, <1>8, HandlesWhat DEF WriteMissInvalidates, WriteMiss
  <2>2. Mask(a) # {} BY <1>1, <1>2, <1>3, <1>5, <2>1, RestEntry
  <2> QED BY <1>1, <1>3, <1>4, <2>1, <2>2, AskSharersLine
<1>9. CASE InvalidateOtherInvalidates(n)
  <2>1. /\ Current(n).type = "INVALIDATE_OTHER" /\ Entry(n).status = "SHARED"
        /\ Mask(a) \ {s} # {}
        /\ Reply(n, Mask(a) \ {s}, "INVALIDATE") /\ SetEntry(a, Entry(n)) /\ Block(n, TRUE)
        /\ AwaitInvalidateAcks(a, Cardinality(Mask(a) \ {s}))
    BY <1>3, <1>4, <1>5, <1>9, HandlesWhat DEF InvalidateOtherInvalidates, OtherSharers
  <2> QED BY <1>1, <1>3, <1>4, <2>1, AskSharersLine
<1> QED BY <1>6, <1>7, <1>8, <1>9

-------------------------------------------------------------------------------
(* What a message that is about a right to a line says. *)

\* A request of the home finds its line as the home believes it to be.
LEMMA HolderHand ==
  ASSUME CoherenceInv, NEW n \in Node, Handling(n), NEW a \in Addr, a = A(n),
         Current(n).type \in OwnerRequest
  PROVE  /\ ~Draining /\ NoGrant(n, a) /\ ~Clear(n, a)
         /\ Asked(n, a, Current(n).type)
         /\ \/ /\ AwaitsAcks(a) /\ n \in Mask(a) /\ Current(n).type = "INVALIDATE"
               /\ cacheLineStatus[n][a] = "S"
            \/ /\ AwaitsOwner(a) /\ Mask(a) = {n} /\ n # Served(a).src
               /\ Current(n).type = IF Served(a).type = "READ_MISS" THEN "FETCH"
                                                                    ELSE "FETCH_INVALIDATE"
               /\ cacheLineStatus[n][a] \in OwnedLine
<1>1. TypeOK /\ ~Draining /\ LineInv(a) /\ GrantsFirst(a)
  BY InvTypes, Hand, Kinds DEF CoherenceInv, LineInv
<1>2. /\ ~Clear(n, a) /\ NoGrant(n, a)
      /\ \A ask \in OwnerRequest : ~AtHolder(n, a, ask)
      /\ \A ack \in HomeAnswer : ~Answered(n, a, ack)
      /\ \A ask \in OwnerRequest : Asked(n, a, ask) => ask = Current(n).type
  BY <1>1, AskHere
<1>3. {"INVALIDATE", "FETCH", "FETCH_INVALIDATE"} \subseteq OwnerRequest
      /\ {"INVALIDATE_ACK", "DATA_WRITE_BACK"} \subseteq HomeAnswer
  BY DEF OwnerRequest, HomeAnswer
<1>4. ~AtRest(a) BY <1>1, <1>2, ClearAtRest
<1>5. \A type : ~Granted(n, a, type) BY <1>2, NoneOrOne DEF Granted, NoGrant
<1>6. CASE AwaitsAcks(a)
  <2>1. n \in Mask(a) BY <1>2, <1>6 DEF AwaitsAcks, Lacks
  <2>2. Invalidating(n, a) BY <1>2, <1>6, <2>1 DEF AwaitsAcks, Lacks
  <2>3. Asked(n, a, "INVALIDATE") /\ Shares(n, a) BY <1>2, <1>3, <2>2 DEF Invalidating
  <2>4. cacheLineStatus[n][a] = "S" BY <1>5, <2>3 DEF Shares, Has
  <2> QED BY <1>1, <1>2, <1>3, <1>6, <2>1, <2>3, <2>4
<1>7. CASE AwaitsOwner(a)
  <2>1. PICK o \in Node \ {Served(a).src} :
          /\ Mask(a) = {o}
          /\ IF Served(a).type = "READ_MISS" THEN Fetching(o, a, "FETCH", "S")
                                             ELSE Fetching(o, a, "FETCH_INVALIDATE", "I")
          /\ \A m \in Node \ {o} : Lacks(m, a)
    BY <1>7 DEF AwaitsOwner
  <2>2. n = o BY <1>2, <2>1 DEF Lacks
  <2>3. PICK ask : /\ ask = IF Served(a).type = "READ_MISS" THEN "FETCH" ELSE "FETCH_INVALIDATE"
                   /\ Asked(n, a, ask) /\ Owns(n, a)
    BY <1>2, <1>3, <2>1, <2>2 DEF Fetching
  <2>4. ask = Current(n).type BY <1>2, <1>3, <2>3
  <2>5. cacheLineStatus[n][a] \in OwnedLine BY <1>5, <2>3 DEF Owns, Has
  <2> QED BY <1>1, <1>2, <1>7, <2>1, <2>2, <2>3, <2>4, <2>5
<1> QED BY <1>1, <1>4, <1>6, <1>7 DEF LineInv

\* An answer to the home comes from the node it waits for.
LEMMA AckHand ==
  ASSUME CoherenceInv, NEW n \in Node, Handling(n), NEW a \in Addr, a = A(n),
         Current(n).type \in HomeAnswer, NEW s \in Node, s = Source(n)
  PROVE  /\ ~Draining /\ n = Home[a] /\ ~Clear(s, a)
         /\ Answered(s, a, Current(n).type)
         /\ \/ /\ AwaitsAcks(a) /\ s \in Mask(a) /\ Current(n).type = "INVALIDATE_ACK"
               /\ Has(s, a, "I")
               /\ ~(Served(a).type = "INVALIDATE_OTHER" /\ s = Served(a).src)
            \/ /\ AwaitsOwner(a) /\ Mask(a) = {s} /\ s # Served(a).src
               /\ Current(n).type = "DATA_WRITE_BACK"
               /\ Has(s, a, IF Served(a).type = "READ_MISS" THEN "S" ELSE "I")
<1>1. TypeOK /\ ~Draining /\ LineInv(a) /\ n = Home[a]
  BY InvTypes, Hand, Kinds DEF CoherenceInv, IncomingOK, A
<1>2. /\ ~Clear(s, a)
      /\ \A ask \in OwnerRequest : ~Asked(s, a, ask) /\ ~AtHolder(s, a, ask)
      /\ \A ack \in HomeAnswer : Answered(s, a, ack) => ack = Current(n).type
  BY <1>1, AckHere
<1>3. {"INVALIDATE", "FETCH", "FETCH_INVALIDATE"} \subseteq OwnerRequest
      /\ {"INVALIDATE_ACK", "DATA_WRITE_BACK"} \subseteq HomeAnswer
  BY DEF OwnerRequest, HomeAnswer
<1>4. ~AtRest(a) BY <1>1, <1>2, ClearAtRest
<1>5. CASE AwaitsAcks(a)
  <2>1. s \in Mask(a) BY <1>2, <1>5 DEF AwaitsAcks, Lacks
  <2>2. ~(Served(a).type = "INVALIDATE_OTHER" /\ s = Served(a).src)
    BY <1>2, <1>5, <2>1 DEF AwaitsAcks
  <2>3. Invalidating(s, a) BY <1>2, <1>5, <2>1 DEF AwaitsAcks, Lacks
  <2>4. Answered(s, a, "INVALIDATE_ACK") /\ Has(s, a, "I") BY <1>2, <1>3, <2>3 DEF Invalidating
  <2> QED BY <1>1, <1>2, <1>3, <1>5, <2>1, <2>2, <2>4
<1>6. CASE AwaitsOwner(a)
  <2>1. PICK o \in Node \ {Served(a).src} :
          /\ Mask(a) = {o}
          /\ IF Served(a).type = "READ_MISS" THEN Fetching(o, a, "FETCH", "S")
                                             ELSE Fetching(o, a, "FETCH_INVALIDATE", "I")
          /\ \A m \in Node \ {o} : Lacks(m, a)
    BY <1>6 DEF AwaitsOwner
  <2>2. s = o BY <1>2, <2>1 DEF Lacks
  <2>3. Answered(s, a, "DATA_WRITE_BACK")
        /\ Has(s, a, IF Served(a).type = "READ_MISS" THEN "S" ELSE "I")
    BY <1>2, <1>3, <2>1, <2>2 DEF Fetching
  <2>4. "DATA_WRITE_BACK" = Current(n).type BY <1>2, <1>3, <2>3
  <2> QED BY <1>1, <1>2, <1>6, <2>1, <2>2, <2>3, <2>4
<1> QED BY <1>1, <1>4, <1>5, <1>6 DEF LineInv

\* A grant in hand is the right the home has given.
LEMMA GrantHand ==
  ASSUME CoherenceInv, NEW n \in Node, Handling(n), NEW a \in Addr, a = A(n),
         Current(n).type \in Grant
  PROVE  /\ ~Draining /\ ~NoGrant(n, a) /\ Granted(n, a, Current(n).type)
         /\ \A type \in Grant : Granted(n, a, type) => type = Current(n).type
         /\ \/ /\ Current(n).type = "DATA_VALUE_REPLY" /\ cacheLineStatus[n][a] = "I"
            \/ /\ Current(n).type = "DATA_VALUE_REPLY_E" /\ cacheLineStatus[n][a] = "I"
               /\ protocol = "MESI"
            \/ /\ Current(n).type = "INVALIDATE_OTHER_ACK"
               /\ cacheLineStatus[n][a] \in {"S", "I"}
<1>1. TypeOK /\ ~Draining /\ LineInv(a) BY InvTypes, Hand, Kinds DEF CoherenceInv
<1>2. /\ ~NoGrant(n, a)
      /\ \A granted \in Grant : Granted(n, a, granted) => granted = Current(n).type
  BY <1>1, GrantHere
<1>3. ~Lacks(n, a) /\ \A status : ~Has(n, a, status) BY <1>2 DEF Lacks, Has
<1>4. Shares(n, a) \/ Owns(n, a)
  <2>1. CASE AtRest(a) BY <1>1, <1>3, <2>1, ClearAtRest
  <2>2. CASE AwaitsAcks(a) BY <1>3, <2>2 DEF AwaitsAcks, Invalidating
  <2>3. CASE AwaitsOwner(a)
    <3>1. PICK o \in Node \ {Served(a).src} :
            /\ Mask(a) = {o}
            /\ IF Served(a).type = "READ_MISS" THEN Fetching(o, a, "FETCH", "S")
                                               ELSE Fetching(o, a, "FETCH_INVALIDATE", "I")
            /\ \A m \in Node \ {o} : Lacks(m, a)
      BY <2>3 DEF AwaitsOwner
    <3>2. n = o BY <1>3, <3>1
    <3> QED BY <1>3, <3>1, <3>2 DEF Fetching
  <2> QED BY <1>1, <2>1, <2>2, <2>3 DEF LineInv
<1>5. {"DATA_VALUE_REPLY", "DATA_VALUE_REPLY_E", "INVALIDATE_OTHER_ACK"} \subseteq Grant
  BY DEF Grant
<1> QED BY <1>1, <1>2, <1>3, <1>4, <1>5 DEF Shares, Owns

\* The cache has answered the request in front of the blocked queue.
LEMMA CacheAckHand ==
  ASSUME CoherenceInv, NEW n \in Node, Handling(n), NEW a \in Addr, a = A(n),
         Current(n).type \in CacheAnswer
  PROVE  /\ ~Draining /\ Waiting(n) # <<>> /\ Head(Waiting(n)) \in Message
         /\ Head(Waiting(n)).type = FirstType(n, a) /\ Head(Waiting(n)).src = Home[a]
         /\ FirstType(n, a) \in OwnerRequest /\ AtHolder(n, a, FirstType(n, a))
         /\ (Current(n).type = "CACHE_FETCH_ACK" <=> FirstType(n, a) = "FETCH")
         /\ \/ AwaitsAcks(a) /\ n \in Mask(a) /\ FirstType(n, a) = "INVALIDATE" /\ Has(n, a, "I")
            \/ /\ AwaitsOwner(a) /\ Mask(a) = {n} /\ n # Served(a).src
               /\ FirstType(n, a) = IF Served(a).type = "READ_MISS" THEN "FETCH"
                                                                    ELSE "FETCH_INVALIDATE"
               /\ Has(n, a, IF Served(a).type = "READ_MISS" THEN "S" ELSE "I")
<1>1. TypeOK /\ ~Draining /\ LineInv(a) BY InvTypes, Hand, Kinds DEF CoherenceInv, CacheAnswer
<1>2. /\ AtCacheOnce(n, a) /\ MessagesOK BY DEF CoherenceInv, CacheInv
<1>3. \A types : Current(n).type \in types => ~None(incomingMsgQueue[n], About(a, types))
  BY <1>1, HandAbout, InHand
<1>4. FirstType(n, a) \in OwnerRequest BY <1>2, <1>3 DEF AtCacheOnce
<1>5. /\ blockedMsgMap[n][a] # <<>> /\ FirstType(n, a) = Head(blockedMsgMap[n][a]).type
      /\ Waiting(n) = blockedMsgMap[n][a]
  BY <1>4, QueueIs DEF Waiting, A
<1>6. /\ blockedMsgMap[n][a] \in Seq(Message) /\ 1 \in 1..Len(blockedMsgMap[n][a])
      /\ Head(blockedMsgMap[n][a]) = blockedMsgMap[n][a][1]
      /\ Head(blockedMsgMap[n][a]) \in Message
  <2>1. blockedMsgMap[n][a] \in Seq(Message) BY <1>1 DEF TypeOK
  <2> QED BY <1>5, <2>1, EmptySeq, LenProperties, HeadTailProperties
<1>7. Head(blockedMsgMap[n][a]).src = Home[a]
  BY <1>2, <1>4, <1>5, <1>6 DEF MessagesOK, BlockedOK
<1>8. Current(n).type = "CACHE_FETCH_ACK" <=> FirstType(n, a) = "FETCH"
  <2>1. CASE FirstType(n, a) = "FETCH"
    <3>1. None(incomingMsgQueue[n], About(a, {"CACHE_INVALIDATE_ACK"}))
      BY <1>2, <2>1 DEF AtCacheOnce
    <3> QED BY <1>3, <2>1, <3>1 DEF CacheAnswer
  <2>2. CASE FirstType(n, a) # "FETCH"
    <3>1. None(incomingMsgQueue[n], About(a, {"CACHE_FETCH_ACK"}))
      BY <1>2, <2>2 DEF AtCacheOnce
    <3> QED BY <1>3, <2>2, <3>1 DEF CacheAnswer
  <2> QED BY <2>1, <2>2
<1>9. /\ ~Clear(n, a) /\ (\A ask : ~Asked(n, a, ask)) /\ (\A ack : ~Answered(n, a, ack))
      /\ \A ask : AtHolder(n, a, ask) => ask = FirstType(n, a)
  BY <1>4 DEF Clear, Asked, Answered, AtHolder
<1>10. ~AtRest(a) BY <1>1, <1>9, ClearAtRest
<1>11. CASE AwaitsAcks(a)
  <2>1. n \in Mask(a) BY <1>9, <1>11 DEF AwaitsAcks, Lacks
  <2>2. AtHolder(n, a, "INVALIDATE") /\ Has(n, a, "I")
    BY <1>9, <1>11, <2>1 DEF AwaitsAcks, Lacks, Invalidating
  <2> QED BY <1>1, <1>4, <1>5, <1>6, <1>7, <1>8, <1>9, <1>11, <2>1, <2>2
<1>12. CASE AwaitsOwner(a)
  <2>1. PICK o \in Node \ {Served(a).src} :
          /\ Mask(a) = {o}
          /\ IF Served(a).type = "READ_MISS" THEN Fetching(o, a, "FETCH", "S")
                                             ELSE Fetching(o, a, "FETCH_INVALIDATE", "I")
          /\ \A m \in Node \ {o} : Lacks(m, a)
    BY <1>12 DEF AwaitsOwner
  <2>2. n = o BY <1>9, <2>1 DEF Lacks
  <2>3. /\ AtHolder(n, a, IF Served(a).type = "READ_MISS" THEN "FETCH" ELSE "FETCH_INVALIDATE")
        /\ Has(n, a, IF Served(a).type = "READ_MISS" THEN "S" ELSE "I")
    BY <1>9, <2>1, <2>2 DEF Fetching
  <2> QED BY <1>1, <1>4, <1>5, <1>6, <1>7, <1>8, <1>9, <1>12, <2>1, <2>2, <2>3
<1> QED BY <1>1, <1>10, <1>11, <1>12 DEF LineInv

-------------------------------------------------------------------------------
(* The steps of the holders. *)

\* A request of the home goes on its way through a holder.
LEMMA HolderMoves ==
  ASSUME TypeOK, NEW a \in Addr, LineInv(a), GrantsFirst(a)', ServingSame(a),
         directory' = directory, pendingInvAckCount'[a] = pendingInvAckCount[a],
         protocol' = protocol,
         NEW n \in Node, ~Clear(n, a), ~Clear(n, a)', \A m \in Node \ {n} : RolesStay(m, a),
         \/ AwaitsAcks(a) /\ Invalidating(n, a)'
         \/ AwaitsOwner(a) /\ IF Served(a).type = "READ_MISS"
                              THEN Fetching(n, a, "FETCH", "S")'
                              ELSE Fetching(n, a, "FETCH_INVALIDATE", "I")'
  PROVE  LineInv(a)'
<1>1. OwnedEntry' = OwnedEntry /\ Mask(a)' = Mask(a) /\ Mask(a) \subseteq Node
  BY MaskType DEF OwnedEntry, Mask
<1>2. CASE AwaitsAcks(a) /\ Invalidating(n, a)'
  <2>1. /\ Serving(a)' /\ Served(a)' = Served(a)
        /\ Served(a).type \in {"WRITE_MISS", "INVALIDATE_OTHER"}
        /\ directory'[a].status = "SHARED"
    BY <1>2 DEF AwaitsAcks, ServingSame
  <2>2. n \in Mask(a) BY <1>2 DEF AwaitsAcks, Lacks
  <2>3. ~(Served(a).type = "INVALIDATE_OTHER" /\ n = Served(a).src)
    BY <1>2, <2>2 DEF AwaitsAcks
  <2>4. \A m \in Node \ Mask(a)' : Lacks(m, a)'
    BY <1>1, <1>2, <2>2 DEF AwaitsAcks, RolesStay
  <2>5. \A m \in Mask(a)' : IF Served(a)'.type = "INVALIDATE_OTHER" /\ m = Served(a)'.src
                            THEN Shares(m, a)' /\ Clear(m, a)'
                            ELSE Invalidating(m, a)' \/ Lacks(m, a)'
    <3> TAKE m \in Mask(a)'
    <3>1. CASE m = n BY <1>2, <2>1, <2>3, <3>1
    <3>2. CASE m # n
      <4>1. m \in Mask(a) /\ m \in Node \ {n} BY <1>1, <3>2
      <4>2. IF Served(a).type = "INVALIDATE_OTHER" /\ m = Served(a).src
            THEN Shares(m, a) /\ Clear(m, a)
            ELSE Invalidating(m, a) \/ Lacks(m, a)
        BY <1>2, <4>1 DEF AwaitsAcks
      <4> QED BY <2>1, <4>1, <4>2 DEF RolesStay
    <3> QED BY <3>1, <3>2
  <2>6. Busy(a)' = Busy(a) BY DEF Busy, RolesStay
  <2>7. Busy(a)' # {} /\ pendingInvAckCount'[a] = Cardinality(Busy(a)')
    BY <1>2, <2>6 DEF AwaitsAcks
  <2>8. AwaitsAcks(a)' BY <2>1, <2>4, <2>5, <2>7 DEF AwaitsAcks
  <2> QED BY <2>8 DEF LineInv
<1>3. CASE AwaitsOwner(a) /\ IF Served(a).type = "READ_MISS"
                             THEN Fetching(n, a, "FETCH", "S")'
                             ELSE Fetching(n, a, "FETCH_INVALIDATE", "I")'
  <2>1. /\ Serving(a)' /\ Served(a)' = Served(a)
        /\ Served(a).type \in {"READ_MISS", "WRITE_MISS"}
        /\ directory'[a].status \in OwnedEntry' /\ pendingInvAckCount'[a] = 0
    BY <1>1, <1>3 DEF AwaitsOwner, ServingSame
  <2>2. PICK o \in Node \ {Served(a).src} : Mask(a) = {o} /\ \A m \in Node \ {o} : Lacks(m, a)
    BY <1>3 DEF AwaitsOwner
  <2>3. n = o BY <2>2 DEF Lacks
  <2>4. \A m \in Node \ {n} : Lacks(m, a)' BY <2>2, <2>3 DEF RolesStay
  <2>5. n \in Node \ {Served(a)'.src} /\ Mask(a)' = {n} BY <1>1, <2>1, <2>2, <2>3
  <2>6. IF Served(a)'.type = "READ_MISS" THEN Fetching(n, a, "FETCH", "S")'
                                         ELSE Fetching(n, a, "FETCH_INVALIDATE", "I")'
    BY <1>3, <2>1
  <2>7. AwaitsOwner(a)' BY <2>1, <2>4, <2>5, <2>6 DEF AwaitsOwner
  <2> QED BY <2>7 DEF LineInv
<1> QED BY <1>2, <1>3

\* A holder passes the request on to its cache.
LEMMA HolderTakesLine ==
  ASSUME CoherenceInv, NEW n \in Node, Handling(n), NEW a \in Addr, a = A(n),
         Current(n).type \in OwnerRequest, NEW status,
         status = IF Current(n).type = "FETCH" THEN "S" ELSE "I",
         SetStatus(n, a, status), NoReply(n), Block(n, TRUE),
         UNCHANGED <<directory, pendingInvAckCount, currentMemOp, protocol>>
  PROVE  \A b \in Addr : LineInv(b)'
<1>1. TypeOK /\ BlockingInv /\ LineInv(a) BY InvTypes DEF CoherenceInv
<1> PICK ask \in OwnerRequest : ask = Current(n).type OBVIOUS
<1>2. /\ ~Draining /\ NoGrant(n, a) /\ ~Clear(n, a) /\ Asked(n, a, ask)
      /\ \/ AwaitsAcks(a) /\ ask = "INVALIDATE"
         \/ /\ AwaitsOwner(a)
            /\ ask = IF Served(a).type = "READ_MISS" THEN "FETCH" ELSE "FETCH_INVALIDATE"
  BY HolderHand
<1>3. /\ Reply(n, {}, "ROLLBACK") /\ "ROLLBACK" \in MessageType
      /\ "ROLLBACK" \notin OwnerRequest \cup Grant \cup HomeAnswer
      /\ Current(n).type \notin Grant \cup HomeAnswer
  BY <1>1, NoReplyIsReply, Kinds DEF OwnerRequest, Grant, HomeAnswer
<1>4. FirstType(n, a) \notin OwnerRequest BY <1>2 DEF Asked
<1>5. /\ FirstType(n, a)' = ask
      /\ \A m \in Node, b \in Addr : m # n \/ b # a => FirstSame(m, b)
      /\ \A b \in Addr : ServingSame(b)
  BY <1>1, <1>2, <1>4, BlockHolder
<1>6. cacheLineStatus'[n][a] = status
      /\ \A m \in Node, b \in Addr :
            m # n \/ b # a => cacheLineStatus'[m][b] = cacheLineStatus[m][b]
  BY <1>1 DEF SetStatus, TypeOK
<1>7. NoGrant(n, a)'
  BY <1>1, <1>2, <1>3, GrantsUnmoved DEF NoGrant, GrantsOf, Like
<1>8. Has(n, a, status)' BY <1>6, <1>7 DEF Has
<1>9. None(incomingMsgQueue'[n], AsksOf(a)) BY <1>1, <1>2, <1>3, AskTaken
<1>10. AcksSame(n, a) BY <1>1, <1>3, AcksUnmoved
<1>11. None(incomingMsgQueue'[Home[a]], AcksOf(a, n))
  BY <1>2, <1>10 DEF Asked, AcksSame, AcksOf, Like
<1>12. AtHolder(n, a, ask)' BY <1>5, <1>9, <1>11 DEF AtHolder
<1>13. ~Clear(n, a)' BY <1>5 DEF Clear
<1>14. \A m \in Node \ {n} : RolesStay(m, a) BY <1>1, <1>3, <1>5, <1>6, Bystander
<1>15. GrantsFirst(a)' BY <1>1, <1>3, OrderUnmoved DEF LineInv
<1>16. \/ AwaitsAcks(a) /\ Invalidating(n, a)'
       \/ AwaitsOwner(a) /\ IF Served(a).type = "READ_MISS"
                            THEN Fetching(n, a, "FETCH", "S")'
                            ELSE Fetching(n, a, "FETCH_INVALIDATE", "I")'
  BY <1>2, <1>8, <1>12 DEF Invalidating, Fetching
<1>17. LineInv(a)' BY <1>1, <1>2, <1>5, <1>13, <1>14, <1>15, <1>16, HolderMoves
<1>18. OthersSame(a) BY <1>5, <1>6 DEF OthersSame
<1> QED BY <1>3, <1>17, <1>18, LinesAfter

\* A holder that passes a request of the home to its cache is asked as before.
LEMMA HolderLines ==
  ASSUME CoherenceInv, NEW n \in Node, Invalidate(n) \/ Fetch(n)
  PROVE  \A a \in Addr : LineInv(a)'
<1>1. /\ Handling(n) /\ Current(n).type \in OwnerRequest /\ UNCHANGED <<globals, halt, cache>>
  BY HandlesWhat DEF Invalidate, Fetch, OwnerRequest
<1>2. PICK a \in Addr : a = A(n) BY <1>1, InvTypes, CurrentType
<1>3. PICK status : /\ status = IF Current(n).type = "FETCH" THEN "S" ELSE "I"
                    /\ SetStatus(n, a, status) /\ NoReply(n) /\ Block(n, TRUE)
  BY <1>2, HandlesWhat DEF Invalidate, Fetch
<1>4. UNCHANGED <<directory, pendingInvAckCount, currentMemOp, protocol>>
  BY <1>1 DEF Invalidate, Fetch, homeVars, procVars, globals
<1> QED BY <1>1, <1>2, <1>3, <1>4, HolderTakesLine

\* The holder answers when its cache has.
LEMMA CacheAckLines ==
  ASSUME CoherenceInv, NEW n \in Node, CacheAck(n)
  PROVE  \A a \in Addr : LineInv(a)'
<1>1. /\ Handling(n) /\ Current(n).type \in CacheAnswer /\ UNCHANGED <<globals, halt, cache>>
      /\ UNCHANGED <<directory, pendingInvAckCount, cacheLineStatus, currentMemOp, protocol>>
      /\ Unblock(n)
  BY HandlesWhat DEF CacheAck, CacheAnswer, homeVars, procVars, globals
<1>2. TypeOK /\ BlockingInv /\ HoldersFirst BY InvTypes DEF CoherenceInv
<1>3. PICK a \in Addr : a = A(n) BY <1>1, <1>2, CurrentType
<1>4. PICK first : first = Head(Waiting(n)) OBVIOUS
<1>5. PICK ack : ack = IF first.type = "INVALIDATE" THEN "INVALIDATE_ACK" ELSE "DATA_WRITE_BACK"
  OBVIOUS
<1>6. /\ ~Draining /\ first.type = FirstType(n, a) /\ first.src = Home[a]
      /\ FirstType(n, a) \in OwnerRequest /\ AtHolder(n, a, FirstType(n, a))
      /\ \/ AwaitsAcks(a) /\ FirstType(n, a) = "INVALIDATE" /\ Has(n, a, "I")
         \/ /\ AwaitsOwner(a)
            /\ FirstType(n, a) = IF Served(a).type = "READ_MISS" THEN "FETCH"
                                                                 ELSE "FETCH_INVALIDATE"
            /\ Has(n, a, IF Served(a).type = "READ_MISS" THEN "S" ELSE "I")
  BY <1>1, <1>3, <1>4, CacheAckHand
<1>7. Reply(n, {Home[a]}, ack) BY <1>4, <1>5, <1>6 DEF CacheAck
<1>8. /\ ack \in HomeAnswer /\ ack \in MessageType /\ ack \notin Grant \cup OwnerRequest
      /\ Current(n).type \notin Grant \cup OwnerRequest \cup HomeAnswer
  BY <1>1, <1>5, Kinds DEF HomeAnswer, MessageType, CacheAnswer, Grant, OwnerRequest
<1>9. /\ FirstType(n, a)' \notin OwnerRequest
      /\ \A m \in Node, b \in Addr : m # n \/ b # a => FirstSame(m, b)
      /\ \A b \in Addr : ServingSame(b)
  BY <1>1, <1>2, <1>3, <1>6, UnblockHolder
<1>10. AsksSame(n, a) /\ GrantSame(n, a)
  BY <1>1, <1>2, <1>7, <1>8, AsksUnmoved, GrantsUnmoved DEF GrantSame
<1>11. Answered(n, a, ack)'
  BY <1>1, <1>2, <1>3, <1>6, <1>7, <1>8, <1>9, <1>10, AckArrives DEF AtHolder
<1>12. \A status : Has(n, a, status) => Has(n, a, status)' BY <1>1, <1>10, GrantKept
<1>13. ~Clear(n, a) BY <1>6 DEF Clear
<1>14. ~Clear(n, a)' BY <1>11, NoneOrOne DEF Answered, Clear
<1>15. \A m \in Node \ {n} : RolesStay(m, a)
  BY <1>1, <1>2, <1>3, <1>7, <1>8, <1>9, Bystander
<1>16. LineInv(a) /\ GrantsFirst(a)'
  BY <1>1, <1>2, <1>7, <1>8, OrderUnmoved DEF LineInv, CoherenceInv
<1>17. \/ AwaitsAcks(a) /\ Invalidating(n, a)'
       \/ AwaitsOwner(a) /\ IF Served(a).type = "READ_MISS"
                            THEN Fetching(n, a, "FETCH", "S")'
                            ELSE Fetching(n, a, "FETCH_INVALIDATE", "I")'
  BY <1>5, <1>6, <1>11, <1>12 DEF Invalidating, Fetching
<1>18. LineInv(a)' BY <1>1, <1>2, <1>9, <1>13, <1>14, <1>15, <1>16, <1>17, HolderMoves
<1>19. OthersSame(a) BY <1>1, <1>9 DEF OthersSame
<1> QED BY <1>1, <1>3, <1>7, <1>8, <1>18, <1>19, LinesAfter

\* A node takes the right it was given.
LEMMA RightTakenLine ==
  ASSUME CoherenceInv, NEW n \in Node, Handling(n), NEW a \in Addr, a = A(n),
         Current(n).type \in Grant, NEW status,
         status = CASE Current(n).type = "INVALIDATE_OTHER_ACK" -> "M"
                    [] Current(n).type = "DATA_VALUE_REPLY_E" -> "E"
                    [] OTHER -> IF currentMemOp[n].type = "write" THEN "M" ELSE "S",
         SetStatus(n, a, status), NoReply(n), Done(n),
         UNCHANGED <<directory, pendingInvAckCount, currentMemOp, protocol>>
  PROVE  \A b \in Addr : LineInv(b)'
<1>1. TypeOK /\ BlockingInv /\ LineInv(a) BY InvTypes DEF CoherenceInv
<1>2. /\ ~Draining /\ ~NoGrant(n, a) /\ Granted(n, a, Current(n).type)
      /\ \A type \in Grant : Granted(n, a, type) => type = Current(n).type
      /\ \/ Current(n).type = "DATA_VALUE_REPLY"
         \/ Current(n).type = "DATA_VALUE_REPLY_E" /\ protocol = "MESI"
         \/ Current(n).type = "INVALIDATE_OTHER_ACK"
  BY GrantHand
<1>3. /\ Reply(n, {}, "ROLLBACK") /\ "ROLLBACK" \in MessageType
      /\ "ROLLBACK" \notin OwnerRequest \cup Grant \cup HomeAnswer
      /\ Current(n).type \notin OwnerRequest \cup HomeAnswer
  BY <1>1, NoReplyIsReply, Kinds DEF OwnerRequest, Grant, HomeAnswer
<1>4. /\ \A m \in Node, b \in Addr : FirstSame(m, b)
      /\ \A b \in Addr : ServingSame(b)
  BY <1>1, <1>2, DoneFirst
<1>5. cacheLineStatus'[n][a] = status
      /\ \A m \in Node, b \in Addr :
            m # n \/ b # a => cacheLineStatus'[m][b] = cacheLineStatus[m][b]
  BY <1>1 DEF SetStatus, TypeOK
<1>6. NoGrant(n, a)' BY <1>1, <1>2, <1>3, GrantTaken
<1>7. Has(n, a, status)' BY <1>5, <1>6 DEF Has
<1>8. \A any : ~Has(n, a, any) BY <1>2 DEF Has
<1>9. {"DATA_VALUE_REPLY", "DATA_VALUE_REPLY_E", "INVALIDATE_OTHER_ACK"} \subseteq Grant
  BY DEF Grant
<1>10. Shares(n, a) => Shares(n, a)'
  <2> HAVE Shares(n, a)
  <2>1. Granted(n, a, "DATA_VALUE_REPLY") /\ currentMemOp[n].type = "read"
    BY <1>8 DEF Shares
  <2>2. Current(n).type = "DATA_VALUE_REPLY" BY <1>2, <1>9, <2>1
  <2>3. status = "S" BY <2>1, <2>2
  <2> QED BY <1>7, <2>3 DEF Shares
<1>11. Owns(n, a) => Owns(n, a)'
  <2> HAVE Owns(n, a)
  <2>1. \/ Granted(n, a, "DATA_VALUE_REPLY") /\ currentMemOp[n].type = "write"
        \/ Granted(n, a, "DATA_VALUE_REPLY_E") /\ protocol = "MESI"
        \/ Granted(n, a, "INVALIDATE_OTHER_ACK")
    BY <1>8 DEF Owns
  <2>2. \/ Current(n).type = "DATA_VALUE_REPLY" /\ currentMemOp[n].type = "write"
        \/ Current(n).type = "DATA_VALUE_REPLY_E" /\ protocol = "MESI"
        \/ Current(n).type = "INVALIDATE_OTHER_ACK"
    BY <1>2, <1>9, <2>1
  <2>3. status \in OwnedLine' BY <2>2 DEF OwnedLine
  <2> QED BY <1>7, <2>3 DEF Owns
<1>12. TokenSame(n, a) BY <1>1, <1>3, <1>4, AsksUnmoved, AcksUnmoved DEF TokenSame
<1>13. RolesStay(n, a) BY <1>8, <1>10, <1>11, <1>12, RightKept
<1>14. \A m \in Node \ {n} : RolesStay(m, a) BY <1>1, <1>3, <1>4, <1>5, Bystander
<1>15. GrantsFirst(a)' BY <1>1, <1>3, OrderUnmoved DEF LineInv
<1>16. DirSame(a) BY DEF DirSame, Mask
<1>17. LineInv(a)' BY <1>1, <1>4, <1>13, <1>14, <1>15, <1>16, LineKept
<1>18. OthersSame(a) BY <1>4, <1>5 DEF OthersSame
<1> QED BY <1>3, <1>17, <1>18, LinesAfter

\* A grant taken up becomes the status it was counted as.
LEMMA RightTakenLines ==
  ASSUME CoherenceInv, NEW n \in Node, InvalidateOtherAck(n) \/ DataValueReply(n)
  PROVE  \A a \in Addr : LineInv(a)'
<1>1. /\ Handling(n) /\ Current(n).type \in Grant /\ UNCHANGED <<globals, halt, cache>>
      /\ NoReply(n) /\ Done(n) /\ UNCHANGED <<directory, pendingInvAckCount, currentMemOp>>
  BY HandlesWhat DEF InvalidateOtherAck, DataValueReply, Grant, homeVars, procVars
<1>2. PICK a \in Addr : a = A(n) BY <1>1, InvTypes, CurrentType
<1>3. \/ Current(n).type \in {"DATA_VALUE_REPLY", "DATA_VALUE_REPLY_E"} /\ LineStatus(n) = "I"
      \/ Current(n).type = "INVALIDATE_OTHER_ACK"
  BY <1>1, <1>2, GrantHand DEF LineStatus
<1>4. PICK status :
         /\ status = CASE Current(n).type = "INVALIDATE_OTHER_ACK" -> "M"
                       [] Current(n).type = "DATA_VALUE_REPLY_E" -> "E"
                       [] OTHER -> IF currentMemOp[n].type = "write" THEN "M" ELSE "S"
         /\ SetStatus(n, a, status)
  <2>1. CASE InvalidateOtherAck(n)
    <3>1. Current(n).type = "INVALIDATE_OTHER_ACK" /\ SetStatus(n, a, "M")
      BY <1>2, <2>1, HandlesWhat DEF InvalidateOtherAck
    <3> QED BY <3>1
  <2>2. CASE DataValueReply(n)
    <3>1. PICK type \in {"DATA_VALUE_REPLY", "DATA_VALUE_REPLY_E"} :
            LET status == CASE type = "DATA_VALUE_REPLY_E" -> "E"
                            [] type = "DATA_VALUE_REPLY" /\ currentMemOp[n].type = "write" -> "M"
                            [] OTHER -> "S"
            IN  /\ Handles(n, type)
                /\ SetStatus(n, a, IF LineStatus(n) = "I" THEN status ELSE LineStatus(n))
      BY <1>2, <2>2 DEF DataValueReply
    <3>2. Current(n).type = type BY <3>1, HandlesWhat
    <3>3. LineStatus(n) = "I" BY <1>3, <3>2
    <3>4. CASE type = "DATA_VALUE_REPLY_E" BY <3>1, <3>2, <3>3, <3>4
    <3>5. CASE type = "DATA_VALUE_REPLY" BY <3>1, <3>2, <3>3, <3>5
    <3> QED BY <3>4, <3>5
  <2> QED BY <2>1, <2>2
<1> QED BY <1>1, <1>2, <1>4, RightTakenLine DEF globals

-------------------------------------------------------------------------------
(* The steps of the home that waited. *)

\* Sets of nodes are finite.
LEMMA NodesFinite ==
  ASSUME NEW S, S \subseteq Node
  PROVE  IsFiniteSet(S) /\ Cardinality(S) \in Nat
<1>1. NumContexts - 1 \in Int /\ 0 \in Int BY ContextAssumption
<1>2. IsFiniteSet(0..(NumContexts - 1)) BY <1>1, FS_Interval
<1>3. IsFiniteSet(Node) BY <1>2 DEF Node
<1> QED BY <1>3, FS_Subset, FS_CardinalityType

\* One ACK of several.
LEMMA AckCountsLines ==
  ASSUME CoherenceInv, NEW n \in Node, InvalidateAckCounts(n)
  PROVE  \A a \in Addr : LineInv(a)'
<1>1. /\ Handling(n) /\ Current(n).type = "INVALIDATE_ACK" /\ UNCHANGED <<globals, halt, cache>>
      /\ UNCHANGED <<directory, cacheLineStatus, currentMemOp, protocol>>
      /\ NoReply(n) /\ Done(n) /\ "INVALIDATE_ACK" \in HomeAnswer
  BY HandlesWhat DEF InvalidateAckCounts, InvalidateAck, procVars, globals, HomeAnswer
<1>2. TypeOK /\ BlockingInv BY InvTypes
<1>3. PICK a \in Addr : a = A(n) BY <1>1, <1>2, CurrentType
<1>4. PICK s \in Node : s = Source(n) BY <1>1, <1>2, CurrentType
<1>5. /\ ~Draining /\ n = Home[a] /\ ~Clear(s, a) /\ Answered(s, a, "INVALIDATE_ACK")
      /\ AwaitsAcks(a) /\ s \in Mask(a) /\ Has(s, a, "I")
      /\ ~(Served(a).type = "INVALIDATE_OTHER" /\ s = Served(a).src)
  BY <1>1, <1>3, <1>4, AckHand
<1>6. /\ Reply(n, {}, "ROLLBACK") /\ "ROLLBACK" \in MessageType
      /\ "ROLLBACK" \notin OwnerRequest \cup Grant \cup HomeAnswer
      /\ Current(n).type \notin OwnerRequest \cup Grant
  BY <1>1, <1>2, NoReplyIsReply DEF OwnerRequest, Grant, HomeAnswer
<1>7. /\ \A m \in Node, b \in Addr : FirstSame(m, b)
      /\ \A b \in Addr : ServingSame(b)
  BY <1>1, <1>2, <1>5, DoneFirst
<1>8. /\ pendingInvAckCount'[a] = pendingInvAckCount[a] - 1 /\ pendingInvAckCount[a] # 1
      /\ \A b \in Addr \ {a} : pendingInvAckCount'[b] = pendingInvAckCount[b]
  BY <1>2, <1>3 DEF InvalidateAckCounts, InvalidateAck, LastAck, TypeOK
<1>9. Clear(s, a)' BY <1>1, <1>2, <1>3, <1>4, <1>5, <1>6, <1>7, AckTaken
<1>10. Lacks(s, a)'
  <2>1. GrantSame(s, a) BY <1>1, <1>2, <1>6, GrantsUnmoved DEF GrantSame
  <2>2. Has(s, a, "I")' BY <1>1, <1>5, <2>1, GrantKept
  <2> QED BY <1>9, <2>2 DEF Lacks
<1>11. \A m \in Node \ {s} : RolesStay(m, a)
  BY <1>1, <1>2, <1>3, <1>4, <1>6, <1>7, Bystander
<1>12. Mask(a)' = Mask(a) /\ Mask(a) \subseteq Node BY <1>1, <1>2, MaskType DEF Mask
<1>13. /\ Serving(a)' /\ Served(a)' = Served(a)
       /\ Served(a).type \in {"WRITE_MISS", "INVALIDATE_OTHER"}
       /\ directory'[a].status = "SHARED"
  BY <1>1, <1>5, <1>7 DEF AwaitsAcks, ServingSame
<1>14. \A m \in Node \ Mask(a)' : Lacks(m, a)'
  BY <1>5, <1>11, <1>12 DEF AwaitsAcks, RolesStay
<1>15. \A m \in Mask(a)' : IF Served(a)'.type = "INVALIDATE_OTHER" /\ m = Served(a)'.src
                           THEN Shares(m, a)' /\ Clear(m, a)'
                           ELSE Invalidating(m, a)' \/ Lacks(m, a)'
  <2> TAKE m \in Mask(a)'
  <2>1. CASE m = s BY <1>5, <1>10, <1>13, <2>1
  <2>2. CASE m # s
    <3>1. m \in Mask(a) /\ m \in Node \ {s} BY <1>12, <2>2
    <3>2. IF Served(a).type = "INVALIDATE_OTHER" /\ m = Served(a).src
          THEN Shares(m, a) /\ Clear(m, a)
          ELSE Invalidating(m, a) \/ Lacks(m, a)
      BY <1>5, <3>1 DEF AwaitsAcks
    <3> QED BY <1>11, <1>13, <3>1, <3>2 DEF RolesStay
  <2> QED BY <2>1, <2>2
<1>16. Busy(a)' # {} /\ pendingInvAckCount'[a] = Cardinality(Busy(a)')
  <2>1. Busy(a)' = Busy(a) \ {s} /\ s \in Busy(a) /\ Busy(a) \subseteq Node
    BY <1>5, <1>9, <1>11 DEF Busy, RolesStay
  <2>2. IsFiniteSet(Busy(a)) /\ Cardinality(Busy(a)) \in Nat BY <2>1, NodesFinite
  <2>3. Cardinality(Busy(a)') = Cardinality(Busy(a)) - 1 BY <2>1, <2>2, FS_RemoveElement
  <2>4. Cardinality(Busy(a)) = pendingInvAckCount[a] BY <1>5 DEF AwaitsAcks
  <2>5. Cardinality(Busy(a)') # 0 BY <1>8, <2>2, <2>3, <2>4
  <2>6. Busy(a)' # {} BY <2>5, FS_EmptySet
  <2> QED BY <1>8, <2>3, <2>4, <2>6
<1>17. AwaitsAcks(a)' BY <1>13, <1>14, <1>15, <1>16 DEF AwaitsAcks
<1>18. GrantsFirst(a)' BY <1>1, <1>2, <1>6, OrderUnmoved DEF LineInv, CoherenceInv
<1>19. LineInv(a)' BY <1>17, <1>18 DEF LineInv
<1>20. OthersSame(a) BY <1>1, <1>7, <1>8 DEF OthersSame
<1> QED BY <1>1, <1>3, <1>6, <1>19, <1>20, LinesAfter

\* The node whose request is served waits for it.
LEMMA ServedHand ==
  ASSUME CoherenceInv, NEW a \in Addr, Serving(a), FirstType(Home[a], a) \notin OwnerRequest,
         Served(a).type \in HomeRequest
  PROVE  /\ Served(a) \in Message /\ Served(a).src \in Node
         /\ NoGrant(Served(a).src, a)
         /\ Served(a).type \in {"READ_MISS", "WRITE_MISS"}
              => cacheLineStatus[Served(a).src][a] = "I"
         /\ currentMemOp[Served(a).src].type
              = IF Served(a).type = "READ_MISS" THEN "read" ELSE "write"
<1> DEFINE n == Home[a]
           q == blockedMsgMap[n][a]
<1>1. TypeOK /\ n \in Node BY InvTypes, ContextAssumption
<1>2. q \in Seq(Message) /\ q # <<>> /\ Served(a) = Head(q) BY <1>1, ServedInFront DEF TypeOK
<1>3. 1 \in 1..Len(q) /\ Served(a) = q[1] /\ Served(a) \in Message
  BY <1>2, EmptySeq, LenProperties, HeadTailProperties
<1>4. Served(a).src \in Node BY <1>3 DEF Message
<1>5. PICK r \in Node : r = Served(a).src BY <1>4
<1>6. FitsOp(Served(a)) BY <1>1, <1>3 DEF CoherenceInv, MessagesOK, BlockedOK
<1>7. NoAnswer(r)
  <2>1. ~None(q, AskMarks(r)) BY <1>3, <1>5 DEF None, AskMarks
  <2>2. Outstanding(r) BY DEF CoherenceInv, OutstandingInv
  <2> QED BY <1>1, <2>1, <2>2, AskWaits
<1>8. NoGrant(r, a)
  <2>1. GrantsOf(a) \subseteq AnswerMsgs BY Kinds DEF GrantsOf, About, AnswerMsgs
  <2> QED BY <1>7, <2>1 DEF NoGrant, NoAnswer, None
<1>9. Served(a).type \in {"READ_MISS", "WRITE_MISS"} => cacheLineStatus[r][a] = "I"
  <2> HAVE Served(a).type \in {"READ_MISS", "WRITE_MISS"}
  <2>1. Served(a).addr = a
    BY <1>1, <1>3 DEF CoherenceInv, OutstandingInv, BlockingInv, BlockedInOrder, InOrder
  <2>2. Served(a) \in Misses(a, r) BY <1>3, <1>5, <2>1 DEF Misses, AboutFrom, About
  <2>3. ~None(q, Misses(a, r)) BY <1>3, <2>2 DEF None
  <2> QED BY <1>1, <2>3 DEF CoherenceInv, MissesOK
<1> QED BY <1>3, <1>4, <1>5, <1>6, <1>8, <1>9 DEF FitsOp

\* The home takes the answer it waited for and grants the request it served.
LEMMA HomeGrants ==
  ASSUME CoherenceInv, NEW n \in Node, Handling(n), NEW a \in Addr, a = A(n),
         Current(n).type \in HomeAnswer, NEW s \in Node, s = Source(n),
         Serving(a), FirstType(n, a) \notin OwnerRequest, Served(a).type \in HomeRequest,
         NEW r \in Node, r = Served(a).src,
         NEW type \in Grant, Reply(n, {r}, type), Unblock(n),
         UNCHANGED <<cacheLineStatus, currentMemOp, protocol>>
  PROVE  /\ \A m \in Node, b \in Addr : FirstSame(m, b)
         /\ \A b \in Addr \ {a} : ServingSame(b)
         /\ ~Serving(a)'
         /\ Clear(s, a)' /\ (r # s => \A status : Has(s, a, status) => Has(s, a, status)')
         /\ Granted(r, a, type)' /\ (r # s => (Clear(r, a)' <=> Clear(r, a)))
         /\ None(incomingMsgQueue[r], AsksOf(a)) => GrantsFirst(a)'
         /\ \A m \in Node \ {r, s} : RolesStay(m, a)
<1>1. TypeOK /\ BlockingInv /\ LineInv(a) BY InvTypes DEF CoherenceInv
<1>2. ~Draining /\ n = Home[a] /\ Answered(s, a, Current(n).type) BY AckHand
<1>3. /\ \A m \in Node, b \in Addr : FirstSame(m, b)
      /\ \A b \in Addr \ {a} : ServingSame(b)
      /\ ~Serving(a)'
  BY <1>1, <1>2, UnblockServed
<1>4. /\ type \in MessageType /\ type \notin HomeAnswer \cup OwnerRequest
      /\ Current(n).type \notin Grant \cup OwnerRequest
  BY Kinds DEF MessageType
<1>5. Clear(s, a)' BY <1>1, <1>2, <1>3, <1>4, AckTaken
<1>6. r # s => \A status : Has(s, a, status) => Has(s, a, status)'
  <2> HAVE r # s
  <2>1. GrantSame(s, a) BY <1>1, <1>4, GrantsUnmoved DEF GrantSame
  <2> QED BY <2>1, GrantKept
<1>7. Granted(r, a, type)' BY <1>1, <1>2, <1>4, ServedHand, GrantArrives
<1>8. r # s => (Clear(r, a)' <=> Clear(r, a))
  <2> HAVE r # s
  <2>1. TokenSame(r, a) BY <1>1, <1>3, <1>4, AsksUnmoved, AcksUnmoved DEF TokenSame
  <2> QED BY <2>1, TokenKept
<1>9. None(incomingMsgQueue[r], AsksOf(a)) => GrantsFirst(a)'
  BY <1>1, <1>4, OrderUnmoved DEF LineInv
<1>10. \A m \in Node \ {r, s} : RolesStay(m, a) BY <1>1, <1>3, <1>4, Bystander
<1> QED BY <1>3, <1>5, <1>6, <1>7, <1>8, <1>9, <1>10

\* The request the home serves is in front when the last answer comes.
LEMMA FrontIsServed ==
  ASSUME CoherenceInv, NEW n \in Node, Handling(n), NEW a \in Addr, a = A(n),
         Current(n).type \in HomeAnswer, NEW s \in Node, s = Source(n),
         Current(n).type = "INVALIDATE_ACK" => LastAck(n)
  PROVE  /\ Current(n).type = "INVALIDATE_ACK" => AwaitsAcks(a) /\ Busy(a) = {s}
         /\ Current(n).type = "DATA_WRITE_BACK" => AwaitsOwner(a)
         /\ Serving(a) /\ Served(a).type \in HomeRequest /\ FirstType(n, a) \notin OwnerRequest
         /\ Waiting(n) # <<>> /\ Head(Waiting(n)) = Served(a)
<1>1. TypeOK BY InvTypes
<1>2. /\ n = Home[a] /\ ~Clear(s, a) /\ Answered(s, a, Current(n).type)
      /\ \/ AwaitsAcks(a) /\ Current(n).type = "INVALIDATE_ACK"
         \/ AwaitsOwner(a) /\ Mask(a) = {s} /\ Current(n).type = "DATA_WRITE_BACK"
  BY AckHand
<1>3. Serving(a) /\ Served(a).type \in HomeRequest
  BY <1>2 DEF AwaitsAcks, AwaitsOwner, HomeRequest
<1>4. AwaitsAcks(a) /\ Current(n).type = "INVALIDATE_ACK" => Busy(a) = {s}
  <2> HAVE AwaitsAcks(a) /\ Current(n).type = "INVALIDATE_ACK"
  <2>1. PICK B : B = Busy(a) OBVIOUS
  <2>2. Cardinality(B) = 1 BY <2>1 DEF AwaitsAcks, LastAck
  <2>3. s \in B /\ B \subseteq Node BY <1>2, <2>1 DEF Busy
  <2>4. IsFiniteSet(B) BY <2>3, NodesFinite
  <2>5. IsFiniteSet(B \ {s}) /\ Cardinality(B \ {s}) = Cardinality(B) - 1
    BY <2>3, <2>4, FS_RemoveElement
  <2>6. Cardinality(B \ {s}) = 0 BY <2>2, <2>5
  <2>7. B \ {s} = {} BY <2>5, <2>6, FS_EmptySet
  <2> QED BY <2>1, <2>3, <2>7
<1>5. FirstType(n, a) \notin OwnerRequest
  <2> SUFFICES ASSUME FirstType(n, a) \in OwnerRequest PROVE FALSE OBVIOUS
  <2>1. ~Clear(n, a) BY DEF Clear
  <2>2. n = s
    <3>1. CASE AwaitsAcks(a) /\ Current(n).type = "INVALIDATE_ACK"
      BY <1>4, <2>1, <3>1 DEF Busy
    <3>2. CASE AwaitsOwner(a) /\ Mask(a) = {s}
      BY <2>1, <3>2 DEF AwaitsOwner, Lacks
    <3> QED BY <1>2, <3>1, <3>2
  <2> QED BY <1>2, <2>2 DEF Answered
<1>6. Waiting(n) # <<>> /\ Head(Waiting(n)) = Served(a)
  BY <1>1, <1>2, <1>3, <1>5, ServedInFront DEF Waiting, A
<1> QED BY <1>2, <1>3, <1>4, <1>5, <1>6

\* The last ACK: the writer is the owner now.
LEMMA AckGrantsLines ==
  ASSUME CoherenceInv, NEW n \in Node, InvalidateAckGrants(n)
  PROVE  \A a \in Addr : LineInv(a)'
<1>1. /\ Handling(n) /\ Current(n).type = "INVALIDATE_ACK" /\ UNCHANGED <<globals, halt, cache>>
      /\ UNCHANGED <<cacheLineStatus, currentMemOp, protocol>>
      /\ LastAck(n) /\ Unblock(n) /\ "INVALIDATE_ACK" \in HomeAnswer
  BY HandlesWhat DEF InvalidateAckGrants, InvalidateAck, procVars, globals, HomeAnswer
<1>2. TypeOK /\ BlockingInv BY InvTypes
<1>3. PICK a \in Addr : a = A(n) BY <1>1, <1>2, CurrentType
<1>4. PICK s \in Node : s = Source(n) BY <1>1, <1>2, CurrentType
<1>5. /\ n = Home[a] /\ AwaitsAcks(a) /\ Busy(a) = {s} /\ s \in Mask(a) /\ Has(s, a, "I")
      /\ Answered(s, a, "INVALIDATE_ACK")
      /\ ~(Served(a).type = "INVALIDATE_OTHER" /\ s = Served(a).src)
      /\ Serving(a) /\ FirstType(n, a) \notin OwnerRequest
      /\ Head(Waiting(n)) = Served(a)
  BY <1>1, <1>3, <1>4, AckHand, FrontIsServed
<1>6. Served(a).type \in {"WRITE_MISS", "INVALIDATE_OTHER"} BY <1>5 DEF AwaitsAcks
<1>7. PICK r \in Node : r = Served(a).src BY <1>5, <1>6, ServedHand DEF HomeRequest
<1>8. PICK type \in Grant :
         /\ type = IF Served(a).type = "WRITE_MISS" THEN "DATA_VALUE_REPLY"
                                                    ELSE "INVALIDATE_OTHER_ACK"
  BY DEF Grant
<1>9. Reply(n, {r}, type) BY <1>5, <1>7, <1>8 DEF InvalidateAckGrants
<1>10. /\ directory'[a] = [status |-> "MODIFIED", processorMask |-> {r}] /\ Mask(a)' = {r}
       /\ \A b \in Addr \ {a} : directory'[b] = directory[b]
  <2>1. directory[a] # NoEntry BY <1>5 DEF AwaitsAcks, NoEntry
  <2>2. SetEntry(a, [status |-> "MODIFIED", processorMask |-> {r}])
    BY <1>3, <1>5, <1>7, <2>1, UpdateIs, ZenonT(40) DEF InvalidateAckGrants
  <2> QED BY <1>2, <2>2, EntryBecomes
<1>11. /\ pendingInvAckCount'[a] = 0
       /\ \A b \in Addr \ {a} : pendingInvAckCount'[b] = pendingInvAckCount[b]
  BY <1>1, <1>2, <1>3 DEF InvalidateAckGrants, InvalidateAck, LastAck, TypeOK
<1>12. /\ \A m \in Node, b \in Addr : FirstSame(m, b)
       /\ \A b \in Addr \ {a} : ServingSame(b)
       /\ ~Serving(a)'
       /\ Clear(s, a)' /\ (r # s => \A status : Has(s, a, status) => Has(s, a, status)')
       /\ Granted(r, a, type)' /\ (r # s => (Clear(r, a)' <=> Clear(r, a)))
       /\ None(incomingMsgQueue[r], AsksOf(a)) => GrantsFirst(a)'
       /\ \A m \in Node \ {r, s} : RolesStay(m, a)
  <2>1. Served(a).type \in HomeRequest BY <1>6 DEF HomeRequest
  <2>2. Current(n).type \in HomeAnswer BY <1>1
  <2> QED BY <1>1, <1>3, <1>4, <1>5, <1>7, <1>9, <2>1, <2>2, HomeGrants
<1>13. \A m \in Node \ {s} : Clear(m, a) BY <1>5 DEF Busy
<1>14. /\ NoGrant(r, a) /\ currentMemOp[r].type = "write"
       /\ Served(a).type = "WRITE_MISS" => cacheLineStatus[r][a] = "I"
  BY <1>5, <1>6, <1>7, ServedHand DEF HomeRequest
<1>15. cacheLineStatus[r][a] \in {"S", "I"}
  <2>1. CASE Served(a).type = "WRITE_MISS" BY <1>14, <2>1
  <2>2. CASE Served(a).type = "INVALIDATE_OTHER"
    <3>1. Shares(r, a) \/ Lacks(r, a) BY <1>5, <1>7, <2>2 DEF AwaitsAcks
    <3> QED BY <3>1 DEF Shares, Lacks, Has
  <2> QED BY <1>6, <2>1, <2>2
<1>16. Owns(r, a)' /\ Clear(r, a)'
  <2>1. Owns(r, a)'
    <3>1. Served(a).type = "WRITE_MISS"
            => cacheLineStatus'[r][a] = "I" /\ Granted(r, a, "DATA_VALUE_REPLY")'
                 /\ currentMemOp'[r].type = "write"
      BY <1>1, <1>8, <1>12, <1>14
    <3>2. Served(a).type = "INVALIDATE_OTHER"
            => cacheLineStatus'[r][a] \in {"S", "I"} /\ Granted(r, a, "INVALIDATE_OTHER_ACK")'
      BY <1>1, <1>8, <1>12, <1>15
    <3> QED BY <1>6, <3>1, <3>2 DEF Owns
  <2>2. Clear(r, a)' BY <1>12, <1>13
  <2> QED BY <2>1, <2>2
<1>17. GrantsFirst(a)'
  <2>1. None(incomingMsgQueue[r], AsksOf(a))
    <3>1. CASE r = s BY <1>5, <3>1 DEF Answered
    <3>2. CASE r # s BY <1>13, <3>2 DEF Clear
    <3> QED BY <3>1, <3>2
  <2> QED BY <1>12, <2>1
<1>18. \A m \in Node \ {r} : Lacks(m, a)'
  <2> TAKE m \in Node \ {r}
  <2>1. CASE m = s BY <1>5, <1>12, <2>1 DEF Lacks
  <2>2. CASE m # s
    <3>1. Clear(m, a) /\ RolesStay(m, a) BY <1>12, <1>13, <2>2
    <3>2. ~Invalidating(m, a)
      BY <3>1, NoneOrOne DEF Invalidating, Clear, Asked, AtHolder, Answered, OwnerRequest
    <3>3. Lacks(m, a) BY <1>5, <1>7, <3>2 DEF AwaitsAcks
    <3> QED BY <3>1, <3>3 DEF RolesStay
  <2> QED BY <2>1, <2>2
<1>19. AtRest(a)'
  <2>1. directory'[a].status \in OwnedEntry' BY <1>10 DEF OwnedEntry
  <2> QED BY <1>10, <1>11, <1>12, <1>16, <1>18, <2>1 DEF AtRest
<1>20. LineInv(a)' BY <1>17, <1>19 DEF LineInv
<1>21. OthersSame(a) BY <1>1, <1>10, <1>11, <1>12 DEF OthersSame
<1>22. type \in MessageType BY Kinds DEF MessageType
<1> QED BY <1>1, <1>3, <1>9, <1>20, <1>21, <1>22, LinesAfter

\* The owner's answer: the request the home served is granted.
LEMMA WriteBackHand ==
  ASSUME CoherenceInv, NEW n \in Node, WriteBackAnswersWrite(n) \/ WriteBackAnswersRead(n),
         NEW a \in Addr, a = A(n), NEW s \in Node, s = Source(n),
         NEW r \in Node, r = Served(a).src
  PROVE  /\ Handling(n) /\ Current(n).type = "DATA_WRITE_BACK" /\ "DATA_WRITE_BACK" \in HomeAnswer
         /\ UNCHANGED <<cacheLineStatus, pendingInvAckCount, currentMemOp, protocol>>
         /\ Unblock(n) /\ Reply(n, {r}, "DATA_VALUE_REPLY")
         /\ n = Home[a] /\ AwaitsOwner(a) /\ Mask(a) = {s} /\ s # r
         /\ Has(s, a, IF Served(a).type = "READ_MISS" THEN "S" ELSE "I")
         /\ NoGrant(r, a) /\ cacheLineStatus[r][a] = "I" /\ Lacks(r, a)
         /\ currentMemOp[r].type = IF Served(a).type = "READ_MISS" THEN "read" ELSE "write"
         /\ \/ /\ Served(a).type = "WRITE_MISS"
               /\ SetEntry(a, [status |-> "MODIFIED", processorMask |-> {r}])
            \/ /\ Served(a).type = "READ_MISS"
               /\ SetEntry(a, [status |-> "SHARED", processorMask |-> {s, r}])
         /\ Serving(a) /\ FirstType(n, a) \notin OwnerRequest
<1>1. /\ Handling(n) /\ Current(n).type = "DATA_WRITE_BACK" /\ "DATA_WRITE_BACK" \in HomeAnswer
      /\ UNCHANGED <<globals, halt, cache>>
      /\ UNCHANGED <<cacheLineStatus, pendingInvAckCount, currentMemOp, protocol>>
      /\ Unblock(n)
  BY HandlesWhat
     DEF WriteBackAnswersWrite, WriteBackAnswersRead, WriteBack, procVars, globals, HomeAnswer
<1>2. TypeOK BY InvTypes
<1>3. /\ n = Home[a] /\ AwaitsOwner(a) /\ Mask(a) = {s} /\ s # r
      /\ Has(s, a, IF Served(a).type = "READ_MISS" THEN "S" ELSE "I")
  BY <1>1, AckHand
<1>4. /\ Serving(a) /\ Served(a).type \in HomeRequest /\ FirstType(n, a) \notin OwnerRequest
      /\ Head(Waiting(n)) = Served(a)
  BY <1>1, FrontIsServed
<1>5. Served(a).type \in {"READ_MISS", "WRITE_MISS"} BY <1>3 DEF AwaitsOwner
<1>6. /\ NoGrant(r, a) /\ cacheLineStatus[r][a] = "I"
      /\ currentMemOp[r].type = IF Served(a).type = "READ_MISS" THEN "read" ELSE "write"
  BY <1>3, <1>4, <1>5, ServedHand
<1>7. Lacks(r, a) BY <1>3 DEF AwaitsOwner
<1>8. directory[a] # NoEntry /\ directory[a].status \notin {"ABSENT", "UNCACHED"}
      /\ directory[a].processorMask = {s} /\ Entry(n) = directory[a]
  <2>1. directory[a].status \notin {"ABSENT", "UNCACHED"} BY <1>3 DEF AwaitsOwner, OwnedEntry
  <2>2. directory[a] # NoEntry BY <2>1 DEF NoEntry
  <2>3. Entry(n) = directory[a] BY <2>2 DEF Entry, LookUpEntry
  <2> QED BY <1>3, <2>1, <2>2, <2>3 DEF Mask
<1>9. CASE WriteBackAnswersWrite(n)
  <2>1. Served(a).type = "WRITE_MISS" BY <1>4, <1>9 DEF WriteBackAnswersWrite
  <2>2. Reply(n, {r}, "DATA_VALUE_REPLY") BY <1>4, <1>9 DEF WriteBackAnswersWrite
  <2>3. SetEntry(a, UpdateEntry(directory[a], "MODIFIED", r))
    BY <1>4, <1>9 DEF WriteBackAnswersWrite
  <2>4. SetEntry(a, [status |-> "MODIFIED", processorMask |-> {r}]) BY <1>8, <2>3, UpdateIs
  <2> QED BY <1>1, <1>3, <1>4, <1>6, <1>7, <2>1, <2>2, <2>4
<1>10. CASE WriteBackAnswersRead(n)
  <2>1. Served(a).type = "READ_MISS" BY <1>4, <1>10 DEF WriteBackAnswersRead
  <2>2. /\ Reply(n, {r}, "DATA_VALUE_REPLY")
        /\ SetEntry(a, UpdateEntry(directory[a], "SHARED", r))
    BY <1>4, <1>8, <1>10 DEF WriteBackAnswersRead
  <2>3. UpdateEntry(directory[a], "SHARED", r)
          = [status |-> "SHARED", processorMask |-> {s} \cup {r}]
    <3>1. PICK e : e = directory[a] OBVIOUS
    <3>2. /\ e.status \notin {"ABSENT", "UNCACHED"} /\ e # NoEntry
          /\ e.processorMask = {s}
      BY <3>1, <1>8
    <3>3. UpdateEntry(e, "SHARED", r)
            = [status |-> "SHARED", processorMask |-> e.processorMask \cup {r}]
      BY <3>2, UpdateIs
    <3> QED BY <3>1, <3>2, <3>3
  <2>4. {s} \cup {r} = {s, r} OBVIOUS
  <2>5. SetEntry(a, [status |-> "SHARED", processorMask |-> {s, r}]) BY <2>2, <2>3, <2>4
  <2> QED BY <1>1, <1>3, <1>4, <1>6, <1>7, <2>1, <2>2, <2>5
<1> QED BY <1>9, <1>10

\* A write back ends the phase in which the home waits for the owner.
LEMMA WriteBackLines ==
  ASSUME CoherenceInv, NEW n \in Node, WriteBackAnswersWrite(n) \/ WriteBackAnswersRead(n)
  PROVE  \A a \in Addr : LineInv(a)'
<1>1. Handling(n) /\ Current(n).type = "DATA_WRITE_BACK" /\ "DATA_WRITE_BACK" \in HomeAnswer
  BY HandlesWhat DEF WriteBackAnswersWrite, WriteBackAnswersRead, WriteBack, HomeAnswer
<1>2. TypeOK BY InvTypes
<1>3. PICK a \in Addr : a = A(n) BY <1>1, <1>2, CurrentType
<1>4. PICK s \in Node : s = Source(n) BY <1>1, <1>2, CurrentType
<1>5. Serving(a) /\ Served(a).type \in HomeRequest /\ FirstType(n, a) \notin OwnerRequest
      /\ n = Home[a]
  BY <1>1, <1>3, <1>4, FrontIsServed, AckHand
<1>6. PICK r \in Node : r = Served(a).src BY <1>5, ServedHand
<1>7. /\ UNCHANGED <<cacheLineStatus, pendingInvAckCount, currentMemOp, protocol>>
      /\ Unblock(n) /\ Reply(n, {r}, "DATA_VALUE_REPLY")
      /\ AwaitsOwner(a) /\ Mask(a) = {s} /\ s # r
      /\ Has(s, a, IF Served(a).type = "READ_MISS" THEN "S" ELSE "I")
      /\ NoGrant(r, a) /\ cacheLineStatus[r][a] = "I" /\ Lacks(r, a)
      /\ currentMemOp[r].type = IF Served(a).type = "READ_MISS" THEN "read" ELSE "write"
      /\ \/ /\ Served(a).type = "WRITE_MISS"
            /\ SetEntry(a, [status |-> "MODIFIED", processorMask |-> {r}])
         \/ /\ Served(a).type = "READ_MISS"
            /\ SetEntry(a, [status |-> "SHARED", processorMask |-> {s, r}])
  BY <1>3, <1>4, <1>6, WriteBackHand
<1>8. /\ "DATA_VALUE_REPLY" \in Grant /\ "DATA_VALUE_REPLY" \in MessageType
  BY DEF Grant, MessageType, NodeReply
<1>9. /\ \A m \in Node, b \in Addr : FirstSame(m, b)
      /\ \A b \in Addr \ {a} : ServingSame(b)
      /\ ~Serving(a)'
      /\ Clear(s, a)' /\ \A status : Has(s, a, status) => Has(s, a, status)'
      /\ Granted(r, a, "DATA_VALUE_REPLY")' /\ (Clear(r, a)' <=> Clear(r, a))
      /\ None(incomingMsgQueue[r], AsksOf(a)) => GrantsFirst(a)'
      /\ \A m \in Node \ {r, s} : RolesStay(m, a)
  BY <1>1, <1>3, <1>4, <1>5, <1>6, <1>7, <1>8, HomeGrants, ZenonT(40)
<1>10. GrantsFirst(a)' /\ Clear(r, a)' BY <1>7, <1>9 DEF Lacks, Clear
<1>11. \A m \in Node \ {r, s} : Lacks(m, a)' BY <1>7, <1>9 DEF AwaitsOwner, RolesStay
<1>12. pendingInvAckCount'[a] = 0 BY <1>7 DEF AwaitsOwner
<1>13. cacheLineStatus'[r][a] = "I" /\ currentMemOp'[r] = currentMemOp[r] BY <1>7
<1>14. AtRest(a)' /\ \A b \in Addr \ {a} : directory'[b] = directory[b]
  <2>1. CASE /\ Served(a).type = "WRITE_MISS"
             /\ SetEntry(a, [status |-> "MODIFIED", processorMask |-> {r}])
    <3>1. /\ directory'[a].status = "MODIFIED" /\ Mask(a)' = {r}
          /\ \A b \in Addr \ {a} : directory'[b] = directory[b]
      BY <1>2, <2>1, EntryBecomes
    <3>2. directory'[a].status \in OwnedEntry' BY <3>1 DEF OwnedEntry
    <3>3. Owns(r, a)' BY <1>7, <1>9, <1>13, <2>1 DEF Owns
    <3>4. Lacks(s, a)' BY <1>7, <1>9, <2>1 DEF Lacks
    <3>5. \A m \in Node \ {r} : Lacks(m, a)' BY <1>11, <3>4
    <3> QED BY <1>9, <1>10, <1>12, <3>1, <3>2, <3>3, <3>5 DEF AtRest
  <2>2. CASE /\ Served(a).type = "READ_MISS"
             /\ SetEntry(a, [status |-> "SHARED", processorMask |-> {s, r}])
    <3>1. /\ directory'[a].status = "SHARED" /\ Mask(a)' = {s, r}
          /\ \A b \in Addr \ {a} : directory'[b] = directory[b]
      BY <1>2, <2>2, EntryBecomes
    <3>2. Shares(r, a)' BY <1>7, <1>9, <1>13, <2>2 DEF Shares
    <3>3. Shares(s, a)' BY <1>7, <1>9, <2>2 DEF Shares
    <3>4. \A m \in Node \ {s, r} : Lacks(m, a)' BY <1>11
    <3> QED BY <1>9, <1>10, <1>12, <3>1, <3>2, <3>3, <3>4 DEF AtRest
  <2> QED BY <1>7, <2>1, <2>2
<1>15. LineInv(a)' BY <1>10, <1>14 DEF LineInv
<1>16. OthersSame(a) BY <1>7, <1>9, <1>14 DEF OthersSame
<1> QED BY <1>1, <1>3, <1>7, <1>8, <1>15, <1>16, LinesAfter

===============================================================================
