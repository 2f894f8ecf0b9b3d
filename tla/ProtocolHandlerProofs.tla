------------------------ MODULE ProtocolHandlerProofs ------------------------
(***************************************************************************)
(* Proofs about ProtocolHandler, for every number of contexts, set of      *)
(* lines, cache size, latency and task, evictions included.                *)
(***************************************************************************)
EXTENDS Coherence, FiniteSetTheorems, SequenceTheorems, TLAPS

MessageType == CacheReply \cup HomeRequest \cup OwnerRequest \cup NodeReply

-------------------------------------------------------------------------------
(* What the helpers of Context do to the types. *)

\* There is a first node.
LEMMA ZeroIsNode == 0 \in Node
  BY ContextAssumption DEF Node

\* A new message.
LEMMA NewMessageType ==
  ASSUME NEW src \in Node, NEW addr \in Addr, NEW type \in MessageType, NEW l \in Nat
  PROVE  NewMessage(src, addr, type, l) \in Message
  BY DEF NewMessage, Message, MessageType

\* sendMsgToNode leaves queues of messages.
LEMMA SendType ==
  ASSUME TypeOK, NEW q \in [Node -> Seq(Message)], NEW n \in Node, NEW dsts,
         NEW addr \in Addr, NEW type \in MessageType
  PROVE  SendMsgToNode(q, n, dsts, addr, type) \in [Node -> Seq(Message)]
<1>1. NewMessage(n, addr, type, nodeLatency) \in Message
  BY NewMessageType DEF TypeOK
<1> QED BY <1>1, AppendProperties DEF SendMsgToNode

\* Ageing keeps the messages what they are.
LEMMA OlderType ==
  ASSUME NEW q \in Seq(Message)
  PROVE  Older(q) \in Seq(Message)
<1>1. \A i \in 1..Len(q) : q[i] \in Message
  OBVIOUS
<1>2. \A i \in 1..Len(q) :
        [q[i] EXCEPT !.latency = IF @ > 0 THEN @ - 1 ELSE @] \in Message
  BY <1>1 DEF Message
<1> QED BY <1>2, IsASeq DEF Older

\* Requests to a cache that have aged are requests to it.
LEMMA OlderCacheType ==
  ASSUME NEW q \in Seq(CacheMessage)
  PROVE  Older(q) \in Seq(CacheMessage)
<1>1. \A i \in 1..Len(q) : q[i] \in CacheMessage
  OBVIOUS
<1>2. \A i \in 1..Len(q) :
        [q[i] EXCEPT !.latency = IF @ > 0 THEN @ - 1 ELSE @] \in CacheMessage
  BY <1>1 DEF CacheMessage
<1> QED BY <1>2, IsASeq DEF Older

\* sendMsgToCache leaves queues of requests of the cache.
LEMMA SendToCacheType ==
  ASSUME TypeOK, NEW n \in Node, NEW addr \in Addr, NEW type \in CacheRequest,
         SendMsgToCache(n, addr, type)
  PROVE  cacheMsgQueue' \in [Node -> Seq(CacheMessage)]
<1>1. [type |-> type, addr |-> addr, latency |-> cacheLatency] \in CacheMessage
  BY DEF TypeOK, CacheMessage
<1> QED BY <1>1, AppendProperties DEF TypeOK, SendMsgToCache

\* updateLine leaves a set of lines, also when it evicts; the victim is a line.
LEMMA UpdateLineType ==
  ASSUME NEW lines \in Seq(Addr), NEW a \in Addr
  PROVE  /\ UpdateLine(lines, a, Ways) \in Seq(Addr)
         /\ Evicts(lines, a, Ways) => Victim(lines) \in Addr
<1>1. Evicts(lines, a, Ways) => lines # <<>>
  BY ContextAssumption, EmptySeq DEF Evicts
<1>2. lines # <<>> => Head(lines) \in Addr /\ Tail(lines) \in Seq(Addr)
  BY HeadTailProperties
<1>3. CASE Holds(lines, a)
  <2> DEFINE i == CHOOSE j \in 1..Len(lines) : lines[j] = a
  <2>1. i \in 1..Len(lines) BY <1>3 DEF Holds
  <2> HIDE DEF i
  <2>2. SubSeq(lines, 1, i - 1) \in Seq(Addr) /\ SubSeq(lines, i + 1, Len(lines)) \in Seq(Addr)
    BY <2>1, SubSeqProperties, LenProperties
  <2>3. SubSeq(lines, 1, i - 1) \o SubSeq(lines, i + 1, Len(lines)) \o <<a>> \in Seq(Addr)
    BY <2>2, ConcatProperties
  <2>4. UpdateLine(lines, a, Ways) \in Seq(Addr)
    BY <1>3, <2>3 DEF UpdateLine, Touch, i
  <2> QED BY <1>3, <2>4 DEF Evicts
<1>4. CASE ~Holds(lines, a)
  <2>1. UpdateLine(lines, a, Ways) \in Seq(Addr)
    BY <1>1, <1>2, <1>4, AppendProperties DEF UpdateLine
  <2> QED BY <1>1, <1>2, <2>1 DEF Victim
<1> QED BY <1>3, <1>4

\* The message in hand is a message, and the queues without it are queues.
LEMMA CurrentType ==
  ASSUME TypeOK, NEW n \in Node, Handling(n)
  PROVE  /\ Current(n) \in Message /\ A(n) \in Addr /\ Source(n) \in Node
         /\ Rest(n) \in [Node -> Seq(Message)]
<1>1. CASE Draining
  <2>1. /\ blockedMsgMap[n][drainAddr] \in Seq(Message)
        /\ blockedMsgMap[n][drainAddr] # <<>>
    BY <1>1 DEF TypeOK, Handling, Draining
  <2>2. Current(n) \in Message BY <1>1, <2>1, HeadTailProperties DEF Current
  <2>3. A(n) \in Addr /\ Source(n) \in Node BY <2>2 DEF A, Source, Message
  <2> QED BY <1>1, <2>2, <2>3 DEF Rest, TypeOK
<1>2. CASE ~Draining
  <2>1. incomingMsgQueue[n] \in Seq(Message) /\ incomingMsgQueue[n] # <<>>
    BY <1>2 DEF TypeOK, Handling, Arrived
  <2>2. Current(n) \in Message /\ Tail(incomingMsgQueue[n]) \in Seq(Message)
    BY <1>2, <2>1, HeadTailProperties DEF Current
  <2>3. A(n) \in Addr /\ Source(n) \in Node BY <2>2 DEF A, Source, Message
  <2> QED BY <1>2, <2>2, <2>3 DEF Rest, TypeOK
<1> QED BY <1>1, <1>2

\* An answer leaves queues of messages, and so does no answer.
LEMMA ReplyType ==
  ASSUME TypeOK, NEW n \in Node, Handling(n), NEW dsts, NEW type \in MessageType,
         Reply(n, dsts, type)
  PROVE  incomingMsgQueue' \in [Node -> Seq(Message)]
  BY CurrentType, SendType DEF Reply, A

\* A handler that sends nothing keeps the types of the queues.
LEMMA NoReplyType ==
  ASSUME TypeOK, NEW n \in Node, Handling(n), NoReply(n)
  PROVE  incomingMsgQueue' \in [Node -> Seq(Message)]
  BY CurrentType DEF NoReply

-------------------------------------------------------------------------------
(* The blocked queues. *)

\* A blocked queue of the line a: its messages are about a, and behind a request to
\* the home are only such requests, none of them being serviced.
InOrder(q, a) ==
  /\ \A i \in 1..Len(q) : q[i].addr = a
  /\ \A i, j \in 1..Len(q) :
       i < j /\ q[i].type \in HomeRequest => q[j].type \in HomeRequest /\ ~q[j].serviced

BlockedInOrder == \A n \in Node, a \in Addr : InOrder(blockedMsgMap[n][a], a)

\* Without its first message a queue is in order as before.
LEMMA TailInOrder ==
  ASSUME NEW q \in Seq(Message), q # <<>>, NEW a, InOrder(q, a)
  PROVE  Tail(q) \in Seq(Message) /\ InOrder(Tail(q), a)
<1>1. /\ Tail(q) \in Seq(Message) /\ Len(Tail(q)) = Len(q) - 1
      /\ \A i \in 1..Len(Tail(q)) : Tail(q)[i] = q[i + 1]
  BY HeadTailProperties
<1>2. \A i \in 1..Len(Tail(q)) : i + 1 \in 1..Len(q)
  BY <1>1, LenProperties
<1>3. \A i, j \in 1..Len(Tail(q)) : i < j => i + 1 < j + 1
  OBVIOUS
<1> QED BY <1>1, <1>2, <1>3 DEF InOrder

\* A message in front of a queue: a request of the home to a holder goes before all
\* others, a request to the home only before requests that are not serviced yet.
LEMMA FrontInOrder ==
  ASSUME NEW q \in Seq(Message), NEW a, InOrder(q, a), NEW msg \in Message, msg.addr = a,
         msg.type \in HomeRequest
           => \A j \in 1..Len(q) : q[j].type \in HomeRequest /\ ~q[j].serviced
  PROVE  <<msg>> \o q \in Seq(Message) /\ InOrder(<<msg>> \o q, a)
<1> DEFINE r == <<msg>> \o q
<1>1. /\ r \in Seq(Message) /\ Len(r) = Len(q) + 1 /\ Len(q) \in Nat
      /\ r[1] = msg
      /\ \A i \in 2..Len(r) : r[i] = q[i - 1] /\ i - 1 \in 1..Len(q)
  <2>1. <<msg>> \in Seq(Message) /\ Len(<<msg>>) = 1 /\ <<msg>>[1] = msg
    OBVIOUS
  <2> QED BY <2>1, ConcatProperties, LenProperties
<1> HIDE DEF r
<1>2. \A i \in 1..Len(r) : i = 1 \/ i \in 2..Len(r) BY <1>1
<1>3. \A i \in 1..Len(r) : r[i].addr = a BY <1>1, <1>2 DEF InOrder
<1>4. ASSUME NEW i \in 1..Len(r), NEW j \in 1..Len(r), i < j, r[i].type \in HomeRequest
      PROVE  r[j].type \in HomeRequest /\ ~r[j].serviced
  <2>1. j \in 2..Len(r) BY <1>2, <1>4
  <2>2. r[j] = q[j - 1] /\ j - 1 \in 1..Len(q) BY <1>1, <2>1
  <2>3. CASE i = 1 BY <1>1, <1>4, <2>2, <2>3
  <2>4. CASE i # 1
    <3>1. r[i] = q[i - 1] /\ i - 1 \in 1..Len(q) BY <1>1, <1>2, <2>4
    <3>2. i - 1 < j - 1 BY <1>4
    <3> QED BY <1>4, <2>2, <3>1, <3>2 DEF InOrder
  <2> QED BY <2>3, <2>4
<1>5. InOrder(r, a) BY <1>3, <1>4 DEF InOrder
<1> QED BY <1>1, <1>5 DEF r

\* A request to the home at the end of a queue: it is not being serviced, or it is
\* alone.
LEMMA AppendInOrder ==
  ASSUME NEW q \in Seq(Message), NEW a, InOrder(q, a), NEW msg \in Message, msg.addr = a,
         msg.type \in HomeRequest, msg.serviced => q = <<>>
  PROVE  Append(q, msg) \in Seq(Message) /\ InOrder(Append(q, msg), a)
<1> DEFINE r == Append(q, msg)
<1>1. /\ r \in Seq(Message) /\ Len(r) = Len(q) + 1 /\ Len(q) \in Nat
      /\ r[Len(r)] = msg
      /\ \A i \in 1..Len(q) : r[i] = q[i]
  BY AppendProperties, LenProperties
<1>2. msg.serviced => Len(q) = 0 OBVIOUS
<1> HIDE DEF r
<1>3. \A i \in 1..Len(r) : i = Len(r) \/ i \in 1..Len(q) BY <1>1
<1>4. \A i \in 1..Len(r) : r[i].addr = a BY <1>1, <1>3 DEF InOrder
<1>5. ASSUME NEW i \in 1..Len(r), NEW j \in 1..Len(r), i < j, r[i].type \in HomeRequest
      PROVE  r[j].type \in HomeRequest /\ ~r[j].serviced
  <2>1. i \in 1..Len(q) /\ r[i] = q[i] BY <1>1, <1>3, <1>5
  <2>2. CASE j = Len(r) BY <1>1, <1>2, <2>1, <2>2
  <2>3. CASE j # Len(r) BY <1>1, <1>3, <1>5, <2>1, <2>3 DEF InOrder
  <2> QED BY <2>2, <2>3
<1>6. InOrder(r, a) BY <1>4, <1>5 DEF InOrder
<1> QED BY <1>1, <1>6 DEF r

\* Blocked queues of which one changes.
LEMMA ChangeOneQueue ==
  ASSUME TypeOK, BlockedInOrder, NEW n \in Node, NEW a \in Addr,
         NEW q \in Seq(Message), InOrder(q, a),
         blockedMsgMap' = [blockedMsgMap EXCEPT ![n][a] = q]
  PROVE  blockedMsgMap' \in [Node -> [Addr -> Seq(Message)]] /\ BlockedInOrder'
<1>1. blockedMsgMap \in [Node -> [Addr -> Seq(Message)]] BY DEF TypeOK
<1>2. blockedMsgMap' \in [Node -> [Addr -> Seq(Message)]] BY <1>1
<1>3. \A m \in Node, b \in Addr :
        blockedMsgMap'[m][b] = IF m = n /\ b = a THEN q ELSE blockedMsgMap[m][b]
  BY <1>1
<1>4. BlockedInOrder' BY <1>3 DEF BlockedInOrder
<1> QED BY <1>2, <1>4

\* What handleMessage's result leaves: the blocked queues, and where the loop is.
QueuesOK ==
  /\ turn \in Node
  /\ phase \in {"tick", "cache", "handler", "drain"}
  /\ drainAddr \in Addr
  /\ blockedMsgMap \in [Node -> [Addr -> Seq(Message)]]
  /\ BlockedInOrder

\* In a drain the message in hand is the first of a queue of its own address.
LEMMA DrainsOwnAddress ==
  ASSUME TypeOK, BlockedInOrder, NEW n \in Node, Handling(n), Draining
  PROVE  LET q == blockedMsgMap[n][drainAddr]
         IN  /\ q \in Seq(Message) /\ q # <<>> /\ InOrder(q, drainAddr)
             /\ 1 \in 1..Len(q) /\ Current(n) = q[1] /\ A(n) = drainAddr
             /\ Tail(q) \in Seq(Message) /\ InOrder(Tail(q), drainAddr)
             /\ \A j \in 1..Len(Tail(q)) :
                  Tail(q)[j] = q[j + 1] /\ j + 1 \in 1..Len(q) /\ 1 < j + 1
<1> DEFINE q == blockedMsgMap[n][drainAddr]
<1>1. q \in Seq(Message) /\ q # <<>> /\ InOrder(q, drainAddr)
  BY DEF TypeOK, Handling, Draining, BlockedInOrder
<1>2. Current(n) = Head(q) BY DEF Current
<1> HIDE DEF q
<1>3. /\ Len(q) \in Nat \ {0} /\ Len(Tail(q)) = Len(q) - 1 /\ Head(q) = q[1]
      /\ \A j \in 1..Len(Tail(q)) : Tail(q)[j] = q[j + 1]
  BY <1>1, HeadTailProperties, EmptySeq, LenProperties
<1>4. A(n) = drainAddr BY <1>1, <1>2, <1>3 DEF InOrder, A
<1>5. Tail(q) \in Seq(Message) /\ InOrder(Tail(q), drainAddr) BY <1>1, TailInOrder
<1>6. 1 \in 1..Len(q) /\ \A j \in 1..Len(Tail(q)) : j + 1 \in 1..Len(q) /\ 1 < j + 1
  BY <1>3
<1> QED BY <1>1, <1>2, <1>3, <1>4, <1>5, <1>6 DEF q

\* handleMessage returns true.
LEMMA DoneQueues ==
  ASSUME TypeOK, BlockedInOrder, NEW n \in Node, Handling(n), Done(n)
  PROVE  QueuesOK'
<1>1. turn' \in Node /\ phase' \in {"tick", "cache", "handler", "drain"} /\ drainAddr' \in Addr
  BY DEF TypeOK, Done, loopVars
<1>2. CASE Draining
  <2>1. blockedMsgMap' = [blockedMsgMap EXCEPT ![n][drainAddr] = Tail(blockedMsgMap[n][drainAddr])]
    BY <1>2 DEF Done
  <2>2. drainAddr \in Addr BY DEF TypeOK
  <2> QED BY <1>1, <1>2, <2>1, <2>2, DrainsOwnAddress, ChangeOneQueue DEF QueuesOK
<1>3. CASE ~Draining
  <2>1. blockedMsgMap' = blockedMsgMap BY <1>3 DEF Done
  <2> QED BY <1>1, <2>1 DEF QueuesOK, TypeOK, BlockedInOrder
<1> QED BY <1>2, <1>3

\* handleMessage returns false, with a request of a home, or with a request to the
\* home that it services only if no other waits.
LEMMA BlockQueues ==
  ASSUME TypeOK, BlockedInOrder, NEW n \in Node, Handling(n),
         NEW serviced \in BOOLEAN, Block(n, serviced),
         \/ Current(n).type \in OwnerRequest
         \/ Current(n).type \in HomeRequest /\ (serviced => Serviceable(n))
  PROVE  QueuesOK'
<1> DEFINE msg == [Current(n) EXCEPT !.serviced = serviced]
           q == blockedMsgMap[n][A(n)]
<1>1. turn' \in Node /\ phase' = "handler" /\ drainAddr' \in Addr
  BY DEF Block, TypeOK
<1>2. Current(n) \in Message /\ A(n) \in Addr BY CurrentType
<1>3. /\ msg \in Message /\ msg.addr = A(n) /\ msg.serviced = serviced
      /\ msg.type = Current(n).type
  BY <1>2 DEF Message, A
<1>4. q \in Seq(Message) /\ InOrder(q, A(n))
  BY <1>2 DEF TypeOK, BlockedInOrder
<1>5. ASSUME NEW r \in Seq(Message), InOrder(r, A(n)),
             blockedMsgMap' = [blockedMsgMap EXCEPT ![n][A(n)] = r]
      PROVE  QueuesOK'
  BY <1>1, <1>2, <1>5, ChangeOneQueue DEF QueuesOK
<1>6. blockedMsgMap' = [blockedMsgMap EXCEPT ![n][A(n)] =
                          IF Draining THEN <<msg>> \o Tail(q) ELSE AddToBlocked(q, msg)]
  <2>1. blockedMsgMap' = [blockedMsgMap EXCEPT ![n][msg.addr] =
                            IF Draining THEN <<msg>> \o Tail(@) ELSE AddToBlocked(@, msg)]
    BY DEF Block
  <2> HIDE DEF msg
  <2> QED BY <1>3, <2>1
<1> HIDE DEF msg, q
<1>7. CASE Draining
  <2>1. /\ Tail(q) \in Seq(Message) /\ InOrder(Tail(q), A(n)) /\ Current(n) = q[1]
        /\ 1 \in 1..Len(q)
        /\ \A j \in 1..Len(Tail(q)) :
             Tail(q)[j] = q[j + 1] /\ j + 1 \in 1..Len(q) /\ 1 < j + 1
    BY <1>7, DrainsOwnAddress DEF q
  <2>2. msg.type \in HomeRequest
          => \A j \in 1..Len(Tail(q)) :
               Tail(q)[j].type \in HomeRequest /\ ~Tail(q)[j].serviced
    BY <1>3, <1>4, <2>1 DEF InOrder
  <2>3. <<msg>> \o Tail(q) \in Seq(Message) /\ InOrder(<<msg>> \o Tail(q), A(n))
    BY <1>3, <2>1, <2>2, FrontInOrder
  <2> QED BY <1>5, <1>6, <1>7, <2>3
<1>8. CASE ~Draining /\ Current(n).type \in OwnerRequest
  <2>1. AddToBlocked(q, msg) = <<msg>> \o q BY <1>3, <1>8 DEF AddToBlocked
  <2>2. msg.type \notin HomeRequest BY <1>3, <1>8 DEF OwnerRequest, HomeRequest
  <2>3. <<msg>> \o q \in Seq(Message) /\ InOrder(<<msg>> \o q, A(n))
    BY <1>3, <1>4, <2>2, FrontInOrder
  <2> QED BY <1>5, <1>6, <1>8, <2>1, <2>3
<1>9. CASE ~Draining /\ Current(n).type \notin OwnerRequest
  <2>1. AddToBlocked(q, msg) = Append(q, msg) BY <1>3, <1>9 DEF AddToBlocked
  <2>2. msg.type \in HomeRequest /\ (msg.serviced => q = <<>>)
    BY <1>3, <1>9 DEF Serviceable, q, A
  <2>3. Append(q, msg) \in Seq(Message) /\ InOrder(Append(q, msg), A(n))
    BY <1>3, <1>4, <2>2, AppendInOrder
  <2> QED BY <1>5, <1>6, <1>9, <2>1, <2>3
<1> QED BY <1>7, <1>8, <1>9

\* The first blocked message of the line has been answered.
LEMMA UnblockQueues ==
  ASSUME TypeOK, BlockedInOrder, NEW n \in Node, Handling(n), Waiting(n) # <<>>, Unblock(n)
  PROVE  QueuesOK'
<1>1. A(n) \in Addr BY CurrentType
<1>2. turn' \in Node /\ phase' = "drain" /\ drainAddr' \in Addr
  BY <1>1 DEF Unblock, TypeOK, A
<1>3. /\ Waiting(n) = blockedMsgMap[n][A(n)]
      /\ Waiting(n) \in Seq(Message) /\ InOrder(Waiting(n), A(n))
  BY <1>1 DEF Waiting, A, TypeOK, BlockedInOrder
<1>4. Tail(Waiting(n)) \in Seq(Message) /\ InOrder(Tail(Waiting(n)), A(n))
  BY <1>3, TailInOrder
<1>5. blockedMsgMap' = [blockedMsgMap EXCEPT ![n][A(n)] = Tail(Waiting(n))]
  BY <1>3 DEF Unblock, A
<1> QED BY <1>1, <1>2, <1>4, <1>5, ChangeOneQueue DEF QueuesOK

\* The first blocked message, where there is one.
LEMMA FirstWaiting ==
  ASSUME TypeOK, NEW n \in Node, Handling(n), Waiting(n) # <<>>
  PROVE  Head(Waiting(n)) \in Message /\ Head(Waiting(n)).src \in Node
<1>1. Waiting(n) \in Seq(Message) BY CurrentType DEF Waiting, A, TypeOK
<1>2. Head(Waiting(n)) \in Message BY <1>1, HeadTailProperties
<1> QED BY <1>2 DEF Message

-------------------------------------------------------------------------------
(* The actions of the handlers. *)

\* The inductive invariant.
BlockingInv == TypeOK /\ BlockedInOrder

\* The variables handleMessage changes besides the queues of messages.
LocalOK ==
  /\ cacheMsgQueue \in [Node -> Seq(CacheMessage)]
  /\ cacheLineStatus \in [Node -> [Addr -> ProtocolStatus]]
  /\ pendingInvAckCount \in [Addr -> Int]
  /\ directory \in [Addr -> Entries(Node)]
  /\ currentMemOp \in [Node -> Op]
  /\ currentMemOpSuccessful \in [Node -> BOOLEAN]
  /\ memActionQueue \in [Node -> Seq(Op)]

\* The types of the machine contain those of its parts, ...
LEMMA LocalTypes == TypeOK => LocalOK
  BY DEF TypeOK, LocalOK

\* ... and the invariant is put together from the parts of a step.
LEMMA PartsOfInv ==
  ASSUME TypeOK, QueuesOK', LocalOK', incomingMsgQueue' \in [Node -> Seq(Message)],
         UNCHANGED <<globals, halt, cache>>
  PROVE  BlockingInv'
  BY DEF TypeOK, QueuesOK, LocalOK, BlockingInv, globals

\* A handled message was at hand.
LEMMA HandlesWhat ==
  ASSUME NEW n \in Node, NEW type, Handles(n, type)
  PROVE  /\ Handling(n) /\ Current(n).type = type /\ ~EmptyFront(n)
         /\ UNCHANGED <<globals, halt, cache>>
  BY DEF Handles

\* What lookUpEntry and updateEntry return are entries.
LEMMA LookUpType ==
  ASSUME NEW e \in Entries(Node)
  PROVE  LookUpEntry(e) \in Entries(Node)
  BY DEF LookUpEntry, Entries, Statuses

\* An updated entry is an entry, ...
LEMMA UpdateType ==
  ASSUME NEW e \in Entries(Node), NEW status \in Statuses, NEW procID \in Node
  PROVE  UpdateEntry(e, status, procID) \in Entries(Node)
<1>1. NoEntry \in Entries(Node) BY DEF NoEntry, Entries
<1>2. [status |-> status, processorMask |-> {procID}] \in Entries(Node) BY DEF Entries
<1>3. [status |-> status, processorMask |-> e.processorMask \cup {procID}] \in Entries(Node)
  BY DEF Entries
<1>4. \/ UpdateEntry(e, status, procID) = NoEntry
      \/ UpdateEntry(e, status, procID) = [status |-> status, processorMask |-> {procID}]
      \/ UpdateEntry(e, status, procID)
           = [status |-> status, processorMask |-> e.processorMask \cup {procID}]
  <2>1. CASE e = NoEntry BY <2>1 DEF UpdateEntry
  <2>2. CASE e # NoEntry /\ status = "SHARED" BY <2>2 DEF UpdateEntry
  <2>3. CASE e # NoEntry /\ status \in {"MODIFIED", "EXCLUSIVE"} BY <2>3 DEF UpdateEntry
  <2>4. CASE e # NoEntry /\ status = "UNCACHED" BY <2>4 DEF UpdateEntry
  <2> QED BY <2>1, <2>2, <2>3, <2>4 DEF Statuses
<1> QED BY <1>1, <1>2, <1>3, <1>4

\* The entry of the line in hand, as it is and as lookUpEntry returns it.
LEMMA EntryType ==
  ASSUME TypeOK, NEW n \in Node, Handling(n)
  PROVE  directory[A(n)] \in Entries(Node) /\ Entry(n) \in Entries(Node)
<1>1. directory[A(n)] \in Entries(Node) BY CurrentType DEF TypeOK
<1> QED BY <1>1, LookUpType DEF Entry

\* ... a directory with an entry set is a directory, ...
LEMMA SetEntryType ==
  ASSUME TypeOK, NEW n \in Node, Handling(n), NEW e \in Entries(Node), SetEntry(A(n), e)
  PROVE  directory' \in [Addr -> Entries(Node)]
  BY CurrentType DEF TypeOK, SetEntry

\* ... and a status map with a status set is a status map.
LEMMA SetStatusType ==
  ASSUME TypeOK, NEW n \in Node, NEW a \in Addr, NEW status \in ProtocolStatus,
         SetStatus(n, a, status)
  PROVE  cacheLineStatus' \in [Node -> [Addr -> ProtocolStatus]]
  BY DEF TypeOK, SetStatus

\* The home waits for a number of ACKs.
LEMMA AwaitType ==
  ASSUME TypeOK, NEW n \in Node, Handling(n), NEW S, S \subseteq Node,
         AwaitInvalidateAcks(A(n), Cardinality(S))
  PROVE  pendingInvAckCount' \in [Addr -> Int]
<1>1. IsFiniteSet(Node) BY ContextAssumption, FS_Interval DEF Node
<1>2. Cardinality(S) \in Int BY <1>1, FS_Subset, FS_CardinalityType
<1> QED BY <1>2 DEF AwaitInvalidateAcks, TypeOK

\* Requests of a node to the home: a request is blocked behind others, or is answered,
\* or is blocked alone while it is serviced.
LEMMA HomeRequestSteps ==
  ASSUME BlockingInv, NEW n \in Node,
         \/ HomeBusy(n)
         \/ ReadMissShares(n) \/ ReadMissGivesExclusive(n) \/ ReadMissFetches(n)
         \/ WriteMissUncached(n) \/ WriteMissInvalidates(n) \/ WriteMissFetches(n)
         \/ InvalidateOtherRollsBack(n) \/ InvalidateOtherInvalidates(n)
         \/ InvalidateOtherGrants(n)
  PROVE  BlockingInv'
<1>0. PICK type \in HomeRequest : Handles(n, type)
  BY DEF HomeBusy, ReadMissShares, ReadMissGivesExclusive, ReadMissFetches, WriteMissUncached,
         WriteMissInvalidates, WriteMissFetches, InvalidateOtherRollsBack,
         InvalidateOtherInvalidates, InvalidateOtherGrants, ReadMiss, WriteMiss, HomeRequest
<1>1. /\ TypeOK /\ BlockedInOrder /\ Handling(n) /\ Current(n).type \in HomeRequest
      /\ UNCHANGED <<globals, halt, cache>>
  BY <1>0, HandlesWhat DEF BlockingInv
<1>2. /\ A(n) \in Addr /\ Source(n) \in Node /\ Entry(n) \in Entries(Node)
      /\ Entry(n).processorMask \subseteq Node
  BY <1>1, CurrentType, EntryType DEF Entries
<1>3. \A dsts : \A reply \in MessageType :
        Reply(n, dsts, reply) => incomingMsgQueue' \in [Node -> Seq(Message)]
  BY <1>1, ReplyType
<1>4. \A status \in Statuses : UpdateEntry(Entry(n), status, Source(n)) \in Entries(Node)
  BY <1>2, UpdateType
<1>5. \A e \in Entries(Node) : SetEntry(A(n), e) => directory' \in [Addr -> Entries(Node)]
  BY <1>1, SetEntryType
<1>6. LocalOK BY <1>1, LocalTypes
<1>7. Done(n) => QueuesOK' BY <1>1, DoneQueues
<1>8. \A serviced \in BOOLEAN :
        Block(n, serviced) /\ (serviced => Serviceable(n)) => QueuesOK'
  BY <1>1, BlockQueues
<1>9. ASSUME QueuesOK', incomingMsgQueue' \in [Node -> Seq(Message)],
             pendingInvAckCount' \in [Addr -> Int], directory' \in [Addr -> Entries(Node)],
             UNCHANGED <<cacheMsgQueue, cacheLineStatus, procVars>>
      PROVE  BlockingInv'
  BY <1>1, <1>6, <1>9, PartsOfInv DEF LocalOK, procVars
<1>10. pendingInvAckCount \in [Addr -> Int] BY <1>1 DEF TypeOK
<1>11. CASE HomeBusy(n)
  <2>1. incomingMsgQueue' \in [Node -> Seq(Message)] BY <1>1, <1>11, NoReplyType DEF HomeBusy
  <2>2. QueuesOK' BY <1>8, <1>11 DEF HomeBusy
  <2> QED BY <1>6, <1>9, <1>11, <2>1, <2>2 DEF HomeBusy, homeVars, LocalOK
<1>12. CASE ReadMissShares(n)
  BY <1>3, <1>4, <1>5, <1>7, <1>9, <1>10, <1>12
     DEF ReadMissShares, ReadMiss, MessageType, NodeReply, Statuses
<1>13. CASE ReadMissGivesExclusive(n)
  BY <1>3, <1>4, <1>5, <1>7, <1>9, <1>10, <1>13
     DEF ReadMissGivesExclusive, ReadMiss, MessageType, NodeReply, Statuses
<1>14. CASE ReadMissFetches(n)
  BY <1>2, <1>3, <1>5, <1>8, <1>9, <1>10, <1>14
     DEF ReadMissFetches, ReadMiss, MessageType, OwnerRequest
<1>15. CASE WriteMissUncached(n)
  BY <1>3, <1>4, <1>5, <1>7, <1>9, <1>10, <1>15
     DEF WriteMissUncached, WriteMiss, MessageType, NodeReply, Statuses
<1>16. CASE WriteMissInvalidates(n)
  <2>1. pendingInvAckCount' \in [Addr -> Int]
    BY <1>1, <1>2, <1>16, AwaitType DEF WriteMissInvalidates
  <2> QED BY <1>2, <1>3, <1>5, <1>8, <1>9, <1>16, <2>1
          DEF WriteMissInvalidates, WriteMiss, MessageType, OwnerRequest
<1>17. CASE WriteMissFetches(n)
  BY <1>2, <1>3, <1>5, <1>8, <1>9, <1>10, <1>17
     DEF WriteMissFetches, WriteMiss, MessageType, OwnerRequest
<1>18. CASE InvalidateOtherRollsBack(n)
  BY <1>2, <1>3, <1>5, <1>7, <1>9, <1>10, <1>18
     DEF InvalidateOtherRollsBack, MessageType, NodeReply
<1>19. CASE InvalidateOtherInvalidates(n)
  <2>1. OtherSharers(n) \subseteq Node BY <1>2 DEF OtherSharers
  <2>2. pendingInvAckCount' \in [Addr -> Int]
    BY <1>1, <1>19, <2>1, AwaitType DEF InvalidateOtherInvalidates
  <2> QED BY <1>2, <1>3, <1>5, <1>8, <1>9, <1>19, <2>2
          DEF InvalidateOtherInvalidates, MessageType, OwnerRequest
<1>20. CASE InvalidateOtherGrants(n)
  BY <1>3, <1>4, <1>5, <1>7, <1>9, <1>10, <1>20
     DEF InvalidateOtherGrants, MessageType, NodeReply, Statuses
<1> QED BY <1>11, <1>12, <1>13, <1>14, <1>15, <1>16, <1>17, <1>18, <1>19, <1>20

\* Requests of a home to a holder: answered at once, or blocked until the cache answers.
LEMMA OwnerRequestSteps ==
  ASSUME BlockingInv, NEW n \in Node,
         InvalidateAbsent(n) \/ FetchAbsent(n) \/ Invalidate(n) \/ Fetch(n)
  PROVE  BlockingInv'
<1>0. PICK type \in OwnerRequest : Handles(n, type)
  BY DEF InvalidateAbsent, FetchAbsent, Invalidate, Fetch, OwnerRequest
<1>1. /\ TypeOK /\ BlockedInOrder /\ Handling(n) /\ Current(n).type \in OwnerRequest
      /\ UNCHANGED <<globals, halt, cache>>
  BY <1>0, HandlesWhat DEF BlockingInv
<1>2. A(n) \in Addr BY <1>1, CurrentType
<1>3. LocalOK BY <1>1, LocalTypes
<1>4. Done(n) => QueuesOK' BY <1>1, DoneQueues
<1>5. Block(n, TRUE) => QueuesOK' BY <1>1, BlockQueues
<1>6. NoReply(n) => incomingMsgQueue' \in [Node -> Seq(Message)] BY <1>1, NoReplyType
<1>7. ASSUME QueuesOK', incomingMsgQueue' \in [Node -> Seq(Message)],
             cacheMsgQueue' \in [Node -> Seq(CacheMessage)],
             cacheLineStatus' \in [Node -> [Addr -> ProtocolStatus]],
             UNCHANGED <<homeVars, procVars>>
      PROVE  BlockingInv'
  BY <1>1, <1>3, <1>7, PartsOfInv DEF LocalOK, homeVars, procVars
<1>8. CASE InvalidateAbsent(n)
  <2>1. incomingMsgQueue' \in [Node -> Seq(Message)]
    BY <1>1, <1>8, ReplyType DEF InvalidateAbsent, MessageType, NodeReply
  <2> QED BY <1>3, <1>4, <1>7, <1>8, <2>1 DEF InvalidateAbsent, LocalOK
<1>9. CASE FetchAbsent(n)
  BY <1>3, <1>4, <1>6, <1>7, <1>9 DEF FetchAbsent, LocalOK
<1>10. CASE Invalidate(n)
  <2>1. cacheMsgQueue' \in [Node -> Seq(CacheMessage)]
    BY <1>1, <1>2, <1>10, SendToCacheType DEF Invalidate, CacheRequest
  <2>2. cacheLineStatus' \in [Node -> [Addr -> ProtocolStatus]]
    BY <1>1, <1>2, <1>10, SetStatusType DEF Invalidate, ProtocolStatus
  <2> QED BY <1>5, <1>6, <1>7, <1>10, <2>1, <2>2 DEF Invalidate
<1>11. CASE Fetch(n)
  <2>1. cacheMsgQueue' \in [Node -> Seq(CacheMessage)]
    BY <1>1, <1>2, <1>11, SendToCacheType DEF Fetch, CacheRequest
  <2>2. cacheLineStatus' \in [Node -> [Addr -> ProtocolStatus]]
    BY <1>1, <1>2, <1>11, SetStatusType DEF Fetch, ProtocolStatus
  <2> QED BY <1>5, <1>6, <1>7, <1>11, <2>1, <2>2 DEF Fetch
<1> QED BY <1>8, <1>9, <1>10, <1>11

\* Answers of a holder to the home: counted, or the request that waits first is
\* answered and the queue behind it taken up.
LEMMA HolderAnswerSteps ==
  ASSUME BlockingInv, NEW n \in Node,
         \/ InvalidateAckCounts(n) \/ InvalidateAckGrants(n)
         \/ WriteBackAnswersWrite(n) \/ WriteBackAnswersRead(n) \/ WriteBackEvicts(n)
  PROVE  BlockingInv'
<1>0. PICK type \in {"INVALIDATE_ACK", "DATA_WRITE_BACK"} : Handles(n, type)
  BY DEF InvalidateAckCounts, InvalidateAckGrants, WriteBackAnswersWrite,
         WriteBackAnswersRead, WriteBackEvicts, InvalidateAck, WriteBack
<1>1. /\ TypeOK /\ BlockedInOrder /\ Handling(n) /\ ~EmptyFront(n)
      /\ UNCHANGED <<globals, halt, cache>>
  BY <1>0, HandlesWhat DEF BlockingInv
<1>2. /\ A(n) \in Addr /\ Source(n) \in Node
      /\ directory[A(n)] \in Entries(Node) /\ Entry(n) \in Entries(Node)
  BY <1>1, CurrentType, EntryType
<1>3. LocalOK BY <1>1, LocalTypes
<1>4. \A dsts : \A reply \in MessageType :
        Reply(n, dsts, reply) => incomingMsgQueue' \in [Node -> Seq(Message)]
  BY <1>1, ReplyType
<1>5. NoReply(n) => incomingMsgQueue' \in [Node -> Seq(Message)] BY <1>1, NoReplyType
<1>6. Done(n) => QueuesOK' BY <1>1, DoneQueues
<1>7. Waiting(n) # <<>> /\ Unblock(n) => QueuesOK' BY <1>1, UnblockQueues
<1>8. Waiting(n) # <<>> => Head(Waiting(n)).src \in Node BY <1>1, FirstWaiting
<1>9. \A e \in Entries(Node), status \in Statuses, m \in Node :
        SetEntry(A(n), UpdateEntry(e, status, m)) => directory' \in [Addr -> Entries(Node)]
  BY <1>1, UpdateType, SetEntryType
<1>10. ASSUME QueuesOK', incomingMsgQueue' \in [Node -> Seq(Message)],
              pendingInvAckCount' \in [Addr -> Int], directory' \in [Addr -> Entries(Node)],
              UNCHANGED <<cacheMsgQueue, cacheLineStatus, procVars>>
       PROVE  BlockingInv'
  BY <1>1, <1>3, <1>10, PartsOfInv DEF LocalOK, procVars
<1>11. InvalidateAck(n)
         => /\ Waiting(n) = <<>> => ~LastAck(n)
            /\ pendingInvAckCount' \in [Addr -> Int]
            /\ UNCHANGED <<cacheMsgQueue, cacheLineStatus, procVars>>
  <2> SUFFICES ASSUME InvalidateAck(n)
               PROVE  /\ Waiting(n) = <<>> => ~LastAck(n)
                      /\ pendingInvAckCount' \in [Addr -> Int]
                      /\ UNCHANGED <<cacheMsgQueue, cacheLineStatus, procVars>>
    OBVIOUS
  <2>1. Current(n).type = "INVALIDATE_ACK" BY HandlesWhat DEF InvalidateAck
  <2>2. Waiting(n) = <<>> => ~LastAck(n) BY <1>1, <2>1 DEF EmptyFront, TakesFront
  <2>3. pendingInvAckCount' = [pendingInvAckCount EXCEPT ![A(n)] = @ - 1]
    BY DEF InvalidateAck
  <2> QED BY <1>2, <1>3, <2>2, <2>3 DEF InvalidateAck, LocalOK
<1>12. WriteBack(n)
         => /\ pendingInvAckCount' \in [Addr -> Int]
            /\ UNCHANGED <<cacheMsgQueue, cacheLineStatus, procVars>>
  BY <1>3 DEF WriteBack, LocalOK
<1>13. CASE InvalidateAckCounts(n)
  <2>1. directory' \in [Addr -> Entries(Node)] BY <1>3, <1>13 DEF InvalidateAckCounts, LocalOK
  <2> QED BY <1>5, <1>6, <1>10, <1>11, <1>13, <2>1 DEF InvalidateAckCounts
<1>14. CASE InvalidateAckGrants(n)
  <2>1. InvalidateAck(n) /\ Waiting(n) # <<>> /\ Unblock(n)
    BY <1>11, <1>14 DEF InvalidateAckGrants
  <2>2. incomingMsgQueue' \in [Node -> Seq(Message)]
    BY <1>4, <1>14 DEF InvalidateAckGrants, MessageType, NodeReply
  <2>3. directory' \in [Addr -> Entries(Node)]
    BY <1>2, <1>8, <1>9, <1>14, <2>1 DEF InvalidateAckGrants, Statuses
  <2> QED BY <1>7, <1>10, <1>11, <2>1, <2>2, <2>3
<1>15. CASE WriteBackAnswersWrite(n)
  <2>1. WriteBack(n) /\ Waiting(n) # <<>> /\ Unblock(n) BY <1>15 DEF WriteBackAnswersWrite
  <2>2. incomingMsgQueue' \in [Node -> Seq(Message)]
    BY <1>4, <1>15 DEF WriteBackAnswersWrite, MessageType, NodeReply
  <2>3. directory' \in [Addr -> Entries(Node)]
    BY <1>2, <1>8, <1>9, <1>15, <2>1 DEF WriteBackAnswersWrite, Statuses
  <2> QED BY <1>7, <1>10, <1>12, <2>1, <2>2, <2>3
<1>16. CASE WriteBackAnswersRead(n)
  <2>1. WriteBack(n) /\ Waiting(n) # <<>> /\ Unblock(n) BY <1>16 DEF WriteBackAnswersRead
  <2>2. incomingMsgQueue' \in [Node -> Seq(Message)]
    BY <1>4, <1>16 DEF WriteBackAnswersRead, MessageType, NodeReply
  <2>3. directory' \in [Addr -> Entries(Node)]
    BY <1>2, <1>8, <1>9, <1>16, <2>1 DEF WriteBackAnswersRead, Statuses
  <2> QED BY <1>7, <1>10, <1>12, <2>1, <2>2, <2>3
<1>17. CASE WriteBackEvicts(n)
  <2>1. directory' \in [Addr -> Entries(Node)]
    BY <1>2, <1>9, <1>17 DEF WriteBackEvicts, Statuses
  <2> QED BY <1>5, <1>6, <1>10, <1>12, <1>17, <2>1 DEF WriteBackEvicts
<1> QED BY <1>13, <1>14, <1>15, <1>16, <1>17

\* Answers of the home to the requester, and of the cache: the blocked queues lose
\* at most the first message of one.
LEMMA AnswerSteps ==
  ASSUME BlockingInv, NEW n \in Node,
         \/ InvalidateOtherAck(n) \/ DataValueReply(n) \/ Rollback(n)
         \/ MemOpDone(n) \/ CacheAck(n) \/ EvictionAlert(n)
  PROVE  BlockingInv'
<1>0. PICK type : Handles(n, type)
  BY DEF InvalidateOtherAck, DataValueReply, Rollback, MemOpDone, CacheAck, EvictionAlert
<1>1. /\ TypeOK /\ BlockedInOrder /\ Handling(n) /\ ~EmptyFront(n)
      /\ UNCHANGED <<globals, halt, cache>>
  BY <1>0, HandlesWhat DEF BlockingInv
<1>2. A(n) \in Addr BY <1>1, CurrentType
<1>3. LocalOK BY <1>1, LocalTypes
<1>4. \A dsts : \A reply \in MessageType :
        Reply(n, dsts, reply) => incomingMsgQueue' \in [Node -> Seq(Message)]
  BY <1>1, ReplyType
<1>5. NoReply(n) => incomingMsgQueue' \in [Node -> Seq(Message)] BY <1>1, NoReplyType
<1>6. Done(n) => QueuesOK' BY <1>1, DoneQueues
<1>7. \A status \in ProtocolStatus :
        SetStatus(n, A(n), status) => cacheLineStatus' \in [Node -> [Addr -> ProtocolStatus]]
  BY <1>1, <1>2, SetStatusType
<1>8. SendMsgToCache(n, A(n), "CACHE_UPDATE") => cacheMsgQueue' \in [Node -> Seq(CacheMessage)]
  BY <1>1, <1>2, SendToCacheType DEF CacheRequest
<1>9. ASSUME LocalOK', QueuesOK', incomingMsgQueue' \in [Node -> Seq(Message)]
      PROVE  BlockingInv'
  BY <1>1, <1>9, PartsOfInv
<1>10. CASE InvalidateOtherAck(n)
  BY <1>3, <1>5, <1>6, <1>7, <1>8, <1>9, <1>10
     DEF InvalidateOtherAck, LocalOK, homeVars, procVars, ProtocolStatus
<1>11. CASE DataValueReply(n)
  <2>1. PICK status \in {"M", "E", "S"} :
          SetStatus(n, A(n), IF LineStatus(n) = "I" THEN status ELSE LineStatus(n))
    BY <1>11 DEF DataValueReply
  <2>2. LineStatus(n) \in ProtocolStatus BY <1>2, <1>3 DEF LineStatus, LocalOK
  <2>3. cacheLineStatus' \in [Node -> [Addr -> ProtocolStatus]]
    BY <1>7, <2>1, <2>2 DEF ProtocolStatus
  <2>4. /\ SendMsgToCache(n, A(n), "CACHE_UPDATE") /\ NoReply(n) /\ Done(n)
        /\ UNCHANGED <<homeVars, procVars>>
    BY <1>11 DEF DataValueReply
  <2> QED BY <1>3, <1>5, <1>6, <1>8, <1>9, <2>3, <2>4 DEF LocalOK, homeVars, procVars
<1>12. CASE Rollback(n)
  <2>1. /\ memActionQueue' = [memActionQueue EXCEPT ![n] = <<currentMemOp[n]>> \o @]
        /\ currentMemOpSuccessful' = [currentMemOpSuccessful EXCEPT ![n] = TRUE]
        /\ UNCHANGED <<cacheMsgQueue, cacheLineStatus, homeVars, currentMemOp>>
    BY <1>12 DEF Rollback, MemOpSucceeds
  <2>2. currentMemOp[n] \in Op /\ memActionQueue[n] \in Seq(Op) BY <1>3 DEF LocalOK
  <2>3. <<currentMemOp[n]>> \o memActionQueue[n] \in Seq(Op) BY <2>2, ConcatProperties
  <2>4. LocalOK' BY <1>3, <2>1, <2>3 DEF LocalOK, homeVars
  <2> QED BY <1>5, <1>6, <1>9, <1>12, <2>4 DEF Rollback
<1>13. CASE MemOpDone(n)
  BY <1>3, <1>5, <1>6, <1>9, <1>13 DEF MemOpDone, MemOpSucceeds, LocalOK, homeVars
<1>14. CASE CacheAck(n)
  <2>1. PICK ack \in {"CACHE_INVALIDATE_ACK", "CACHE_FETCH_ACK"} : Handles(n, ack)
    BY <1>14 DEF CacheAck
  <2>2. Current(n).type = ack /\ Waiting(n) # <<>>
    BY <1>1, <2>1, HandlesWhat DEF EmptyFront, TakesFront
  <2>3. QueuesOK' BY <1>1, <1>14, <2>2, UnblockQueues DEF CacheAck
  <2>4. incomingMsgQueue' \in [Node -> Seq(Message)]
    BY <1>4, <1>14 DEF CacheAck, MessageType, NodeReply
  <2> QED BY <1>3, <1>9, <1>14, <2>3, <2>4 DEF CacheAck, LocalOK, homeVars, procVars
<1>15. CASE EvictionAlert(n)
  <2>1. incomingMsgQueue' \in [Node -> Seq(Message)]
    BY <1>4, <1>5, <1>15 DEF EvictionAlert, MessageType, NodeReply
  <2> QED BY <1>3, <1>6, <1>7, <1>9, <1>15, <2>1
          DEF EvictionAlert, LocalOK, homeVars, procVars, ProtocolStatus
<1> QED BY <1>10, <1>11, <1>12, <1>13, <1>14, <1>15

-------------------------------------------------------------------------------
(* The other steps of the loop leave the blocked queues alone. *)

\* The order of the blocked queues stays where they do.
LEMMA OrderKept ==
  ASSUME BlockedInOrder, UNCHANGED blockedMsgMap
  PROVE  BlockedInOrder'
  BY DEF BlockedInOrder

\* The cache of a node.
LEMMA CacheSteps ==
  ASSUME BlockingInv, NEW n \in Node, CacheRun(n)
  PROVE  BlockingInv'
<1> DEFINE a == Head(cacheMsgQueue[n]).addr
<1>1. TypeOK /\ BlockedInOrder BY DEF BlockingInv
<1>2. CASE CacheTick(n)
  <2>1. cacheMsgQueue' = [cacheMsgQueue EXCEPT ![n] = Older(cacheMsgQueue[n])]
    BY <1>2 DEF CacheTick
  <2>2. cacheMsgQueue' \in [Node -> Seq(CacheMessage)]
    BY <1>1, <2>1, OlderCacheType DEF TypeOK
  <2>3. TypeOK'
    BY <1>1, <1>2, <2>2 DEF TypeOK, CacheTick, globals, homeVars, procVars
  <2> QED BY <1>1, <1>2, <2>3, OrderKept DEF CacheTick, BlockingInv
<1>3. ASSUME NEW type, CacheServes(n, type),
             incomingMsgQueue' \in [Node -> Seq(Message)],
             cache' \in [Node -> [CacheSets -> Seq(Addr)]], halt' \in Halt
      PROVE  BlockingInv'
  <2>1. cacheMsgQueue[n] \in Seq(CacheMessage) /\ cacheMsgQueue[n] # <<>>
    BY <1>1, <1>3 DEF TypeOK, CacheServes, Arrived
  <2>2. Tail(cacheMsgQueue[n]) \in Seq(CacheMessage) BY <2>1, HeadTailProperties
  <2>3. cacheMsgQueue' = [cacheMsgQueue EXCEPT ![n] = Tail(cacheMsgQueue[n])]
        /\ UNCHANGED <<globals, loopVars, blockedMsgMap, cacheLineStatus, homeVars, procVars>>
    BY <1>3 DEF CacheServes
  <2>4. TypeOK'
    BY <1>1, <1>3, <2>2, <2>3 DEF TypeOK, globals, loopVars, homeVars, procVars
  <2> QED BY <1>1, <2>3, <2>4, OrderKept DEF BlockingInv
<1>4. ASSUME NEW type, CacheServes(n, type)
      PROVE  a \in Addr /\ SetIndex[a] \in CacheSets /\ Lines(n, a) \in Seq(Addr)
  <2>1. cacheMsgQueue[n] \in Seq(CacheMessage) /\ cacheMsgQueue[n] # <<>>
    BY <1>1, <1>4 DEF TypeOK, CacheServes, Arrived
  <2>2. Head(cacheMsgQueue[n]) \in CacheMessage BY <2>1, HeadTailProperties
  <2>3. a \in Addr BY <2>2 DEF CacheMessage
  <2>4. SetIndex[a] \in CacheSets BY <2>3 DEF CacheSets
  <2>5. Lines(n, a) \in Seq(Addr) BY <1>1, <2>4 DEF TypeOK, Lines
  <2> QED BY <2>3, <2>4, <2>5
<1>5. ASSUME NEW reply \in CacheReply, a \in Addr, CacheReplies(n, a, reply)
      PROVE  incomingMsgQueue' \in [Node -> Seq(Message)]
  <2>1. NewMessage(n, a, reply, cacheLatency) \in Message
    BY <1>1, <1>5, NewMessageType DEF TypeOK, MessageType
  <2>2. incomingMsgQueue[n] \in Seq(Message) BY <1>1 DEF TypeOK
  <2>3. Append(incomingMsgQueue[n], NewMessage(n, a, reply, cacheLatency)) \in Seq(Message)
    BY <2>1, <2>2, AppendProperties
  <2> QED BY <1>1, <1>5, <2>3 DEF TypeOK, CacheReplies
<1>6. ASSUME NEW lines \in Seq(Addr), a \in Addr, SetLines(n, a, lines)
      PROVE  cache' \in [Node -> [CacheSets -> Seq(Addr)]]
  BY <1>1, <1>6 DEF TypeOK, SetLines
<1>7. halt' = halt => halt' \in Halt BY <1>1 DEF TypeOK
<1> HIDE DEF a
<1>8. CASE CacheReads(n)
  BY <1>3, <1>4, <1>5, <1>6, <1>7, <1>8 DEF CacheReads, CacheReply, ReadLine, a
<1>9. CASE CacheInvalidates(n)
  BY <1>3, <1>4, <1>5, <1>6, <1>7, <1>9 DEF CacheInvalidates, CacheReply, InvalidateLine, a
<1>10. CASE CacheFetches(n)
  BY <1>3, <1>4, <1>5, <1>6, <1>7, <1>10 DEF CacheFetches, CacheReply, FetchLine, a
<1>11. CASE CacheLineNotFound(n)
  <2>1. PICK type \in CacheRequest \ {"CACHE_UPDATE"} : CacheServes(n, type)
    BY <1>11 DEF CacheLineNotFound
  <2>2. halt' \in Halt /\ UNCHANGED <<incomingMsgQueue, cache>>
    BY <1>11 DEF CacheLineNotFound, Halt
  <2> QED BY <1>1, <1>3, <2>1, <2>2 DEF TypeOK
<1>12. CASE CacheUpdates(n)
  <2>1. CacheServes(n, "CACHE_UPDATE") /\ a \in Addr /\ Lines(n, a) \in Seq(Addr)
    BY <1>4, <1>12 DEF CacheUpdates
  <2>2. UpdateLine(Lines(n, a), a, Ways) \in Seq(Addr) BY <2>1, UpdateLineType
  <2> QED BY <1>3, <1>5, <1>6, <1>7, <1>12, <2>1, <2>2 DEF CacheUpdates, CacheReply, a
<1>13. CASE CacheUpdateEvicts(n)
  <2> DEFINE alert == NewMessage(0, Victim(Lines(n, a)), "CACHE_EVICTION_ALERT", cacheLatency)
             ack == NewMessage(n, a, "CACHE_UPDATE_ACK", cacheLatency)
  <2>1. /\ CacheServes(n, "CACHE_UPDATE") /\ a \in Addr /\ Lines(n, a) \in Seq(Addr)
        /\ Evicts(Lines(n, a), a, Ways)
    BY <1>4, <1>13 DEF CacheUpdateEvicts, a
  <2>2. UpdateLine(Lines(n, a), a, Ways) \in Seq(Addr) /\ Victim(Lines(n, a)) \in Addr
    BY <2>1, UpdateLineType
  <2>3. cacheLatency \in Nat /\ incomingMsgQueue[n] \in Seq(Message) BY <1>1 DEF TypeOK
  <2>4. alert \in Message /\ ack \in Message
    BY <2>1, <2>2, <2>3, ZeroIsNode, NewMessageType DEF MessageType, CacheReply
  <2>5. incomingMsgQueue' = [incomingMsgQueue EXCEPT ![n] = @ \o <<alert, ack>>]
    BY <1>13 DEF CacheUpdateEvicts, a
  <2> HIDE DEF alert, ack
  <2>6. incomingMsgQueue[n] \o <<alert, ack>> \in Seq(Message)
    BY <2>3, <2>4, ConcatProperties
  <2>7. incomingMsgQueue' \in [Node -> Seq(Message)] BY <1>1, <2>5, <2>6 DEF TypeOK
  <2>8. cache' \in [Node -> [CacheSets -> Seq(Addr)]]
    BY <1>6, <1>13, <2>1, <2>2 DEF CacheUpdateEvicts, a
  <2> QED BY <1>3, <1>7, <1>13, <2>1, <2>7, <2>8 DEF CacheUpdateEvicts
<1> QED BY <1>2, <1>8, <1>9, <1>10, <1>11, <1>12, <1>13 DEF CacheRun

\* The handler's tick, the end of a drain, and a message that stops the program.
LEMMA LoopSteps ==
  ASSUME BlockingInv, NEW n \in Node, HandlerTick(n) \/ DrainEnds(n) \/ HandlerStops(n)
  PROVE  BlockingInv'
<1>1. TypeOK /\ BlockedInOrder BY DEF BlockingInv
<1>2. CASE HandlerTick(n)
  <2>1. incomingMsgQueue' = [incomingMsgQueue EXCEPT ![n] = Older(incomingMsgQueue[n])]
    BY <1>2 DEF HandlerTick
  <2>2. incomingMsgQueue' \in [Node -> Seq(Message)] BY <1>1, <2>1, OlderType DEF TypeOK
  <2>3. TypeOK'
    BY <1>1, <1>2, <2>2 DEF TypeOK, HandlerTick, globals, homeVars, procVars, cacheVars
  <2> QED BY <1>1, <1>2, <2>3, OrderKept DEF HandlerTick, BlockingInv
<1>3. CASE DrainEnds(n)
  <2>1. TypeOK'
    BY <1>1, <1>3 DEF TypeOK, DrainEnds, globals, homeVars, procVars, cacheVars
  <2> QED BY <1>1, <1>3, <2>1, OrderKept DEF DrainEnds, BlockingInv
<1>4. CASE HandlerStops(n)
  <2>1. PICK why \in {"empty_front", "assert"} : Stops(why) BY <1>4 DEF HandlerStops
  <2>2. TypeOK'
    BY <1>1, <2>1 DEF TypeOK, Stops, Halt, globals, loopVars, homeVars, procVars, cacheVars
  <2> QED BY <1>1, <2>1, <2>2, OrderKept DEF Stops, BlockingInv
<1> QED BY <1>2, <1>3, <1>4

\* The processor's turn, with or without a memory operation.
LEMMA ProcessorSteps ==
  ASSUME BlockingInv, NEW n \in Node, ProcessorWaits(n) \/ HandleMemOpRequest(n)
  PROVE  BlockingInv'
<1>1. TypeOK /\ BlockedInOrder /\ LocalOK BY LocalTypes DEF BlockingInv
<1>2. ProcessorTurn(n)
  BY DEF ProcessorWaits, HandleMemOpRequest, WriteInvalid, WriteShared, WriteOwned, ReadInvalid,
         ReadValid, WriteRequest, ReadRequest, ProcessorStarts
<1>3. QueuesOK' /\ UNCHANGED <<globals, halt, cache, homeVars>>
  <2>1. (n + 1) % NumContexts \in Node BY ContextAssumption, SMT DEF Node
  <2>2. turn' \in Node /\ phase' = "tick" /\ drainAddr' \in Addr
    BY <1>1, <1>2, <2>1 DEF ProcessorTurn, EndTurn, TypeOK
  <2> QED BY <1>1, <1>2, <2>2, OrderKept DEF ProcessorTurn, QueuesOK, TypeOK
<1>4. CASE ProcessorWaits(n)
  <2>1. LocalOK' /\ incomingMsgQueue' \in [Node -> Seq(Message)]
    BY <1>1, <1>3, <1>4 DEF ProcessorWaits, LocalOK, TypeOK, homeVars, procVars
  <2> QED BY <1>1, <1>3, <2>1, PartsOfInv
<1>5. ASSUME NEW op \in Op, ProcessorStarts(n, op)
      PROVE  /\ currentMemOp' \in [Node -> Op]
             /\ currentMemOpSuccessful' \in [Node -> BOOLEAN]
             /\ memActionQueue' \in [Node -> Seq(Op)]
  <2>1. PICK next \in NextOps(n) : memActionQueue' = [memActionQueue EXCEPT ![n] = next[2]]
    BY <1>5 DEF ProcessorStarts
  <2>2. PICK b \in Seq(Op) : b # <<>> /\ next = <<Head(b), Tail(b)>>
    BY <1>1, <2>1, ContextAssumption DEF NextOps, LocalOK
  <2>3. next[2] \in Seq(Op) BY <2>2, HeadTailProperties
  <2> QED BY <1>1, <1>5, <2>1, <2>3 DEF ProcessorStarts, LocalOK
<1>6. CASE HandleMemOpRequest(n)
  <2>1. PICK addr \in Addr : \/ WriteInvalid(n, addr) \/ WriteShared(n, addr)
                             \/ WriteOwned(n, addr)
                             \/ ReadInvalid(n, addr) \/ ReadValid(n, addr)
    BY <1>6 DEF HandleMemOpRequest
  <2>2. PICK op \in Op : ProcessorStarts(n, op)
    BY <2>1 DEF WriteInvalid, WriteShared, WriteOwned, ReadInvalid, ReadValid, WriteRequest,
                ReadRequest, Op
  <2>3. cacheLineStatus' \in [Node -> [Addr -> ProtocolStatus]]
    <3>1. \/ UNCHANGED cacheLineStatus
          \/ SetStatus(n, addr, "M")
      BY <2>1 DEF WriteInvalid, WriteShared, WriteOwned, ReadInvalid, ReadValid, ReadRequest
    <3> QED BY <1>1, <3>1, SetStatusType DEF LocalOK, ProtocolStatus
  <2>4. \/ \E type \in HomeRequest : AskHome(n, addr, type)
        \/ \E type \in CacheRequest : AskCache(n, addr, type)
    BY <2>1 DEF WriteInvalid, WriteShared, WriteOwned, ReadInvalid, ReadValid, HomeRequest,
                CacheRequest
  <2>5. /\ incomingMsgQueue' \in [Node -> Seq(Message)]
        /\ cacheMsgQueue' \in [Node -> Seq(CacheMessage)]
    <3>1. CASE \E type \in HomeRequest : AskHome(n, addr, type)
      <4>1. PICK type \in HomeRequest : AskHome(n, addr, type) BY <3>1
      <4>2. type \in MessageType BY DEF MessageType
      <4>3. incomingMsgQueue \in [Node -> Seq(Message)] BY <1>1 DEF TypeOK
      <4>4. SendMsgToNode(incomingMsgQueue, n, {Home[addr]}, addr, type) \in [Node -> Seq(Message)]
        BY <1>1, <4>2, <4>3, SendType
      <4> QED BY <1>1, <4>1, <4>4 DEF AskHome, LocalOK
    <3>2. CASE \E type \in CacheRequest : AskCache(n, addr, type)
      BY <1>1, <3>2, SendToCacheType DEF AskCache, TypeOK
    <3> QED BY <2>4, <3>1, <3>2
  <2>6. LocalOK' BY <1>1, <1>3, <1>5, <2>2, <2>3, <2>5 DEF LocalOK, homeVars
  <2> QED BY <1>1, <1>3, <2>5, <2>6, PartsOfInv
<1> QED BY <1>4, <1>6

-------------------------------------------------------------------------------
(* The theorems. *)

\* Contexts as their constructors leave them.
LEMMA BlockingInit == Init => BlockingInv
<1> SUFFICES ASSUME Init PROVE BlockingInv OBVIOUS
<1>1. PICK a \in Addr : TRUE BY ContextAssumption
<1>2. (CHOOSE x \in Addr : TRUE) \in Addr BY <1>1
<1>3. (CHOOSE o \in Op : TRUE) \in Op
  <2>1. [addr |-> a, type |-> "read"] \in Op BY DEF Op
  <2> QED BY <2>1
<1>4. TypeOK
  BY <1>2, <1>3, ZeroIsNode, ContextAssumption
     DEF Init, TypeOK, Halt, ProtocolStatus, NoEntry, Entries
<1>5. BlockedInOrder BY DEF Init, BlockedInOrder, InOrder
<1> QED BY <1>4, <1>5 DEF BlockingInv

\* Every step of the simulator keeps the types and the order of the blocked queues.
LEMMA BlockingStep == BlockingInv /\ [Next]_vars => BlockingInv'
<1> SUFFICES ASSUME BlockingInv, [Next]_vars PROVE BlockingInv' OBVIOUS
<1>1. ASSUME NEW n \in Node, HandleMessage(n) PROVE BlockingInv'
  BY <1>1, HomeRequestSteps, OwnerRequestSteps, HolderAnswerSteps, AnswerSteps, LoopSteps
     DEF HandleMessage
<1>2. CASE Next
  BY <1>1, <1>2, CacheSteps, LoopSteps, ProcessorSteps DEF Next
<1>3. CASE UNCHANGED vars
  BY <1>3 DEF BlockingInv, TypeOK, BlockedInOrder, vars, globals, loopVars, cacheVars, homeVars,
              procVars
<1> QED BY <1>2, <1>3

\* The variables of the simulated machine keep their types, whatever is evicted.
THEOREM TypeCorrect == Spec => []TypeOK
<1>1. BlockingInv => TypeOK BY DEF BlockingInv
<1> QED BY <1>1, BlockingInit, BlockingStep, PTL DEF Spec

\* A home services one request of a line at a time, in the order they were blocked,
\* for every number of contexts and lines, with evictions and whatever the latencies.
THEOREM OneTransactionAlways == Spec => []OneTransaction
<1>1. BlockingInv => OneTransaction
  <2> SUFFICES ASSUME BlockingInv, NEW n \in Node, NEW a \in Addr,
                      NEW i \in DOMAIN blockedMsgMap[n][a], NEW j \in DOMAIN blockedMsgMap[n][a],
                      i < j, blockedMsgMap[n][a][i].type \in HomeRequest
               PROVE  /\ blockedMsgMap[n][a][j].type \in HomeRequest
                      /\ ~blockedMsgMap[n][a][j].serviced
    BY DEF OneTransaction
  <2>1. blockedMsgMap[n][a] \in Seq(Message) /\ InOrder(blockedMsgMap[n][a], a)
    BY DEF BlockingInv, TypeOK, BlockedInOrder
  <2>2. DOMAIN blockedMsgMap[n][a] = 1..Len(blockedMsgMap[n][a]) BY <2>1
  <2> QED BY <2>1, <2>2 DEF InOrder
<1> QED BY <1>1, BlockingInit, BlockingStep, PTL DEF Spec

==============================================================================
