---------------------------- MODULE CoherenceProofs ----------------------------
(***************************************************************************)
(* Proofs that the lines are coherent, for every number of contexts, set   *)
(* of lines, latency and task, where the caches have room for all lines.   *)
(* Where they evict the properties do not hold (TLC shows it).             *)
(***************************************************************************)
EXTENDS CoherenceLines

-------------------------------------------------------------------------------
(* The steps in which no message is handled. *)

\* What they do to an incoming queue: nothing, or it ages, or a message that is about no
\* right to a line is added.
Rights == Grant \cup OwnerRequest \cup HomeAnswer
QuietQueue(q, r) ==
  \/ r = q
  \/ r = Older(q)
  \/ \E x \in Message : x.type \notin Rights /\ r = Append(q, x)

\* A quiet queue keeps the numbers and the order of the messages about rights.
LEMMA QuietKeeps ==
  ASSUME NEW q \in Seq(Message), NEW r, QuietQueue(q, r), NEW a
  PROVE  /\ \A types \in SUBSET Rights :
              /\ Like(q, r, About(a, types))
              /\ \A n : Like(q, r, AboutFrom(a, types, n))
         /\ \A types, others \in SUBSET Rights :
              Before(q, About(a, types), About(a, others))
                => Before(r, About(a, types), About(a, others))
<1>1. CASE r = q BY <1>1, LikeTwice
<1>2. CASE r = Older(q)
  <2>1. /\ Len(r) = Len(q)
        /\ \A i \in 1..Len(q) :
             /\ r[i] \in Message /\ q[i] \in Message
             /\ r[i].type = q[i].type /\ r[i].src = q[i].src /\ r[i].addr = q[i].addr
    BY <1>2, OlderMessages
  <2>2. \A types : \A i \in 1..Len(q) : r[i] \in About(a, types) <=> q[i] \in About(a, types)
    BY <2>1 DEF About
  <2>3. \A types, n : \A i \in 1..Len(q) :
          r[i] \in AboutFrom(a, types, n) <=> q[i] \in AboutFrom(a, types, n)
    BY <2>1, <2>2 DEF AboutFrom
  <2>4. \A S : (\A i \in 1..Len(q) : r[i] \in S <=> q[i] \in S) => Like(q, r, S)
    BY <2>1 DEF Like, None, One
  <2>5. \A S, T : /\ \A i \in 1..Len(q) : r[i] \in S <=> q[i] \in S
                  /\ \A i \in 1..Len(q) : r[i] \in T <=> q[i] \in T
                  /\ Before(q, S, T)
                  => Before(r, S, T)
    BY <2>1 DEF Before
  <2> QED BY <2>2, <2>3, <2>4, <2>5
<1>3. CASE \E x \in Message : x.type \notin Rights /\ r = Append(q, x)
  <2>1. PICK x \in Message : x.type \notin Rights /\ r = Append(q, x) BY <1>3
  <2>2. \A types \in SUBSET Rights : /\ x \notin About(a, types)
                                     /\ \A n : x \notin AboutFrom(a, types, n)
    BY <2>1 DEF About, AboutFrom
  <2> QED BY <2>1, <2>2, AppendLike, AppendBefore
<1> QED BY <1>1, <1>2, <1>3 DEF QuietQueue

\* Where only quiet messages move and no status changes but to MODIFIED, lines stay.
LEMMA QuietLine ==
  ASSUME TypeOK, NEW a \in Addr, LineInv(a),
         UNCHANGED <<blockedMsgMap, directory, pendingInvAckCount, protocol>>,
         \A m \in Node : QuietQueue(incomingMsgQueue[m], incomingMsgQueue'[m]),
         \A m \in Node :
           \/ /\ cacheLineStatus'[m][a] = cacheLineStatus[m][a]
              /\ NoGrant(m, a) \/ currentMemOp'[m] = currentMemOp[m]
           \/ cacheLineStatus[m][a] \in OwnedLine /\ cacheLineStatus'[m][a] = "M"
  PROVE  LineInv(a)'
<1>1. \A m \in Node : incomingMsgQueue[m] \in Seq(Message) BY DEF TypeOK
<1>2. /\ Grant \in SUBSET Rights /\ OwnerRequest \in SUBSET Rights /\ HomeAnswer \in SUBSET Rights
      /\ SUBSET Grant \subseteq SUBSET Rights /\ SUBSET OwnerRequest \subseteq SUBSET Rights
      /\ SUBSET HomeAnswer \subseteq SUBSET Rights
  BY DEF Rights
<1>3. Home[a] \in Node BY ContextAssumption
<1>4. ServingSame(a) /\ DirSame(a) /\ \A m \in Node : FirstSame(m, a)
  BY <1>3, QueueSame DEF DirSame, Mask
<1>5. ASSUME NEW m \in Node PROVE TokenSame(m, a)
  <2>1. AsksSame(m, a) BY <1>1, <1>2, QuietKeeps DEF AsksSame
  <2>2. AcksSame(m, a) BY <1>1, <1>2, <1>3, QuietKeeps DEF AcksSame
  <2> QED BY <1>4, <2>1, <2>2 DEF TokenSame
<1>6. GrantsFirst(a)'
  <2>1. \A m \in Node : Before(incomingMsgQueue'[m], About(a, Grant), About(a, OwnerRequest))
    BY <1>1, <1>2, QuietKeeps DEF LineInv, GrantsFirst, GrantsOf, AsksOf
  <2> QED BY <2>1 DEF GrantsFirst, GrantsOf, AsksOf
<1>7. ASSUME NEW m \in Node PROVE RolesStay(m, a)
  <2>1. \A types \in SUBSET Grant :
          Like(incomingMsgQueue[m], incomingMsgQueue'[m], About(a, types))
    BY <1>1, <1>2, QuietKeeps
  <2>2. CASE /\ cacheLineStatus'[m][a] = cacheLineStatus[m][a]
             /\ NoGrant(m, a) \/ currentMemOp'[m] = currentMemOp[m]
    <3>1. GrantSame(m, a) BY <2>1, <2>2 DEF GrantSame
    <3> QED BY <1>5, <3>1, RolesKept
  <2>3. CASE cacheLineStatus[m][a] \in OwnedLine /\ cacheLineStatus'[m][a] = "M"
    <3>1. cacheLineStatus[m][a] \notin {"S", "I"} /\ "M" \in OwnedLine' BY <2>3 DEF OwnedLine
    <3>2. NoGrant(m, a)' <=> NoGrant(m, a) BY <2>1 DEF NoGrant, GrantsOf, Like
    <3>3. ~Has(m, a, "I") /\ ~Has(m, a, "S") /\ ~Shares(m, a)
      BY <3>1 DEF Has, Shares
    <3>4. Owns(m, a) => NoGrant(m, a) BY <3>1 DEF Owns, Has
    <3>5. Owns(m, a) => Has(m, a, "M")' BY <2>3, <3>2, <3>4 DEF Has
    <3>6. Owns(m, a) => Owns(m, a)' BY <3>1, <3>5 DEF Owns
    <3> QED BY <1>5, <3>3, <3>6, RightKept
  <2> QED BY <2>2, <2>3
<1> QED BY <1>4, <1>6, <1>7, LineKept

\* A node with no operation in progress has no grant on its way.
LEMMA IdleNoGrant ==
  ASSUME CoherenceInv, NEW n \in Node, currentMemOpSuccessful[n], NEW a \in Addr
  PROVE  NoGrant(n, a)
<1>1. NoAnswer(n) BY IdleNode DEF CoherenceInv, OutstandingInv
<1>2. GrantsOf(a) \subseteq AnswerMsgs BY Kinds DEF GrantsOf, About, AnswerMsgs
<1> QED BY <1>1, <1>2 DEF NoGrant, NoAnswer, None

\* The answer of a cache is quiet.
LEMMA ReplyQuiet ==
  ASSUME TypeOK, NEW n \in Node, NEW a \in Addr, NEW type \in CacheReply,
         CacheReplies(n, a, type)
  PROVE  \A m \in Node : QuietQueue(incomingMsgQueue[m], incomingMsgQueue'[m])
<1> DEFINE x == NewMessage(n, a, type, cacheLatency)
<1>1. x \in Message BY NewMessageType DEF TypeOK, MessageType
<1>2. x.type \notin Rights BY Kinds DEF NewMessage, Rights
<1>3. \A m \in Node : incomingMsgQueue'[m] = IF m = n THEN Append(incomingMsgQueue[m], x)
                                                      ELSE incomingMsgQueue[m]
  BY DEF CacheReplies, TypeOK
<1> HIDE DEF x
<1> QED BY <1>1, <1>2, <1>3 DEF QuietQueue

\* The cache, the loop, and a processor that waits.
LEMMA RunLines ==
  ASSUME CoherenceInv, NEW n \in Node,
         \/ CacheTick(n) \/ CacheReads(n) \/ CacheInvalidates(n) \/ CacheFetches(n)
         \/ CacheUpdates(n)
         \/ HandlerTick(n) \/ DrainEnds(n) \/ ProcessorWaits(n)
  PROVE  \A a \in Addr : LineInv(a)'
<1>1. TypeOK BY InvTypes
<1>2. UNCHANGED <<blockedMsgMap, directory, pendingInvAckCount, protocol, cacheLineStatus,
                  currentMemOp>>
  BY DEF CacheTick, CacheReads, CacheInvalidates, CacheFetches, CacheUpdates, CacheServes,
         HandlerTick, DrainEnds, ProcessorWaits, ProcessorTurn, homeVars, procVars, globals
<1>3. \A m \in Node : QuietQueue(incomingMsgQueue[m], incomingMsgQueue'[m])
  <2>1. CASE CacheTick(n) \/ DrainEnds(n) \/ ProcessorWaits(n)
    BY <2>1 DEF CacheTick, DrainEnds, ProcessorWaits, QuietQueue
  <2>2. CASE HandlerTick(n)
    BY <1>1, <2>2 DEF HandlerTick, QuietQueue, TypeOK
  <2>3. CASE CacheReads(n) \/ CacheInvalidates(n) \/ CacheFetches(n) \/ CacheUpdates(n)
    <3>1. PICK type \in CacheRequest : CacheServes(n, type)
      BY <2>3 DEF CacheReads, CacheInvalidates, CacheFetches, CacheUpdates, CacheRequest
    <3>2. PICK a \in Addr : a = Head(cacheMsgQueue[n]).addr BY <1>1, <3>1, ServesMarks
    <3>3. \E type2 \in CacheReply : CacheReplies(n, a, type2)
      BY <2>3, <3>2 DEF CacheReads, CacheInvalidates, CacheFetches, CacheUpdates, CacheReply
    <3> QED BY <1>1, <3>3, ReplyQuiet
  <2> QED BY <2>1, <2>2, <2>3
<1>4. \A a \in Addr : LineInv(a) BY DEF CoherenceInv
<1> QED BY <1>1, <1>2, <1>3, <1>4, QuietLine

\* A step that changes nothing keeps the lines, ...
LEMMA StutterLines ==
  ASSUME CoherenceInv, UNCHANGED vars
  PROVE  \A a \in Addr : LineInv(a)'
<1>1. UNCHANGED <<blockedMsgMap, directory, pendingInvAckCount, protocol, cacheLineStatus,
                  currentMemOp, incomingMsgQueue>>
  BY DEF vars, homeVars, procVars, globals
<1>2. TypeOK /\ \A a \in Addr : LineInv(a) BY InvTypes DEF CoherenceInv
<1> QED BY <1>1, <1>2, QuietLine DEF QuietQueue

\* What the processor starts.
LEMMA StartIs ==
  ASSUME CoherenceInv, NEW n \in Node, HandleMemOpRequest(n)
  PROVE  /\ UNCHANGED <<blockedMsgMap, directory, pendingInvAckCount, protocol, cache, halt>>
         /\ currentMemOpSuccessful[n]
         /\ \E op \in Op :
              /\ currentMemOp' = [currentMemOp EXCEPT ![n] = op]
              /\ \/ /\ \E type \in HomeRequest :
                         /\ AskHome(n, op.addr, type)
                         /\ op.type = IF type = "READ_MISS" THEN "read" ELSE "write"
                         /\ type \in {"READ_MISS", "WRITE_MISS"}
                              => cacheLineStatus[n][op.addr] = "I"
                    /\ UNCHANGED cacheLineStatus
                 \/ /\ \E type \in Accesses : AskCache(n, op.addr, type)
                    /\ \/ UNCHANGED cacheLineStatus
                       \/ /\ cacheLineStatus[n][op.addr] \in OwnedLine
                          /\ SetStatus(n, op.addr, "M")
<1>1. PICK addr \in Addr : \/ WriteInvalid(n, addr) \/ WriteShared(n, addr)
                           \/ WriteOwned(n, addr)
                           \/ ReadInvalid(n, addr) \/ ReadValid(n, addr)
  BY DEF HandleMemOpRequest
<1>2. /\ UNCHANGED <<blockedMsgMap, directory, pendingInvAckCount, protocol, cache, halt>>
      /\ currentMemOpSuccessful[n]
  BY <1>1 DEF WriteInvalid, WriteShared, WriteOwned, ReadInvalid, ReadValid, WriteRequest,
              ReadRequest, ProcessorStarts, ProcessorTurn, homeVars, globals
<1>3. CASE WriteInvalid(n, addr) \/ WriteShared(n, addr) \/ WriteOwned(n, addr)
  <2> DEFINE o == [addr |-> addr, type |-> "write"]
  <2>1. o \in Op /\ o.addr = addr /\ o.type = "write"
        /\ currentMemOp' = [currentMemOp EXCEPT ![n] = o]
    BY <1>3 DEF WriteInvalid, WriteShared, WriteOwned, WriteRequest, ProcessorStarts, Op
  <2> HIDE DEF o
  <2>2. CASE WriteInvalid(n, addr)
    <3>1. /\ AskHome(n, o.addr, "WRITE_MISS") /\ UNCHANGED cacheLineStatus
          /\ cacheLineStatus[n][o.addr] = "I"
      BY <2>1, <2>2 DEF WriteInvalid
    <3> QED BY <1>2, <2>1, <3>1 DEF HomeRequest
  <2>3. CASE WriteShared(n, addr)
    <3>1. AskHome(n, o.addr, "INVALIDATE_OTHER") /\ UNCHANGED cacheLineStatus
      BY <2>1, <2>3 DEF WriteShared
    <3> QED BY <1>2, <2>1, <3>1 DEF HomeRequest
  <2>4. CASE WriteOwned(n, addr)
    <3>1. AskCache(n, o.addr, "CACHE_UPDATE") /\ "CACHE_UPDATE" \in Accesses
      BY <2>1, <2>4 DEF WriteOwned, Accesses
    <3>2. \/ UNCHANGED cacheLineStatus
          \/ cacheLineStatus[n][o.addr] \in OwnedLine /\ SetStatus(n, o.addr, "M")
      BY <2>1, <2>4 DEF WriteOwned, OwnedLine
    <3> QED BY <1>2, <2>1, <3>1, <3>2
  <2> QED BY <1>3, <2>2, <2>3, <2>4
<1>4. CASE ReadInvalid(n, addr) \/ ReadValid(n, addr)
  <2> DEFINE o == [addr |-> addr, type |-> "read"]
  <2>1. o \in Op /\ o.addr = addr /\ o.type = "read" /\ UNCHANGED cacheLineStatus
        /\ currentMemOp' = [currentMemOp EXCEPT ![n] = o]
    BY <1>4 DEF ReadInvalid, ReadValid, ReadRequest, ProcessorStarts, Op
  <2> HIDE DEF o
  <2>2. CASE ReadInvalid(n, addr)
    <3>1. AskHome(n, o.addr, "READ_MISS") /\ cacheLineStatus[n][o.addr] = "I"
      BY <2>1, <2>2 DEF ReadInvalid
    <3> QED BY <1>2, <2>1, <3>1 DEF HomeRequest
  <2>3. CASE ReadValid(n, addr)
    <3>1. AskCache(n, o.addr, "CACHE_READ") /\ "CACHE_READ" \in Accesses
      BY <2>1, <2>3 DEF ReadValid, Accesses
    <3> QED BY <1>2, <2>1, <3>1
  <2> QED BY <1>4, <2>2, <2>3
<1> QED BY <1>1, <1>3, <1>4

\* ... and so does the start of an operation.
LEMMA StartLinesStay ==
  ASSUME CoherenceInv, NEW n \in Node, HandleMemOpRequest(n)
  PROVE  \A a \in Addr : LineInv(a)'
<1>1. TypeOK /\ \A a \in Addr : LineInv(a) BY InvTypes DEF CoherenceInv
<1>2. /\ UNCHANGED <<blockedMsgMap, directory, pendingInvAckCount, protocol>>
      /\ currentMemOpSuccessful[n]
  BY StartIs
<1>3. PICK op \in Op :
        /\ currentMemOp' = [currentMemOp EXCEPT ![n] = op]
        /\ \/ /\ \E type \in HomeRequest : AskHome(n, op.addr, type)
              /\ UNCHANGED cacheLineStatus
           \/ /\ \E type \in Accesses : AskCache(n, op.addr, type)
              /\ \/ UNCHANGED cacheLineStatus
                 \/ /\ cacheLineStatus[n][op.addr] \in OwnedLine
                    /\ SetStatus(n, op.addr, "M")
  BY StartIs
<1>4. op.addr \in Addr BY DEF Op
<1>5. \A m \in Node : QuietQueue(incomingMsgQueue[m], incomingMsgQueue'[m])
  <2>1. CASE \E type \in HomeRequest : AskHome(n, op.addr, type)
    <3>1. PICK type \in HomeRequest : AskHome(n, op.addr, type) BY <2>1
    <3> DEFINE x == NewMessage(n, op.addr, type, nodeLatency)
    <3>2. x \in Message /\ x.type \notin Rights
      BY <1>1, <1>4, NewMessageType, Kinds DEF TypeOK, MessageType, NewMessage, Rights
    <3>3. \A m \in Node : incomingMsgQueue'[m] = IF m = Home[op.addr]
            THEN Append(incomingMsgQueue[m], x) ELSE incomingMsgQueue[m]
      BY <3>1 DEF AskHome, SendMsgToNode
    <3> HIDE DEF x
    <3> QED BY <3>2, <3>3 DEF QuietQueue
  <2>2. CASE \E type \in Accesses : AskCache(n, op.addr, type)
    BY <2>2 DEF AskCache, QuietQueue
  <2> QED BY <1>3, <2>1, <2>2
<1>6. ASSUME NEW a \in Addr, NEW m \in Node
      PROVE  \/ /\ cacheLineStatus'[m][a] = cacheLineStatus[m][a]
                /\ NoGrant(m, a) \/ currentMemOp'[m] = currentMemOp[m]
             \/ cacheLineStatus[m][a] \in OwnedLine /\ cacheLineStatus'[m][a] = "M"
  <2>1. NoGrant(m, a) \/ currentMemOp'[m] = currentMemOp[m]
    <3>1. CASE m = n BY <1>2, <3>1, IdleNoGrant
    <3>2. CASE m # n BY <1>1, <1>3, <3>2 DEF TypeOK
    <3> QED BY <3>1, <3>2
  <2>2. CASE UNCHANGED cacheLineStatus BY <2>1, <2>2
  <2>3. CASE cacheLineStatus[n][op.addr] \in OwnedLine /\ SetStatus(n, op.addr, "M")
    <3>1. cacheLineStatus'[m][a] = IF m = n /\ a = op.addr THEN "M" ELSE cacheLineStatus[m][a]
      BY <1>1, <1>4, <2>3 DEF SetStatus, TypeOK
    <3> QED BY <2>1, <2>3, <3>1
  <2> QED BY <1>3, <2>2, <2>3
<1> QED BY <1>1, <1>2, <1>5, <1>6, QuietLine

-------------------------------------------------------------------------------
(* What never happens. *)

\* No handler asks an empty queue for its front.
LEMMA FrontsThere ==
  ASSUME CoherenceInv, NEW n \in Node, Handling(n)
  PROVE  ~EmptyFront(n)
<1>1. TypeOK BY InvTypes
<1>2. PICK a \in Addr : a = A(n) BY <1>1, CurrentType
<1>3. PICK s \in Node : s = Source(n) BY <1>1, CurrentType
<1>4. CASE Current(n).type \in CacheAnswer
  <2>1. Waiting(n) # <<>> BY <1>2, <1>4, CacheAckHand
  <2> QED BY <2>1 DEF EmptyFront
<1>5. CASE Current(n).type = "INVALIDATE_ACK" /\ LastAck(n)
  <2>1. Current(n).type \in HomeAnswer BY <1>5 DEF HomeAnswer
  <2>2. Waiting(n) # <<>> BY <1>2, <1>3, <1>5, <2>1, FrontIsServed
  <2> QED BY <2>2 DEF EmptyFront
<1> QED BY <1>4, <1>5 DEF EmptyFront, TakesFront, CacheAnswer

\* No assert of the handlers fails.
LEMMA AssertsAlways ==
  ASSUME CoherenceInv, NEW n \in Node, Handling(n)
  PROVE  AssertsHold(n)
<1>1. TypeOK /\ RequestsWait /\ Outstanding(n)
  BY InvTypes DEF CoherenceInv, OutstandingInv
<1>2. PICK a \in Addr : a = A(n) BY <1>1, CurrentType
<1>3. PICK s \in Node : s = Source(n) BY <1>1, CurrentType
<1> DEFINE type == Current(n).type
<1>4. /\ ~Current(n).serviced
      /\ type \in HomeRequest => Home[a] = n
      /\ type \notin HomeRequest => IncomingOK(n, Current(n))
  BY <1>2, Hand
<1>5. type \in Answers => ~currentMemOpSuccessful[n] BY <1>1, AnswerInHand
<1>6. type \in Answers => a = currentMemOp[n].addr
  <2>1. type \in Answers => type \notin HomeRequest BY Kinds
  <2> QED BY <1>2, <1>4, <2>1 DEF IncomingOK, A
<1>7. type \in OwnerRequest \cup {"INVALIDATE_OTHER_ACK"} => s = Home[a]
  <2>1. type \in OwnerRequest \cup {"INVALIDATE_OTHER_ACK"} => type \notin HomeRequest
    BY Kinds DEF HomeRequest
  <2> QED BY <1>2, <1>3, <1>4, <2>1 DEF IncomingOK, A, Source
<1>8. type \in HomeAnswer => Home[a] = n BY <1>2, <1>3, AckHand
<1>9. type = "INVALIDATE_ACK" /\ LastAck(n) => FrontIn(n, {"WRITE_MISS", "INVALIDATE_OTHER"})
  <2> HAVE type = "INVALIDATE_ACK" /\ LastAck(n)
  <2>1. type \in HomeAnswer BY DEF HomeAnswer
  <2>2. AwaitsAcks(a) /\ Head(Waiting(n)) = Served(a) BY <1>2, <1>3, <2>1, FrontIsServed
  <2> QED BY <2>2 DEF AwaitsAcks, FrontIn
<1>10. type = "DATA_WRITE_BACK" => FrontIn(n, {"WRITE_MISS", "READ_MISS"})
  <2> HAVE type = "DATA_WRITE_BACK"
  <2>1. type \in HomeAnswer BY DEF HomeAnswer
  <2>2. AwaitsOwner(a) /\ Head(Waiting(n)) = Served(a) BY <1>2, <1>3, <2>1, FrontIsServed
  <2> QED BY <2>2 DEF AwaitsOwner, FrontIn
<1>11. type \in {"FETCH", "FETCH_INVALIDATE"} => LineStatus(n) \in OwnedLine
  <2> HAVE type \in {"FETCH", "FETCH_INVALIDATE"}
  <2>1. type \in OwnerRequest BY DEF OwnerRequest
  <2>2. cacheLineStatus[n][a] \in OwnedLine BY <1>2, <2>1, HolderHand
  <2> QED BY <1>2, <2>2 DEF LineStatus
<1>12. /\ type = "CACHE_INVALIDATE_ACK" => FrontIn(n, {"INVALIDATE", "FETCH_INVALIDATE"})
       /\ type = "CACHE_FETCH_ACK" => FrontIn(n, {"FETCH"})
  <2>1. CASE type \in CacheAnswer
    <3>1. /\ Head(Waiting(n)).type \in OwnerRequest
          /\ type = "CACHE_FETCH_ACK" <=> Head(Waiting(n)).type = "FETCH"
      BY <1>2, <2>1, CacheAckHand
    <3> QED BY <3>1 DEF FrontIn, OwnerRequest
  <2> QED BY <2>1 DEF CacheAnswer
<1>13. type = "DATA_VALUE_REPLY" => LineStatus(n) = "I"
  <2> HAVE type = "DATA_VALUE_REPLY"
  <2>1. type \in Grant BY DEF Grant
  <2> QED BY <1>2, <2>1, GrantHand DEF LineStatus
<1>14. type = "DATA_VALUE_REPLY_E" => currentMemOp[n].type = "read"
  BY <1>4 DEF IncomingOK, HomeRequest
<1>15. Asserts(n)
  BY <1>2, <1>3, <1>4, <1>5, <1>6, <1>7, <1>8, <1>9, <1>10, <1>11, <1>12
     DEF Asserts, HomeRequest, HomeAnswer, Answers
<1>16. AssertsMESI(n)
  BY <1>2, <1>3, <1>4, <1>5, <1>6, <1>7, <1>13, <1>14
     DEF AssertsMESI, HomeRequest, OwnerRequest, Answers
<1> QED BY <1>15, <1>16 DEF AssertsHold

\* The cases of handleMessage that are left.
HandlesOn(n) ==
  \/ HomeBusy(n)
  \/ ReadMissShares(n) \/ ReadMissGivesExclusive(n) \/ ReadMissFetches(n)
  \/ WriteMissUncached(n) \/ WriteMissInvalidates(n) \/ WriteMissFetches(n)
  \/ InvalidateOtherRollsBack(n) \/ InvalidateOtherInvalidates(n) \/ InvalidateOtherGrants(n)
  \/ Invalidate(n) \/ Fetch(n)
  \/ InvalidateAckCounts(n) \/ InvalidateAckGrants(n)
  \/ WriteBackAnswersWrite(n) \/ WriteBackAnswersRead(n)
  \/ InvalidateOtherAck(n) \/ DataValueReply(n) \/ Rollback(n)
  \/ MemOpDone(n) \/ CacheAck(n)

\* So a handler neither halts nor meets a request for a line it does not have.
LEMMA HandlesOnly ==
  ASSUME CoherenceInv, NEW n \in Node, HandleMessage(n)
  PROVE  HandlesOn(n)
<1>1. TypeOK BY InvTypes
<1>2. ~HandlerStops(n) BY FrontsThere, AssertsAlways DEF HandlerStops
<1>3. ~InvalidateAbsent(n) /\ ~FetchAbsent(n)
  <2> SUFFICES ASSUME InvalidateAbsent(n) \/ FetchAbsent(n) PROVE FALSE OBVIOUS
  <2>1. Handling(n) /\ Current(n).type \in OwnerRequest /\ LineStatus(n) = "I"
    BY HandlesWhat DEF InvalidateAbsent, FetchAbsent, OwnerRequest
  <2>2. PICK a \in Addr : a = A(n) BY <1>1, <2>1, CurrentType
  <2>3. cacheLineStatus[n][a] = "S" \/ cacheLineStatus[n][a] \in OwnedLine
    BY <2>1, <2>2, HolderHand
  <2> QED BY <2>1, <2>2, <2>3 DEF LineStatus, OwnedLine
<1>4. ~WriteBackEvicts(n)
  <2> SUFFICES ASSUME WriteBackEvicts(n) PROVE FALSE OBVIOUS
  <2>1. Handling(n) /\ Current(n).type = "DATA_WRITE_BACK" /\ Waiting(n) = <<>>
    BY HandlesWhat DEF WriteBackEvicts, WriteBack
  <2>2. Current(n).type \in HomeAnswer BY <2>1 DEF HomeAnswer
  <2>3. PICK a \in Addr : a = A(n) BY <1>1, <2>1, CurrentType
  <2>4. PICK s \in Node : s = Source(n) BY <1>1, <2>1, CurrentType
  <2> QED BY <2>1, <2>2, <2>3, <2>4, FrontIsServed
<1>5. ~EvictionAlert(n)
  <2> SUFFICES ASSUME EvictionAlert(n) PROVE FALSE OBVIOUS
  <2>1. Handling(n) /\ Current(n).type = "CACHE_EVICTION_ALERT"
    BY HandlesWhat DEF EvictionAlert
  <2>2. PICK a \in Addr : a = A(n) BY <1>1, <2>1, CurrentType
  <2> QED BY <2>1, <2>2, Hand DEF IncomingOK, HomeRequest
<1> QED BY <1>2, <1>3, <1>4, <1>5 DEF HandleMessage, HandlesOn

\* The cache finds what it is asked for, ...
LEMMA CacheFinds ==
  ASSUME CoherenceInv, NEW n \in Node
  PROVE  ~CacheLineNotFound(n)
<1> SUFFICES ASSUME CacheLineNotFound(n) PROVE FALSE OBVIOUS
<1>1. TypeOK /\ LinesInv BY InvTypes DEF CoherenceInv, OutstandingInv
<1>2. PICK type \in CacheRequest \ {"CACHE_UPDATE"} : CacheServes(n, type)
  BY DEF CacheLineNotFound
<1>3. PICK r : r = Head(cacheMsgQueue[n]) OBVIOUS
<1>4. r \in CacheMessage /\ r.type = type /\ r.addr \in Addr BY <1>1, <1>2, <1>3, ServesMarks
<1>5. ~Holds(Lines(n, r.addr), r.addr) BY <1>3 DEF CacheLineNotFound
<1>6. type # "CACHE_READ" BY <1>1, <1>2, <1>3, <1>5, ReadsAreFound
<1>7. r \in AsCache(r.addr, CacheAsk) BY <1>2, <1>4, <1>6 DEF AsCache, CacheAsk, CacheRequest
<1>8. 1 \in 1..Len(cacheMsgQueue[n]) /\ cacheMsgQueue[n][1] = r
  <2>1. cacheMsgQueue[n] \in Seq(CacheMessage) /\ cacheMsgQueue[n] # <<>>
    BY <1>1, <1>2 DEF TypeOK, CacheServes, Arrived
  <2> QED BY <1>3, <2>1, EmptySeq, LenProperties
<1>9. AsksFound(n, r.addr) BY <1>4 DEF CoherenceInv, CacheInv
<1>10. PICK j \in 1..Len(cacheMsgQueue[n]) : j < 1
  BY <1>5, <1>7, <1>8, <1>9 DEF AsksFound
<1> QED BY <1>10

\* ... and has room for what it gets.
LEMMA CacheHasRoom ==
  ASSUME LinesFit, CoherenceInv, NEW n \in Node, NEW a \in Addr
  PROVE  ~Evicts(Lines(n, a), a, Ways)
<1> SUFFICES ASSUME ~Holds(Lines(n, a), a), Len(Lines(n, a)) >= Ways PROVE FALSE
  BY DEF Evicts
<1>1. PICK s \in CacheSets : s = SetIndex[a] BY DEF CacheSets
<1>2. PICK q : q = cache[n][s] /\ q = Lines(n, a) BY <1>1 DEF Lines
<1>3. a \in LinesOf(s) /\ IsFiniteSet(LinesOf(s)) /\ Cardinality(LinesOf(s)) <= Ways
  BY <1>1 DEF LinesOf, LinesFit
<1>4. Len(q) <= Cardinality({b \in LinesOf(s) : Holds(q, b)})
  BY <1>2 DEF CoherenceInv, SetFits
<1> DEFINE H == {b \in LinesOf(s) : Holds(q, b)}
           R == LinesOf(s) \ {a}
<1>5. H \subseteq R BY <1>2
<1>6. IsFiniteSet(R) /\ Cardinality(R) = Cardinality(LinesOf(s)) - 1
  BY <1>3, FS_RemoveElement
<1>7. IsFiniteSet(H) /\ Cardinality(H) <= Cardinality(R) BY <1>5, <1>6, FS_Subset
<1>8. Cardinality(H) \in Nat /\ Cardinality(R) \in Nat /\ Cardinality(LinesOf(s)) \in Nat
  BY <1>3, <1>6, <1>7, FS_CardinalityType
<1>9. Len(q) \in Nat
  <2>1. q \in Seq(Addr) BY <1>2, InvTypes, LinesType
  <2> QED BY <2>1, LenProperties
<1>10. Ways \in Nat BY ContextAssumption
<1> HIDE DEF H, R
<1>11. Cardinality(H) <= Ways - 1 BY <1>3, <1>6, <1>7, <1>8, <1>10
<1>12. Len(q) <= Cardinality(H) BY <1>4 DEF H
<1> QED BY <1>2, <1>8, <1>9, <1>10, <1>11, <1>12

\* The steps that are left.
RunsOn(n) ==
  \/ CacheTick(n) \/ CacheReads(n) \/ CacheInvalidates(n) \/ CacheFetches(n) \/ CacheUpdates(n)
  \/ HandlerTick(n) \/ DrainEnds(n) \/ ProcessorWaits(n)

\* Every step is one of the four kinds: a component runs, a message, an operation, none.
LEMMA StepsOnly ==
  ASSUME LinesFit, CoherenceInv, [Next]_vars
  PROVE  \/ \E n \in Node : RunsOn(n) \/ HandlesOn(n) \/ HandleMemOpRequest(n)
         \/ UNCHANGED vars
<1>1. CASE UNCHANGED vars BY <1>1
<1>2. CASE Next
  <2>1. PICK n \in Node : \/ CacheRun(n)
                          \/ HandlerTick(n) \/ HandleMessage(n) \/ DrainEnds(n)
                          \/ ProcessorWaits(n) \/ HandleMemOpRequest(n)
    BY <1>2 DEF Next
  <2>2. ~CacheLineNotFound(n) BY CacheFinds
  <2>3. ~CacheUpdateEvicts(n)
    <3> SUFFICES ASSUME CacheUpdateEvicts(n) PROVE FALSE OBVIOUS
    <3>1. PICK a : a = Head(cacheMsgQueue[n]).addr OBVIOUS
    <3>2. CacheServes(n, "CACHE_UPDATE") /\ "CACHE_UPDATE" \in CacheRequest
      BY DEF CacheUpdateEvicts, CacheRequest
    <3>3. a \in Addr BY <3>1, <3>2, InvTypes, ServesMarks
    <3>4. Evicts(Lines(n, a), a, Ways) BY <3>1 DEF CacheUpdateEvicts
    <3> QED BY <3>3, <3>4, CacheHasRoom
  <2>4. HandleMessage(n) => HandlesOn(n) BY HandlesOnly
  <2> QED BY <2>1, <2>2, <2>3, <2>4 DEF CacheRun, RunsOn
<1> QED BY <1>1, <1>2

-------------------------------------------------------------------------------
(* The cache holds each of its lines once. *)

\* An update that evicts nothing adds a line that was counted among those of the set.
LEMMA UpdateFits ==
  ASSUME LinesFit, NEW s \in CacheSets, NEW a \in LinesOf(s), NEW q \in Seq(Addr),
         ~Evicts(q, a, Ways), Len(q) <= Cardinality({b \in LinesOf(s) : Holds(q, b)})
  PROVE  LET r == UpdateLine(q, a, Ways)
         IN  Len(r) <= Cardinality({b \in LinesOf(s) : Holds(r, b)})
<1> DEFINE r == UpdateLine(q, a, Ways)
           H == {b \in LinesOf(s) : Holds(q, b)}
           K == {b \in LinesOf(s) : Holds(r, b)}
<1>1. a \in Addr /\ LinesOf(s) \subseteq Addr BY DEF LinesOf
<1>2. Holds(r, a) /\ \A b \in Addr : Holds(q, b) => Holds(r, b) BY <1>1, UpdateHolds
<1>3. H \subseteq K /\ a \in K BY <1>1, <1>2
<1>4. IsFiniteSet(LinesOf(s)) BY DEF LinesFit
<1>5. IsFiniteSet(K) /\ IsFiniteSet(H) BY <1>4, FS_Subset
<1>6. Cardinality(K) \in Nat /\ Cardinality(H) \in Nat BY <1>5, FS_CardinalityType
<1>7. Len(q) \in Nat BY LenProperties
<1>8. CASE Holds(q, a)
  <2> DEFINE i == CHOOSE j \in 1..Len(q) : q[j] = a
  <2>1. i \in 1..Len(q) BY <1>8 DEF Holds
  <2>2. r = SubSeq(q, 1, i - 1) \o SubSeq(q, i + 1, Len(q)) \o <<a>>
    BY <1>8 DEF UpdateLine, Touch
  <2> HIDE DEF i
  <2>3. /\ SubSeq(q, 1, i - 1) \in Seq(Addr) /\ Len(SubSeq(q, 1, i - 1)) = i - 1
        /\ SubSeq(q, i + 1, Len(q)) \in Seq(Addr)
        /\ Len(SubSeq(q, i + 1, Len(q))) = Len(q) - i
    BY <1>7, <2>1, SubSeqProperties
  <2>4. /\ SubSeq(q, 1, i - 1) \o SubSeq(q, i + 1, Len(q)) \in Seq(Addr)
        /\ Len(SubSeq(q, 1, i - 1) \o SubSeq(q, i + 1, Len(q))) = Len(q) - 1
    <3>1. ASSUME NEW u \in Seq(Addr), NEW v \in Seq(Addr), Len(u) = i - 1, Len(v) = Len(q) - i
          PROVE  u \o v \in Seq(Addr) /\ Len(u \o v) = Len(q) - 1
      BY <1>7, <2>1, <3>1, ConcatProperties
    <3> QED BY <2>3, <3>1
  <2>5. Len(r) = Len(q)
    <3>1. <<a>> \in Seq(Addr) /\ Len(<<a>>) = 1 BY <1>1
    <3> QED BY <1>7, <2>2, <2>4, <3>1, ConcatProperties
  <2>6. Cardinality(H) <= Cardinality(K) BY <1>3, <1>5, FS_Subset
  <2> HIDE DEF r, H, K
  <2>7. Len(q) <= Cardinality(H) BY DEF H
  <2>8. Len(r) <= Cardinality(K) BY <1>6, <1>7, <2>5, <2>6, <2>7
  <2> QED BY <2>8 DEF r, K
<1>9. CASE ~Holds(q, a)
  <2>1. r = Append(q, a) BY <1>9 DEF UpdateLine
  <2>2. Len(r) = Len(q) + 1 BY <1>1, <2>1, AppendProperties
  <2>3. a \notin H /\ H \cup {a} \subseteq K BY <1>3, <1>9
  <2>4. IsFiniteSet(H \cup {a}) /\ Cardinality(H \cup {a}) = Cardinality(H) + 1
    BY <1>5, <2>3, FS_AddElement
  <2>5. Cardinality(H \cup {a}) <= Cardinality(K) BY <1>5, <2>3, FS_Subset
  <2> HIDE DEF r, H, K
  <2>6. Len(q) <= Cardinality(H) BY DEF H
  <2>7. Len(r) <= Cardinality(K) BY <1>6, <1>7, <2>2, <2>4, <2>5, <2>6
  <2> QED BY <2>7 DEF r, K
<1> QED BY <1>8, <1>9

\* What a step does to the caches.
LEMMA CacheAfter ==
  ASSUME LinesFit, CoherenceInv, [Next]_vars
  PROVE  \/ UNCHANGED cache
         \/ \E n \in Node : CacheUpdates(n)
<1>1. CASE UNCHANGED vars BY <1>1 DEF vars, cacheVars
<1>2. ASSUME NEW n \in Node, RunsOn(n) PROVE UNCHANGED cache \/ CacheUpdates(n)
  <2>1. CASE CacheReads(n) \/ CacheInvalidates(n) \/ CacheFetches(n)
    <3>1. PICK a : a = Head(cacheMsgQueue[n]).addr OBVIOUS
    <3>2. \E type \in CacheRequest : CacheServes(n, type)
      BY <2>1 DEF CacheReads, CacheInvalidates, CacheFetches, CacheRequest
    <3>3. a \in Addr /\ TypeOK BY <3>1, <3>2, InvTypes, ServesMarks
    <3>4. SetLines(n, a, Lines(n, a))
      BY <2>1, <3>1 DEF CacheReads, CacheInvalidates, CacheFetches, ReadLine, InvalidateLine,
                        FetchLine
    <3>5. SetIndex[a] \in CacheSets BY <3>3 DEF CacheSets
    <3> QED BY <3>3, <3>4, <3>5 DEF SetLines, Lines, TypeOK
  <2>2. CASE CacheTick(n) \/ HandlerTick(n) \/ DrainEnds(n) \/ ProcessorWaits(n)
    BY <2>2 DEF CacheTick, HandlerTick, DrainEnds, ProcessorWaits, ProcessorTurn, cacheVars
  <2> QED BY <1>2, <2>1, <2>2 DEF RunsOn
<1>3. ASSUME NEW n \in Node, HandlesOn(n) PROVE UNCHANGED cache
  BY <1>3, HandlesWhat
     DEF HandlesOn, HomeBusy, ReadMissShares, ReadMissGivesExclusive, ReadMissFetches, ReadMiss,
         WriteMissUncached, WriteMissInvalidates, WriteMissFetches, WriteMiss,
         InvalidateOtherRollsBack, InvalidateOtherInvalidates, InvalidateOtherGrants,
         Invalidate, Fetch, InvalidateAckCounts, InvalidateAckGrants, InvalidateAck,
         WriteBackAnswersWrite, WriteBackAnswersRead, WriteBack, InvalidateOtherAck,
         DataValueReply, Rollback, MemOpDone, CacheAck
<1>4. ASSUME NEW n \in Node, HandleMemOpRequest(n) PROVE UNCHANGED cache
  BY <1>4, StartIs
<1> QED BY <1>1, <1>2, <1>3, <1>4, StepsOnly

\* No step puts a line twice into a set.
LEMMA SetFitsStep ==
  ASSUME LinesFit, CoherenceInv, [Next]_vars, NEW n \in Node, NEW s \in CacheSets
  PROVE  SetFits(n, s)'
<1>1. SetFits(n, s) /\ TypeOK BY InvTypes DEF CoherenceInv
<1>2. PICK q : q = cache[n][s] OBVIOUS
<1>3. PICK r : r = cache'[n][s] OBVIOUS
<1>4. Len(q) <= Cardinality({b \in LinesOf(s) : Holds(q, b)}) BY <1>1, <1>2 DEF SetFits
<1>5. Len(r) <= Cardinality({b \in LinesOf(s) : Holds(r, b)})
  <2>1. CASE r = q BY <1>4, <2>1
  <2>2. CASE r # q
    <3>1. PICK m \in Node : CacheUpdates(m) BY <1>2, <1>3, <2>2, CacheAfter
    <3>2. PICK a : a = Head(cacheMsgQueue[m]).addr OBVIOUS
    <3>3. CacheServes(m, "CACHE_UPDATE") /\ "CACHE_UPDATE" \in CacheRequest
      BY <3>1 DEF CacheUpdates, CacheRequest
    <3>4. a \in Addr BY <1>1, <3>2, <3>3, ServesMarks
    <3>5. ~Evicts(Lines(m, a), a, Ways) /\ SetLines(m, a, UpdateLine(Lines(m, a), a, Ways))
      BY <3>1, <3>2 DEF CacheUpdates
    <3>6. m = n /\ s = SetIndex[a] /\ r = UpdateLine(q, a, Ways)
      BY <1>1, <1>2, <1>3, <2>2, <3>5 DEF SetLines, Lines, TypeOK
    <3>7. a \in LinesOf(s) /\ q = Lines(m, a) /\ q \in Seq(Addr)
      BY <1>1, <1>2, <3>4, <3>6, LinesType DEF LinesOf, Lines
    <3> QED BY <1>4, <3>5, <3>6, <3>7, UpdateFits
  <2> QED BY <2>1, <2>2
<1>6. SetFits(n, s)' <=> Len(r) <= Cardinality({b \in LinesOf(s) : Holds(r, b)})
  BY <1>3 DEF SetFits, LinesOf
<1> QED BY <1>5, <1>6

-------------------------------------------------------------------------------
(* What handling a message adds to the queues. *)

\* The message in hand is answered to dsts, and the blocked queue of its line may get y.
Adds(n, a, dsts, type, y) ==
  /\ Reply(n, dsts, type) /\ type \in MessageType \ HomeRequest
  /\ \A m \in Node : m \in dsts => IncomingOK(m, NewMessage(n, a, type, nodeLatency))
  /\ HoldersAfter(n, a, y) /\ BlockedOK(n, a, y)
  /\ y.type \in {"READ_MISS", "WRITE_MISS"} => cacheLineStatus'[y.src][a] = "I"
AddsSome(n, a) == \E dsts : \E type : \E y : Adds(n, a, dsts, type, y)

\* The processor's operations stay, its cache may be asked, and only a granted line is
\* there that was not.
CacheAsked(n, a) ==
  \/ UNCHANGED cacheMsgQueue
  \/ \E type \in CacheRequest : /\ SendMsgToCache(n, a, type)
                                /\ type \in Accesses => a = currentMemOp[n].addr
StatusGoes == \A m \in Node, b \in Addr :
  cacheLineStatus'[m][b] # "I" => cacheLineStatus[m][b] # "I" \/ NoAsk(m)

\* A handler that is done with its message has sent, if anything, a fitting one; ...
LEMMA DoneAdds ==
  ASSUME CoherenceInv, NEW n \in Node, Handling(n), NEW a \in Addr, a = A(n),
         NEW dsts, NEW type \in MessageType \ HomeRequest, Reply(n, dsts, type),
         \A m \in Node : m \in dsts => IncomingOK(m, NewMessage(n, a, type, nodeLatency)),
         Done(n) \/ (Unblock(n) /\ Waiting(n) # <<>>)
  PROVE  AddsSome(n, a)
<1> DEFINE y == [type |-> "none", src |-> n]
<1>1. BlockingInv /\ HoldersFirst BY InvTypes DEF CoherenceInv
<1>2. HoldersAfter(n, a, y) BY <1>1, DoneFrom, UnblockFrom
<1>3. BlockedOK(n, a, y) BY DEF BlockedOK, HomeRequest, OwnerRequest
<1>4. y.type \notin {"READ_MISS", "WRITE_MISS"} OBVIOUS
<1> HIDE DEF y
<1> QED BY <1>2, <1>3, <1>4 DEF AddsSome, Adds

\* (no reply is a reply to nobody)
LEMMA NothingSent ==
  ASSUME TypeOK, NEW n \in Node, Handling(n), NoReply(n)
  PROVE  Reply(n, {}, "ROLLBACK") /\ "ROLLBACK" \in MessageType \ HomeRequest
  BY NoReplyIsReply DEF HomeRequest

\* ... so has one that blocks its message; ...
LEMMA BlockAdds ==
  ASSUME CoherenceInv, NEW n \in Node, Handling(n), NEW a \in Addr, a = A(n),
         NEW dsts, NEW type \in MessageType \ HomeRequest, Reply(n, dsts, type),
         \A m \in Node : m \in dsts => IncomingOK(m, NewMessage(n, a, type, nodeLatency)),
         NEW serviced \in BOOLEAN, Block(n, serviced),
         \/ Current(n).type \in HomeRequest /\ UNCHANGED cacheLineStatus
         \/ Current(n).type \in OwnerRequest /\ serviced
  PROVE  AddsSome(n, a)
<1> DEFINE y == Marked(n, serviced)
<1>1. BlockingInv /\ HoldersFirst /\ RequestsWait /\ TypeOK
  BY InvTypes DEF CoherenceInv, OutstandingInv
<1>2. PICK s \in Node : s = Source(n) BY <1>1, CurrentType
<1>3. y.type = Current(n).type /\ y.src = s /\ y.addr = a /\ y.serviced = serviced
  BY <1>1, <1>2, BlockIs
<1>4. /\ Current(n).type \in OwnerRequest => ~Draining /\ FirstType(n, a) \notin OwnerRequest
      /\ Current(n).type \in OwnerRequest => s = Home[a]
  <2> SUFFICES ASSUME Current(n).type \in OwnerRequest
               PROVE  ~Draining /\ FirstType(n, a) \notin OwnerRequest /\ s = Home[a]
    OBVIOUS
  <2>1. ~Draining /\ Asked(n, a, Current(n).type) BY HolderHand
  <2>2. IncomingOK(n, Current(n)) BY <2>1, Hand
  <2> QED BY <1>2, <2>1, <2>2 DEF Asked, IncomingOK, Source, A
<1>5. Current(n).type \in HomeRequest => Home[a] = n /\ FitsOp(Current(n)) BY Hand
<1>6. HoldersAfter(n, a, y) BY <1>1, <1>4, BlockFrom
<1>7. BlockedOK(n, a, y)
  <2>1. Current(n).type \in HomeRequest => FitsOp(y)
    BY <1>2, <1>3, <1>5 DEF FitsOp, A, Source
  <2>2. Current(n).type \in OwnerRequest => Current(n).type \notin HomeRequest BY Kinds
  <2> QED BY <1>3, <1>4, <1>5, <2>1, <2>2 DEF BlockedOK
<1>8. y.type \in {"READ_MISS", "WRITE_MISS"} => cacheLineStatus'[y.src][a] = "I"
  <2> SUFFICES ASSUME Current(n).type \in {"READ_MISS", "WRITE_MISS"}
               PROVE  cacheLineStatus'[s][a] = "I"
    BY <1>3
  <2>1. Current(n).type \in HomeRequest /\ Current(n).type \notin OwnerRequest
    BY DEF HomeRequest, OwnerRequest
  <2> QED BY <1>2, <2>1, RequestHand
<1> HIDE DEF y
<1> QED BY <1>6, <1>7, <1>8 DEF AddsSome, Adds

\* ... a handler that sends nothing is a case of these, done with its message ...
LEMMA QuietDoneAdds ==
  ASSUME CoherenceInv, NEW n \in Node, Handling(n), NEW a \in Addr, a = A(n), NoReply(n), Done(n)
  PROVE  AddsSome(n, a)
<1>1. PICK dsts : dsts = {} OBVIOUS
<1>2. PICK type \in MessageType \ HomeRequest : Reply(n, dsts, type)
  BY <1>1, InvTypes, NothingSent
<1> QED BY <1>1, <1>2, DoneAdds

\* ... or blocking it.
LEMMA QuietBlockAdds ==
  ASSUME CoherenceInv, NEW n \in Node, Handling(n), NEW a \in Addr, a = A(n), NoReply(n),
         NEW serviced \in BOOLEAN, Block(n, serviced),
         \/ Current(n).type \in HomeRequest /\ UNCHANGED cacheLineStatus
         \/ Current(n).type \in OwnerRequest /\ serviced
  PROVE  AddsSome(n, a)
<1>1. PICK dsts : dsts = {} OBVIOUS
<1>2. PICK type \in MessageType \ HomeRequest : Reply(n, dsts, type)
  BY <1>1, InvTypes, NothingSent
<1> QED BY <1>1, <1>2, BlockAdds

\* What may be sent.
LEMMA SentOK ==
  ASSUME TypeOK, NEW n \in Node, NEW a \in Addr, NEW m \in Node, NEW type \in MessageType
  PROVE  LET x == NewMessage(n, a, type, nodeLatency)
         IN  /\ type \in OwnerRequest /\ n = Home[a] => IncomingOK(m, x)
             /\ type \in HomeAnswer /\ m = Home[a] => IncomingOK(m, x)
             /\ type \in {"DATA_VALUE_REPLY", "ROLLBACK"} /\ a = currentMemOp[m].addr
                  => IncomingOK(m, x)
             /\ type = "DATA_VALUE_REPLY_E" /\ a = currentMemOp[m].addr
                  /\ currentMemOp[m].type = "read" => IncomingOK(m, x)
             /\ type = "INVALIDATE_OTHER_ACK" /\ a = currentMemOp[m].addr /\ n = Home[a]
                  /\ currentMemOp[m].type = "write" => IncomingOK(m, x)
  BY DEF NewMessage, IncomingOK, OwnerRequest, HomeAnswer, HomeRequest, Answers

\* The handlers of requests send what fits and touch no operation, cache or status.
LEMMA RequestAdds ==
  ASSUME CoherenceInv, NEW n \in Node, NEW a \in Addr, a = A(n),
         \/ HomeBusy(n)
         \/ ReadMissShares(n) \/ ReadMissGivesExclusive(n) \/ ReadMissFetches(n)
         \/ WriteMissUncached(n) \/ WriteMissInvalidates(n) \/ WriteMissFetches(n)
         \/ InvalidateOtherRollsBack(n) \/ InvalidateOtherInvalidates(n)
         \/ InvalidateOtherGrants(n)
  PROVE  AddsSome(n, a) /\ UNCHANGED <<currentMemOp, cacheMsgQueue, cacheLineStatus>>
<1>1. /\ Handling(n) /\ Current(n).type \in HomeRequest
      /\ UNCHANGED <<currentMemOp, cacheMsgQueue, cacheLineStatus>>
  BY HandlesWhat
     DEF HomeBusy, ReadMissShares, ReadMissGivesExclusive, ReadMissFetches, ReadMiss,
         WriteMissUncached, WriteMissInvalidates, WriteMissFetches, WriteMiss,
         InvalidateOtherRollsBack, InvalidateOtherInvalidates, InvalidateOtherGrants,
         HomeRequest, procVars
<1>2. TypeOK BY InvTypes
<1>3. PICK s \in Node : s = Source(n) BY <1>1, <1>2, CurrentType
<1>4. /\ n = Home[a] /\ currentMemOp[s].addr = a
      /\ currentMemOp[s].type = IF Current(n).type = "READ_MISS" THEN "read" ELSE "write"
  BY <1>1, <1>3, RequestHand
<1>5. CASE HomeBusy(n)
  <2>1. NoReply(n) /\ Block(n, FALSE) BY <1>5 DEF HomeBusy
  <2>2. PICK serviced \in BOOLEAN : serviced = FALSE OBVIOUS
  <2>3. AddsSome(n, a) BY <1>1, <2>1, <2>2, QuietBlockAdds
  <2> QED BY <1>1, <2>3
<1>6. ASSUME NEW type \in {"DATA_VALUE_REPLY", "DATA_VALUE_REPLY_E", "INVALIDATE_OTHER_ACK",
                           "ROLLBACK"},
             Reply(n, {s}, type), Done(n),
             type = "DATA_VALUE_REPLY_E" => Current(n).type = "READ_MISS",
             type = "INVALIDATE_OTHER_ACK" => Current(n).type = "INVALIDATE_OTHER"
      PROVE  AddsSome(n, a)
  <2>1. type \in MessageType \ HomeRequest BY <1>6 DEF MessageType, NodeReply, HomeRequest
  <2>2. IncomingOK(s, NewMessage(n, a, type, nodeLatency))
    BY <1>2, <1>4, <1>6, <2>1, SentOK
  <2> QED BY <1>1, <1>6, <2>1, <2>2, DoneAdds
<1>7. CASE \/ ReadMissShares(n) \/ ReadMissGivesExclusive(n) \/ WriteMissUncached(n)
           \/ InvalidateOtherRollsBack(n) \/ InvalidateOtherGrants(n)
  <2>1. CASE ReadMissShares(n)
    BY <1>1, <1>3, <1>6, <2>1 DEF ReadMissShares
  <2>2. CASE ReadMissGivesExclusive(n)
    BY <1>1, <1>3, <1>6, <2>2, HandlesWhat DEF ReadMissGivesExclusive, ReadMiss
  <2>3. CASE WriteMissUncached(n)
    BY <1>1, <1>3, <1>6, <2>3 DEF WriteMissUncached
  <2>4. CASE InvalidateOtherRollsBack(n)
    BY <1>1, <1>3, <1>6, <2>4 DEF InvalidateOtherRollsBack
  <2>5. CASE InvalidateOtherGrants(n)
    BY <1>1, <1>3, <1>6, <2>5, HandlesWhat DEF InvalidateOtherGrants
  <2> QED BY <1>7, <2>1, <2>2, <2>3, <2>4, <2>5
<1>8. ASSUME NEW dsts, NEW type \in OwnerRequest, Reply(n, dsts, type), Block(n, TRUE)
      PROVE  AddsSome(n, a)
  <2>1. type \in MessageType \ HomeRequest BY Kinds DEF MessageType
  <2>2. \A m \in Node : IncomingOK(m, NewMessage(n, a, type, nodeLatency))
    BY <1>2, <1>4, <2>1, SentOK
  <2> QED BY <1>1, <1>8, <2>1, <2>2, BlockAdds
<1>9. CASE \/ ReadMissFetches(n) \/ WriteMissInvalidates(n) \/ WriteMissFetches(n)
           \/ InvalidateOtherInvalidates(n)
  <2>1. \E dsts : \E type \in OwnerRequest : Reply(n, dsts, type)
    BY <1>9 DEF ReadMissFetches, WriteMissInvalidates, WriteMissFetches,
                InvalidateOtherInvalidates, OwnerRequest
  <2>2. Block(n, TRUE)
    BY <1>9 DEF ReadMissFetches, WriteMissInvalidates, WriteMissFetches,
                InvalidateOtherInvalidates
  <2> QED BY <1>1, <1>8, <2>1, <2>2
<1> QED BY <1>1, <1>5, <1>7, <1>9

\* The handlers of a request of the home only ask the cache, and lower a status.
LEMMA HolderAdds ==
  ASSUME CoherenceInv, NEW n \in Node, NEW a \in Addr, a = A(n), Invalidate(n) \/ Fetch(n)
  PROVE  /\ AddsSome(n, a) /\ UNCHANGED currentMemOp
         /\ SendMsgToCache(n, a, "CACHE_INVALIDATE") \/ SendMsgToCache(n, a, "CACHE_FETCH")
         /\ StatusGoes
<1>1. /\ Handling(n) /\ Current(n).type \in OwnerRequest /\ NoReply(n) /\ Block(n, TRUE)
      /\ UNCHANGED currentMemOp
      /\ SendMsgToCache(n, a, "CACHE_INVALIDATE") \/ SendMsgToCache(n, a, "CACHE_FETCH")
      /\ \E status \in {"I", "S"} : SetStatus(n, a, status) /\ cacheLineStatus[n][a] # "I"
  BY HandlesWhat DEF Invalidate, Fetch, OwnerRequest, procVars, LineStatus
<1>2. TypeOK BY InvTypes
<1>3. AddsSome(n, a)
  <2>1. PICK serviced \in BOOLEAN : serviced = TRUE OBVIOUS
  <2> QED BY <1>1, <2>1, QuietBlockAdds
<1>4. StatusGoes BY <1>1, <1>2 DEF StatusGoes, SetStatus, TypeOK
<1> QED BY <1>1, <1>3, <1>4

\* The request at the front of the queue of a home fits its sender's operation.
LEMMA ServedFits ==
  ASSUME CoherenceInv, NEW n \in Node, NEW a \in Addr, Waiting(n) = blockedMsgMap[n][a],
         Waiting(n) # <<>>, Head(Waiting(n)).type \in HomeRequest
  PROVE  Home[a] = n /\ FitsOp(Head(Waiting(n)))
<1>1. blockedMsgMap[n][a] \in Seq(Message) BY InvTypes DEF TypeOK
<1>2. 1 \in 1..Len(blockedMsgMap[n][a]) /\ Head(Waiting(n)) = blockedMsgMap[n][a][1]
  BY <1>1, EmptySeq, LenProperties
<1>3. BlockedOK(n, a, blockedMsgMap[n][a][1]) BY <1>2 DEF CoherenceInv, MessagesOK
<1> QED BY <1>2, <1>3 DEF BlockedOK

\* The handlers of ACKs at a home send what fits.
LEMMA HomeAdds ==
  ASSUME CoherenceInv, NEW n \in Node, NEW a \in Addr, a = A(n),
         \/ InvalidateAckCounts(n) \/ InvalidateAckGrants(n)
         \/ WriteBackAnswersWrite(n) \/ WriteBackAnswersRead(n)
  PROVE  AddsSome(n, a) /\ UNCHANGED <<currentMemOp, cacheMsgQueue, cacheLineStatus>>
<1>1. /\ Handling(n) /\ Current(n).type \in HomeAnswer
      /\ UNCHANGED <<currentMemOp, cacheMsgQueue, cacheLineStatus>>
  BY HandlesWhat
     DEF InvalidateAckCounts, InvalidateAckGrants, InvalidateAck, WriteBackAnswersWrite,
         WriteBackAnswersRead, WriteBack, HomeAnswer, procVars
<1>2. TypeOK BY InvTypes
<1>3. PICK s \in Node : s = Source(n) BY <1>1, <1>2, CurrentType
<1>4. CASE InvalidateAckCounts(n)
  <2>1. NoReply(n) /\ Done(n) BY <1>4 DEF InvalidateAckCounts
  <2> QED BY <1>1, <2>1, QuietDoneAdds
<1>5. CASE InvalidateAckGrants(n) \/ WriteBackAnswersWrite(n) \/ WriteBackAnswersRead(n)
  <2>1. Current(n).type = "INVALIDATE_ACK" => LastAck(n)
    BY <1>5, HandlesWhat DEF InvalidateAckGrants, WriteBackAnswersWrite, WriteBackAnswersRead,
                             WriteBack
  <2>2. /\ Serving(a) /\ Served(a).type \in HomeRequest /\ FirstType(n, a) \notin OwnerRequest
        /\ Waiting(n) # <<>> /\ Head(Waiting(n)) = Served(a)
        /\ Current(n).type = "INVALIDATE_ACK"
             => Served(a).type \in {"WRITE_MISS", "INVALIDATE_OTHER"}
    BY <1>1, <1>3, <2>1, FrontIsServed DEF AwaitsAcks
  <2>3. n = Home[a] BY <1>1, <1>3, AckHand
  <2>4. PICK r \in Node : r = Served(a).src BY <2>2, <2>3, ServedHand
  <2>5. /\ currentMemOp[r].addr = a
        /\ currentMemOp[r].type = IF Served(a).type = "READ_MISS" THEN "read" ELSE "write"
    <3>1. Waiting(n) = blockedMsgMap[n][a] BY DEF Waiting, A
    <3>2. FitsOp(Served(a)) BY <2>2, <3>1, ServedFits
    <3>3. Served(a).addr = a
      <4>1. blockedMsgMap[n][a] \in Seq(Message) BY <1>2 DEF TypeOK
      <4>2. 1 \in 1..Len(blockedMsgMap[n][a]) /\ Served(a) = blockedMsgMap[n][a][1]
        BY <2>2, <3>1, <4>1, EmptySeq, LenProperties
      <4> QED BY <4>2 DEF CoherenceInv, OutstandingInv, BlockingInv, BlockedInOrder, InOrder
    <3> QED BY <2>4, <3>2, <3>3 DEF FitsOp
  <2>6. Unblock(n) BY <1>5 DEF InvalidateAckGrants, WriteBackAnswersWrite, WriteBackAnswersRead
  <2>7. \E type \in {"DATA_VALUE_REPLY", "INVALIDATE_OTHER_ACK"} :
          /\ Reply(n, {r}, type)
          /\ type = "INVALIDATE_OTHER_ACK" => Served(a).type # "READ_MISS"
    <3>1. CASE InvalidateAckGrants(n)
      <4>1. Current(n).type = "INVALIDATE_ACK"
        BY <3>1, HandlesWhat DEF InvalidateAckGrants, InvalidateAck
      <4> QED BY <2>2, <2>4, <3>1, <4>1 DEF InvalidateAckGrants
    <3>2. CASE WriteBackAnswersWrite(n) \/ WriteBackAnswersRead(n)
      BY <1>3, <2>4, <3>2, WriteBackHand
    <3> QED BY <1>5, <3>1, <3>2
  <2>8. PICK type \in {"DATA_VALUE_REPLY", "INVALIDATE_OTHER_ACK"} :
          /\ Reply(n, {r}, type)
          /\ type = "INVALIDATE_OTHER_ACK" => Served(a).type # "READ_MISS"
    BY <2>7
  <2>9. type \in MessageType \ HomeRequest BY DEF MessageType, NodeReply, HomeRequest
  <2>10. IncomingOK(r, NewMessage(n, a, type, nodeLatency))
    BY <1>2, <2>3, <2>5, <2>8, <2>9, SentOK
  <2>11. PICK dsts : dsts = {r} OBVIOUS
  <2>12. AddsSome(n, a) BY <1>1, <2>2, <2>6, <2>8, <2>9, <2>10, <2>11, DoneAdds
  <2> QED BY <1>1, <2>12
<1> QED BY <1>4, <1>5

\* The ACK of a cache is passed on to the home.
LEMMA CacheAckAdds ==
  ASSUME CoherenceInv, NEW n \in Node, NEW a \in Addr, a = A(n), CacheAck(n)
  PROVE  AddsSome(n, a) /\ UNCHANGED <<currentMemOp, cacheMsgQueue, cacheLineStatus>>
<1>1. /\ Handling(n) /\ Current(n).type \in CacheAnswer /\ Unblock(n)
      /\ UNCHANGED <<currentMemOp, cacheMsgQueue, cacheLineStatus>>
  BY HandlesWhat DEF CacheAck, CacheAnswer, procVars
<1>2. TypeOK BY InvTypes
<1>3. Waiting(n) # <<>> /\ Head(Waiting(n)).src = Home[a] BY <1>1, CacheAckHand
<1>4. PICK type \in HomeAnswer : Reply(n, {Home[a]}, type)
  BY <1>3 DEF CacheAck, HomeAnswer
<1>5. type \in MessageType \ HomeRequest BY Kinds DEF MessageType
<1>6. PICK dsts : dsts = {Home[a]} OBVIOUS
<1>7. \A m \in Node : m \in dsts => IncomingOK(m, NewMessage(n, a, type, nodeLatency))
  BY <1>2, <1>5, <1>6, SentOK
<1>8. AddsSome(n, a) BY <1>1, <1>3, <1>4, <1>5, <1>6, <1>7, DoneAdds
<1> QED BY <1>1, <1>8

\* The handlers of answers raise a status only with the update that brings the line.
LEMMA AnswerAdds ==
  ASSUME CoherenceInv, NEW n \in Node, NEW a \in Addr, a = A(n),
         InvalidateOtherAck(n) \/ DataValueReply(n) \/ Rollback(n) \/ MemOpDone(n)
  PROVE  /\ AddsSome(n, a) /\ UNCHANGED currentMemOp /\ StatusGoes
         /\ \/ UNCHANGED <<cacheMsgQueue, cacheLineStatus>>
            \/ SendMsgToCache(n, a, "CACHE_UPDATE") /\ a = currentMemOp[n].addr
<1>1. /\ Handling(n) /\ Current(n).type \in Answers /\ NoReply(n) /\ Done(n)
      /\ UNCHANGED currentMemOp
  BY HandlesWhat DEF InvalidateOtherAck, DataValueReply, Rollback, MemOpDone, Answers, procVars
<1>2. TypeOK /\ RequestsWait /\ Outstanding(n) BY InvTypes DEF CoherenceInv, OutstandingInv
<1>3. AddsSome(n, a) BY <1>1, QuietDoneAdds
<1>4. NoAsk(n) /\ ~Draining BY <1>1, <1>2, AnswerInHand
<1>5. a = currentMemOp[n].addr BY <1>1, <1>4, Hand DEF IncomingOK, A
<1>6. \/ UNCHANGED <<cacheMsgQueue, cacheLineStatus>>
      \/ SendMsgToCache(n, a, "CACHE_UPDATE") /\ \E status : SetStatus(n, a, status)
  BY DEF InvalidateOtherAck, DataValueReply, Rollback, MemOpDone
<1>7. StatusGoes
  <2>1. CASE UNCHANGED <<cacheMsgQueue, cacheLineStatus>> BY <2>1 DEF StatusGoes
  <2>2. CASE \E status : SetStatus(n, a, status)
    <3>1. \A m \in Node, b \in Addr : m # n => cacheLineStatus'[m][b] = cacheLineStatus[m][b]
      BY <1>2, <2>2 DEF SetStatus, TypeOK
    <3> QED BY <1>4, <3>1 DEF StatusGoes
  <2> QED BY <1>6, <2>1, <2>2
<1> QED BY <1>1, <1>3, <1>5, <1>6, <1>7

\* All handlers together: what they add, ask the cache and do to the statuses.
LEMMA HandledAdds ==
  ASSUME CoherenceInv, NEW n \in Node, HandlesOn(n)
  PROVE  /\ Handling(n) /\ A(n) \in Addr
         /\ \E a \in Addr : a = A(n) /\ AddsSome(n, a) /\ CacheAsked(n, a)
         /\ UNCHANGED <<currentMemOp, halt>> /\ StatusGoes
<1>1. Handling(n) /\ UNCHANGED halt
  BY HandlesWhat
     DEF HandlesOn, HomeBusy, ReadMissShares, ReadMissGivesExclusive, ReadMissFetches, ReadMiss,
         WriteMissUncached, WriteMissInvalidates, WriteMissFetches, WriteMiss,
         InvalidateOtherRollsBack, InvalidateOtherInvalidates, InvalidateOtherGrants,
         Invalidate, Fetch, InvalidateAckCounts, InvalidateAckGrants, InvalidateAck,
         WriteBackAnswersWrite, WriteBackAnswersRead, WriteBack, InvalidateOtherAck,
         DataValueReply, Rollback, MemOpDone, CacheAck
<1>2. PICK a \in Addr : a = A(n) BY <1>1, InvTypes, CurrentType
<1>3. UNCHANGED cacheLineStatus => StatusGoes BY DEF StatusGoes
<1>4. \A type \in {"CACHE_INVALIDATE", "CACHE_FETCH", "CACHE_UPDATE"} :
        /\ type \in CacheRequest
        /\ type \in Accesses => type = "CACHE_UPDATE"
  BY DEF CacheRequest, Accesses
<1>5. CASE Invalidate(n) \/ Fetch(n)
  <2>1. CacheAsked(n, a) BY <1>2, <1>4, <1>5, HolderAdds DEF CacheAsked
  <2> QED BY <1>1, <1>2, <1>5, <2>1, HolderAdds
<1>6. CASE InvalidateOtherAck(n) \/ DataValueReply(n) \/ Rollback(n) \/ MemOpDone(n)
  <2>1. CacheAsked(n, a) BY <1>2, <1>4, <1>6, AnswerAdds DEF CacheAsked
  <2> QED BY <1>1, <1>2, <1>6, <2>1, AnswerAdds
<1>7. CASE AddsSome(n, a) /\ UNCHANGED <<currentMemOp, cacheMsgQueue, cacheLineStatus>>
  BY <1>1, <1>2, <1>3, <1>7 DEF CacheAsked
<1> QED BY <1>2, <1>5, <1>6, <1>7, RequestAdds, HomeAdds, CacheAckAdds DEF HandlesOn

-------------------------------------------------------------------------------
(* The messages stay what they are. *)

\* The same but for its age.
Alike(x, y) == x.type = y.type /\ x.src = y.src /\ x.addr = y.addr /\ x.serviced = y.serviced

\* What a message must be that is new to a queue.
MissFits(x) == x.type \in {"READ_MISS", "WRITE_MISS"} => cacheLineStatus[x.src][x.addr] = "I"
QueuesFrom ==
  /\ \A m \in Node : \A i \in 1..Len(incomingMsgQueue'[m]) :
       \/ \E j \in 1..Len(incomingMsgQueue[m]) :
            Alike(incomingMsgQueue'[m][i], incomingMsgQueue[m][j])
       \/ IncomingOK(m, incomingMsgQueue[m][i])' /\ MissFits(incomingMsgQueue[m][i])'
  /\ \A m \in Node, b \in Addr : \A i \in 1..Len(blockedMsgMap'[m][b]) :
       \/ \E j \in 1..Len(blockedMsgMap[m][b]) : blockedMsgMap'[m][b][i] = blockedMsgMap[m][b][j]
       \/ /\ BlockedOK(m, b, blockedMsgMap[m][b][i])'
          /\ blockedMsgMap'[m][b][i].type \in {"READ_MISS", "WRITE_MISS"}
               => cacheLineStatus'[blockedMsgMap'[m][b][i].src][b] = "I"
  /\ \A m \in Node : \A i \in 1..Len(cacheMsgQueue'[m]) :
       \/ \E j \in 1..Len(cacheMsgQueue[m]) :
            /\ cacheMsgQueue'[m][i].type = cacheMsgQueue[m][j].type
            /\ cacheMsgQueue'[m][i].addr = cacheMsgQueue[m][j].addr
       \/ RequestOK(m, cacheMsgQueue[m][i])'
  /\ \A m \in Node : currentMemOp'[m] = currentMemOp[m] \/ (NoAnswer(m) /\ NoAsk(m) /\ NoAccess(m))
  /\ StatusGoes

\* Where all messages are old ones or fit, messages fit after the step.
LEMMA MessagesKept ==
  ASSUME TypeOK, MessagesOK, QueuesFrom
  PROVE  MessagesOK'
<1>1. ASSUME NEW x \in Message, NEW y, Alike(y, x) \/ y = x, FitsOp(x), x.type \in HomeRequest,
             \E m \in Node : \/ \E i \in 1..Len(incomingMsgQueue[m]) : x = incomingMsgQueue[m][i]
                             \/ \E b \in Addr : \E i \in 1..Len(blockedMsgMap[m][b]) :
                                  x = blockedMsgMap[m][b][i]
      PROVE  /\ y.addr = currentMemOp'[y.src].addr
             /\ currentMemOp'[y.src].type = IF y.type = "READ_MISS" THEN "read" ELSE "write"
  <2>1. y.type = x.type /\ y.src = x.src /\ y.addr = x.addr BY <1>1 DEF Alike
  <2>2. x.src \in Node /\ x \in AskMarks(x.src) BY <1>1 DEF Message, AskMarks
  <2>3. ~NoAsk(x.src) BY <1>1, <2>2 DEF NoAsk, None
  <2>4. currentMemOp'[x.src] = currentMemOp[x.src] BY <2>2, <2>3 DEF QueuesFrom
  <2> QED BY <1>1, <2>1, <2>4 DEF FitsOp
<1>2. ASSUME NEW m \in Node, NEW i \in 1..Len(incomingMsgQueue'[m])
      PROVE  IncomingOK(m, incomingMsgQueue[m][i])'
  <2>1. CASE \E j \in 1..Len(incomingMsgQueue[m]) :
               Alike(incomingMsgQueue'[m][i], incomingMsgQueue[m][j])
    <3>1. PICK j \in 1..Len(incomingMsgQueue[m]) :
                 Alike(incomingMsgQueue'[m][i], incomingMsgQueue[m][j])
      BY <2>1
    <3>2. PICK x : x = incomingMsgQueue[m][j] OBVIOUS
    <3>3. PICK y : y = incomingMsgQueue'[m][i] OBVIOUS
    <3>4. Alike(y, x) /\ IncomingOK(m, x) /\ x \in Message
      BY <3>1, <3>2, <3>3 DEF MessagesOK, TypeOK
    <3>5. x.type \in HomeRequest
            => /\ y.addr = currentMemOp'[y.src].addr
               /\ currentMemOp'[y.src].type = IF y.type = "READ_MISS" THEN "read" ELSE "write"
      BY <1>1, <3>2, <3>4 DEF IncomingOK
    <3>6. x.type \in Answers => currentMemOp'[m] = currentMemOp[m]
      <4> HAVE x.type \in Answers
      <4>1. x \in AnswerMsgs BY <3>4 DEF AnswerMsgs
      <4>2. ~NoAnswer(m) BY <3>2, <4>1 DEF NoAnswer, None
      <4> QED BY <4>2 DEF QueuesFrom
    <3>7. "DATA_VALUE_REPLY_E" \in Answers /\ "INVALIDATE_OTHER_ACK" \in Answers BY DEF Answers
    <3>8. IncomingOK(m, y)'
      BY <3>4, <3>5, <3>6, <3>7 DEF IncomingOK, Alike, FitsOp
    <3> QED BY <3>3, <3>8 DEF IncomingOK, FitsOp
  <2> QED BY <1>2, <2>1 DEF QueuesFrom
<1>3. ASSUME NEW m \in Node, NEW b \in Addr, NEW i \in 1..Len(blockedMsgMap'[m][b])
      PROVE  BlockedOK(m, b, blockedMsgMap[m][b][i])'
  <2>1. CASE \E j \in 1..Len(blockedMsgMap[m][b]) :
               blockedMsgMap'[m][b][i] = blockedMsgMap[m][b][j]
    <3>1. PICK j \in 1..Len(blockedMsgMap[m][b]) :
                 blockedMsgMap'[m][b][i] = blockedMsgMap[m][b][j]
      BY <2>1
    <3>2. PICK x : x = blockedMsgMap[m][b][j] /\ x = blockedMsgMap'[m][b][i] BY <3>1
    <3>3. BlockedOK(m, b, x) /\ x \in Message
      <4>1. blockedMsgMap[m][b] \in Seq(Message) BY DEF TypeOK
      <4>2. blockedMsgMap[m][b][j] \in Message BY <4>1
      <4>3. BlockedOK(m, b, blockedMsgMap[m][b][j]) BY DEF MessagesOK
      <4> QED BY <3>2, <4>2, <4>3
    <3>4. x.type \in HomeRequest
            => /\ x.addr = currentMemOp'[x.src].addr
               /\ currentMemOp'[x.src].type = IF x.type = "READ_MISS" THEN "read" ELSE "write"
      <4> HAVE x.type \in HomeRequest
      <4>1. FitsOp(x) BY <3>3 DEF BlockedOK
      <4>2. \E k \in Node : \/ \E i2 \in 1..Len(incomingMsgQueue[k]) : x = incomingMsgQueue[k][i2]
                            \/ \E c \in Addr : \E i2 \in 1..Len(blockedMsgMap[k][c]) :
                                 x = blockedMsgMap[k][c][i2]
        BY <3>2
      <4>3. x = x OBVIOUS
      <4> QED BY <1>1, <3>3, <4>1, <4>2, <4>3
    <3>5. BlockedOK(m, b, x)' BY <3>3, <3>4 DEF BlockedOK, FitsOp
    <3> QED BY <3>2, <3>5 DEF BlockedOK, FitsOp
  <2> QED BY <1>3, <2>1 DEF QueuesFrom
<1>4. ASSUME NEW m \in Node, NEW i \in 1..Len(cacheMsgQueue'[m])
      PROVE  RequestOK(m, cacheMsgQueue[m][i])'
  <2>1. CASE \E j \in 1..Len(cacheMsgQueue[m]) :
               /\ cacheMsgQueue'[m][i].type = cacheMsgQueue[m][j].type
               /\ cacheMsgQueue'[m][i].addr = cacheMsgQueue[m][j].addr
    <3>1. PICK j \in 1..Len(cacheMsgQueue[m]) :
               /\ cacheMsgQueue'[m][i].type = cacheMsgQueue[m][j].type
               /\ cacheMsgQueue'[m][i].addr = cacheMsgQueue[m][j].addr
      BY <2>1
    <3>2. PICK r : r = cacheMsgQueue[m][j] OBVIOUS
    <3>3. r \in CacheMessage /\ RequestOK(m, r) BY <3>2 DEF TypeOK, MessagesOK
    <3>4. r.type \in Accesses => currentMemOp'[m] = currentMemOp[m]
      <4> HAVE r.type \in Accesses
      <4>1. r \in CacheMarks BY <3>3 DEF CacheMarks
      <4>2. ~NoAccess(m) BY <3>2, <4>1 DEF NoAccess, None
      <4> QED BY <4>2 DEF QueuesFrom
    <3> QED BY <3>1, <3>2, <3>3, <3>4 DEF RequestOK
  <2> QED BY <1>4, <2>1 DEF QueuesFrom
<1> QED BY <1>2, <1>3, <1>4 DEF MessagesOK

\* So do misses: who misses a line does not have it after the step either.
LEMMA MissesKept ==
  ASSUME TypeOK, MissesOK, QueuesFrom
  PROVE  MissesOK'
<1> SUFFICES ASSUME NEW n \in Node, NEW m \in Node, NEW a \in Addr, cacheLineStatus'[n][a] # "I"
             PROVE  /\ None(incomingMsgQueue'[m], Misses(a, n))
                    /\ None(blockedMsgMap'[m][a], Misses(a, n))
  BY DEF MissesOK, Misses, AboutFrom, About
<1>1. Misses(a, n) \subseteq AskMarks(n)
  BY DEF Misses, AboutFrom, About, AskMarks, HomeRequest
<1>2. None(incomingMsgQueue[m], Misses(a, n)) /\ None(blockedMsgMap[m][a], Misses(a, n))
  <2>1. cacheLineStatus[n][a] # "I" \/ NoAsk(n) BY DEF QueuesFrom, StatusGoes
  <2> QED BY <1>1, <2>1 DEF MissesOK, NoAsk, None
<1>3. ASSUME NEW i \in 1..Len(incomingMsgQueue'[m]), incomingMsgQueue'[m][i] \in Misses(a, n)
      PROVE  FALSE
  <2>1. PICK y \in Message : y = incomingMsgQueue'[m][i]
    BY <1>3 DEF Misses, AboutFrom, About
  <2>2. y.addr = a /\ y.src = n /\ y.type \in {"READ_MISS", "WRITE_MISS"}
    BY <1>3, <2>1 DEF Misses, AboutFrom, About
  <2>3. ~MissFits(incomingMsgQueue[m][i])' BY <2>1, <2>2 DEF MissFits
  <2>4. PICK j \in 1..Len(incomingMsgQueue[m]) : Alike(y, incomingMsgQueue[m][j])
    <3>1. \/ \E j \in 1..Len(incomingMsgQueue[m]) :
               Alike(incomingMsgQueue'[m][i], incomingMsgQueue[m][j])
          \/ MissFits(incomingMsgQueue[m][i])'
      BY <1>3 DEF QueuesFrom
    <3> QED BY <2>1, <2>3, <3>1
  <2>5. incomingMsgQueue[m][j] \in Message
    <3>1. incomingMsgQueue[m] \in Seq(Message) BY DEF TypeOK
    <3> QED BY <3>1
  <2>6. incomingMsgQueue[m][j] \in Misses(a, n)
    BY <2>2, <2>4, <2>5 DEF Alike, Misses, AboutFrom, About
  <2> QED BY <1>2, <2>6 DEF None
<1>4. ASSUME NEW i \in 1..Len(blockedMsgMap'[m][a]), blockedMsgMap'[m][a][i] \in Misses(a, n)
      PROVE  FALSE
  <2>1. PICK y \in Message : y = blockedMsgMap'[m][a][i]
    BY <1>4 DEF Misses, AboutFrom, About
  <2>2. y.addr = a /\ y.src = n /\ y.type \in {"READ_MISS", "WRITE_MISS"}
    BY <1>4, <2>1 DEF Misses, AboutFrom, About
  <2>3. PICK j \in 1..Len(blockedMsgMap[m][a]) : y = blockedMsgMap[m][a][j]
    BY <1>4, <2>1, <2>2 DEF QueuesFrom
  <2> QED BY <1>2, <1>4, <2>1, <2>3 DEF None
<1> QED BY <1>3, <1>4 DEF None

\* After a handler all queues hold old messages or fitting ones.
LEMMA HandledFrom ==
  ASSUME CoherenceInv, NEW n \in Node, HandlesOn(n)
  PROVE  QueuesFrom /\ HoldersFirst'
<1>1. TypeOK BY InvTypes
<1>2. /\ Handling(n) /\ UNCHANGED currentMemOp /\ StatusGoes
      /\ \E a \in Addr : a = A(n) /\ AddsSome(n, a) /\ CacheAsked(n, a)
  BY HandledAdds
<1>3. PICK a \in Addr : a = A(n) /\ AddsSome(n, a) /\ CacheAsked(n, a) BY <1>2
<1>4. PICK dsts, type, y : Adds(n, a, dsts, type, y) BY <1>3 DEF AddsSome
<1>5. type \in MessageType /\ type \notin HomeRequest /\ Reply(n, dsts, type) BY <1>4 DEF Adds
<1>6. PICK x : x = NewMessage(n, a, type, nodeLatency) OBVIOUS
<1>7. FromIncoming(dsts, x) /\ x.type = type
  BY <1>1, <1>2, <1>3, <1>5, <1>6, ReplyFrom DEF NewMessage
<1>8. \A m \in Node : m \in dsts => IncomingOK(m, x) BY <1>4, <1>6 DEF Adds
<1>9. ASSUME NEW m \in Node, NEW i \in 1..Len(incomingMsgQueue'[m])
      PROVE  \/ \E j \in 1..Len(incomingMsgQueue[m]) :
                  Alike(incomingMsgQueue'[m][i], incomingMsgQueue[m][j])
             \/ IncomingOK(m, incomingMsgQueue[m][i])' /\ MissFits(incomingMsgQueue[m][i])'
  <2>1. CASE \E j \in 1..Len(incomingMsgQueue[m]) :
               incomingMsgQueue'[m][i] = incomingMsgQueue[m][j]
    BY <2>1 DEF Alike
  <2>2. CASE m \in dsts /\ incomingMsgQueue'[m][i] = x
    <3>1. IncomingOK(m, x)' BY <1>2, <1>8, <2>2 DEF IncomingOK, FitsOp
    <3>2. x.type \notin {"READ_MISS", "WRITE_MISS"} BY <1>5, <1>7 DEF HomeRequest
    <3> QED BY <2>2, <3>1, <3>2 DEF MissFits, IncomingOK, FitsOp
  <2> QED BY <1>7, <1>9, <2>1, <2>2 DEF FromIncoming
<1>10. /\ HoldersAfter(n, a, y) /\ BlockedOK(n, a, y)
       /\ y.type \in {"READ_MISS", "WRITE_MISS"} => cacheLineStatus'[y.src][a] = "I"
  BY <1>4 DEF Adds
<1>11. BlockedOK(n, a, y)' BY <1>2, <1>10 DEF BlockedOK, FitsOp
<1>12. ASSUME NEW m \in Node, NEW b \in Addr, NEW i \in 1..Len(blockedMsgMap'[m][b])
       PROVE  \/ \E j \in 1..Len(blockedMsgMap[m][b]) :
                   blockedMsgMap'[m][b][i] = blockedMsgMap[m][b][j]
              \/ /\ BlockedOK(m, b, blockedMsgMap[m][b][i])'
                 /\ blockedMsgMap'[m][b][i].type \in {"READ_MISS", "WRITE_MISS"}
                      => cacheLineStatus'[blockedMsgMap'[m][b][i].src][b] = "I"
  <2>1. CASE m = n /\ b = a /\ blockedMsgMap'[m][b][i] = y
    BY <1>10, <1>11, <2>1 DEF BlockedOK, FitsOp
  <2> QED BY <1>10, <1>12, <2>1 DEF HoldersAfter, FromBlocked
<1>13. ASSUME NEW m \in Node, NEW i \in 1..Len(cacheMsgQueue'[m])
       PROVE  \/ \E j \in 1..Len(cacheMsgQueue[m]) :
                   /\ cacheMsgQueue'[m][i].type = cacheMsgQueue[m][j].type
                   /\ cacheMsgQueue'[m][i].addr = cacheMsgQueue[m][j].addr
              \/ RequestOK(m, cacheMsgQueue[m][i])'
  <2>1. CASE UNCHANGED cacheMsgQueue BY <1>13, <2>1
  <2>2. CASE \E ask \in CacheRequest : /\ SendMsgToCache(n, a, ask)
                                       /\ ask \in Accesses => a = currentMemOp[n].addr
    <3>1. PICK ask \in CacheRequest : /\ SendMsgToCache(n, a, ask)
                                      /\ ask \in Accesses => a = currentMemOp[n].addr
      BY <2>2
    <3>0. PICK r : r = [type |-> ask, addr |-> a, latency |-> cacheLatency] OBVIOUS
    <3>2. r \in CacheMessage /\ r.type = ask /\ r.addr = a
      BY <1>1, <3>0 DEF CacheMessage, TypeOK
    <3>3. cacheMsgQueue' = [cacheMsgQueue EXCEPT ![n] = Append(@, r)]
      BY <3>0, <3>1 DEF SendMsgToCache
    <3>4. CASE m # n BY <1>1, <1>13, <3>3, <3>4 DEF TypeOK
    <3>5. CASE m = n
      <4>1. PICK q : q = cacheMsgQueue[n] OBVIOUS
      <4>2. q \in Seq(CacheMessage) /\ cacheMsgQueue'[m] = Append(q, r)
        BY <1>1, <3>3, <3>5, <4>1 DEF TypeOK
      <4>3. \/ i \in 1..Len(q) /\ cacheMsgQueue'[m][i] = q[i]
            \/ cacheMsgQueue'[m][i] = r
        BY <1>13, <3>2, <4>2, AppendElements
      <4>4. RequestOK(n, r)' BY <1>2, <3>1, <3>2 DEF RequestOK
      <4> QED BY <3>5, <4>1, <4>3, <4>4 DEF RequestOK
    <3> QED BY <3>4, <3>5
  <2> QED BY <1>3, <2>1, <2>2 DEF CacheAsked
<1>14. HoldersFirst' BY <1>10 DEF HoldersAfter
<1> QED BY <1>2, <1>9, <1>12, <1>13, <1>14 DEF QueuesFrom

-------------------------------------------------------------------------------
(* What the cache, the loop and the processor add to the queues. *)

\* A queue whose messages have aged has the same messages.
LEMMA OlderAlike ==
  ASSUME NEW q \in Seq(Message)
  PROVE  /\ Len(Older(q)) = Len(q)
         /\ \A i \in 1..Len(q) : Alike(Older(q)[i], q[i])
<1>1. /\ Len(Older(q)) = Len(q)
      /\ \A i \in 1..Len(q) : /\ Older(q)[i].type = q[i].type /\ Older(q)[i].src = q[i].src
                              /\ Older(q)[i].addr = q[i].addr
  BY OlderMessages
<1>2. ASSUME NEW i \in 1..Len(q) PROVE Older(q)[i].serviced = q[i].serviced
  <2>1. q[i] \in Message OBVIOUS
  <2>2. Older(q)[i] = [q[i] EXCEPT !.latency = IF @ > 0 THEN @ - 1 ELSE @] BY DEF Older
  <2> QED BY <2>1, <2>2 DEF Message
<1> QED BY <1>1, <1>2 DEF Alike

\* The answer of the cache to a request.
AnswerTo == [type \in CacheRequest |->
  CASE type = "CACHE_READ" -> "CACHE_READ_REPLY"
    [] type = "CACHE_UPDATE" -> "CACHE_UPDATE_ACK"
    [] type = "CACHE_INVALIDATE" -> "CACHE_INVALIDATE_ACK"
    [] OTHER -> "CACHE_FETCH_ACK"]

CacheWorks(n) == CacheReads(n) \/ CacheInvalidates(n) \/ CacheFetches(n) \/ CacheUpdates(n)

\* The answer of a cache to each kind of request.
LEMMA AnswerKinds ==
  ASSUME NEW type \in CacheRequest
  PROVE  /\ AnswerTo[type] \in CacheReply \ {"CACHE_EVICTION_ALERT"}
         /\ AnswerTo[type] \in MessageType
         /\ AnswerTo[type] \in Answers <=> type \in Accesses
         /\ AnswerTo[type] \in CacheAnswer <=> type \in CacheAsk
         /\ AnswerTo[type] = "CACHE_INVALIDATE_ACK" <=> type = "CACHE_INVALIDATE"
         /\ AnswerTo[type] = "CACHE_FETCH_ACK" <=> type = "CACHE_FETCH"
  BY DEF AnswerTo, CacheRequest, CacheReply, MessageType, Answers, Accesses, CacheAnswer, CacheAsk

\* A cache takes up its first request and answers it.
LEMMA ServedIs ==
  ASSUME TypeOK, NEW n \in Node, CacheWorks(n)
  PROVE  \E r \in CacheMessage :
           /\ cacheMsgQueue[n] # <<>> /\ r = Head(cacheMsgQueue[n])
           /\ r.type \in CacheRequest /\ r.addr \in Addr
           /\ cacheMsgQueue' = [cacheMsgQueue EXCEPT ![n] = Tail(@)]
           /\ CacheReplies(n, r.addr, AnswerTo[r.type])
<1>1. PICK type \in CacheRequest :
        CacheServes(n, type) /\ CacheReplies(n, Head(cacheMsgQueue[n]).addr, AnswerTo[type])
  <2>1. /\ AnswerTo["CACHE_READ"] = "CACHE_READ_REPLY" /\ "CACHE_READ" \in CacheRequest
        /\ AnswerTo["CACHE_UPDATE"] = "CACHE_UPDATE_ACK" /\ "CACHE_UPDATE" \in CacheRequest
        /\ AnswerTo["CACHE_INVALIDATE"] = "CACHE_INVALIDATE_ACK"
        /\ "CACHE_INVALIDATE" \in CacheRequest
        /\ AnswerTo["CACHE_FETCH"] = "CACHE_FETCH_ACK" /\ "CACHE_FETCH" \in CacheRequest
    BY DEF AnswerTo, CacheRequest
  <2> QED BY <2>1 DEF CacheWorks, CacheReads, CacheInvalidates, CacheFetches, CacheUpdates
<1>2. PICK r : r = Head(cacheMsgQueue[n]) OBVIOUS
<1>3. r \in CacheMessage /\ r.type = type /\ r.addr \in Addr BY <1>1, <1>2, ServesMarks
<1>4. cacheMsgQueue[n] # <<>> /\ cacheMsgQueue' = [cacheMsgQueue EXCEPT ![n] = Tail(@)]
  BY <1>1 DEF CacheServes, Arrived
<1> QED BY <1>1, <1>2, <1>3, <1>4

\* After a component has run all queues hold old messages or fitting ones, ...
LEMMA RunsFrom ==
  ASSUME CoherenceInv, NEW n \in Node, RunsOn(n)
  PROVE  QueuesFrom /\ HoldersFirst' /\ halt' = halt
<1>1. TypeOK /\ MessagesOK /\ HoldersFirst BY InvTypes DEF CoherenceInv
<1>2. UNCHANGED <<blockedMsgMap, cacheLineStatus, currentMemOp, halt>>
  BY DEF RunsOn, CacheTick, CacheReads, CacheInvalidates, CacheFetches, CacheUpdates,
         CacheServes, HandlerTick, DrainEnds, ProcessorWaits, ProcessorTurn, homeVars, procVars,
         globals
<1>3. HoldersFirst' BY <1>1, <1>2 DEF HoldersFirst
<1>4. StatusGoes BY <1>2 DEF StatusGoes
<1>5. CASE CacheWorks(n)
  <2>1. PICK r \in CacheMessage :
          /\ cacheMsgQueue[n] # <<>> /\ r = Head(cacheMsgQueue[n])
          /\ r.type \in CacheRequest /\ r.addr \in Addr
          /\ cacheMsgQueue' = [cacheMsgQueue EXCEPT ![n] = Tail(@)]
          /\ CacheReplies(n, r.addr, AnswerTo[r.type])
    BY <1>1, <1>5, ServedIs
  <2>2. PICK type : type = AnswerTo[r.type] OBVIOUS
  <2>3. PICK x : x = NewMessage(n, r.addr, type, cacheLatency) OBVIOUS
  <2>4. /\ type \in CacheReply \ {"CACHE_EVICTION_ALERT"} /\ type \in MessageType
        /\ type \in Answers => r.type \in Accesses
    BY <2>1, <2>2, AnswerKinds
  <2>5. x \in Message /\ x.type = type /\ x.addr = r.addr /\ ~x.serviced
    BY <1>1, <2>1, <2>3, <2>4, NewMessageType DEF TypeOK, NewMessage
  <2>6. RequestOK(n, r)
    <3>1. cacheMsgQueue[n] \in Seq(CacheMessage) BY <1>1 DEF TypeOK
    <3>2. 1 \in 1..Len(cacheMsgQueue[n]) /\ r = cacheMsgQueue[n][1]
      BY <2>1, <3>1, EmptySeq, LenProperties
    <3> QED BY <1>1, <3>2 DEF MessagesOK
  <2>7. IncomingOK(n, x)
    <3>1. type \in Answers => x.addr = currentMemOp[n].addr
      BY <2>4, <2>5, <2>6 DEF RequestOK
    <3>2. type \notin HomeRequest \cup HomeAnswer \cup OwnerRequest
          /\ type \notin {"DATA_VALUE_REPLY_E", "INVALIDATE_OTHER_ACK", "CACHE_EVICTION_ALERT"}
      BY <2>4 DEF CacheReply, HomeRequest, HomeAnswer, OwnerRequest
    <3> QED BY <2>5, <3>1, <3>2 DEF IncomingOK
  <2>8. IncomingOK(n, x)' BY <1>2, <2>7 DEF IncomingOK, FitsOp
  <2>9. x.type \notin {"READ_MISS", "WRITE_MISS"} BY <2>4, <2>5 DEF CacheReply
  <2>10. ASSUME NEW m \in Node, NEW i \in 1..Len(incomingMsgQueue'[m])
         PROVE  \/ \E j \in 1..Len(incomingMsgQueue[m]) :
                     Alike(incomingMsgQueue'[m][i], incomingMsgQueue[m][j])
                \/ IncomingOK(m, incomingMsgQueue[m][i])' /\ MissFits(incomingMsgQueue[m][i])'
    <3>1. incomingMsgQueue \in [Node -> Seq(Message)] BY <1>1 DEF TypeOK
    <3>2. incomingMsgQueue' = [incomingMsgQueue EXCEPT ![n] = Append(@, x)]
      BY <2>1, <2>2, <2>3 DEF CacheReplies
    <3>3. CASE m # n BY <2>10, <3>1, <3>2, <3>3 DEF Alike
    <3>4. CASE m = n
      <4>1. PICK q : q = incomingMsgQueue[n] OBVIOUS
      <4>2. q \in Seq(Message) /\ incomingMsgQueue'[m] = Append(q, x)
        BY <3>1, <3>2, <3>4, <4>1
      <4>3. \/ i \in 1..Len(q) /\ incomingMsgQueue'[m][i] = q[i]
            \/ incomingMsgQueue'[m][i] = x
        BY <2>5, <2>10, <4>2, AppendElements
      <4>4. CASE i \in 1..Len(q) /\ incomingMsgQueue'[m][i] = q[i]
        BY <3>4, <4>1, <4>4 DEF Alike
      <4>5. CASE incomingMsgQueue'[m][i] = x
        BY <2>8, <2>9, <3>4, <4>5 DEF IncomingOK, FitsOp, MissFits
      <4> QED BY <4>3, <4>4, <4>5
    <3> QED BY <3>3, <3>4
  <2>11. ASSUME NEW m \in Node, NEW i \in 1..Len(cacheMsgQueue'[m])
         PROVE  \E j \in 1..Len(cacheMsgQueue[m]) :
                  /\ cacheMsgQueue'[m][i].type = cacheMsgQueue[m][j].type
                  /\ cacheMsgQueue'[m][i].addr = cacheMsgQueue[m][j].addr
    <3>1. cacheMsgQueue \in [Node -> Seq(CacheMessage)] BY <1>1 DEF TypeOK
    <3>2. CASE m # n BY <2>1, <2>11, <3>1, <3>2
    <3>3. CASE m = n
      <4>1. PICK q : q = cacheMsgQueue[n] OBVIOUS
      <4>2. q \in Seq(CacheMessage) /\ q # <<>> /\ cacheMsgQueue'[m] = Tail(q)
        BY <2>1, <3>1, <3>3, <4>1
      <4>3. i + 1 \in 1..Len(q) /\ cacheMsgQueue'[m][i] = q[i + 1]
        BY <2>11, <4>2, TailElements
      <4> QED BY <3>3, <4>1, <4>3
    <3> QED BY <3>2, <3>3
  <2> QED BY <1>2, <1>3, <1>4, <2>10, <2>11 DEF QueuesFrom
<1>6. CASE CacheTick(n) \/ HandlerTick(n) \/ DrainEnds(n) \/ ProcessorWaits(n)
  <2>1. ASSUME NEW m \in Node, NEW i \in 1..Len(incomingMsgQueue'[m])
        PROVE  \E j \in 1..Len(incomingMsgQueue[m]) :
                 Alike(incomingMsgQueue'[m][i], incomingMsgQueue[m][j])
    <3>1. PICK q \in Seq(Message) : q = incomingMsgQueue[m] BY <1>1 DEF TypeOK
    <3>2. incomingMsgQueue'[m] = q \/ incomingMsgQueue'[m] = Older(q)
      BY <1>1, <1>6, <3>1 DEF CacheTick, HandlerTick, DrainEnds, ProcessorWaits, TypeOK
    <3>3. i \in 1..Len(q) /\ Alike(incomingMsgQueue'[m][i], q[i])
      BY <2>1, <3>2, OlderAlike DEF Alike
    <3> QED BY <3>1, <3>3
  <2>2. ASSUME NEW m \in Node, NEW i \in 1..Len(cacheMsgQueue'[m])
        PROVE  \E j \in 1..Len(cacheMsgQueue[m]) :
                 /\ cacheMsgQueue'[m][i].type = cacheMsgQueue[m][j].type
                 /\ cacheMsgQueue'[m][i].addr = cacheMsgQueue[m][j].addr
    <3>1. PICK q \in Seq(CacheMessage) : q = cacheMsgQueue[m] BY <1>1 DEF TypeOK
    <3>2. cacheMsgQueue'[m] = q \/ cacheMsgQueue'[m] = Older(q)
      BY <1>1, <1>6, <3>1
         DEF CacheTick, HandlerTick, DrainEnds, ProcessorWaits, ProcessorTurn, cacheVars, TypeOK
    <3>3. /\ i \in 1..Len(q) /\ cacheMsgQueue'[m][i].type = q[i].type
          /\ cacheMsgQueue'[m][i].addr = q[i].addr
      BY <2>2, <3>2, OlderRequests
    <3> QED BY <3>1, <3>3
  <2> QED BY <1>2, <1>3, <1>4, <2>1, <2>2 DEF QueuesFrom
<1> QED BY <1>5, <1>6 DEF RunsOn, CacheWorks

\* ... and after an operation has started.
LEMMA StartFrom ==
  ASSUME CoherenceInv, NEW n \in Node, HandleMemOpRequest(n)
  PROVE  QueuesFrom /\ HoldersFirst' /\ halt' = halt
<1>1. TypeOK /\ HoldersFirst /\ Outstanding(n) BY InvTypes DEF CoherenceInv, OutstandingInv
<1>2. UNCHANGED <<blockedMsgMap, halt>> /\ currentMemOpSuccessful[n] BY StartIs
<1>3. HoldersFirst' BY <1>1, <1>2 DEF HoldersFirst
<1>4. NoAnswer(n) /\ NoAsk(n) /\ NoAccess(n) BY <1>1, <1>2, IdleNode
<1>5. PICK op \in Op :
        /\ currentMemOp' = [currentMemOp EXCEPT ![n] = op]
        /\ \/ /\ \E type \in HomeRequest :
                   /\ AskHome(n, op.addr, type)
                   /\ op.type = IF type = "READ_MISS" THEN "read" ELSE "write"
                   /\ type \in {"READ_MISS", "WRITE_MISS"} => cacheLineStatus[n][op.addr] = "I"
              /\ UNCHANGED cacheLineStatus
           \/ /\ \E type \in Accesses : AskCache(n, op.addr, type)
              /\ \/ UNCHANGED cacheLineStatus
                 \/ /\ cacheLineStatus[n][op.addr] \in OwnedLine
                    /\ SetStatus(n, op.addr, "M")
  BY StartIs
<1>6. op.addr \in Addr BY DEF Op
<1>7. currentMemOp'[n] = op /\ \A m \in Node : m # n => currentMemOp'[m] = currentMemOp[m]
  BY <1>1, <1>5 DEF TypeOK
<1>8. \A m \in Node : currentMemOp'[m] = currentMemOp[m]
                      \/ (NoAnswer(m) /\ NoAsk(m) /\ NoAccess(m))
  BY <1>4, <1>7
<1>9. StatusGoes
  <2>1. CASE UNCHANGED cacheLineStatus BY <2>1 DEF StatusGoes
  <2>2. CASE cacheLineStatus[n][op.addr] \in OwnedLine /\ SetStatus(n, op.addr, "M")
    <3>1. \A m \in Node, b \in Addr : cacheLineStatus'[m][b]
            = IF m = n /\ b = op.addr THEN "M" ELSE cacheLineStatus[m][b]
      BY <1>1, <1>6, <2>2 DEF SetStatus, TypeOK
    <3>2. cacheLineStatus[n][op.addr] # "I" BY <2>2 DEF OwnedLine
    <3> QED BY <3>1, <3>2 DEF StatusGoes
  <2> QED BY <1>5, <2>1, <2>2
<1>10. \A m \in Node, b \in Addr : \A i \in 1..Len(blockedMsgMap'[m][b]) :
         \E j \in 1..Len(blockedMsgMap[m][b]) : blockedMsgMap'[m][b][i] = blockedMsgMap[m][b][j]
  BY <1>2
<1>11. CASE /\ \E type \in HomeRequest :
                 /\ AskHome(n, op.addr, type)
                 /\ op.type = IF type = "READ_MISS" THEN "read" ELSE "write"
                 /\ type \in {"READ_MISS", "WRITE_MISS"} => cacheLineStatus[n][op.addr] = "I"
            /\ UNCHANGED cacheLineStatus
  <2>1. PICK type \in HomeRequest :
          /\ AskHome(n, op.addr, type)
          /\ op.type = IF type = "READ_MISS" THEN "read" ELSE "write"
          /\ type \in {"READ_MISS", "WRITE_MISS"} => cacheLineStatus[n][op.addr] = "I"
    BY <1>11
  <2>2. PICK h \in Node : h = Home[op.addr] BY <1>6, ContextAssumption
  <2>3. PICK x : x = NewMessage(n, op.addr, type, nodeLatency) OBVIOUS
  <2>4. /\ x \in Message /\ x.type = type /\ x.addr = op.addr /\ x.src = n /\ ~x.serviced
    BY <1>1, <1>6, <2>3, NewMessageType DEF TypeOK, NewMessage, MessageType
  <2>5. type \notin HomeAnswer \cup OwnerRequest \cup Answers
        /\ type \notin {"CACHE_EVICTION_ALERT", "INVALIDATE_OTHER_ACK", "DATA_VALUE_REPLY_E"}
    BY DEF HomeRequest, HomeAnswer, OwnerRequest, Answers
  <2>6. IncomingOK(h, x)' BY <1>7, <2>1, <2>2, <2>4, <2>5 DEF IncomingOK, FitsOp
  <2>7. MissFits(x)' BY <1>11, <2>1, <2>4 DEF MissFits
  <2>8. UNCHANGED cacheMsgQueue
        /\ \A m \in Node : incomingMsgQueue'[m] = IF m = h THEN Append(incomingMsgQueue[m], x)
                                                           ELSE incomingMsgQueue[m]
    BY <2>1, <2>2, <2>3 DEF AskHome, SendMsgToNode
  <2>9. ASSUME NEW m \in Node, NEW i \in 1..Len(incomingMsgQueue'[m])
        PROVE  \/ \E j \in 1..Len(incomingMsgQueue[m]) :
                    Alike(incomingMsgQueue'[m][i], incomingMsgQueue[m][j])
               \/ IncomingOK(m, incomingMsgQueue[m][i])' /\ MissFits(incomingMsgQueue[m][i])'
    <3>1. CASE m # h BY <2>8, <2>9, <3>1 DEF Alike
    <3>2. CASE m = h
      <4>1. PICK q \in Seq(Message) : q = incomingMsgQueue[h] BY <1>1 DEF TypeOK
      <4>2. incomingMsgQueue'[m] = Append(q, x) BY <2>8, <3>2, <4>1
      <4>3. \/ i \in 1..Len(q) /\ incomingMsgQueue'[m][i] = q[i]
            \/ incomingMsgQueue'[m][i] = x
        BY <2>4, <2>9, <4>2, AppendElements
      <4>4. CASE i \in 1..Len(q) /\ incomingMsgQueue'[m][i] = q[i]
        BY <3>2, <4>1, <4>4 DEF Alike
      <4>5. CASE incomingMsgQueue'[m][i] = x
        BY <2>6, <2>7, <3>2, <4>5 DEF IncomingOK, FitsOp, MissFits
      <4> QED BY <4>3, <4>4, <4>5
    <3> QED BY <3>1, <3>2
  <2>10. \A m \in Node : \A i \in 1..Len(cacheMsgQueue'[m]) :
           \E j \in 1..Len(cacheMsgQueue[m]) :
             /\ cacheMsgQueue'[m][i].type = cacheMsgQueue[m][j].type
             /\ cacheMsgQueue'[m][i].addr = cacheMsgQueue[m][j].addr
    BY <2>8
  <2>11. QueuesFrom BY <1>8, <1>9, <1>10, <2>9, <2>10 DEF QueuesFrom
  <2> QED BY <1>2, <1>3, <2>11
<1>12. CASE \E type \in Accesses : AskCache(n, op.addr, type)
  <2>1. PICK type \in Accesses : AskCache(n, op.addr, type) BY <1>12
  <2>2. PICK r : r = [type |-> type, addr |-> op.addr, latency |-> cacheLatency] OBVIOUS
  <2>3. r \in CacheMessage /\ r.addr = op.addr
    BY <1>1, <1>6, <2>2 DEF CacheMessage, TypeOK, CacheRequest, Accesses
  <2>4. UNCHANGED incomingMsgQueue /\ cacheMsgQueue' = [cacheMsgQueue EXCEPT ![n] = Append(@, r)]
    BY <2>1, <2>2 DEF AskCache, SendMsgToCache
  <2>5. RequestOK(n, r)' BY <1>7, <2>3 DEF RequestOK
  <2>6. ASSUME NEW m \in Node, NEW i \in 1..Len(cacheMsgQueue'[m])
        PROVE  \/ \E j \in 1..Len(cacheMsgQueue[m]) :
                    /\ cacheMsgQueue'[m][i].type = cacheMsgQueue[m][j].type
                    /\ cacheMsgQueue'[m][i].addr = cacheMsgQueue[m][j].addr
               \/ RequestOK(m, cacheMsgQueue[m][i])'
    <3>1. CASE m # n BY <1>1, <2>4, <2>6, <3>1 DEF TypeOK
    <3>2. CASE m = n
      <4>1. PICK q : q = cacheMsgQueue[n] OBVIOUS
      <4>2. q \in Seq(CacheMessage) /\ cacheMsgQueue'[m] = Append(q, r)
        BY <1>1, <2>4, <3>2, <4>1 DEF TypeOK
      <4>3. \/ i \in 1..Len(q) /\ cacheMsgQueue'[m][i] = q[i]
            \/ cacheMsgQueue'[m][i] = r
        BY <2>3, <2>6, <4>2, AppendElements
      <4> QED BY <2>5, <3>2, <4>1, <4>3 DEF RequestOK
    <3> QED BY <3>1, <3>2
  <2>7. \A m \in Node : \A i \in 1..Len(incomingMsgQueue'[m]) :
          \E j \in 1..Len(incomingMsgQueue[m]) :
            Alike(incomingMsgQueue'[m][i], incomingMsgQueue[m][j])
    BY <2>4 DEF Alike
  <2>8. QueuesFrom BY <1>8, <1>9, <1>10, <2>6, <2>7 DEF QueuesFrom
  <2> QED BY <1>2, <1>3, <2>8
<1> QED BY <1>5, <1>11, <1>12

\* The messages, the misses and the order of the blocked queues.
LEMMA QueuesStep ==
  ASSUME LinesFit, CoherenceInv, [Next]_vars
  PROVE  MessagesOK' /\ MissesOK' /\ HoldersFirst' /\ halt' = "no"
<1>1. TypeOK /\ MessagesOK /\ MissesOK /\ HoldersFirst /\ halt = "no"
  BY InvTypes DEF CoherenceInv
<1>2. CASE UNCHANGED vars
  <2>1. UNCHANGED <<incomingMsgQueue, blockedMsgMap, cacheMsgQueue, cacheLineStatus, currentMemOp,
                    halt>>
    BY <1>2 DEF vars, cacheVars, procVars
  <2>2. HoldersFirst' /\ halt' = "no" BY <1>1, <2>1 DEF HoldersFirst
  <2>3. MissesOK' BY <1>1, <2>1 DEF MissesOK, Misses, AboutFrom, About
  <2>4. MessagesOK' BY <1>1, <2>1 DEF MessagesOK, IncomingOK, BlockedOK, RequestOK, FitsOp
  <2> QED BY <2>2, <2>3, <2>4
<1>3. ASSUME NEW n \in Node, RunsOn(n) \/ HandlesOn(n) \/ HandleMemOpRequest(n)
      PROVE  QueuesFrom /\ HoldersFirst' /\ halt' = halt
  <2>1. CASE RunsOn(n) BY <2>1, RunsFrom
  <2>2. CASE HandlesOn(n) BY <2>2, HandledFrom, HandledAdds
  <2>3. CASE HandleMemOpRequest(n) BY <2>3, StartFrom
  <2> QED BY <1>3, <2>1, <2>2, <2>3
<1>4. CASE \E n \in Node : RunsOn(n) \/ HandlesOn(n) \/ HandleMemOpRequest(n)
  <2>1. QueuesFrom /\ HoldersFirst' /\ halt' = halt BY <1>3, <1>4
  <2> QED BY <1>1, <2>1, MessagesKept, MissesKept
<1> QED BY <1>2, <1>4, StepsOnly

\* The lines.
LEMMA LineStep ==
  ASSUME LinesFit, CoherenceInv, [Next]_vars
  PROVE  \A a \in Addr : LineInv(a)'
<1>1. CASE UNCHANGED vars BY <1>1, StutterLines
<1>2. ASSUME NEW n \in Node, RunsOn(n) PROVE \A a \in Addr : LineInv(a)'
  BY <1>2, RunLines DEF RunsOn
<1>3. ASSUME NEW n \in Node, HandlesOn(n) PROVE \A a \in Addr : LineInv(a)'
  BY <1>3, HomeBusyLines, ReadMissSharesLines, ReadMissGivesExclusiveLines,
     WriteMissUncachedLines, RollsBackLines, InvalidateOtherGrantsLines, AskLines, HolderLines,
     AckCountsLines, AckGrantsLines, WriteBackLines, RightTakenLines, OperationLines,
     CacheAckLines
     DEF HandlesOn
<1>4. ASSUME NEW n \in Node, HandleMemOpRequest(n) PROVE \A a \in Addr : LineInv(a)'
  BY <1>4, StartLinesStay
<1> QED BY <1>1, <1>2, <1>3, <1>4, StepsOnly

-------------------------------------------------------------------------------
(* The requests of the handler to the cache. *)

\* What keeps the place of a request: the front of the blocked queue, the requests at the
\* cache, and its answers.
AsksAtCacheSame(n, a) == \A types \in SUBSET CacheAsk :
  Like(cacheMsgQueue[n], cacheMsgQueue'[n], AsCache(a, types))
CacheAnswersSame(n, a) == \A types \in SUBSET CacheAnswer :
  Like(incomingMsgQueue[n], incomingMsgQueue'[n], About(a, types))
CacheSame(n, a) == FirstSame(n, a) /\ AsksAtCacheSame(n, a) /\ CacheAnswersSame(n, a)

\* A request of a home is at a cache once where its queues stay.
LEMMA AtCacheKept ==
  ASSUME NEW n \in Node, NEW a \in Addr, AtCacheOnce(n, a), CacheSame(n, a)
  PROVE  AtCacheOnce(n, a)'
<1>1. /\ {"CACHE_INVALIDATE"} \in SUBSET CacheAsk /\ {"CACHE_FETCH"} \in SUBSET CacheAsk
      /\ {"CACHE_INVALIDATE_ACK"} \in SUBSET CacheAnswer
      /\ {"CACHE_FETCH_ACK"} \in SUBSET CacheAnswer
      /\ CacheAsk \in SUBSET CacheAsk /\ CacheAnswer \in SUBSET CacheAnswer
      /\ "FETCH" \in OwnerRequest
  BY DEF CacheAsk, CacheAnswer, OwnerRequest
<1>2. \A types \in SUBSET CacheAsk :
        Like(cacheMsgQueue[n], cacheMsgQueue'[n], AsCache(a, types))
  BY DEF CacheSame, AsksAtCacheSame
<1>3. \A types \in SUBSET CacheAnswer :
        Like(incomingMsgQueue[n], incomingMsgQueue'[n], About(a, types))
  BY DEF CacheSame, CacheAnswersSame
<1>4. FirstSame(n, a) BY DEF CacheSame
<1>5. PICK first : first = FirstType(n, a)' OBVIOUS
<1>6. \/ first = FirstType(n, a)
      \/ first \notin OwnerRequest /\ FirstType(n, a) \notin OwnerRequest
  BY <1>4, <1>5 DEF FirstSame
<1>7. \A types : AsCache(a, types)' = AsCache(a, types) /\ About(a, types)' = About(a, types)
  BY DEF AsCache, About
<1> QED BY <1>1, <1>2, <1>3, <1>5, <1>6 DEF AtCacheOnce, Like, AsCache, About

\* The queue of the cache without its first request, or with one more.
LEMMA RequestsLike ==
  ASSUME NEW q \in Seq(CacheMessage), NEW S
  PROVE  /\ q # <<>> => /\ Head(q) \notin S => Like(q, Tail(q), S)
                        /\ Head(q) \in S => ~None(q, S) /\ (One(q, S) => None(Tail(q), S))
         /\ \A x \in CacheMessage :
              /\ x \notin S => Like(q, Append(q, x), S)
              /\ x \in S => ~None(Append(q, x), S) /\ (None(q, S) => One(Append(q, x), S))
<1>1. ASSUME q # <<>>
      PROVE  /\ Head(q) \notin S => Like(q, Tail(q), S)
             /\ Head(q) \in S => ~None(q, S) /\ (One(q, S) => None(Tail(q), S))
  <2>1. Head(q) \in CacheMessage BY <1>1, HeadTailProperties
  <2> QED BY <1>1, <2>1, TailMarks, HoldsMark DEF Like, Keeps, Loses
<1>2. ASSUME NEW x \in CacheMessage
      PROVE  /\ x \notin S => Like(q, Append(q, x), S)
             /\ x \in S => ~None(Append(q, x), S) /\ (None(q, S) => One(Append(q, x), S))
  BY AppendMarks, HoldsMark DEF Like, Keeps, Gains
<1> QED BY <1>1, <1>2

\* Answers of the cache that are neither taken nor sent.
LEMMA CacheAnswersUnmoved ==
  ASSUME TypeOK, NEW n \in Node, Handling(n), NEW dsts, NEW type \in MessageType,
         Reply(n, dsts, type), NEW m \in Node, NEW b \in Addr,
         b = A(n) => /\ ~Draining /\ m = n => Current(n).type \notin CacheAnswer
                     /\ m \in dsts => type \notin CacheAnswer
  PROVE  CacheAnswersSame(m, b)
<1> SUFFICES ASSUME NEW types \in SUBSET CacheAnswer
             PROVE  Like(incomingMsgQueue[m], incomingMsgQueue'[m], About(b, types))
  BY DEF CacheAnswersSame
<1> DEFINE x == NewMessage(n, A(n), type, nodeLatency)
           S == About(b, types)
<1>1. Current(n) \in S <=> b = A(n) /\ Current(n).type \in types BY HandAbout
<1>2. x \in S <=> b = A(n) /\ type \in types BY SentAbout
<1>3. (Draining \/ m # n \/ Current(n) \notin S) /\ (m \notin dsts \/ x \notin S) BY <1>1, <1>2
<1> QED BY <1>3, Unmoved

\* The handler sends no answer of a cache.
LEMMA HandlerSends ==
  ASSUME TypeOK, NEW n \in Node, HandlesOn(n)
  PROVE  \E dsts : \E type \in MessageType : Reply(n, dsts, type) /\ type \notin CacheReply
<1>1. Handling(n)
  BY HandlesWhat
     DEF HandlesOn, HomeBusy, ReadMissShares, ReadMissGivesExclusive, ReadMissFetches, ReadMiss,
         WriteMissUncached, WriteMissInvalidates, WriteMissFetches, WriteMiss,
         InvalidateOtherRollsBack, InvalidateOtherInvalidates, InvalidateOtherGrants,
         Invalidate, Fetch, InvalidateAckCounts, InvalidateAckGrants, InvalidateAck,
         WriteBackAnswersWrite, WriteBackAnswersRead, WriteBack, InvalidateOtherAck,
         DataValueReply, Rollback, MemOpDone, CacheAck
<1>2. \A type \in OwnerRequest \cup NodeReply : type \in MessageType /\ type \notin CacheReply
  BY Kinds DEF OwnerRequest, NodeReply, CacheReply
<1>3. CASE NoReply(n)
  <2>1. "ROLLBACK" \in NodeReply BY DEF NodeReply
  <2> QED BY <1>1, <1>2, <1>3, <2>1, NoReplyIsReply
<1>4. CASE \E dsts : \E type \in OwnerRequest \cup NodeReply : Reply(n, dsts, type)
  BY <1>2, <1>4
<1>5. CASE \/ ReadMissShares(n) \/ ReadMissGivesExclusive(n) \/ ReadMissFetches(n)
           \/ WriteMissUncached(n) \/ WriteMissInvalidates(n) \/ WriteMissFetches(n)
  BY <1>4, <1>5
     DEF ReadMissShares, ReadMissGivesExclusive, ReadMissFetches,
         WriteMissUncached, WriteMissInvalidates, WriteMissFetches, OwnerRequest, NodeReply
<1>6. CASE \/ InvalidateOtherRollsBack(n) \/ InvalidateOtherInvalidates(n)
           \/ InvalidateOtherGrants(n) \/ CacheAck(n)
           \/ InvalidateAckGrants(n) \/ WriteBackAnswersWrite(n) \/ WriteBackAnswersRead(n)
  BY <1>4, <1>6
     DEF InvalidateOtherRollsBack, InvalidateOtherInvalidates, InvalidateOtherGrants, CacheAck,
         InvalidateAckGrants, WriteBackAnswersWrite, WriteBackAnswersRead, OwnerRequest, NodeReply
<1> QED
  BY <1>3, <1>5, <1>6
     DEF HandlesOn, HomeBusy, Invalidate, Fetch, InvalidateAckCounts, InvalidateOtherAck,
         DataValueReply, Rollback, MemOpDone

\* A request of the home comes and goes in Invalidate, Fetch and CacheAck only.
AsksOn(n) == Invalidate(n) \/ Fetch(n)

\* The fronts of blocked queues stay unless a holder blocks or unblocks.
LEMMA FrontsStay ==
  ASSUME CoherenceInv, NEW n \in Node, HandlesOn(n), ~AsksOn(n), ~CacheAck(n)
  PROVE  \A m \in Node, b \in Addr : FirstSame(m, b)
<1>0. Handling(n) BY HandledAdds
<1>1. TypeOK /\ BlockingInv BY InvTypes
<1>2. PICK a \in Addr : a = A(n) BY <1>0, <1>1, CurrentType
<1>3. PICK s \in Node : s = Source(n) BY <1>0, <1>1, CurrentType
<1>4. Draining => Current(n).type \in HomeRequest BY <1>0, <1>2, Hand
<1>5. CASE HomeBusy(n)
  <2>1. ~Serviceable(n) /\ Current(n).type \in HomeRequest /\ Block(n, FALSE)
    BY <1>5, HandlesWhat DEF HomeBusy
  <2> QED BY <1>0, <1>1, <2>1, BlockWaits
<1>6. CASE \/ ReadMissShares(n) \/ ReadMissGivesExclusive(n) \/ WriteMissUncached(n)
           \/ InvalidateOtherRollsBack(n) \/ InvalidateOtherGrants(n)
           \/ InvalidateAckCounts(n)
           \/ InvalidateOtherAck(n) \/ DataValueReply(n) \/ Rollback(n) \/ MemOpDone(n)
  <2>1. Done(n)
    BY <1>6 DEF ReadMissShares, ReadMissGivesExclusive, WriteMissUncached,
         InvalidateOtherRollsBack, InvalidateOtherGrants, InvalidateAckCounts,
         InvalidateOtherAck, DataValueReply, Rollback, MemOpDone
  <2> QED BY <1>0, <1>1, <1>4, <2>1, DoneFirst
<1>7. CASE \/ ReadMissFetches(n) \/ WriteMissFetches(n)
           \/ WriteMissInvalidates(n) \/ InvalidateOtherInvalidates(n)
  <2>1. Current(n).type \in HomeRequest /\ Serviceable(n) /\ Block(n, TRUE)
    BY <1>7, HandlesWhat
       DEF ReadMissFetches, WriteMissFetches, WriteMissInvalidates, ReadMiss, WriteMiss,
           InvalidateOtherInvalidates, HomeRequest
  <2>2. n = Home[a] BY <1>0, <1>2, <1>3, <2>1, RequestHand
  <2> QED BY <1>0, <1>1, <1>2, <2>1, <2>2, BlockServes
<1>8. CASE \/ InvalidateAckGrants(n) \/ WriteBackAnswersWrite(n) \/ WriteBackAnswersRead(n)
  <2>1. /\ Current(n).type \in HomeAnswer /\ Unblock(n)
        /\ Current(n).type = "INVALIDATE_ACK" => LastAck(n)
    BY <1>8, HandlesWhat
       DEF InvalidateAckGrants, InvalidateAck, WriteBackAnswersWrite, WriteBackAnswersRead,
           WriteBack, HomeAnswer
  <2>2. Serving(a) /\ Served(a).type \in HomeRequest /\ FirstType(n, a) \notin OwnerRequest
    BY <1>0, <1>2, <1>3, <2>1, FrontIsServed
  <2>3. n = Home[a] BY <1>0, <1>2, <1>3, <2>1, AckHand
  <2> QED BY <1>0, <1>1, <1>2, <2>1, <2>2, <2>3, UnblockServed
<1> QED BY <1>5, <1>6, <1>7, <1>8 DEF HandlesOn, AsksOn

\* What such a step asks the cache for: an update at most.
LEMMA UpdateAsked ==
  ASSUME TypeOK, NEW n \in Node, HandlesOn(n), ~AsksOn(n)
  PROVE  UNCHANGED cacheMsgQueue \/ SendMsgToCache(n, A(n), "CACHE_UPDATE")
<1>1. CASE \/ HomeBusy(n) \/ ReadMissShares(n) \/ ReadMissGivesExclusive(n) \/ ReadMissFetches(n)
           \/ WriteMissUncached(n) \/ WriteMissInvalidates(n) \/ WriteMissFetches(n)
           \/ InvalidateOtherRollsBack(n) \/ InvalidateOtherInvalidates(n)
           \/ InvalidateOtherGrants(n)
  BY <1>1 DEF HomeBusy, ReadMissShares, ReadMissGivesExclusive, ReadMissFetches, ReadMiss,
         WriteMissUncached, WriteMissInvalidates, WriteMissFetches, WriteMiss,
         InvalidateOtherRollsBack, InvalidateOtherInvalidates, InvalidateOtherGrants
<1>2. CASE \/ InvalidateAckCounts(n) \/ InvalidateAckGrants(n)
           \/ WriteBackAnswersWrite(n) \/ WriteBackAnswersRead(n)
           \/ InvalidateOtherAck(n) \/ DataValueReply(n) \/ Rollback(n)
           \/ MemOpDone(n) \/ CacheAck(n)
  BY <1>2 DEF InvalidateAckCounts, InvalidateAckGrants, InvalidateAck, WriteBackAnswersWrite,
         WriteBackAnswersRead, WriteBack, InvalidateOtherAck, DataValueReply, Rollback,
         MemOpDone, CacheAck
<1> QED BY <1>1, <1>2 DEF HandlesOn, AsksOn

\* A request to a cache is appended to the queue of that cache.
LEMMA AskSent ==
  ASSUME TypeOK, NEW n \in Node, NEW a \in Addr, NEW ask \in CacheRequest,
         SendMsgToCache(n, a, ask)
  PROVE  \E r \in CacheMessage :
           /\ r.type = ask /\ r.addr = a
           /\ \A m \in Node : cacheMsgQueue[m] \in Seq(CacheMessage)
           /\ \A m \in Node : cacheMsgQueue'[m] = IF m = n THEN Append(cacheMsgQueue[m], r)
                                                           ELSE cacheMsgQueue[m]
<1>1. PICK r : r = [type |-> ask, addr |-> a, latency |-> cacheLatency] OBVIOUS
<1>2. r \in CacheMessage /\ r.type = ask /\ r.addr = a BY <1>1 DEF CacheMessage, TypeOK
<1>3. cacheMsgQueue' = [cacheMsgQueue EXCEPT ![n] = Append(@, r)]
  BY <1>1 DEF SendMsgToCache
<1>4. cacheMsgQueue \in [Node -> Seq(CacheMessage)] BY DEF TypeOK
<1>5. \A m \in Node : cacheMsgQueue'[m] = IF m = n THEN Append(cacheMsgQueue[m], r)
                                                  ELSE cacheMsgQueue[m]
  BY <1>3, <1>4
<1> QED BY <1>2, <1>4, <1>5

\* It changes what is asked of that cache for that line only.
LEMMA AsksSameWhenSent ==
  ASSUME TypeOK, NEW n \in Node, NEW a \in Addr, NEW ask \in CacheRequest,
         SendMsgToCache(n, a, ask)
  PROVE  \A m \in Node, b \in Addr : m # n \/ b # a \/ ask \notin CacheAsk => AsksAtCacheSame(m, b)
<1>1. PICK r \in CacheMessage :
        /\ r.type = ask /\ r.addr = a
        /\ \A m \in Node : cacheMsgQueue[m] \in Seq(CacheMessage)
        /\ \A m \in Node : cacheMsgQueue'[m] = IF m = n THEN Append(cacheMsgQueue[m], r)
                                                        ELSE cacheMsgQueue[m]
  BY AskSent
<1> SUFFICES ASSUME NEW m \in Node, NEW b \in Addr, m # n \/ b # a \/ ask \notin CacheAsk,
                    NEW types \in SUBSET CacheAsk
             PROVE  Like(cacheMsgQueue[m], cacheMsgQueue'[m], AsCache(b, types))
  BY DEF AsksAtCacheSame
<1>2. CASE m # n BY <1>1, <1>2, LikeTwice
<1>3. CASE m = n /\ (b # a \/ ask \notin CacheAsk)
  <2>1. r \notin AsCache(b, types) BY <1>1, <1>3 DEF AsCache
  <2> QED BY <1>1, <1>3, <2>1, RequestsLike
<1> QED BY <1>2, <1>3

\* The other handlers change nothing of the requests of homes at caches.
LEMMA QuietHandsCache ==
  ASSUME CoherenceInv, NEW n \in Node, HandlesOn(n), ~AsksOn(n), ~CacheAck(n)
  PROVE  \A m \in Node, b \in Addr : CacheSame(m, b)
<1>0. Handling(n) BY HandledAdds
<1>1. TypeOK BY InvTypes
<1>2. PICK a \in Addr : a = A(n) BY <1>0, <1>1, CurrentType
<1>3. PICK dsts : \E type \in MessageType : Reply(n, dsts, type) /\ type \notin CacheReply
  BY <1>1, HandlerSends
<1>4. PICK type \in MessageType : Reply(n, dsts, type) /\ type \notin CacheAnswer
  BY <1>3, Kinds
<1>5. Current(n).type \notin CacheAnswer
  <2>1. CASE \/ HomeBusy(n) \/ ReadMissShares(n) \/ ReadMissGivesExclusive(n)
             \/ ReadMissFetches(n)
             \/ WriteMissUncached(n) \/ WriteMissInvalidates(n) \/ WriteMissFetches(n)
             \/ InvalidateOtherRollsBack(n) \/ InvalidateOtherInvalidates(n)
             \/ InvalidateOtherGrants(n)
    <3>1. \E ask \in HomeRequest : Handles(n, ask)
      BY <2>1
         DEF HomeBusy, ReadMissShares, ReadMissGivesExclusive, ReadMissFetches, ReadMiss,
             WriteMissUncached, WriteMissInvalidates, WriteMissFetches, WriteMiss,
             InvalidateOtherRollsBack, InvalidateOtherInvalidates, InvalidateOtherGrants,
             HomeRequest
    <3>2. Current(n).type \in HomeRequest BY <3>1, HandlesWhat
    <3> QED BY <3>2 DEF HomeRequest, CacheAnswer
  <2>2. CASE \/ InvalidateAckCounts(n) \/ InvalidateAckGrants(n)
             \/ WriteBackAnswersWrite(n) \/ WriteBackAnswersRead(n)
             \/ InvalidateOtherAck(n) \/ DataValueReply(n) \/ Rollback(n)
             \/ MemOpDone(n)
    BY <2>2, HandlesWhat
       DEF InvalidateAckCounts, InvalidateAckGrants, InvalidateAck, WriteBackAnswersWrite,
           WriteBackAnswersRead, WriteBack, InvalidateOtherAck, DataValueReply, Rollback,
           MemOpDone, CacheAnswer
  <2> QED BY <2>1, <2>2 DEF HandlesOn, AsksOn
<1>6. \A m \in Node, b \in Addr : CacheAnswersSame(m, b)
  BY <1>0, <1>1, <1>4, <1>5, CacheAnswersUnmoved
<1>7. \A m \in Node, b \in Addr : AsksAtCacheSame(m, b)
  <2>1. CASE UNCHANGED cacheMsgQueue BY <2>1, LikeTwice DEF AsksAtCacheSame
  <2>2. CASE SendMsgToCache(n, A(n), "CACHE_UPDATE")
    <3>1. PICK ask \in CacheRequest : ask = "CACHE_UPDATE" BY DEF CacheRequest
    <3>2. ask \notin CacheAsk BY <3>1 DEF CacheAsk
    <3> QED BY <1>1, <1>2, <2>2, <3>1, <3>2, AsksSameWhenSent
  <2> QED BY <1>1, <2>1, <2>2, UpdateAsked
<1> QED BY <1>6, <1>7, FrontsStay DEF CacheSame

\* The request, the queue of the cache and the incoming queue after a step.
OnceAmong(first, q, p, a) ==
  /\ first \notin OwnerRequest
       => None(q, AsCache(a, CacheAsk)) /\ None(p, About(a, CacheAnswer))
  /\ None(q, AsCache(a, CacheAsk)) \/ None(p, About(a, CacheAnswer))
  /\ ~None(q, AsCache(a, CacheAsk)) => One(q, AsCache(a, CacheAsk))
  /\ ~None(p, About(a, CacheAnswer)) => One(p, About(a, CacheAnswer))
  /\ IF first = "FETCH"
     THEN /\ None(q, AsCache(a, {"CACHE_INVALIDATE"}))
          /\ None(p, About(a, {"CACHE_INVALIDATE_ACK"}))
     ELSE /\ None(q, AsCache(a, {"CACHE_FETCH"}))
          /\ None(p, About(a, {"CACHE_FETCH_ACK"}))

\* AtCacheOnce in terms of the front and the two queues it depends on.
LEMMA OnceMeans ==
  ASSUME NEW n \in Node, NEW a \in Addr
  PROVE  /\ AtCacheOnce(n, a)
              <=> OnceAmong(FirstType(n, a), cacheMsgQueue[n], incomingMsgQueue[n], a)
         /\ \A first, q, p :
              /\ first = FirstType(n, a)' /\ q = cacheMsgQueue'[n] /\ p = incomingMsgQueue'[n]
              => (AtCacheOnce(n, a)' <=> OnceAmong(first, q, p, a))
<1>1. AtCacheOnce(n, a)
        <=> OnceAmong(FirstType(n, a), cacheMsgQueue[n], incomingMsgQueue[n], a)
  BY DEF AtCacheOnce, OnceAmong
<1>2. ASSUME NEW first, NEW q, NEW p,
             first = FirstType(n, a)', q = cacheMsgQueue'[n], p = incomingMsgQueue'[n]
      PROVE  AtCacheOnce(n, a)' <=> OnceAmong(first, q, p, a)
  BY <1>2 DEF AtCacheOnce, OnceAmong, AsCache, About
<1> QED BY <1>1, <1>2

\* A queue without messages of some types has none of fewer types.
LEMMA NoneOfFewer ==
  ASSUME NEW q, NEW a, NEW types, NEW others \in SUBSET types
  PROVE  /\ None(q, AsCache(a, types)) => None(q, AsCache(a, others))
         /\ None(q, About(a, types)) => None(q, About(a, others))
  BY DEF None, AsCache, About

\* The holder asks its cache.
LEMMA HolderAsksOnce ==
  ASSUME CoherenceInv, NEW n \in Node, AsksOn(n)
  PROVE  \A m \in Node, b \in Addr : AtCacheOnce(m, b)'
<1>1. /\ Handling(n) /\ Current(n).type \in OwnerRequest /\ NoReply(n) /\ Block(n, TRUE)
      /\ SendMsgToCache(n, A(n), IF Current(n).type = "FETCH" THEN "CACHE_FETCH"
                                                              ELSE "CACHE_INVALIDATE")
  BY HandlesWhat DEF AsksOn, Invalidate, Fetch, OwnerRequest
<1>2. TypeOK /\ BlockingInv /\ CacheInv BY InvTypes DEF CoherenceInv
<1>3. PICK a \in Addr : a = A(n) BY <1>1, <1>2, CurrentType
<1>4. PICK first \in OwnerRequest : first = Current(n).type BY <1>1
<1>5. PICK ask \in CacheRequest :
        /\ ask = IF first = "FETCH" THEN "CACHE_FETCH" ELSE "CACHE_INVALIDATE"
        /\ SendMsgToCache(n, a, ask)
  BY <1>1, <1>3, <1>4 DEF CacheRequest
<1>6. ~Draining /\ FirstType(n, a) \notin OwnerRequest
  BY <1>1, <1>3, HolderHand DEF Asked
<1>7. PICK serviced \in BOOLEAN : serviced = TRUE OBVIOUS
<1>8. /\ FirstType(n, a)' = first
      /\ \A m \in Node, b \in Addr : m # n \/ b # a => FirstSame(m, b)
  BY <1>1, <1>2, <1>3, <1>4, <1>6, <1>7, BlockHolder
<1>9. \A m \in Node, b \in Addr : CacheAnswersSame(m, b)
  <2>1. PICK dsts : dsts = {} OBVIOUS
  <2>2. PICK type \in MessageType : type = "ROLLBACK" /\ Reply(n, dsts, type)
    BY <1>1, <1>2, <2>1, NoReplyIsReply
  <2>3. type \notin CacheAnswer /\ Current(n).type \notin CacheAnswer
    BY <1>1, <2>2, Kinds DEF CacheAnswer
  <2> QED BY <1>1, <1>2, <2>2, <2>3, CacheAnswersUnmoved
<1>10. PICK r \in CacheMessage :
         /\ r.type = ask /\ r.addr = a
         /\ \A m \in Node : cacheMsgQueue[m] \in Seq(CacheMessage)
         /\ \A m \in Node : cacheMsgQueue'[m] = IF m = n THEN Append(cacheMsgQueue[m], r)
                                                         ELSE cacheMsgQueue[m]
  BY <1>2, <1>5, AskSent
<1>11. AtCacheOnce(n, a)'
  <2>1. PICK q : q = cacheMsgQueue'[n] OBVIOUS
  <2>2. PICK p : p = incomingMsgQueue'[n] OBVIOUS
  <2>3. /\ None(cacheMsgQueue[n], AsCache(a, CacheAsk))
        /\ None(incomingMsgQueue[n], About(a, CacheAnswer))
    BY <1>2, <1>6 DEF CacheInv, AtCacheOnce
  <2>4. None(p, About(a, CacheAnswer)) BY <1>9, <2>2, <2>3 DEF CacheAnswersSame, Like
  <2>5. ask \in CacheAsk BY <1>5 DEF CacheAsk
  <2>6. r \in AsCache(a, CacheAsk) BY <1>10, <2>5 DEF AsCache
  <2>7. One(q, AsCache(a, CacheAsk)) BY <1>10, <2>1, <2>3, <2>6, RequestsLike
  <2>8. ASSUME NEW other \in CacheAsk \ {ask} PROVE None(q, AsCache(a, {other}))
    <3>1. r \notin AsCache(a, {other}) BY <1>10, <2>8 DEF AsCache
    <3>2. None(cacheMsgQueue[n], AsCache(a, {other})) BY <2>3, NoneOfFewer
    <3> QED BY <1>10, <2>1, <3>1, <3>2, RequestsLike DEF Like
  <2>9. IF first = "FETCH" THEN None(q, AsCache(a, {"CACHE_INVALIDATE"}))
                           ELSE None(q, AsCache(a, {"CACHE_FETCH"}))
    BY <1>5, <2>8 DEF CacheAsk
  <2>10. /\ None(p, About(a, {"CACHE_INVALIDATE_ACK"}))
         /\ None(p, About(a, {"CACHE_FETCH_ACK"}))
    BY <2>4, NoneOfFewer DEF CacheAnswer
  <2>11. OnceAmong(first, q, p, a) BY <2>4, <2>7, <2>9, <2>10 DEF OnceAmong
  <2> QED BY <1>8, <2>1, <2>2, <2>11, OnceMeans
<1>12. ASSUME NEW m \in Node, NEW b \in Addr, m # n \/ b # a
       PROVE  AtCacheOnce(m, b)'
  <2>1. CacheSame(m, b) BY <1>2, <1>3, <1>5, <1>8, <1>9, <1>12, AsksSameWhenSent DEF CacheSame
  <2> QED BY <1>2, <2>1, AtCacheKept DEF CacheInv
<1> QED BY <1>11, <1>12

\* The holder takes the answer of its cache.
LEMMA CacheAckOnce ==
  ASSUME CoherenceInv, NEW n \in Node, CacheAck(n)
  PROVE  \A m \in Node, b \in Addr : AtCacheOnce(m, b)'
<1>1. /\ Handling(n) /\ Current(n).type \in CacheAnswer /\ Unblock(n)
      /\ UNCHANGED cacheMsgQueue
  BY HandlesWhat DEF CacheAck, CacheAnswer
<1>2. TypeOK /\ BlockingInv /\ CacheInv /\ HoldersFirst BY InvTypes DEF CoherenceInv
<1>3. PICK a \in Addr : a = A(n) BY <1>1, <1>2, CurrentType
<1>4. ~Draining /\ FirstType(n, a) \in OwnerRequest BY <1>1, <1>3, CacheAckHand
<1>5. /\ FirstType(n, a)' \notin OwnerRequest
      /\ \A m \in Node, b \in Addr : m # n \/ b # a => FirstSame(m, b)
  BY <1>1, <1>2, <1>3, <1>4, UnblockHolder
<1>6. HandlesOn(n) BY DEF HandlesOn
<1>7. PICK dsts : \E type \in MessageType : Reply(n, dsts, type) /\ type \notin CacheReply
  BY <1>2, <1>6, HandlerSends
<1>8. PICK type \in MessageType : Reply(n, dsts, type) /\ type \notin CacheAnswer
  BY <1>7, Kinds
<1>9. \A m \in Node, b \in Addr : m # n \/ b # a => CacheAnswersSame(m, b)
  BY <1>1, <1>2, <1>3, <1>8, CacheAnswersUnmoved
<1>10. \A m \in Node, b \in Addr : AsksAtCacheSame(m, b)
  BY <1>1, LikeTwice DEF AsksAtCacheSame
<1>11. AtCacheOnce(n, a)'
  <2>1. PICK q : q = cacheMsgQueue'[n] OBVIOUS
  <2>2. PICK p : p = incomingMsgQueue'[n] OBVIOUS
  <2>3. PICK first : first = FirstType(n, a)' OBVIOUS
  <2>4. /\ Current(n) \in About(a, CacheAnswer)
        /\ NewMessage(n, A(n), type, nodeLatency) \notin About(a, CacheAnswer)
    BY <1>1, <1>2, <1>3, <1>8, HandAbout, SentAbout
  <2>5. /\ ~None(incomingMsgQueue[n], About(a, CacheAnswer))
        /\ One(incomingMsgQueue[n], About(a, CacheAnswer)) => None(p, About(a, CacheAnswer))
    BY <1>1, <1>2, <1>4, <1>8, <2>2, <2>4, Taken
  <2>6. AtCacheOnce(n, a) BY <1>2 DEF CacheInv
  <2>7. None(p, About(a, CacheAnswer)) /\ None(q, AsCache(a, CacheAsk))
    BY <1>1, <2>1, <2>5, <2>6 DEF AtCacheOnce
  <2>8. /\ None(p, About(a, {"CACHE_INVALIDATE_ACK"})) /\ None(p, About(a, {"CACHE_FETCH_ACK"}))
        /\ None(q, AsCache(a, {"CACHE_INVALIDATE"})) /\ None(q, AsCache(a, {"CACHE_FETCH"}))
    BY <2>7, NoneOfFewer DEF CacheAnswer, CacheAsk
  <2>9. OnceAmong(first, q, p, a) BY <2>7, <2>8 DEF OnceAmong
  <2> QED BY <2>1, <2>2, <2>3, <2>9, OnceMeans
<1>12. ASSUME NEW m \in Node, NEW b \in Addr, m # n \/ b # a
       PROVE  AtCacheOnce(m, b)'
  <2>1. CacheSame(m, b) BY <1>5, <1>9, <1>10, <1>12 DEF CacheSame
  <2> QED BY <1>2, <2>1, AtCacheKept DEF CacheInv
<1> QED BY <1>11, <1>12

\* The cache serves a request.
LEMMA WorksOnce ==
  ASSUME CoherenceInv, NEW n \in Node, CacheWorks(n)
  PROVE  \A m \in Node, b \in Addr : AtCacheOnce(m, b)'
<1>1. TypeOK /\ CacheInv BY InvTypes DEF CoherenceInv
<1>2. PICK r \in CacheMessage :
        /\ cacheMsgQueue[n] # <<>> /\ r = Head(cacheMsgQueue[n])
        /\ r.type \in CacheRequest /\ r.addr \in Addr
        /\ cacheMsgQueue' = [cacheMsgQueue EXCEPT ![n] = Tail(@)]
        /\ CacheReplies(n, r.addr, AnswerTo[r.type])
  BY <1>1, ServedIs
<1>3. PICK a \in Addr : a = r.addr BY <1>2
<1>4. PICK type : type = AnswerTo[r.type] OBVIOUS
<1>5. PICK x : x = NewMessage(n, a, type, cacheLatency) OBVIOUS
<1>6. /\ type \in CacheReply /\ type \in MessageType
      /\ type \in CacheAnswer <=> r.type \in CacheAsk
      /\ type = "CACHE_INVALIDATE_ACK" <=> r.type = "CACHE_INVALIDATE"
      /\ type = "CACHE_FETCH_ACK" <=> r.type = "CACHE_FETCH"
  BY <1>2, <1>4, AnswerKinds
<1>7. x \in Message /\ x.type = type /\ x.addr = a
  BY <1>1, <1>5, <1>6, NewMessageType DEF TypeOK, NewMessage
<1>8. UNCHANGED blockedMsgMap
  BY DEF CacheWorks, CacheReads, CacheInvalidates, CacheFetches, CacheUpdates, CacheServes
<1>9. \A m \in Node, b \in Addr : FirstType(m, b)' = FirstType(m, b) /\ FirstSame(m, b)
  BY <1>8 DEF FirstType, FirstSame
<1>10. \A m \in Node :
         /\ cacheMsgQueue[m] \in Seq(CacheMessage) /\ incomingMsgQueue[m] \in Seq(Message)
         /\ cacheMsgQueue'[m] = IF m = n THEN Tail(cacheMsgQueue[n]) ELSE cacheMsgQueue[m]
         /\ incomingMsgQueue'[m] = IF m = n THEN Append(incomingMsgQueue[n], x)
                                            ELSE incomingMsgQueue[m]
  BY <1>1, <1>2, <1>3, <1>4, <1>5 DEF TypeOK, CacheReplies
<1>11. \A types, b : /\ r \in AsCache(b, types) <=> a = b /\ r.type \in types
                     /\ x \in About(b, types) <=> a = b /\ type \in types
  BY <1>3, <1>7 DEF AsCache, About
<1>12. ASSUME NEW m \in Node, NEW b \in Addr, m # n \/ b # a \/ r.type \notin CacheAsk
       PROVE  AtCacheOnce(m, b)'
  <2>1. ASSUME NEW types \in SUBSET CacheAsk
        PROVE  Like(cacheMsgQueue[m], cacheMsgQueue'[m], AsCache(b, types))
    <3>1. CASE m # n BY <1>10, <3>1, LikeTwice
    <3>2. CASE m = n
      <4>1. r \notin AsCache(b, types) BY <1>11, <1>12, <3>2
      <4> QED BY <1>2, <1>10, <3>2, <4>1, RequestsLike
    <3> QED BY <3>1, <3>2
  <2>2. ASSUME NEW types \in SUBSET CacheAnswer
        PROVE  Like(incomingMsgQueue[m], incomingMsgQueue'[m], About(b, types))
    <3>1. CASE m # n BY <1>10, <3>1, LikeTwice
    <3>2. CASE m = n
      <4>1. x \notin About(b, types) BY <1>6, <1>11, <1>12, <3>2
      <4> QED BY <1>7, <1>10, <3>2, <4>1, AppendLike
    <3> QED BY <3>1, <3>2
  <2>3. CacheSame(m, b)
    BY <1>9, <2>1, <2>2 DEF CacheSame, AsksAtCacheSame, CacheAnswersSame
  <2> QED BY <1>1, <2>3, AtCacheKept DEF CacheInv
<1>13. ASSUME r.type \in CacheAsk PROVE AtCacheOnce(n, a)'
  <2>1. PICK q : q = cacheMsgQueue'[n] OBVIOUS
  <2>2. PICK p : p = incomingMsgQueue'[n] OBVIOUS
  <2>3. PICK first : first = FirstType(n, a) OBVIOUS
  <2>4. AtCacheOnce(n, a) BY <1>1 DEF CacheInv
  <2>5. PICK q0 \in Seq(CacheMessage) : q0 = cacheMsgQueue[n] /\ q0 # <<>> /\ Head(q0) = r
    BY <1>2, <1>10
  <2>6. PICK p0 \in Seq(Message) : p0 = incomingMsgQueue[n] BY <1>10
  <2>7. q = Tail(q0) /\ p = Append(p0, x) BY <1>10, <2>1, <2>2, <2>5, <2>6
  <2>8. OnceAmong(first, q0, p0, a) BY <2>3, <2>4, <2>5, <2>6, OnceMeans
  <2>9. r \in AsCache(a, CacheAsk) /\ x \in About(a, CacheAnswer) BY <1>6, <1>11, <1>13
  <2>10. ~None(q0, AsCache(a, CacheAsk)) BY <2>5, <2>9, RequestsLike
  <2>11. /\ first \in OwnerRequest /\ One(q0, AsCache(a, CacheAsk))
         /\ None(p0, About(a, CacheAnswer))
    BY <2>8, <2>10 DEF OnceAmong
  <2>12. None(q, AsCache(a, CacheAsk)) BY <2>5, <2>7, <2>9, <2>11, RequestsLike
  <2>13. One(p, About(a, CacheAnswer)) BY <1>7, <2>6, <2>7, <2>9, <2>11, AppendLike
  <2>14. None(q, AsCache(a, {"CACHE_INVALIDATE"})) /\ None(q, AsCache(a, {"CACHE_FETCH"}))
    BY <2>12, NoneOfFewer DEF CacheAsk
  <2>15. /\ None(p0, About(a, {"CACHE_INVALIDATE_ACK"}))
         /\ None(p0, About(a, {"CACHE_FETCH_ACK"}))
    BY <2>11, NoneOfFewer DEF CacheAnswer
  <2>16. /\ r.type # "CACHE_INVALIDATE" => None(p, About(a, {"CACHE_INVALIDATE_ACK"}))
         /\ r.type # "CACHE_FETCH" => None(p, About(a, {"CACHE_FETCH_ACK"}))
    <3>1. /\ r.type # "CACHE_INVALIDATE" => x \notin About(a, {"CACHE_INVALIDATE_ACK"})
          /\ r.type # "CACHE_FETCH" => x \notin About(a, {"CACHE_FETCH_ACK"})
      BY <1>6, <1>11
    <3> QED BY <1>7, <2>6, <2>7, <2>15, <3>1, AppendLike DEF Like
  <2>17. r.type = IF first = "FETCH" THEN "CACHE_FETCH" ELSE "CACHE_INVALIDATE"
    <3>1. /\ r \in AsCache(a, {r.type}) BY <1>11
    <3>2. ~None(q0, AsCache(a, {r.type})) BY <2>5, <3>1, RequestsLike
    <3>3. IF first = "FETCH" THEN r.type # "CACHE_INVALIDATE" ELSE r.type # "CACHE_FETCH"
      BY <2>8, <3>2 DEF OnceAmong
    <3> QED BY <1>13, <3>3 DEF CacheAsk
  <2>18. IF first = "FETCH" THEN None(p, About(a, {"CACHE_INVALIDATE_ACK"}))
                            ELSE None(p, About(a, {"CACHE_FETCH_ACK"}))
    BY <2>16, <2>17
  <2>19. OnceAmong(first, q, p, a) BY <2>11, <2>12, <2>13, <2>14, <2>18 DEF OnceAmong
  <2>20. first = FirstType(n, a)' BY <1>9, <2>3
  <2> QED BY <2>1, <2>2, <2>19, <2>20, OnceMeans
<1> QED BY <1>12, <1>13

\* The queues grow older, or the loop and the processor go on.
LEMMA SameLike ==
  ASSUME NEW q, NEW r, NEW S, Len(r) = Len(q), \A i \in 1..Len(q) : r[i] \in S <=> q[i] \in S
  PROVE  Like(q, r, S)
  BY DEF Like, None, One

IdlesOn(n) == CacheTick(n) \/ HandlerTick(n) \/ DrainEnds(n) \/ ProcessorWaits(n)

\* A component that only waits or ages its queues changes nothing of them.
LEMMA IdleSame ==
  ASSUME TypeOK, NEW n \in Node, IdlesOn(n) \/ UNCHANGED vars, NEW m \in Node, NEW b \in Addr
  PROVE  /\ CacheSame(m, b)
         /\ \/ cacheMsgQueue'[m] = cacheMsgQueue[m]
            \/ cacheMsgQueue'[m] = Older(cacheMsgQueue[m])
<1>1. UNCHANGED blockedMsgMap
  BY DEF IdlesOn, CacheTick, HandlerTick, DrainEnds, ProcessorWaits, ProcessorTurn, procVars, vars
<1>2. FirstSame(m, b) BY <1>1 DEF FirstType, FirstSame
<1>3. PICK q \in Seq(Message) : q = incomingMsgQueue[m] BY DEF TypeOK
<1>4. PICK u \in Seq(CacheMessage) : u = cacheMsgQueue[m] BY DEF TypeOK
<1>5. incomingMsgQueue'[m] = q \/ incomingMsgQueue'[m] = Older(q)
  BY <1>3 DEF IdlesOn, CacheTick, HandlerTick, DrainEnds, ProcessorWaits, TypeOK, vars
<1>6. cacheMsgQueue'[m] = u \/ cacheMsgQueue'[m] = Older(u)
  BY <1>4 DEF IdlesOn, CacheTick, HandlerTick, DrainEnds, ProcessorWaits, ProcessorTurn,
              cacheVars, TypeOK, vars
<1>7. CacheAnswersSame(m, b)
  <2>1. ASSUME NEW types PROVE Like(q, Older(q), About(b, types))
    <3>1. \A i \in 1..Len(q) : Older(q)[i] \in About(b, types) <=> q[i] \in About(b, types)
      BY OlderMessages DEF About
    <3> QED BY <3>1, OlderMessages, SameLike
  <2> QED BY <1>3, <1>5, <2>1, LikeTwice DEF CacheAnswersSame
<1>8. AsksAtCacheSame(m, b)
  <2>1. ASSUME NEW types PROVE Like(u, Older(u), AsCache(b, types))
    <3>1. \A i \in 1..Len(u) : Older(u)[i] \in AsCache(b, types) <=> u[i] \in AsCache(b, types)
      BY OlderRequests DEF AsCache
    <3> QED BY <3>1, OlderRequests, SameLike
  <2> QED BY <1>4, <1>6, <2>1, LikeTwice DEF AsksAtCacheSame
<1> QED BY <1>2, <1>4, <1>6, <1>7, <1>8 DEF CacheSame

\* The processor starts an operation.
LEMMA StartSame ==
  ASSUME CoherenceInv, NEW n \in Node, HandleMemOpRequest(n)
  PROVE  \A m \in Node, b \in Addr : CacheSame(m, b)
<1>1. TypeOK BY InvTypes
<1>2. UNCHANGED blockedMsgMap BY StartIs
<1>3. \A m \in Node, b \in Addr : FirstSame(m, b) BY <1>2 DEF FirstType, FirstSame
<1>4. PICK op \in Op : \/ \E type \in HomeRequest : AskHome(n, op.addr, type)
                       \/ \E type \in Accesses : AskCache(n, op.addr, type)
  BY StartIs
<1>5. PICK a \in Addr : a = op.addr BY DEF Op
<1>6. CASE \E type \in HomeRequest : AskHome(n, op.addr, type)
  <2>1. PICK type \in HomeRequest : AskHome(n, a, type) BY <1>5, <1>6
  <2>2. PICK x : x = NewMessage(n, a, type, nodeLatency) OBVIOUS
  <2>3. x \in Message /\ x.type \notin CacheAnswer
    BY <1>1, <2>2, NewMessageType DEF TypeOK, MessageType, NewMessage, HomeRequest, CacheAnswer
  <2>4. \A m \in Node : incomingMsgQueue'[m] = IF m = Home[a] THEN Append(incomingMsgQueue[m], x)
                                                              ELSE incomingMsgQueue[m]
    BY <2>1, <2>2 DEF AskHome, SendMsgToNode
  <2>5. UNCHANGED cacheMsgQueue BY <2>1 DEF AskHome
  <2>6. ASSUME NEW m \in Node, NEW b \in Addr PROVE CacheAnswersSame(m, b)
    <3>1. \A types \in SUBSET CacheAnswer : x \notin About(b, types) BY <2>3 DEF About
    <3>2. incomingMsgQueue[m] \in Seq(Message) BY <1>1 DEF TypeOK
    <3> QED BY <2>3, <2>4, <3>1, <3>2, AppendLike, LikeTwice DEF CacheAnswersSame
  <2>7. \A m \in Node, b \in Addr : AsksAtCacheSame(m, b)
    BY <2>5, LikeTwice DEF AsksAtCacheSame
  <2> QED BY <1>3, <2>6, <2>7 DEF CacheSame
<1>7. CASE \E type \in Accesses : AskCache(n, op.addr, type)
  <2>1. PICK type \in Accesses : AskCache(n, a, type) BY <1>5, <1>7
  <2>2. UNCHANGED incomingMsgQueue /\ SendMsgToCache(n, a, type) BY <2>1 DEF AskCache
  <2>3. type \in CacheRequest /\ type \notin CacheAsk BY DEF Accesses, CacheRequest, CacheAsk
  <2>4. \A m \in Node, b \in Addr : AsksAtCacheSame(m, b)
    BY <1>1, <2>2, <2>3, AsksSameWhenSent
  <2>5. \A m \in Node, b \in Addr : CacheAnswersSame(m, b)
    BY <2>2, LikeTwice DEF CacheAnswersSame
  <2> QED BY <1>3, <2>4, <2>5 DEF CacheSame
<1> QED BY <1>4, <1>6, <1>7

\* No step has a cache asked twice for the home.
LEMMA AtCacheOnceStep ==
  ASSUME LinesFit, CoherenceInv, [Next]_vars, NEW m \in Node, NEW b \in Addr
  PROVE  AtCacheOnce(m, b)'
<1>1. TypeOK /\ AtCacheOnce(m, b) BY InvTypes DEF CoherenceInv, CacheInv
<1>2. CASE CacheSame(m, b) BY <1>1, <1>2, AtCacheKept
<1>3. ASSUME NEW n \in Node, RunsOn(n) PROVE AtCacheOnce(m, b)'
  <2>1. CASE CacheWorks(n) BY <2>1, WorksOnce
  <2>2. CASE IdlesOn(n) BY <1>1, <1>2, <2>2, IdleSame
  <2> QED BY <1>3, <2>1, <2>2 DEF RunsOn, CacheWorks, IdlesOn
<1>4. ASSUME NEW n \in Node, HandlesOn(n) PROVE AtCacheOnce(m, b)'
  BY <1>2, <1>4, HolderAsksOnce, CacheAckOnce, QuietHandsCache
<1>5. ASSUME NEW n \in Node, HandleMemOpRequest(n) PROVE AtCacheOnce(m, b)'
  BY <1>2, <1>5, StartSame
<1>6. CASE UNCHANGED vars BY <1>1, <1>2, <1>6, IdleSame
<1> QED BY <1>3, <1>4, <1>5, <1>6, StepsOnly

\* Requests of the handler follow an update.
AsksFollow(q, a) ==
  \A i \in 1..Len(q) : q[i] \in AsCache(a, CacheAsk)
    => \E j \in 1..Len(q) : j < i /\ q[j] \in UpdatesOf(a)

\* A request that follows the update it needs does so when others come and go.
LEMMA FollowsKept ==
  ASSUME NEW q \in Seq(CacheMessage), NEW a, AsksFollow(q, a)
  PROVE  /\ AsksFollow(Older(q), a)
         /\ q # <<>> /\ Head(q) \notin UpdatesOf(a) => AsksFollow(Tail(q), a)
         /\ \A x \in CacheMessage : x \notin AsCache(a, CacheAsk) \/ ~None(q, UpdatesOf(a))
              => AsksFollow(Append(q, x), a)
<1>1. AsksFollow(Older(q), a)
  <2>1. /\ Len(Older(q)) = Len(q)
        /\ \A i \in 1..Len(q) : /\ Older(q)[i] \in AsCache(a, CacheAsk)
                                     <=> q[i] \in AsCache(a, CacheAsk)
                                /\ Older(q)[i] \in UpdatesOf(a) <=> q[i] \in UpdatesOf(a)
    BY OlderRequests DEF AsCache, UpdatesOf
  <2> QED BY <2>1 DEF AsksFollow
<1>2. ASSUME q # <<>>, Head(q) \notin UpdatesOf(a) PROVE AsksFollow(Tail(q), a)
  <2>1. /\ Len(Tail(q)) = Len(q) - 1 /\ Len(q) \in Nat /\ Len(q) >= 1 /\ Head(q) = q[1]
        /\ \A i \in 1..Len(Tail(q)) : Tail(q)[i] = q[i + 1]
    BY <1>2, HeadTailProperties, EmptySeq, LenProperties
  <2> SUFFICES ASSUME NEW i \in 1..Len(Tail(q)), Tail(q)[i] \in AsCache(a, CacheAsk)
               PROVE  \E j \in 1..Len(Tail(q)) : j < i /\ Tail(q)[j] \in UpdatesOf(a)
    BY DEF AsksFollow
  <2>2. i + 1 \in 1..Len(q) /\ q[i + 1] \in AsCache(a, CacheAsk) BY <2>1
  <2>3. PICK j \in 1..Len(q) : j < i + 1 /\ q[j] \in UpdatesOf(a) BY <2>2 DEF AsksFollow
  <2>4. j # 1 BY <1>2, <2>1, <2>3
  <2>5. j - 1 \in 1..Len(Tail(q)) /\ j - 1 < i BY <2>1, <2>3, <2>4
  <2>6. Tail(q)[j - 1] = q[j - 1 + 1] /\ j - 1 + 1 = j BY <2>1, <2>5
  <2>7. Tail(q)[j - 1] \in UpdatesOf(a) BY <2>3, <2>6
  <2> QED BY <2>5, <2>7
<1>3. ASSUME NEW x \in CacheMessage, x \notin AsCache(a, CacheAsk) \/ ~None(q, UpdatesOf(a))
      PROVE  AsksFollow(Append(q, x), a)
  <2>1. PICK r : r = Append(q, x) OBVIOUS
  <2>2. /\ Len(q) \in Nat /\ Len(r) = Len(q) + 1 /\ r[Len(q) + 1] = x
        /\ \A i \in 1..Len(q) : r[i] = q[i]
    BY <2>1, AppendProperties, LenProperties
  <2>3. ASSUME NEW i \in 1..Len(r), r[i] \in AsCache(a, CacheAsk)
        PROVE  \E j \in 1..Len(r) : j < i /\ r[j] \in UpdatesOf(a)
    <3>1. CASE i \in 1..Len(q)
      <4>1. PICK j \in 1..Len(q) : j < i /\ q[j] \in UpdatesOf(a)
        BY <2>2, <2>3, <3>1 DEF AsksFollow
      <4> QED BY <2>2, <4>1
    <3>2. CASE i = Len(q) + 1
      <4>1. PICK j \in 1..Len(q) : q[j] \in UpdatesOf(a)
        BY <1>3, <2>2, <2>3, <3>2 DEF None
      <4>2. j \in 1..Len(r) /\ j < i /\ r[j] = q[j] BY <2>2, <3>2, <4>1
      <4> QED BY <4>1, <4>2
    <3> QED BY <2>2, <3>1, <3>2
  <2> QED BY <2>1, <2>3 DEF AsksFollow
<1> QED BY <1>1, <1>2, <1>3

\* A line that is in the cache stays there, and an update brings its line.
LEMMA HoldsStay ==
  ASSUME LinesFit, CoherenceInv, [Next]_vars
  PROVE  /\ \A m \in Node, b \in Addr : Holds(Lines(m, b), b) => Holds(Lines(m, b), b)'
         /\ \A n \in Node, a \in Addr :
              CacheUpdates(n) /\ a = Head(cacheMsgQueue[n]).addr => Holds(Lines(n, a), a)'
<1>1. TypeOK BY InvTypes
<1>2. ASSUME NEW n \in Node, CacheUpdates(n)
      PROVE  /\ \A m \in Node, b \in Addr : Holds(Lines(m, b), b) => Holds(Lines(m, b), b)'
             /\ \A a \in Addr : a = Head(cacheMsgQueue[n]).addr => Holds(Lines(n, a), a)'
  <2>1. PICK a : a = Head(cacheMsgQueue[n]).addr OBVIOUS
  <2>2. CacheServes(n, "CACHE_UPDATE") /\ "CACHE_UPDATE" \in CacheRequest
    BY <1>2 DEF CacheUpdates, CacheRequest
  <2>3. a \in Addr BY <1>1, <2>1, <2>2, ServesMarks
  <2>4. ~Evicts(Lines(n, a), a, Ways) /\ SetLines(n, a, UpdateLine(Lines(n, a), a, Ways))
    BY <1>2, <2>1 DEF CacheUpdates
  <2>5. PICK q \in Seq(Addr) : q = Lines(n, a) BY <1>1, <2>3, LinesType
  <2>6. PICK r : r = UpdateLine(q, a, Ways) OBVIOUS
  <2>7. Holds(r, a) /\ \A b \in Addr : Holds(q, b) => Holds(r, b)
    BY <2>3, <2>4, <2>5, <2>6, UpdateHolds
  <2>8. \A b \in Addr : SetIndex[b] \in CacheSets BY DEF CacheSets
  <2>9. \A m \in Node, b \in Addr : cache'[m][SetIndex[b]]
          = IF m = n /\ SetIndex[b] = SetIndex[a] THEN r ELSE cache[m][SetIndex[b]]
    BY <1>1, <2>3, <2>4, <2>5, <2>6, <2>8 DEF SetLines, TypeOK
  <2>10. \A m \in Node, b \in Addr : Holds(Lines(m, b), b) => Holds(cache'[m][SetIndex[b]], b)
    BY <2>5, <2>7, <2>9 DEF Lines
  <2>11. \A m \in Node, b \in Addr : Holds(Lines(m, b), b)' <=> Holds(cache'[m][SetIndex[b]], b)
    BY DEF Lines, Holds
  <2>12. Holds(cache'[n][SetIndex[a]], a) BY <2>3, <2>7, <2>9
  <2> QED BY <2>1, <2>3, <2>10, <2>11, <2>12
<1>3. CASE UNCHANGED cache BY <1>2, <1>3 DEF Lines, Holds
<1> QED BY <1>2, <1>3, CacheAfter

\* No handler asks a cache for a line that is neither there nor to come.
LEMMA HandlesFollow ==
  ASSUME LinesFit, CoherenceInv, NEW n \in Node, HandlesOn(n), NEW m \in Node, NEW b \in Addr,
         AsksFollow(cacheMsgQueue[m], b), ~Holds(Lines(m, b), b)
  PROVE  AsksFollow(cacheMsgQueue'[m], b)
<1>1. TypeOK /\ MessagesOK /\ LinesInv BY InvTypes DEF CoherenceInv, OutstandingInv
<1>2. Handling(n) BY HandledAdds
<1>3. PICK a \in Addr : a = A(n) BY <1>1, <1>2, CurrentType
<1>4. CASE UNCHANGED cacheMsgQueue BY <1>4
<1>5. ASSUME NEW ask \in CacheRequest, SendMsgToCache(n, a, ask),
             ask \in CacheAsk => LineStatus(n) # "I"
      PROVE  AsksFollow(cacheMsgQueue'[m], b)
  <2>1. PICK r \in CacheMessage :
          /\ r.type = ask /\ r.addr = a
          /\ \A o \in Node : cacheMsgQueue[o] \in Seq(CacheMessage)
          /\ \A o \in Node : cacheMsgQueue'[o] = IF o = n THEN Append(cacheMsgQueue[o], r)
                                                          ELSE cacheMsgQueue[o]
    BY <1>1, <1>5, AskSent
  <2>2. CASE m # n BY <2>1, <2>2
  <2>3. CASE m = n
    <3>1. r \notin AsCache(b, CacheAsk) \/ ~None(cacheMsgQueue[m], UpdatesOf(b))
      <4> SUFFICES ASSUME r \in AsCache(b, CacheAsk) PROVE ~None(cacheMsgQueue[m], UpdatesOf(b))
        OBVIOUS
      <4>1. a = b /\ ask \in CacheAsk BY <2>1 DEF AsCache
      <4>2. cacheLineStatus[m][b] # "I" BY <1>3, <1>5, <2>3, <4>1 DEF LineStatus
      <4>3. None(incomingMsgQueue[m], AlertsOf(b))
        BY <1>1 DEF MessagesOK, IncomingOK, None, AlertsOf
      <4>4. LinePresent(m, b) BY <1>1 DEF LinesInv
      <4> QED BY <4>2, <4>3, <4>4 DEF LinePresent
    <3> QED BY <2>1, <2>3, <3>1, FollowsKept
  <2> QED BY <2>2, <2>3
<1>6. CASE AsksOn(n)
  <2>1. \E ask \in CacheRequest : SendMsgToCache(n, A(n), ask) /\ LineStatus(n) # "I"
    BY <1>6 DEF AsksOn, Invalidate, Fetch, CacheRequest
  <2>2. PICK ask \in CacheRequest : SendMsgToCache(n, A(n), ask) /\ LineStatus(n) # "I"
    BY <2>1
  <2> QED BY <1>3, <1>5, <2>2
<1>7. CASE SendMsgToCache(n, A(n), "CACHE_UPDATE")
  <2>1. PICK ask \in CacheRequest : ask = "CACHE_UPDATE" BY DEF CacheRequest
  <2>2. ask \notin CacheAsk BY <2>1 DEF CacheAsk
  <2> QED BY <1>3, <1>5, <1>7, <2>1, <2>2
<1> QED BY <1>1, <1>4, <1>6, <1>7, UpdateAsked

\* No step makes a request of the home miss its line in the cache.
LEMMA AsksFoundStep ==
  ASSUME LinesFit, CoherenceInv, [Next]_vars, NEW m \in Node, NEW b \in Addr
  PROVE  AsksFound(m, b)'
<1>1. TypeOK /\ AsksFound(m, b) BY InvTypes DEF CoherenceInv, CacheInv
<1>2. PICK q : q = cacheMsgQueue'[m] OBVIOUS
<1>3. CASE Holds(Lines(m, b), b)
  <2>1. Holds(Lines(m, b), b)' BY <1>3, HoldsStay
  <2> QED BY <2>1 DEF AsksFound
<1>4. ASSUME AsksFollow(q, b) PROVE AsksFound(m, b)'
  BY <1>2, <1>4 DEF AsksFound, AsksFollow, AsCache, UpdatesOf
<1>5. PICK u \in Seq(CacheMessage) : u = cacheMsgQueue[m] BY <1>1 DEF TypeOK
<1>6. CASE ~Holds(Lines(m, b), b)
  <2>1. AsksFollow(u, b) BY <1>1, <1>5, <1>6 DEF AsksFound, AsksFollow
  <2>2. ASSUME NEW n \in Node, IdlesOn(n) \/ UNCHANGED vars PROVE AsksFollow(q, b)
    <3>1. q = u \/ q = Older(u) BY <1>1, <1>2, <1>5, <2>2, IdleSame
    <3> QED BY <2>1, <3>1, FollowsKept
  <2>3. ASSUME NEW n \in Node, CacheWorks(n) PROVE AsksFound(m, b)'
    <3>1. PICK r \in CacheMessage :
            /\ cacheMsgQueue[n] # <<>> /\ r = Head(cacheMsgQueue[n])
            /\ r.type \in CacheRequest /\ r.addr \in Addr
            /\ cacheMsgQueue' = [cacheMsgQueue EXCEPT ![n] = Tail(@)]
      BY <1>1, <2>3, ServedIs
    <3>2. CASE m # n
      <4>1. q = u BY <1>1, <1>2, <1>5, <3>1, <3>2 DEF TypeOK
      <4> QED BY <1>4, <2>1, <4>1
    <3>3. CASE m = n /\ r \notin UpdatesOf(b)
      <4>1. q = Tail(u) /\ u # <<>> /\ r = Head(u) BY <1>1, <1>2, <1>5, <3>1, <3>3 DEF TypeOK
      <4>2. AsksFollow(q, b) BY <2>1, <3>3, <4>1, FollowsKept
      <4> QED BY <1>4, <4>2
    <3>4. CASE m = n /\ r \in UpdatesOf(b)
      <4>1. r.type = "CACHE_UPDATE" /\ r.addr = b BY <3>4 DEF UpdatesOf
      <4>2. CacheUpdates(n)
        BY <2>3, <3>1, <4>1 DEF CacheWorks, CacheReads, CacheInvalidates, CacheFetches, CacheServes
      <4>3. Holds(Lines(m, b), b)' BY <3>1, <3>4, <4>1, <4>2, HoldsStay
      <4> QED BY <4>3 DEF AsksFound
    <3> QED BY <3>2, <3>3, <3>4
  <2>4. ASSUME NEW n \in Node, HandlesOn(n) PROVE AsksFollow(q, b)
    BY <1>2, <1>5, <1>6, <2>1, <2>4, HandlesFollow
  <2>5. ASSUME NEW n \in Node, HandleMemOpRequest(n) PROVE AsksFollow(q, b)
    <3>1. PICK op \in Op : \/ \E type \in HomeRequest : AskHome(n, op.addr, type)
                           \/ \E type \in Accesses : AskCache(n, op.addr, type)
      BY <2>5, StartIs
    <3>2. PICK a \in Addr : a = op.addr BY DEF Op
    <3>3. CASE \E type \in HomeRequest : AskHome(n, op.addr, type)
      BY <1>2, <1>5, <2>1, <3>3 DEF AskHome
    <3>4. CASE \E type \in Accesses : AskCache(n, op.addr, type)
      <4>1. PICK type \in Accesses : SendMsgToCache(n, a, type) BY <3>2, <3>4 DEF AskCache
      <4>2. type \in CacheRequest /\ type \notin CacheAsk
        BY DEF Accesses, CacheRequest, CacheAsk
      <4>3. PICK r \in CacheMessage :
              /\ r.type = type /\ r.addr = a
              /\ \A o \in Node : cacheMsgQueue'[o] = IF o = n THEN Append(cacheMsgQueue[o], r)
                                                              ELSE cacheMsgQueue[o]
        BY <1>1, <4>1, <4>2, AskSent
      <4>4. r \notin AsCache(b, CacheAsk) BY <4>2, <4>3 DEF AsCache
      <4>5. q = u \/ q = Append(u, r) BY <1>2, <1>5, <4>3
      <4> QED BY <2>1, <4>4, <4>5, FollowsKept
    <3> QED BY <3>1, <3>3, <3>4
  <2>6. ASSUME NEW n \in Node, RunsOn(n) PROVE AsksFound(m, b)'
    BY <1>4, <2>2, <2>3, <2>6 DEF RunsOn, CacheWorks, IdlesOn
  <2>7. CASE UNCHANGED vars BY <1>4, <2>2, <2>7
  <2> QED BY <1>4, <2>4, <2>5, <2>6, <2>7, StepsOnly
<1> QED BY <1>3, <1>6

-------------------------------------------------------------------------------
(* The invariant holds. *)

\* Every step keeps the invariant, ...
LEMMA CoherenceStep ==
  LinesFit /\ CoherenceInv /\ [Next]_vars => CoherenceInv'
<1> SUFFICES ASSUME LinesFit, CoherenceInv, [Next]_vars PROVE CoherenceInv'
  OBVIOUS
<1>1. OutstandingInv' BY OutstandingStep DEF CoherenceInv
<1>2. \A n \in Node, s \in CacheSets : SetFits(n, s)' BY SetFitsStep
<1>3. MessagesOK' /\ MissesOK' /\ HoldersFirst' /\ halt' = "no" BY QueuesStep
<1>4. \A a \in Addr : LineInv(a)' BY LineStep
<1>5. CacheInv' BY AtCacheOnceStep, AsksFoundStep DEF CacheInv
<1> QED BY <1>1, <1>2, <1>3, <1>4, <1>5 DEF CoherenceInv

\* ... and it holds initially.
LEMMA CoherenceInit ==
  LinesFit /\ Init => CoherenceInv
<1> SUFFICES ASSUME LinesFit, Init PROVE CoherenceInv
  OBVIOUS
<1>1. OutstandingInv BY OutstandingInit
<1>2. /\ halt = "no"
      /\ \A n \in Node : incomingMsgQueue[n] = <<>> /\ cacheMsgQueue[n] = <<>>
      /\ \A n \in Node, a \in Addr : blockedMsgMap[n][a] = <<>> /\ cacheLineStatus[n][a] = "I"
      /\ \A a \in Addr : pendingInvAckCount[a] = 0 /\ directory[a] = NoEntry
      /\ \A n \in Node, s \in CacheSets : cache[n][s] = <<>>
  BY DEF Init, LinesFit
<1>3. \A S : None(<<>>, S) BY DEF None
<1>4. \A n \in Node, s \in CacheSets : SetFits(n, s)
  <2> SUFFICES ASSUME NEW n \in Node, NEW s \in CacheSets PROVE SetFits(n, s)
    OBVIOUS
  <2>1. IsFiniteSet(LinesOf(s)) BY DEF LinesFit
  <2>2. PICK H : H = {a \in LinesOf(s) : Holds(cache[n][s], a)} OBVIOUS
  <2>3. IsFiniteSet(H) BY <2>1, <2>2, FS_Subset
  <2>4. Cardinality(H) \in Nat BY <2>3, FS_CardinalityType
  <2>5. Len(cache[n][s]) = 0 BY <1>2
  <2> QED BY <2>2, <2>4, <2>5 DEF SetFits
<1>5. MessagesOK BY <1>2 DEF MessagesOK
<1>6. MissesOK BY <1>2, <1>3 DEF MissesOK
<1>7. HoldersFirst BY <1>2 DEF HoldersFirst
<1>8. CacheInv
  <2>1. "none" \notin OwnerRequest /\ "none" # "FETCH" BY DEF OwnerRequest
  <2>2. ASSUME NEW n \in Node, NEW a \in Addr PROVE AtCacheOnce(n, a) /\ AsksFound(n, a)
    <3>1. FirstType(n, a) = "none" BY <1>2 DEF FirstType
    <3>2. incomingMsgQueue[n] = <<>> /\ cacheMsgQueue[n] = <<>> BY <1>2
    <3>3. AtCacheOnce(n, a) BY <1>3, <2>1, <3>1, <3>2 DEF AtCacheOnce
    <3>4. AsksFound(n, a) BY <3>2 DEF AsksFound
    <3> QED BY <3>3, <3>4
  <2> QED BY <2>2 DEF CacheInv
<1>9. ASSUME NEW a \in Addr PROVE LineInv(a)
  <2>1. Home[a] \in Node BY ContextAssumption
  <2>2. ~Serving(a) BY <1>2, <2>1 DEF Serving, Requests, FirstType, OwnerRequest
  <2>3. Mask(a) = {} /\ directory[a].status = "ABSENT" BY <1>2 DEF Mask, NoEntry
  <2>4. ASSUME NEW n \in Node PROVE Lacks(n, a)
    <3>1. FirstType(n, a) \notin OwnerRequest BY <1>2 DEF FirstType, OwnerRequest
    <3>2. Clear(n, a) BY <1>2, <1>3, <2>1, <3>1 DEF Clear
    <3>3. Has(n, a, "I") BY <1>2, <1>3 DEF Has, NoGrant
    <3> QED BY <3>2, <3>3 DEF Lacks
  <2>5. AtRest(a) BY <1>2, <2>2, <2>3, <2>4 DEF AtRest
  <2>6. GrantsFirst(a) BY <1>2 DEF GrantsFirst, Before
  <2> QED BY <2>5, <2>6 DEF LineInv
<1> QED BY <1>1, <1>2, <1>4, <1>5, <1>6, <1>7, <1>8, <1>9 DEF CoherenceInv

-------------------------------------------------------------------------------
(* What the invariant says of a line. *)

\* What the part of a node in a phase says of its status.
LEMMA Roles ==
  ASSUME NEW n \in Node, NEW a \in Addr
  PROVE  /\ Shares(n, a) => cacheLineStatus[n][a] \in {"S", "I"}
         /\ Invalidating(n, a) => cacheLineStatus[n][a] \in {"S", "I"}
         /\ Lacks(n, a) => cacheLineStatus[n][a] = "I" /\ Clear(n, a)
<1>1. Shares(n, a) => cacheLineStatus[n][a] \in {"S", "I"} BY DEF Shares, Has
<1> QED BY <1>1 DEF Invalidating, Lacks, Has

\* The directory has every node that has the line, and an owner as the owner.
LEMMA LineMeans ==
  ASSUME CoherenceInv, NEW a \in Addr, NEW n \in Node
  PROVE  /\ cacheLineStatus[n][a] # "I" => n \in Mask(a)
         /\ cacheLineStatus[n][a] \in {"M", "E"}
              => directory[a].status \in OwnedEntry /\ Mask(a) = {n}
<1>1. CASE AtRest(a)
  <2>1. n \notin Mask(a) => cacheLineStatus[n][a] = "I" BY <1>1, Roles DEF AtRest
  <2>2. CASE directory[a].status \in {"ABSENT", "UNCACHED"} /\ Mask(a) = {} BY <2>1, <2>2
  <2>3. CASE \A m \in Mask(a) : Shares(m, a)
    <3>1. n \in Mask(a) => cacheLineStatus[n][a] \in {"S", "I"} BY <2>3, Roles
    <3> QED BY <2>1, <3>1
  <2>4. CASE directory[a].status \in OwnedEntry /\ \E o \in Node : Mask(a) = {o} BY <2>1, <2>4
  <2> QED BY <1>1, <2>2, <2>3, <2>4 DEF AtRest
<1>2. CASE AwaitsAcks(a)
  <2>1. n \notin Mask(a) => cacheLineStatus[n][a] = "I" BY <1>2, Roles DEF AwaitsAcks
  <2>2. n \in Mask(a) => cacheLineStatus[n][a] \in {"S", "I"} BY <1>2, Roles DEF AwaitsAcks
  <2> QED BY <2>1, <2>2
<1>3. CASE AwaitsOwner(a)
  <2>1. PICK o \in Node : Mask(a) = {o} /\ \A m \in Node \ {o} : Lacks(m, a)
    BY <1>3 DEF AwaitsOwner
  <2>2. n # o => cacheLineStatus[n][a] = "I" BY <2>1, Roles
  <2> QED BY <1>3, <2>1, <2>2 DEF AwaitsOwner
<1> QED BY <1>1, <1>2, <1>3 DEF CoherenceInv, LineInv

\* The invariant, for every reachable state.
LEMMA CoherenceAlways == ASSUME LinesFit PROVE Spec => []CoherenceInv
  BY CoherenceInit, CoherenceStep, PTL DEF Spec

\* A node that may write a line is the only one that has it: for every number of contexts,
\* set of lines, latency and task, in caches that never evict.
THEOREM SingleWriterAlways == ASSUME LinesFit PROVE Spec => []SingleWriter
<1>1. CoherenceInv => SingleWriter
  <2> SUFFICES ASSUME CoherenceInv, NEW a \in Addr, NEW n \in Node, NEW m \in Node, n # m,
                      cacheLineStatus[n][a] \in {"M", "E"}
               PROVE  cacheLineStatus[m][a] = "I"
    BY DEF SingleWriter
  <2>1. Mask(a) = {n} BY LineMeans
  <2> QED BY <2>1, LineMeans
<1> QED BY <1>1, CoherenceAlways, PTL

\* The directory knows every node that has a line, and an owner as the owner, while
\* requests, grants and ACKs are on their way: the home skips nobody.
THEOREM DirectoryCoversAlways == ASSUME LinesFit PROVE Spec => []DirectoryCovers
<1>1. CoherenceInv => DirectoryCovers BY LineMeans DEF DirectoryCovers, Mask
<1> QED BY <1>1, CoherenceAlways, PTL

\* No assert of the handlers fails, no front of an empty queue is taken, and the cache
\* finds every line it is asked for.
THEOREM NeverStopsAlways == ASSUME LinesFit PROVE Spec => []NeverStops
<1>1. CoherenceInv => NeverStops BY DEF CoherenceInv, NeverStops
<1> QED BY <1>1, CoherenceAlways, PTL

\* A DATA_WRITE_BACK comes from the node the directory knows as the owner.
LEMMA WriteBackMeans ==
  ASSUME CoherenceInv, NEW n \in Node, NEW i \in 1..Len(incomingMsgQueue[n]),
         incomingMsgQueue[n][i].type = "DATA_WRITE_BACK"
  PROVE  LET msg == incomingMsgQueue[n][i]
         IN  directory[msg.addr].status \in OwnedEntry /\ Mask(msg.addr) = {msg.src}
<1>1. TypeOK /\ MessagesOK BY InvTypes DEF CoherenceInv
<1>2. PICK msg \in Message : msg = incomingMsgQueue[n][i] BY <1>1 DEF TypeOK
<1>3. PICK a \in Addr : a = msg.addr BY <1>2 DEF Message
<1>4. PICK s \in Node : s = msg.src BY <1>2 DEF Message
<1>5. msg.type = "DATA_WRITE_BACK" /\ IncomingOK(n, msg) BY <1>1, <1>2 DEF MessagesOK
<1>6. n = Home[a] BY <1>3, <1>5 DEF IncomingOK, HomeAnswer
<1>7. msg \in AcksOf(a, s) BY <1>2, <1>3, <1>4, <1>5 DEF AcksOf, AboutFrom, About, HomeAnswer
<1>8. ~None(incomingMsgQueue[Home[a]], AcksOf(a, s)) BY <1>2, <1>6, <1>7 DEF None
<1>9. ~Clear(s, a) /\ ~Lacks(s, a) BY <1>8 DEF Clear, Lacks
<1>10. CASE AtRest(a)
  <2>1. s \in Mask(a) BY <1>9, <1>10 DEF AtRest
  <2> QED BY <1>9, <1>10, <2>1 DEF AtRest
<1>11. CASE AwaitsAcks(a)
  <2>1. Invalidating(s, a) BY <1>9, <1>11 DEF AwaitsAcks
  <2>2. One(incomingMsgQueue[Home[a]], AcksOf(a, s))
        /\ ~None(incomingMsgQueue[Home[a]], AboutFrom(a, {"INVALIDATE_ACK"}, s))
    BY <1>8, <2>1 DEF Invalidating, Asked, AtHolder, Answered
  <2>3. PICK j \in 1..Len(incomingMsgQueue[n]) :
          incomingMsgQueue[n][j] \in AboutFrom(a, {"INVALIDATE_ACK"}, s)
    BY <1>6, <2>2 DEF None
  <2>4. incomingMsgQueue[n][j] \in AcksOf(a, s)
        /\ incomingMsgQueue[n][j].type = "INVALIDATE_ACK"
    BY <2>3 DEF AcksOf, AboutFrom, About, HomeAnswer
  <2>5. i = j BY <1>2, <1>6, <1>7, <2>2, <2>4 DEF One
  <2> QED BY <1>2, <1>5, <2>4, <2>5
<1>12. CASE AwaitsOwner(a)
  <2>1. PICK o \in Node : Mask(a) = {o} /\ \A m \in Node \ {o} : Lacks(m, a)
    BY <1>12 DEF AwaitsOwner
  <2>2. s = o BY <1>9, <2>1
  <2>3. directory[a].status \in OwnedEntry BY <1>12 DEF AwaitsOwner
  <2> QED BY <1>2, <1>3, <1>4, <2>1, <2>2, <2>3
<1> QED BY <1>10, <1>11, <1>12 DEF CoherenceInv, LineInv

\* "This must be from exclusive owner" says the comment on DATA_WRITE_BACK: in caches that
\* never evict it always is, and the home knows it as the owner.
THEOREM WriteBackAlways == ASSUME LinesFit PROVE Spec => []WriteBackFromOwner
<1>1. CoherenceInv => WriteBackFromOwner
  <2> SUFFICES ASSUME CoherenceInv, NEW n \in Node, NEW i \in DOMAIN incomingMsgQueue[n],
                      incomingMsgQueue[n][i].type = "DATA_WRITE_BACK"
               PROVE  LET msg == incomingMsgQueue[n][i]
                      IN  /\ directory[msg.addr].status \in OwnedEntry
                          /\ directory[msg.addr].processorMask = {msg.src}
    BY DEF WriteBackFromOwner
  <2>1. incomingMsgQueue[n] \in Seq(Message) BY InvTypes DEF TypeOK
  <2>2. i \in 1..Len(incomingMsgQueue[n]) BY <2>1, LenProperties
  <2> QED BY <2>2, WriteBackMeans DEF Mask
<1> QED BY <1>1, CoherenceAlways, PTL

-------------------------------------------------------------------------------
(* Counting the requests of the home. *)

\* Two finite sets whose elements are paired have the same number of elements.
LEMMA Paired ==
  ASSUME NEW S, NEW T, NEW P, IsFiniteSet(S),
         \A n \in S : \E x \in T : <<n, x>> \in P,
         \A x \in T : \E n \in S : <<n, x>> \in P,
         \A n \in S : \A x, y \in T : <<n, x>> \in P /\ <<n, y>> \in P => x = y,
         \A n, m \in S : \A x \in T : <<n, x>> \in P /\ <<m, x>> \in P => n = m
  PROVE  IsFiniteSet(T) /\ Cardinality(T) = Cardinality(S)
<1> DEFINE f == [n \in S |-> CHOOSE x \in T : <<n, x>> \in P]
<1>1. \A n \in S : f[n] \in T /\ <<n, f[n]>> \in P OBVIOUS
<1>2. f \in [S -> T] BY <1>1
<1> HIDE DEF f
<1>3. \A n, m \in S : f[n] = f[m] => n = m BY <1>1
<1>4. \A x \in T : \E n \in S : f[n] = x BY <1>1
<1>5. f \in Bijection(S, T)
  BY <1>2, <1>3, <1>4 DEF Bijection, Injection, Surjection, IsInjective
<1>6. ExistsBijection(S, T) BY <1>5 DEF ExistsBijection
<1> QED BY <1>6, FS_Bijection

\* The places of the messages of a line in the incoming queues and in the blocked queues.
CountedAsks(a, types, I, B) ==
  /\ \A x : x \in I <=> \E m \in Node : \E i \in 1..Len(incomingMsgQueue[m]) :
                          x = <<m, i>> /\ incomingMsgQueue[m][i] \in About(a, types)
  /\ \A x : x \in B <=> \E m \in Node, b \in Addr : \E i \in 1..Len(blockedMsgMap[m][b]) :
                          x = <<m, b, i>> /\ blockedMsgMap[m][b][i] \in About(a, types)

\* The request of the types P of the home to n, or its ACK of the types R, is in one place.
OneAsk(n, a, P, R) ==
  \/ /\ One(incomingMsgQueue[n], About(a, P)) /\ FirstType(n, a) \notin P
     /\ None(incomingMsgQueue[Home[a]], AboutFrom(a, R, n))
  \/ /\ None(incomingMsgQueue[n], About(a, P)) /\ FirstType(n, a) \in P
     /\ None(incomingMsgQueue[Home[a]], AboutFrom(a, R, n))
  \/ /\ None(incomingMsgQueue[n], About(a, P)) /\ FirstType(n, a) \notin P
     /\ One(incomingMsgQueue[Home[a]], AboutFrom(a, R, n))
NoAsks(n, a, P, R) ==
  /\ None(incomingMsgQueue[n], About(a, P)) /\ FirstType(n, a) \notin P
  /\ None(incomingMsgQueue[Home[a]], AboutFrom(a, R, n))

\* The nodes of S have such a request or ACK, and no others.
AskedAre(S, a, P, R) ==
  (\A n \in S : OneAsk(n, a, P, R)) /\ (\A n \in Node \ S : NoAsks(n, a, P, R))

\* The message at the place x is the one of n.
MineAt(n, a, P, R, x) ==
  \/ \E i \in 1..Len(incomingMsgQueue[n]) :
       x = <<n, i>> /\ incomingMsgQueue[n][i] \in About(a, P)
  \/ \E i \in 1..Len(incomingMsgQueue[Home[a]]) :
       x = <<Home[a], i>> /\ incomingMsgQueue[Home[a]][i] \in AboutFrom(a, R, n)
  \/ x = <<n, a, 1>> /\ FirstType(n, a) \in P

\* Where the requests of a home to holders are blocked.
LEMMA BlockedAsks ==
  ASSUME CoherenceInv, NEW a \in Addr, NEW P \in SUBSET OwnerRequest, NEW R \in SUBSET HomeAnswer,
         NEW I, NEW B, CountedAsks(a, P \cup R, I, B)
  PROVE  \A x : x \in B <=> \E m \in Node : x = <<m, a, 1>> /\ FirstType(m, a) \in P
<1>1. TypeOK /\ BlockingInv /\ RequestsWait /\ HoldersFirst
  BY InvTypes DEF CoherenceInv, OutstandingInv
<1>2. \A m \in Node, b \in Addr : blockedMsgMap[m][b] \in Seq(Message) BY <1>1 DEF TypeOK
<1>3. \A m \in Node, b \in Addr : InOrder(blockedMsgMap[m][b], b)
  BY <1>1 DEF BlockingInv, BlockedInOrder
<1>4. "none" \notin P BY DEF OwnerRequest
<1>5. ASSUME NEW x, x \in B PROVE \E m \in Node : x = <<m, a, 1>> /\ FirstType(m, a) \in P
  <2>1. PICK m \in Node, b \in Addr : \E i \in 1..Len(blockedMsgMap[m][b]) :
          x = <<m, b, i>> /\ blockedMsgMap[m][b][i] \in About(a, P \cup R)
    BY <1>5 DEF CountedAsks
  <2>2. PICK i \in 1..Len(blockedMsgMap[m][b]) :
          x = <<m, b, i>> /\ blockedMsgMap[m][b][i] \in About(a, P \cup R)
    BY <2>1
  <2>3. PICK msg \in Message : msg = blockedMsgMap[m][b][i] BY <1>2, <2>2
  <2>4. msg.addr = a /\ msg.type \in P \cup R BY <2>2, <2>3 DEF About
  <2>5. b = a BY <1>3, <2>2, <2>3, <2>4 DEF InOrder
  <2>6. msg.type \in HomeRequest \cup OwnerRequest
    BY <1>1, <2>2, <2>3 DEF RequestsWait, None, NoRequest
  <2>7. msg.type \in P
    BY <2>4, <2>6 DEF HomeRequest, OwnerRequest, HomeAnswer
  <2>8. msg.type \notin HomeRequest BY <2>7 DEF HomeRequest, OwnerRequest
  <2>9. i = 1 BY <1>1, <2>2, <2>3, <2>8 DEF HoldersFirst
  <2>10. blockedMsgMap[m][a] # <<>> /\ Head(blockedMsgMap[m][a]) = msg
    BY <1>2, <2>2, <2>3, <2>5, <2>9, EmptySeq
  <2>11. FirstType(m, a) = msg.type BY <2>10 DEF FirstType
  <2> QED BY <2>2, <2>5, <2>7, <2>9, <2>11
<1>6. ASSUME NEW m \in Node, FirstType(m, a) \in P PROVE <<m, a, 1>> \in B
  <2>1. PICK q \in Seq(Message) : q = blockedMsgMap[m][a] BY <1>2
  <2>2. q # <<>> /\ Head(q).type \in P BY <1>4, <1>6, <2>1 DEF FirstType
  <2>3. 1 \in 1..Len(q) /\ q[1] = Head(q) /\ q[1] \in Message BY <2>2, EmptySeq, LenProperties
  <2>4. q[1].addr = a BY <1>3, <2>1, <2>3 DEF InOrder
  <2>5. q[1] \in About(a, P \cup R) BY <2>2, <2>3, <2>4 DEF About
  <2>6. PICK x : x = <<m, a, 1>> OBVIOUS
  <2>7. x \in B BY <2>1, <2>3, <2>5, <2>6 DEF CountedAsks
  <2> QED BY <2>6, <2>7
<1> QED BY <1>5, <1>6

\* Each node of S has a place of its own in T.
MineMatch(S, T, a, P, R) ==
  /\ \A n \in S : \E x \in T : MineAt(n, a, P, R, x)
  /\ \A x \in T : \E n \in S : MineAt(n, a, P, R, x)
  /\ \A n \in S : \A x, y \in T : MineAt(n, a, P, R, x) /\ MineAt(n, a, P, R, y) => x = y
  /\ \A n, m \in S : \A x \in T : MineAt(n, a, P, R, x) /\ MineAt(m, a, P, R, x) => n = m

\* Each node asked has one of the counted messages, and each message is of one node.
LEMMA MineOnce ==
  ASSUME CoherenceInv, NEW a \in Addr, NEW P \in SUBSET OwnerRequest, NEW R \in SUBSET HomeAnswer,
         NEW S \in SUBSET Node, AskedAre(S, a, P, R),
         NEW I, NEW B, CountedAsks(a, P \cup R, I, B)
  PROVE  MineMatch(S, I \cup B, a, P, R) /\ I \cap B = {}
<1>1. TypeOK /\ MessagesOK BY InvTypes DEF CoherenceInv
<1>2. PICK h \in Node : h = Home[a] BY ContextAssumption
<1>3. \A x : x \in B <=> \E m \in Node : x = <<m, a, 1>> /\ FirstType(m, a) \in P
  BY BlockedAsks
<1>4. \A m \in Node : incomingMsgQueue[m] \in Seq(Message) BY <1>1 DEF TypeOK
<1>5. \A type \in P : type \notin R BY DEF OwnerRequest, HomeAnswer
<1>6. \A m, n \in Node : \A i : <<m, i>> # <<n, a, 1>> OBVIOUS
<1>7. \A msg : /\ msg \in About(a, P) => msg.type \in P /\ msg \in About(a, P \cup R)
               /\ \A n : msg \in AboutFrom(a, R, n)
                    => msg.type \in R /\ msg.src = n /\ msg \in About(a, P \cup R)
  BY DEF About, AboutFrom
<1>8. ASSUME NEW n \in S PROVE \E x \in I \cup B : MineAt(n, a, P, R, x)
  <2>1. CASE One(incomingMsgQueue[n], About(a, P))
    <3>1. PICK i \in 1..Len(incomingMsgQueue[n]) : incomingMsgQueue[n][i] \in About(a, P)
      BY <2>1 DEF One
    <3>2. PICK x : x = <<n, i>> OBVIOUS
    <3>3. incomingMsgQueue[n][i] \in About(a, P \cup R) BY <1>7, <3>1
    <3>4. x \in I BY <3>2, <3>3 DEF CountedAsks
    <3>5. MineAt(n, a, P, R, x) BY <3>1, <3>2 DEF MineAt
    <3> QED BY <3>4, <3>5
  <2>2. CASE FirstType(n, a) \in P
    <3>1. PICK x : x = <<n, a, 1>> OBVIOUS
    <3>2. x \in B BY <1>3, <2>2, <3>1
    <3>3. MineAt(n, a, P, R, x) BY <2>2, <3>1 DEF MineAt
    <3> QED BY <3>2, <3>3
  <2>3. CASE One(incomingMsgQueue[Home[a]], AboutFrom(a, R, n))
    <3>1. PICK i \in 1..Len(incomingMsgQueue[h]) : incomingMsgQueue[h][i] \in AboutFrom(a, R, n)
      BY <1>2, <2>3 DEF One
    <3>2. PICK x : x = <<h, i>> OBVIOUS
    <3>3. incomingMsgQueue[h][i] \in About(a, P \cup R) BY <1>7, <3>1
    <3>4. x \in I BY <3>2, <3>3 DEF CountedAsks
    <3>5. MineAt(n, a, P, R, x) BY <1>2, <3>1, <3>2 DEF MineAt
    <3> QED BY <3>4, <3>5
  <2> QED BY <2>1, <2>2, <2>3 DEF OneAsk, AskedAre
<1>9. ASSUME NEW n \in Node, NEW x, MineAt(n, a, P, R, x) PROVE n \in S
  BY <1>9 DEF MineAt, NoAsks, None, AskedAre
<1>10. ASSUME NEW x \in I PROVE \E n \in S : MineAt(n, a, P, R, x)
  <2>1. PICK m \in Node : \E i \in 1..Len(incomingMsgQueue[m]) :
          x = <<m, i>> /\ incomingMsgQueue[m][i] \in About(a, P \cup R)
    BY <1>10 DEF CountedAsks
  <2>2. PICK i \in 1..Len(incomingMsgQueue[m]) :
          x = <<m, i>> /\ incomingMsgQueue[m][i] \in About(a, P \cup R)
    BY <2>1
  <2>3. PICK msg \in Message : msg = incomingMsgQueue[m][i] BY <1>4, <2>2
  <2>4. msg.addr = a /\ msg.type \in P \cup R BY <2>2, <2>3 DEF About
  <2>5. CASE msg.type \in P
    <3>1. msg \in About(a, P) BY <2>3, <2>4, <2>5 DEF About
    <3>2. MineAt(m, a, P, R, x) BY <2>2, <2>3, <3>1 DEF MineAt
    <3> QED BY <1>9, <3>2
  <2>6. CASE msg.type \in R
    <3>1. PICK n \in Node : n = msg.src BY <2>3 DEF Message
    <3>2. m = Home[a] BY <1>1, <2>2, <2>3, <2>4, <2>6 DEF MessagesOK, IncomingOK
    <3>3. msg \in AboutFrom(a, R, n) BY <2>3, <2>4, <2>6, <3>1 DEF About, AboutFrom
    <3>4. MineAt(n, a, P, R, x) BY <2>2, <2>3, <3>2, <3>3 DEF MineAt
    <3> QED BY <1>9, <3>4
  <2> QED BY <2>4, <2>5, <2>6
<1>11. ASSUME NEW x \in B PROVE \E n \in S : MineAt(n, a, P, R, x)
  <2>1. PICK m \in Node : x = <<m, a, 1>> /\ FirstType(m, a) \in P BY <1>3, <1>11
  <2>2. MineAt(m, a, P, R, x) BY <2>1 DEF MineAt
  <2> QED BY <1>9, <2>2
<1>12. ASSUME NEW n \in S, NEW x, NEW y, MineAt(n, a, P, R, x), MineAt(n, a, P, R, y)
       PROVE  x = y
  <2>1. OneAsk(n, a, P, R) BY DEF AskedAre
  <2>2. CASE /\ One(incomingMsgQueue[n], About(a, P)) /\ FirstType(n, a) \notin P
             /\ None(incomingMsgQueue[Home[a]], AboutFrom(a, R, n))
    <3>1. PICK i \in 1..Len(incomingMsgQueue[n]) :
            \A j \in 1..Len(incomingMsgQueue[n]) :
              j # i => incomingMsgQueue[n][j] \notin About(a, P)
      BY <2>2 DEF One
    <3>2. \A z : MineAt(n, a, P, R, z) => z = <<n, i>> BY <2>2, <3>1 DEF MineAt, None
    <3> QED BY <1>12, <3>2
  <2>3. CASE /\ None(incomingMsgQueue[n], About(a, P)) /\ FirstType(n, a) \in P
             /\ None(incomingMsgQueue[Home[a]], AboutFrom(a, R, n))
    <3>1. \A z : MineAt(n, a, P, R, z) => z = <<n, a, 1>> BY <2>3 DEF MineAt, None
    <3> QED BY <1>12, <3>1
  <2>4. CASE /\ None(incomingMsgQueue[n], About(a, P)) /\ FirstType(n, a) \notin P
             /\ One(incomingMsgQueue[Home[a]], AboutFrom(a, R, n))
    <3>1. PICK i \in 1..Len(incomingMsgQueue[Home[a]]) :
            \A j \in 1..Len(incomingMsgQueue[Home[a]]) :
              j # i => incomingMsgQueue[Home[a]][j] \notin AboutFrom(a, R, n)
      BY <2>4 DEF One
    <3>2. \A z : MineAt(n, a, P, R, z) => z = <<Home[a], i>> BY <2>4, <3>1 DEF MineAt, None
    <3> QED BY <1>12, <3>2
  <2> QED BY <2>1, <2>2, <2>3, <2>4 DEF OneAsk
<1>13. ASSUME NEW n \in S, NEW m \in S, NEW x, MineAt(n, a, P, R, x), MineAt(m, a, P, R, x)
       PROVE  n = m
  <2>1. ASSUME NEW k \in Node, MineAt(k, a, P, R, x)
        PROVE  \/ x = <<k, a, 1>>
               \/ \E j \in Node : \E i \in 1..Len(incomingMsgQueue[j]) :
                    /\ x = <<j, i>>
                    /\ \/ j = k /\ incomingMsgQueue[j][i].type \in P
                       \/ /\ incomingMsgQueue[j][i].type \in R
                          /\ incomingMsgQueue[j][i].src = k
    BY <1>2, <1>7, <2>1 DEF MineAt
  <2>2. CASE x = <<n, a, 1>>
    <3>1. x = <<m, a, 1>> BY <1>6, <1>13, <2>1, <2>2
    <3> QED BY <2>2, <3>1
  <2>3. ASSUME NEW j \in Node, NEW i \in 1..Len(incomingMsgQueue[j]), x = <<j, i>>,
               \/ j = n /\ incomingMsgQueue[j][i].type \in P
               \/ incomingMsgQueue[j][i].type \in R /\ incomingMsgQueue[j][i].src = n
        PROVE  n = m
    <3>1. PICK k \in Node : \E l \in 1..Len(incomingMsgQueue[k]) :
            /\ x = <<k, l>>
            /\ \/ k = m /\ incomingMsgQueue[k][l].type \in P
               \/ incomingMsgQueue[k][l].type \in R /\ incomingMsgQueue[k][l].src = m
      BY <1>6, <1>13, <2>1, <2>3
    <3>2. PICK l \in 1..Len(incomingMsgQueue[k]) :
            /\ x = <<k, l>>
            /\ \/ k = m /\ incomingMsgQueue[k][l].type \in P
               \/ incomingMsgQueue[k][l].type \in R /\ incomingMsgQueue[k][l].src = m
      BY <3>1
    <3>3. k = j /\ l = i BY <2>3, <3>2
    <3> QED BY <1>5, <2>3, <3>2, <3>3
  <2> QED BY <1>13, <2>1, <2>2, <2>3
<1>14. I \cap B = {}
  <2> SUFFICES ASSUME NEW x, x \in I, x \in B PROVE FALSE
    OBVIOUS
  <2>1. PICK m \in Node, i \in Nat : x = <<m, i>> BY DEF CountedAsks
  <2>2. PICK k \in Node : x = <<k, a, 1>> BY <1>3
  <2> QED BY <2>1, <2>2
<1> QED BY <1>8, <1>10, <1>11, <1>12, <1>13, <1>14 DEF MineMatch

\* So the messages are as many as the nodes that are asked.
LEMMA AsksCounted ==
  ASSUME CoherenceInv, NEW a \in Addr, NEW P \in SUBSET OwnerRequest, NEW R \in SUBSET HomeAnswer,
         NEW S \in SUBSET Node, AskedAre(S, a, P, R),
         NEW I, NEW B, CountedAsks(a, P \cup R, I, B)
  PROVE  Cardinality(I) + Cardinality(B) = Cardinality(S)
<1>1. IsFiniteSet(S) /\ Cardinality(S) \in Nat BY NodesFinite
<1>2. MineMatch(S, I \cup B, a, P, R) /\ I \cap B = {} BY MineOnce, ZenonT(30)
<1>3. PICK T : T = I \cup B OBVIOUS
<1>4. PICK pairs : pairs = {p \in S \X T : MineAt(p[1], a, P, R, p[2])} OBVIOUS
<1>5. IsFiniteSet(I \cup B) /\ Cardinality(I \cup B) = Cardinality(S)
  <2>1. \A n \in S : \A x \in T : <<n, x>> \in pairs <=> MineAt(n, a, P, R, x) BY <1>4
  <2>2. /\ \A n \in S : \E x \in T : <<n, x>> \in pairs
        /\ \A x \in T : \E n \in S : <<n, x>> \in pairs
        /\ \A n \in S : \A x, y \in T : <<n, x>> \in pairs /\ <<n, y>> \in pairs => x = y
        /\ \A n, m \in S : \A x \in T : <<n, x>> \in pairs /\ <<m, x>> \in pairs => n = m
    BY <1>2, <1>3, <2>1 DEF MineMatch
  <2> QED BY <1>1, <1>3, <2>2, Paired
<1>6. IsFiniteSet(I) /\ IsFiniteSet(B) BY <1>5, FS_Subset
<1>7. Cardinality(I \cup B) = Cardinality(I) + Cardinality(B) - Cardinality(I \cap B)
  BY <1>6, FS_Union
<1>8. Cardinality(I \cap B) = 0 BY <1>2, FS_EmptySet
<1>9. Cardinality(I) \in Nat /\ Cardinality(B) \in Nat BY <1>6, FS_CardinalityType
<1> QED BY <1>5, <1>7, <1>8, <1>9

\* The requests of a home that are counted: for the owner's answer, for the ACKs.
Fetches == {"FETCH", "FETCH_INVALIDATE"}
WriteBacks == {"DATA_WRITE_BACK"}
Invalidates == {"INVALIDATE"}
InvAcks == {"INVALIDATE_ACK"}

\* A node with no part in the transaction has none of its messages.
LEMMA ClearAsks ==
  ASSUME NEW n \in Node, NEW a \in Addr, Clear(n, a),
         NEW P \in SUBSET OwnerRequest, NEW R \in SUBSET HomeAnswer
  PROVE  NoAsks(n, a, P, R)
<1>1. About(a, P) \subseteq AsksOf(a) /\ AboutFrom(a, R, n) \subseteq AcksOf(a, n)
  BY DEF AsksOf, AcksOf, About, AboutFrom
<1> QED BY <1>1 DEF Clear, NoAsks, None

\* Both counts are about requests of the home and their answers.
LEMMA KindsCounted ==
  /\ Fetches \in SUBSET OwnerRequest /\ WriteBacks \in SUBSET HomeAnswer
  /\ Invalidates \in SUBSET OwnerRequest /\ InvAcks \in SUBSET HomeAnswer
BY DEF Fetches, WriteBacks, Invalidates, InvAcks, OwnerRequest, HomeAnswer

\* One request of a kind is one of the kind that is counted.
LEMMA OneOfKind ==
  ASSUME NEW q, NEW S, NEW T \in SUBSET S, NEW U \in SUBSET T, One(q, S), ~None(q, U)
  PROVE  One(q, T)
<1>1. PICK i \in 1..Len(q) : q[i] \in U BY DEF None
<1>2. PICK k \in 1..Len(q) : q[k] \in S /\ \A j \in 1..Len(q) : j # k => q[j] \notin S
  BY DEF One
<1>3. i = k BY <1>1, <1>2
<1> QED BY <1>1, <1>2, <1>3 DEF One

\* A node asked for one kind has one message of the kind, ...
LEMMA AskedCounts ==
  ASSUME NEW n \in Node, NEW a \in Addr, NEW P \in SUBSET OwnerRequest,
         NEW R \in SUBSET HomeAnswer, NEW type \in P, NEW answer \in R,
         Asked(n, a, type) \/ AtHolder(n, a, type) \/ Answered(n, a, answer)
  PROVE  OneAsk(n, a, P, R)
<1>1. /\ About(a, P) \subseteq AsksOf(a) /\ AboutFrom(a, R, n) \subseteq AcksOf(a, n)
      /\ About(a, {type}) \subseteq About(a, P)
      /\ AboutFrom(a, {answer}, n) \subseteq AboutFrom(a, R, n)
  BY DEF AsksOf, AcksOf, About, AboutFrom
<1>2. CASE Asked(n, a, type)
  <2>1. One(incomingMsgQueue[n], About(a, P)) BY <1>1, <1>2, OneOfKind DEF Asked
  <2> QED BY <1>1, <1>2, <2>1 DEF Asked, OneAsk, None
<1>3. CASE AtHolder(n, a, type) BY <1>1, <1>3 DEF AtHolder, OneAsk, None
<1>4. CASE Answered(n, a, answer)
  <2>1. One(incomingMsgQueue[Home[a]], AboutFrom(a, R, n))
    BY <1>1, <1>4, OneOfKind DEF Answered
  <2> QED BY <1>1, <1>4, <2>1 DEF Answered, OneAsk, None
<1> QED BY <1>2, <1>3, <1>4

\* The messages in the queues.
LEMMA QueuedAre ==
  ASSUME TypeOK
  PROVE  /\ \A m \in Node :
              /\ DOMAIN incomingMsgQueue[m] = 1..Len(incomingMsgQueue[m])
              /\ \A i \in 1..Len(incomingMsgQueue[m]) : incomingMsgQueue[m][i] \in Message
         /\ \A m \in Node, b \in Addr :
              /\ DOMAIN blockedMsgMap[m][b] = 1..Len(blockedMsgMap[m][b])
              /\ \A i \in 1..Len(blockedMsgMap[m][b]) : blockedMsgMap[m][b][i] \in Message
<1>1. \A m \in Node : incomingMsgQueue[m] \in Seq(Message) BY DEF TypeOK
<1>2. \A m \in Node, b \in Addr : blockedMsgMap[m][b] \in Seq(Message) BY DEF TypeOK
<1> QED BY <1>1, <1>2, LenProperties

\* The request a home serves is in one place.
LEMMA ServicedPlace ==
  ASSUME CoherenceInv, NEW a \in Addr, NEW V,
         \A x : x \in V <=> \E m \in Node, b \in Addr : \E i \in 1..Len(blockedMsgMap[m][b]) :
                              /\ x = <<m, b, i>>
                              /\ blockedMsgMap[m][b][i].addr = a
                              /\ blockedMsgMap[m][b][i].type \in HomeRequest
                              /\ blockedMsgMap[m][b][i].serviced
  PROVE  IF Serving(a) THEN \E x : V = {x} ELSE V = {}
<1>1. TypeOK /\ BlockingInv /\ RequestsWait /\ HoldersFirst /\ MessagesOK
  BY InvTypes DEF CoherenceInv, OutstandingInv
<1>2. PICK h \in Node : h = Home[a] BY ContextAssumption
<1>3. PICK q \in Seq(Message) : q = blockedMsgMap[h][a] BY <1>1 DEF TypeOK
<1>4. \A m \in Node, b \in Addr : InOrder(blockedMsgMap[m][b], b)
  BY <1>1 DEF BlockingInv, BlockedInOrder
<1>5. PICK k : k = IF FirstType(h, a) \in OwnerRequest THEN 2 ELSE 1 OBVIOUS
<1>6. Len(q) \in Nat /\ \A i \in 1..Len(q) : q[i] \in Message BY <1>3, LenProperties
<1>7. \A i \in 1..Len(q) : i > 1 => q[i].type \in HomeRequest BY <1>1, <1>3 DEF HoldersFirst
<1>8. \A i \in 1..Len(q) : q[i].type \in HomeRequest \cup OwnerRequest
  BY <1>1, <1>3, <1>6 DEF RequestsWait, None, NoRequest
<1>9. q # <<>> => 1 \in 1..Len(q) /\ FirstType(h, a) = q[1].type
  BY <1>3, EmptySeq, LenProperties DEF FirstType
<1>10. \A type \in OwnerRequest : type \notin HomeRequest BY DEF OwnerRequest, HomeRequest
<1>11. "none" \notin OwnerRequest BY DEF OwnerRequest
<1>12. \A i, j \in 1..Len(q) : i < j /\ q[i].type \in HomeRequest => ~q[j].serviced
  BY <1>3, <1>4 DEF InOrder
<1>13. ASSUME NEW i \in 1..Len(q), q[i].type \in HomeRequest, q[i].serviced PROVE i = k
  <2>1. q # <<>> BY <1>6, <1>13
  <2>2. CASE FirstType(h, a) \in OwnerRequest
    <3>1. i # 1 BY <1>9, <1>10, <1>13, <2>1, <2>2
    <3>2. ASSUME i > 2 PROVE FALSE
      <4>1. 2 \in 1..Len(q) BY <1>6, <3>2
      <4>2. q[2].type \in HomeRequest BY <1>7, <4>1
      <4> QED BY <1>12, <1>13, <3>2, <4>1, <4>2
    <3>3. i = 2 BY <1>6, <3>1, <3>2
    <3> QED BY <1>5, <2>2, <3>3
  <2>3. CASE FirstType(h, a) \notin OwnerRequest
    <3>1. q[1].type \in HomeRequest BY <1>8, <1>9, <2>1, <2>3
    <3>2. ~(1 < i) BY <1>9, <1>12, <1>13, <2>1, <3>1
    <3>3. i = 1 BY <1>6, <3>2
    <3> QED BY <1>5, <2>3, <3>3
  <2> QED BY <2>2, <2>3
<1>14. Serving(a) <=> k \in 1..Len(q) /\ q[k].type \in HomeRequest /\ q[k].serviced
  <2>1. CASE FirstType(h, a) \in OwnerRequest
    <3>1. q # <<>> BY <1>3, <1>11, <2>1 DEF FirstType
    <3>2. Requests(a) = Tail(q) /\ k = 2 BY <1>2, <1>3, <1>5, <2>1 DEF Requests
    <3>3. /\ Tail(q) \in Seq(Message) /\ Len(Tail(q)) = Len(q) - 1
          /\ \A i \in 1..Len(Tail(q)) : Tail(q)[i] = q[i + 1]
      BY <3>1, HeadTailProperties
    <3>4. PICK r \in Seq(Message) : r = Tail(q) BY <3>3
    <3>5. r # <<>> <=> 2 \in 1..Len(q)
      <4>1. Len(r) = Len(q) - 1 /\ Len(r) \in Nat BY <3>3, <3>4, LenProperties
      <4>2. r # <<>> <=> Len(r) # 0 BY EmptySeq
      <4> QED BY <1>6, <4>1, <4>2
    <3>6. r # <<>> => Head(r) = q[2]
      <4> SUFFICES ASSUME r # <<>> PROVE Head(r) = q[2] OBVIOUS
      <4>1. 1 \in 1..Len(r) /\ Head(r) = r[1] BY EmptySeq, LenProperties
      <4> QED BY <3>3, <3>4, <4>1
    <3>7. 2 \in 1..Len(q) => q[2].type \in HomeRequest BY <1>7
    <3> QED BY <3>2, <3>4, <3>5, <3>6, <3>7 DEF Serving
  <2>2. CASE FirstType(h, a) \notin OwnerRequest
    <3>1. Requests(a) = q /\ k = 1 BY <1>2, <1>3, <1>5, <2>2 DEF Requests
    <3>2. q # <<>> <=> 1 \in 1..Len(q) BY <1>9, EmptySeq, <1>6
    <3>3. q # <<>> => Head(q) = q[1] BY EmptySeq, LenProperties
    <3>4. q # <<>> => q[1].type \in HomeRequest BY <1>8, <1>9, <2>2
    <3> QED BY <3>1, <3>2, <3>3, <3>4 DEF Serving
  <2> QED BY <2>1, <2>2
<1>15. ASSUME NEW x, x \in V PROVE x = <<h, a, k>> /\ Serving(a)
  <2>1. PICK m \in Node, b \in Addr : \E i \in 1..Len(blockedMsgMap[m][b]) :
          /\ x = <<m, b, i>>
          /\ blockedMsgMap[m][b][i].addr = a
          /\ blockedMsgMap[m][b][i].type \in HomeRequest
          /\ blockedMsgMap[m][b][i].serviced
    BY <1>15
  <2>2. PICK i \in 1..Len(blockedMsgMap[m][b]) :
          /\ x = <<m, b, i>>
          /\ blockedMsgMap[m][b][i].addr = a
          /\ blockedMsgMap[m][b][i].type \in HomeRequest
          /\ blockedMsgMap[m][b][i].serviced
    BY <2>1
  <2>3. b = a BY <1>4, <2>2 DEF InOrder
  <2>4. m = h BY <1>1, <1>2, <2>2, <2>3 DEF MessagesOK, BlockedOK
  <2>5. i \in 1..Len(q) /\ q[i].type \in HomeRequest /\ q[i].serviced
    BY <1>3, <2>2, <2>3, <2>4
  <2>6. i = k BY <1>13, <2>5
  <2> QED BY <1>14, <2>2, <2>3, <2>4, <2>5, <2>6
<1>16. Serving(a) => <<h, a, k>> \in V
  <2> SUFFICES ASSUME Serving(a) PROVE <<h, a, k>> \in V
    OBVIOUS
  <2>1. k \in 1..Len(q) /\ q[k].type \in HomeRequest /\ q[k].serviced BY <1>14
  <2>2. q[k].addr = a BY <1>3, <1>4, <2>1 DEF InOrder
  <2>3. PICK x : x = <<h, a, k>> OBVIOUS
  <2>4. x \in V BY <1>3, <2>1, <2>2, <2>3
  <2> QED BY <2>3, <2>4
<1>17. CASE Serving(a)
  <2>1. V = {<<h, a, k>>} BY <1>15, <1>16, <1>17
  <2> QED BY <1>17, <2>1
<1>18. CASE ~Serving(a)
  <2>1. V = {} BY <1>15, <1>18
  <2> QED BY <1>18, <2>1
<1> QED BY <1>17, <1>18

\* A request of another kind is none of the kind that is counted.
LEMMA OneOfAnother ==
  ASSUME NEW q, NEW S, NEW T \in SUBSET S, NEW U \in SUBSET S, U \cap T = {},
         One(q, S), ~None(q, U)
  PROVE  None(q, T)
<1>1. PICK i \in 1..Len(q) : q[i] \in U BY DEF None
<1>2. PICK k \in 1..Len(q) : q[k] \in S /\ \A j \in 1..Len(q) : j # k => q[j] \notin S
  BY DEF One
<1>3. i = k BY <1>1, <1>2
<1> QED BY <1>1, <1>2, <1>3 DEF None

\* ... and none of the other kind.
LEMMA OthersUncounted ==
  ASSUME NEW n \in Node, NEW a \in Addr, NEW P \in SUBSET OwnerRequest,
         NEW R \in SUBSET HomeAnswer, NEW type \in OwnerRequest \ P,
         NEW answer \in HomeAnswer \ R,
         Asked(n, a, type) \/ AtHolder(n, a, type) \/ Answered(n, a, answer)
  PROVE  NoAsks(n, a, P, R)
<1>1. /\ About(a, P) \subseteq AsksOf(a) /\ AboutFrom(a, R, n) \subseteq AcksOf(a, n)
      /\ About(a, {type}) \subseteq AsksOf(a)
      /\ AboutFrom(a, {answer}, n) \subseteq AcksOf(a, n)
      /\ About(a, {type}) \cap About(a, P) = {}
      /\ AboutFrom(a, {answer}, n) \cap AboutFrom(a, R, n) = {}
  BY DEF AsksOf, AcksOf, About, AboutFrom
<1>2. CASE Asked(n, a, type)
  <2>1. None(incomingMsgQueue[n], About(a, P)) BY <1>1, <1>2, OneOfAnother DEF Asked
  <2> QED BY <1>1, <1>2, <2>1 DEF Asked, NoAsks, None
<1>3. CASE AtHolder(n, a, type) BY <1>1, <1>3 DEF AtHolder, NoAsks, None
<1>4. CASE Answered(n, a, answer)
  <2>1. None(incomingMsgQueue[Home[a]], AboutFrom(a, R, n))
    BY <1>1, <1>4, OneOfAnother DEF Answered
  <2> QED BY <1>1, <1>4, <2>1 DEF Answered, NoAsks, None
<1> QED BY <1>2, <1>3, <1>4

\* Who has a request or an ACK of the home, of the kinds P and R.
LEMMA ClearNodes ==
  ASSUME NEW a \in Addr, \A n \in Node : Clear(n, a),
         NEW P \in SUBSET OwnerRequest, NEW R \in SUBSET HomeAnswer, NEW S, S = {}
  PROVE  AskedAre(S, a, P, R)
BY ClearAsks DEF AskedAre

\* At rest no node has a part in a transaction.
LEMMA RestClear ==
  ASSUME NEW a \in Addr, AtRest(a), NEW n \in Node
  PROVE  Clear(n, a)
BY DEF AtRest, Lacks

\* While the home waits for the owner, the owner alone is asked.
LEMMA FetchedNode ==
  ASSUME NEW a \in Addr, AwaitsOwner(a)
  PROVE  \E o \in Node : /\ OneAsk(o, a, Fetches, WriteBacks)
                         /\ NoAsks(o, a, Invalidates, InvAcks)
                         /\ \A n \in Node \ {o} : Clear(n, a)
<1>1. PICK o \in Node :
        /\ IF Served(a).type = "READ_MISS" THEN Fetching(o, a, "FETCH", "S")
                                           ELSE Fetching(o, a, "FETCH_INVALIDATE", "I")
        /\ \A n \in Node \ {o} : Lacks(n, a)
  BY DEF AwaitsOwner
<1>2. PICK type : /\ type \in Fetches /\ type \in OwnerRequest \ Invalidates
                  /\ \/ Asked(o, a, type) \/ AtHolder(o, a, type)
                     \/ Answered(o, a, "DATA_WRITE_BACK")
  BY <1>1 DEF Fetching, Fetches, OwnerRequest, Invalidates
<1>3. PICK answer : answer = "DATA_WRITE_BACK" OBVIOUS
<1>4. answer \in WriteBacks /\ answer \in HomeAnswer \ InvAcks
  BY <1>3 DEF WriteBacks, HomeAnswer, InvAcks
<1>5. Asked(o, a, type) \/ AtHolder(o, a, type) \/ Answered(o, a, answer) BY <1>2, <1>3
<1>6. OneAsk(o, a, Fetches, WriteBacks) BY <1>2, <1>4, <1>5, AskedCounts, KindsCounted
<1>7. NoAsks(o, a, Invalidates, InvAcks) BY <1>2, <1>4, <1>5, OthersUncounted, KindsCounted
<1>8. \A n \in Node \ {o} : Clear(n, a) BY <1>1 DEF Lacks
<1> QED BY <1>6, <1>7, <1>8

\* The home waits for the owner alone: the owner has its request, and nobody else.
LEMMA FetchedNodes ==
  ASSUME CoherenceInv, NEW a \in Addr, pendingInvAckCount[a] = 0
  PROVE  \E S \in SUBSET Node : /\ AskedAre(S, a, Fetches, WriteBacks)
                                /\ IF Serving(a) THEN \E o : S = {o} ELSE S = {}
<1>1. CASE AtRest(a)
  <2>1. PICK S \in SUBSET Node : S = {} OBVIOUS
  <2>2. AskedAre(S, a, Fetches, WriteBacks) BY <1>1, <2>1, RestClear, ClearNodes, KindsCounted
  <2> QED BY <1>1, <2>1, <2>2 DEF AtRest
<1>2. CASE AwaitsAcks(a)
  <2>1. PICK S \in SUBSET Node : S = Busy(a) BY DEF Busy
  <2>2. S # {} /\ Cardinality(S) = 0 BY <1>2, <2>1 DEF AwaitsAcks
  <2>3. IsFiniteSet(S) BY NodesFinite
  <2> QED BY <2>2, <2>3, FS_EmptySet
<1>3. CASE AwaitsOwner(a)
  <2>1. PICK o \in Node : /\ OneAsk(o, a, Fetches, WriteBacks)
                          /\ \A n \in Node \ {o} : Clear(n, a)
    BY <1>3, FetchedNode
  <2>2. PICK S \in SUBSET Node : S = {o} OBVIOUS
  <2>3. \A n \in Node \ {o} : NoAsks(n, a, Fetches, WriteBacks)
    BY <2>1, ClearAsks, KindsCounted
  <2>4. AskedAre(S, a, Fetches, WriteBacks) BY <2>1, <2>2, <2>3 DEF AskedAre
  <2> QED BY <1>3, <2>2, <2>4 DEF AwaitsOwner
<1> QED BY <1>1, <1>2, <1>3 DEF CoherenceInv, LineInv

\* The home counts the sharers that have its request, and nobody else.
LEMMA InvalidatedNodes ==
  ASSUME CoherenceInv, NEW a \in Addr
  PROVE  \E S \in SUBSET Node : /\ AskedAre(S, a, Invalidates, InvAcks)
                                /\ pendingInvAckCount[a] = Cardinality(S)
<1>1. CASE AtRest(a)
  <2>1. PICK S \in SUBSET Node : S = {} OBVIOUS
  <2>2. AskedAre(S, a, Invalidates, InvAcks) BY <1>1, <2>1, RestClear, ClearNodes, KindsCounted
  <2>3. Cardinality(S) = 0 BY <2>1, FS_EmptySet
  <2> QED BY <1>1, <2>2, <2>3 DEF AtRest
<1>2. CASE AwaitsAcks(a)
  <2>1. PICK S \in SUBSET Node : S = Busy(a) BY DEF Busy
  <2>2. pendingInvAckCount[a] = Cardinality(S) BY <1>2, <2>1 DEF AwaitsAcks
  <2>3. ASSUME NEW n \in S PROVE OneAsk(n, a, Invalidates, InvAcks)
    <3>1. n \in Node /\ ~Clear(n, a) BY <2>1 DEF Busy
    <3>2. ~Lacks(n, a) BY <3>1 DEF Lacks
    <3>3. Invalidating(n, a) BY <1>2, <3>1, <3>2 DEF AwaitsAcks
    <3>4. PICK type, answer : type = "INVALIDATE" /\ answer = "INVALIDATE_ACK" OBVIOUS
    <3>5. type \in Invalidates /\ answer \in InvAcks BY <3>4 DEF Invalidates, InvAcks
    <3>6. Asked(n, a, type) \/ AtHolder(n, a, type) \/ Answered(n, a, answer)
      BY <3>3, <3>4 DEF Invalidating
    <3> QED BY <3>1, <3>5, <3>6, AskedCounts, KindsCounted
  <2>4. ASSUME NEW n \in Node \ S PROVE NoAsks(n, a, Invalidates, InvAcks)
    <3>1. Clear(n, a) BY <2>1 DEF Busy
    <3> QED BY <3>1, ClearAsks, KindsCounted
  <2>5. AskedAre(S, a, Invalidates, InvAcks) BY <2>3, <2>4 DEF AskedAre
  <2> QED BY <2>2, <2>5
<1>3. CASE AwaitsOwner(a)
  <2>1. PICK o \in Node : /\ NoAsks(o, a, Invalidates, InvAcks)
                          /\ \A n \in Node \ {o} : Clear(n, a)
    BY <1>3, FetchedNode
  <2>2. PICK S \in SUBSET Node : S = {} OBVIOUS
  <2>3. \A n \in Node \ {o} : NoAsks(n, a, Invalidates, InvAcks)
    BY <2>1, ClearAsks, KindsCounted
  <2>4. AskedAre(S, a, Invalidates, InvAcks) BY <2>1, <2>2, <2>3 DEF AskedAre
  <2>5. Cardinality(S) = 0 BY <2>2, FS_EmptySet
  <2> QED BY <1>3, <2>4, <2>5 DEF AwaitsOwner
<1> QED BY <1>1, <1>2, <1>3 DEF CoherenceInv, LineInv

\* The home of a line that counts no ACKs serves a request exactly when one request to the
\* owner, or its answer, is on its way.
THEOREM OwnerAnswersAlways == ASSUME LinesFit PROVE Spec => []OwnerAnswers
<1>1. CoherenceInv => OwnerAnswers
  <2> SUFFICES ASSUME CoherenceInv, NEW a \in Addr, pendingInvAckCount[a] = 0
               PROVE  LET Serviced(msg) ==
                            msg.addr = a /\ msg.type \in HomeRequest /\ msg.serviced
                          Fetched(msg) ==
                            msg.addr = a /\ msg.type \in {"FETCH", "FETCH_INVALIDATE",
                                                          "DATA_WRITE_BACK"}
                      IN  Cardinality(Blocked(Serviced))
                          = Cardinality(InFlight(Fetched)) + Cardinality(Blocked(Fetched))
    BY DEF OwnerAnswers
  <2> DEFINE Serviced(msg) == msg.addr = a /\ msg.type \in HomeRequest /\ msg.serviced
             Fetched(msg) == msg.addr = a /\ msg.type \in {"FETCH", "FETCH_INVALIDATE",
                                                           "DATA_WRITE_BACK"}
             I == InFlight(Fetched)
             B == Blocked(Fetched)
             V == Blocked(Serviced)
  <2>1. TypeOK BY InvTypes
  <2> DEFINE Those == About(a, Fetches \cup WriteBacks)
  <2>2. \A msg \in Message : Fetched(msg) <=> msg \in Those
    BY DEF About, Fetches, WriteBacks
  <2>3. CountedAsks(a, Fetches \cup WriteBacks, I, B)
    <3> HIDE DEF Fetched, Those
    <3>1. \A m \in Node : /\ DOMAIN incomingMsgQueue[m] = 1..Len(incomingMsgQueue[m])
                          /\ \A i \in 1..Len(incomingMsgQueue[m]) :
                               incomingMsgQueue[m][i] \in Message
      BY <2>1, QueuedAre
    <3>2. \A m \in Node, b \in Addr :
            /\ DOMAIN blockedMsgMap[m][b] = 1..Len(blockedMsgMap[m][b])
            /\ \A i \in 1..Len(blockedMsgMap[m][b]) : blockedMsgMap[m][b][i] \in Message
      BY <2>1, QueuedAre
    <3>3. \A x : x \in I <=>
            \E m \in Node : \E i \in 1..Len(incomingMsgQueue[m]) :
              x = <<m, i>> /\ incomingMsgQueue[m][i] \in Those
      BY <2>2, <3>1 DEF InFlight
    <3>4. \A x : x \in B <=>
            \E m \in Node, b \in Addr : \E i \in 1..Len(blockedMsgMap[m][b]) :
              x = <<m, b, i>> /\ blockedMsgMap[m][b][i] \in Those
      BY <2>2, <3>2 DEF Blocked
    <3> QED BY <3>3, <3>4 DEF CountedAsks, Those
  <2>4. \A x : x \in V <=> \E m \in Node, b \in Addr : \E i \in 1..Len(blockedMsgMap[m][b]) :
                             /\ x = <<m, b, i>>
                             /\ blockedMsgMap[m][b][i].addr = a
                             /\ blockedMsgMap[m][b][i].type \in HomeRequest
                             /\ blockedMsgMap[m][b][i].serviced
    BY <2>1, QueuedAre DEF Blocked
  <2> HIDE DEF I, B, V, Those
  <2>5. PICK S \in SUBSET Node : /\ AskedAre(S, a, Fetches, WriteBacks)
                                 /\ IF Serving(a) THEN \E o : S = {o} ELSE S = {}
    BY FetchedNodes
  <2>6. Cardinality(I) + Cardinality(B) = Cardinality(S)
    BY <2>3, <2>5, AsksCounted, KindsCounted
  <2>7. IF Serving(a) THEN \E x : V = {x} ELSE V = {} BY <2>4, ServicedPlace
  <2>8. Cardinality({}) = 0 /\ \A x : Cardinality({x}) = 1 BY FS_EmptySet, FS_Singleton
  <2>9. Cardinality(V) = Cardinality(S) BY <2>5, <2>7, <2>8
  <2>10. Cardinality(V) = Cardinality(I) + Cardinality(B) BY <2>6, <2>9
  <2> QED BY <2>10 DEF I, B, V
<1> QED BY <1>1, CoherenceAlways, PTL

\* The count of ACKs the home waits for is the number of INVALIDATEs and INVALIDATE_ACKs
\* on their way.
THEOREM AckCountExactAlways == ASSUME LinesFit PROVE Spec => []AckCountExact
<1>1. CoherenceInv => AckCountExact
  <2> SUFFICES ASSUME CoherenceInv, NEW a \in Addr
               PROVE  LET Unanswered(msg) ==
                            msg.addr = a /\ msg.type \in {"INVALIDATE", "INVALIDATE_ACK"}
                      IN  pendingInvAckCount[a] = Cardinality(InFlight(Unanswered))
                                                + Cardinality(Blocked(Unanswered))
    BY DEF AckCountExact
  <2> DEFINE Unanswered(msg) ==
               msg.addr = a /\ msg.type \in {"INVALIDATE", "INVALIDATE_ACK"}
             I == InFlight(Unanswered)
             B == Blocked(Unanswered)
  <2>1. TypeOK BY InvTypes
  <2> DEFINE Those == About(a, Invalidates \cup InvAcks)
  <2>2. \A msg \in Message : Unanswered(msg) <=> msg \in Those
    BY DEF About, Invalidates, InvAcks
  <2>3. CountedAsks(a, Invalidates \cup InvAcks, I, B)
    <3> HIDE DEF Unanswered, Those
    <3>1. \A m \in Node : /\ DOMAIN incomingMsgQueue[m] = 1..Len(incomingMsgQueue[m])
                          /\ \A i \in 1..Len(incomingMsgQueue[m]) :
                               incomingMsgQueue[m][i] \in Message
      BY <2>1, QueuedAre
    <3>2. \A m \in Node, b \in Addr :
            /\ DOMAIN blockedMsgMap[m][b] = 1..Len(blockedMsgMap[m][b])
            /\ \A i \in 1..Len(blockedMsgMap[m][b]) : blockedMsgMap[m][b][i] \in Message
      BY <2>1, QueuedAre
    <3>3. \A x : x \in I <=>
            \E m \in Node : \E i \in 1..Len(incomingMsgQueue[m]) :
              x = <<m, i>> /\ incomingMsgQueue[m][i] \in Those
      BY <2>2, <3>1 DEF InFlight
    <3>4. \A x : x \in B <=>
            \E m \in Node, b \in Addr : \E i \in 1..Len(blockedMsgMap[m][b]) :
              x = <<m, b, i>> /\ blockedMsgMap[m][b][i] \in Those
      BY <2>2, <3>2 DEF Blocked
    <3> QED BY <3>3, <3>4 DEF CountedAsks, Those
  <2> HIDE DEF I, B, Those
  <2>4. PICK S \in SUBSET Node : /\ AskedAre(S, a, Invalidates, InvAcks)
                                 /\ pendingInvAckCount[a] = Cardinality(S)
    BY InvalidatedNodes
  <2>5. Cardinality(I) + Cardinality(B) = Cardinality(S)
    BY <2>3, <2>4, AsksCounted, KindsCounted
  <2>6. pendingInvAckCount[a] = Cardinality(I) + Cardinality(B) BY <2>4, <2>5
  <2> QED BY <2>6 DEF I, B
<1> QED BY <1>1, CoherenceAlways, PTL

-------------------------------------------------------------------------------
(* The accesses a cache has still to do: the node has the right to them, or  *)
(* the request of the home that takes the line away waits behind them.       *)

StatusFor(type) == IF type = "write" THEN {"M", "E"} ELSE {"M", "E", "S"}
AskFor(type) == IF type = "write" THEN Fetches ELSE OwnerRequest

\* What a node has of a line, the front of the line's blocked queue, the type of the
\* operation in progress and the queue of the cache.
AccessFits(status, first, type, q, a) ==
  \/ None(q, AsCache(a, Accesses))
  \/ status \in StatusFor(type)
  \/ /\ first \in AskFor(type)
     /\ ~None(q, AsCache(a, CacheAsk))
     /\ Before(q, AsCache(a, Accesses), AsCache(a, CacheAsk))

AccessInv ==
  \A n \in Node, a \in Addr :
    AccessFits(cacheLineStatus[n][a], FirstType(n, a), currentMemOp[n].type, cacheMsgQueue[n], a)

\* AccessFits of the next state, in terms of what it depends on.
LEMMA AccessMeans ==
  ASSUME NEW n \in Node, NEW a \in Addr, NEW status, NEW first, NEW type, NEW q,
         status = cacheLineStatus'[n][a], first = FirstType(n, a)',
         type = currentMemOp'[n].type, q = cacheMsgQueue'[n], AccessFits(status, first, type, q, a)
  PROVE  AccessFits(cacheLineStatus[n][a], FirstType(n, a), currentMemOp[n].type,
                    cacheMsgQueue[n], a)'
  BY DEF AccessFits, StatusFor, AskFor, AsCache, None, Before

\* An access fits as before when its queue ages, loses its front, or gets other requests.
LEMMA FitsKept ==
  ASSUME NEW q \in Seq(CacheMessage), NEW a, NEW status, NEW first, NEW type,
         AccessFits(status, first, type, q, a)
  PROVE  /\ AccessFits(status, first, type, Older(q), a)
         /\ q # <<>> => AccessFits(status, first, type, Tail(q), a)
         /\ \A x \in CacheMessage : x.addr # a => AccessFits(status, first, type, Append(q, x), a)
<1> DEFINE S == AsCache(a, Accesses)
           T == AsCache(a, CacheAsk)
<1>1. CASE status \in StatusFor(type) BY <1>1 DEF AccessFits
<1>2. ASSUME NEW r, None(q, S) => None(r, S),
             ~None(r, S) /\ ~None(q, T) /\ Before(q, S, T) => ~None(r, T) /\ Before(r, S, T)
      PROVE  AccessFits(status, first, type, r, a)
  BY <1>2 DEF AccessFits
<1>3. AccessFits(status, first, type, Older(q), a)
  <2>1. /\ Len(Older(q)) = Len(q)
        /\ \A i \in 1..Len(q) : /\ Older(q)[i] \in S <=> q[i] \in S
                                /\ Older(q)[i] \in T <=> q[i] \in T
    BY OlderRequests DEF AsCache
  <2> HIDE DEF S, T
  <2>2. /\ None(q, S) => None(Older(q), S)
        /\ ~None(q, T) => ~None(Older(q), T)
        /\ Before(q, S, T) => Before(Older(q), S, T)
    BY <2>1 DEF None, Before
  <2> QED BY <1>2, <2>2
<1>4. ASSUME q # <<>> PROVE AccessFits(status, first, type, Tail(q), a)
  <2> HIDE DEF S, T
  <2>1. /\ Len(Tail(q)) = Len(q) - 1 /\ Len(q) \in Nat /\ Len(q) >= 1
        /\ \A i \in 1..Len(Tail(q)) : i + 1 \in 1..Len(q) /\ Tail(q)[i] = q[i + 1]
        /\ \A i \in 1..Len(q) : i # 1 => i - 1 \in 1..Len(Tail(q)) /\ Tail(q)[i - 1] = q[i]
    BY <1>4, HeadTailProperties, EmptySeq, LenProperties
  <2>2. None(q, S) => None(Tail(q), S) BY <2>1 DEF None
  <2>3. ASSUME ~None(Tail(q), S), ~None(q, T), Before(q, S, T)
        PROVE  ~None(Tail(q), T) /\ Before(Tail(q), S, T)
    <3>1. PICK i \in 1..Len(Tail(q)) : Tail(q)[i] \in S BY <2>3 DEF None
    <3>2. PICK j \in 1..Len(q) : q[j] \in T BY <2>3 DEF None
    <3>3. i + 1 < j BY <2>1, <2>3, <3>1, <3>2 DEF Before
    <3>4. j # 1 BY <3>3
    <3>5. ~None(Tail(q), T) BY <2>1, <3>2, <3>4 DEF None
    <3>6. ASSUME NEW k \in 1..Len(Tail(q)), NEW l \in 1..Len(Tail(q)),
                 Tail(q)[k] \in S, Tail(q)[l] \in T
          PROVE  k < l
      <4>1. k + 1 < l + 1 BY <2>1, <2>3, <3>6 DEF Before
      <4> QED BY <4>1
    <3> QED BY <3>5, <3>6 DEF Before
  <2> QED BY <1>2, <2>2, <2>3
<1>5. ASSUME NEW x \in CacheMessage, x.addr # a
      PROVE  AccessFits(status, first, type, Append(q, x), a)
  <2>1. x \notin S /\ x \notin T BY <1>5 DEF AsCache
  <2>2. /\ Len(q) \in Nat /\ Len(Append(q, x)) = Len(q) + 1 /\ Append(q, x)[Len(q) + 1] = x
        /\ \A i \in 1..Len(q) : Append(q, x)[i] = q[i]
    BY AppendProperties, LenProperties
  <2> HIDE DEF S, T
  <2>3. \A i \in 1..Len(Append(q, x)) : Append(q, x)[i] \in S \cup T => i \in 1..Len(q)
    BY <2>1, <2>2
  <2>4. /\ None(q, S) => None(Append(q, x), S)
        /\ ~None(q, T) => ~None(Append(q, x), T)
        /\ Before(q, S, T) => Before(Append(q, x), S, T)
    BY <2>2, <2>3 DEF None, Before
  <2> QED BY <1>2, <2>4
<1> QED BY <1>3, <1>4, <1>5

\* A front that is no request of a home is as good as any other such.
LEMMA FitsFirst ==
  ASSUME NEW q, NEW a, NEW status, NEW first, NEW type, AccessFits(status, first, type, q, a),
         NEW other, other = first \/ first \notin OwnerRequest
  PROVE  AccessFits(status, other, type, q, a)
  BY DEF AccessFits, AskFor, Fetches, OwnerRequest

\* What a grant gives.
LEMMA GrantGives ==
  ASSUME CoherenceInv, NEW n \in Node, InvalidateOtherAck(n) \/ DataValueReply(n),
         NEW a \in Addr, a = A(n)
  PROVE  /\ Handling(n) /\ NoAccess(n) /\ ~currentMemOpSuccessful[n]
         /\ a = currentMemOp[n].addr /\ cacheLineStatus[n][a] \in {"S", "I"}
         /\ \E status \in StatusFor(currentMemOp[n].type) :
              SetStatus(n, a, status) /\ (status = "S" => cacheLineStatus[n][a] = "I")
         /\ SendMsgToCache(n, a, "CACHE_UPDATE") /\ NoReply(n) /\ Done(n)
         /\ UNCHANGED procVars
<1>1. TypeOK /\ RequestsWait /\ Outstanding(n) BY InvTypes DEF CoherenceInv, OutstandingInv
<1>2. /\ Handling(n) /\ Current(n).type \in Grant
      /\ SendMsgToCache(n, a, "CACHE_UPDATE") /\ NoReply(n) /\ Done(n)
      /\ UNCHANGED procVars
  BY HandlesWhat DEF InvalidateOtherAck, DataValueReply, Grant
<1>3. Current(n).type \in Answers BY <1>2 DEF Grant, Answers
<1>4. ~Draining /\ NoAccess(n) /\ ~currentMemOpSuccessful[n] BY <1>1, <1>2, <1>3, AnswerInHand
<1>5. IncomingOK(n, Current(n)) BY <1>2, <1>4, Hand
<1>6. a = currentMemOp[n].addr BY <1>3, <1>5 DEF IncomingOK, A
<1>7. PICK op \in Op : op = currentMemOp[n] BY <1>1 DEF TypeOK
<1>8. op.type \in {"read", "write"} BY DEF Op
<1>9. CASE InvalidateOtherAck(n)
  <2>1. Current(n).type = "INVALIDATE_OTHER_ACK" /\ SetStatus(n, a, "M")
    BY <1>9, HandlesWhat DEF InvalidateOtherAck
  <2>2. cacheLineStatus[n][a] \in {"S", "I"} BY <1>2, <2>1, GrantHand
  <2>3. "M" \in StatusFor(op.type) BY <1>8 DEF StatusFor
  <2> QED BY <1>2, <1>4, <1>6, <1>7, <2>1, <2>2, <2>3
<1>10. CASE DataValueReply(n)
  <2>1. PICK type \in {"DATA_VALUE_REPLY", "DATA_VALUE_REPLY_E"} :
          /\ Handles(n, type)
          /\ SetStatus(n, A(n), IF LineStatus(n) = "I"
                                THEN CASE type = "DATA_VALUE_REPLY_E" -> "E"
                                       [] type = "DATA_VALUE_REPLY"
                                            /\ currentMemOp[n].type = "write" -> "M"
                                       [] OTHER -> "S"
                                ELSE LineStatus(n))
    BY <1>10 DEF DataValueReply
  <2>2. Current(n).type = type BY <2>1, HandlesWhat
  <2>3. cacheLineStatus[n][a] = "I" BY <1>2, <2>2, GrantHand
  <2>4. LineStatus(n) = "I" BY <2>3 DEF LineStatus
  <2>5. CASE type = "DATA_VALUE_REPLY_E"
    <3>1. SetStatus(n, a, "E") BY <2>1, <2>4, <2>5
    <3>2. op.type = "read" BY <1>5, <1>7, <2>2, <2>5 DEF IncomingOK
    <3>3. "E" \in StatusFor(op.type) BY <3>2 DEF StatusFor
    <3> QED BY <1>2, <1>4, <1>6, <1>7, <2>3, <3>1, <3>3
  <2>6. CASE type = "DATA_VALUE_REPLY" /\ op.type = "write"
    <3>1. SetStatus(n, a, "M") BY <1>7, <2>1, <2>4, <2>6
    <3>2. "M" \in StatusFor(op.type) BY <2>6 DEF StatusFor
    <3> QED BY <1>2, <1>4, <1>6, <1>7, <2>3, <3>1, <3>2
  <2>7. CASE type = "DATA_VALUE_REPLY" /\ op.type = "read"
    <3>1. SetStatus(n, a, "S") BY <1>7, <2>1, <2>4, <2>7
    <3>2. "S" \in StatusFor(op.type) BY <2>7 DEF StatusFor
    <3> QED BY <1>2, <1>4, <1>6, <1>7, <2>3, <3>1, <3>2
  <2> QED BY <1>8, <2>5, <2>6, <2>7
<1> QED BY <1>9, <1>10

\* What the cache, the loop and a waiting processor leave.
LEMMA RunsKeep ==
  ASSUME CoherenceInv, NEW n \in Node, RunsOn(n) \/ UNCHANGED vars
  PROVE  /\ UNCHANGED <<blockedMsgMap, cacheLineStatus, currentMemOp>>
         /\ \A m \in Node : LET q == cacheMsgQueue[m]
                            IN  \/ cacheMsgQueue'[m] \in {q, Older(q)}
                                \/ q # <<>> /\ cacheMsgQueue'[m] = Tail(q)
<1>1. TypeOK BY InvTypes
<1>2. UNCHANGED <<blockedMsgMap, cacheLineStatus, currentMemOp>>
  BY DEF RunsOn, CacheTick, CacheReads, CacheInvalidates, CacheFetches, CacheUpdates,
         CacheServes, HandlerTick, DrainEnds, ProcessorWaits, ProcessorTurn, homeVars, procVars,
         globals, vars
<1>3. ASSUME NEW m \in Node, IdlesOn(n) \/ UNCHANGED vars
      PROVE  cacheMsgQueue'[m] \in {cacheMsgQueue[m], Older(cacheMsgQueue[m])}
  <2>1. Addr # {} BY ContextAssumption
  <2>2. PICK b \in Addr : TRUE BY <2>1
  <2> QED BY <1>1, <1>3, <2>2, IdleSame
<1>4. ASSUME NEW m \in Node, CacheWorks(n)
      PROVE  \/ cacheMsgQueue'[m] = cacheMsgQueue[m]
             \/ cacheMsgQueue[m] # <<>> /\ cacheMsgQueue'[m] = Tail(cacheMsgQueue[m])
  <2>1. /\ cacheMsgQueue[n] # <<>>
        /\ cacheMsgQueue' = [cacheMsgQueue EXCEPT ![n] = Tail(@)]
    BY <1>1, <1>4, ServedIs
  <2>2. cacheMsgQueue \in [Node -> Seq(CacheMessage)] BY <1>1 DEF TypeOK
  <2> QED BY <2>1, <2>2
<1> QED BY <1>2, <1>3, <1>4 DEF RunsOn, CacheWorks, IdlesOn

\* Accesses keep their rights when a component runs, ...
LEMMA RunsAccess ==
  ASSUME CoherenceInv, AccessInv, NEW n \in Node, RunsOn(n) \/ UNCHANGED vars
  PROVE  AccessInv'
<1> SUFFICES ASSUME NEW m \in Node, NEW b \in Addr
             PROVE  AccessFits(cacheLineStatus[m][b], FirstType(m, b), currentMemOp[m].type,
                               cacheMsgQueue[m], b)'
  BY DEF AccessInv
<1>1. TypeOK BY InvTypes
<1>2. PICK status : status = cacheLineStatus[m][b] OBVIOUS
<1>3. PICK first : first = FirstType(m, b) OBVIOUS
<1>4. PICK type : type = currentMemOp[m].type OBVIOUS
<1>5. PICK q \in Seq(CacheMessage) : q = cacheMsgQueue[m] BY <1>1 DEF TypeOK
<1>6. AccessFits(status, first, type, q, b) BY <1>2, <1>3, <1>4, <1>5 DEF AccessInv
<1>7. /\ status = cacheLineStatus'[m][b] /\ first = FirstType(m, b)'
      /\ type = currentMemOp'[m].type
  BY <1>2, <1>3, <1>4, RunsKeep DEF FirstType
<1>8. PICK r : r = cacheMsgQueue'[m] OBVIOUS
<1>9. r \in {q, Older(q)} \/ (q # <<>> /\ r = Tail(q)) BY <1>5, <1>8, RunsKeep
<1>10. AccessFits(status, first, type, r, b) BY <1>6, <1>9, FitsKept
<1> QED BY <1>7, <1>8, <1>10, AccessMeans

\* What a message that is no grant and no request of the home leaves.
Grants(n) == InvalidateOtherAck(n) \/ DataValueReply(n)

\* (most handlers touch no status, no request to a cache and no operation)
LEMMA HandsKeep ==
  ASSUME NEW n \in Node, HandlesOn(n), ~AsksOn(n), ~Grants(n)
  PROVE  UNCHANGED <<cacheLineStatus, cacheMsgQueue, currentMemOp>>
<1>1. CASE \/ HomeBusy(n) \/ ReadMissShares(n) \/ ReadMissGivesExclusive(n) \/ ReadMissFetches(n)
           \/ WriteMissUncached(n) \/ WriteMissInvalidates(n) \/ WriteMissFetches(n)
           \/ InvalidateOtherRollsBack(n) \/ InvalidateOtherInvalidates(n)
           \/ InvalidateOtherGrants(n)
  BY <1>1 DEF HomeBusy, ReadMissShares, ReadMissGivesExclusive, ReadMissFetches, ReadMiss,
         WriteMissUncached, WriteMissInvalidates, WriteMissFetches, WriteMiss,
         InvalidateOtherRollsBack, InvalidateOtherInvalidates, InvalidateOtherGrants, procVars
<1>2. CASE \/ InvalidateAckCounts(n) \/ InvalidateAckGrants(n)
           \/ WriteBackAnswersWrite(n) \/ WriteBackAnswersRead(n)
           \/ Rollback(n) \/ MemOpDone(n) \/ CacheAck(n)
  BY <1>2 DEF InvalidateAckCounts, InvalidateAckGrants, InvalidateAck, WriteBackAnswersWrite,
         WriteBackAnswersRead, WriteBack, Rollback, MemOpDone, CacheAck, procVars
<1> QED BY <1>1, <1>2 DEF HandlesOn, AsksOn, Grants

\* ... when such a handler does, ...
LEMMA QuietAccess ==
  ASSUME CoherenceInv, AccessInv, NEW n \in Node, HandlesOn(n), ~AsksOn(n), ~CacheAck(n)
  PROVE  AccessInv'
<1> SUFFICES ASSUME NEW m \in Node, NEW b \in Addr
             PROVE  AccessFits(cacheLineStatus[m][b], FirstType(m, b), currentMemOp[m].type,
                               cacheMsgQueue[m], b)'
  BY DEF AccessInv
<1>0. Handling(n) BY HandledAdds
<1>1. TypeOK BY InvTypes
<1>a. PICK a \in Addr : a = A(n) BY <1>0, <1>1, CurrentType
<1>2. PICK status : status = cacheLineStatus[m][b] OBVIOUS
<1>3. PICK first : first = FirstType(m, b)' OBVIOUS
<1>4. PICK type : type = currentMemOp[m].type OBVIOUS
<1>5. PICK q \in Seq(CacheMessage) : q = cacheMsgQueue[m] BY <1>1 DEF TypeOK
<1>6. AccessFits(status, first, type, q, b)
  <2>1. PICK before : before = FirstType(m, b) OBVIOUS
  <2>2. first = before \/ before \notin OwnerRequest BY <1>3, <2>1, FrontsStay DEF FirstSame
  <2>3. AccessFits(status, before, type, q, b) BY <1>2, <1>4, <1>5, <2>1 DEF AccessInv
  <2> QED BY <2>2, <2>3, FitsFirst
<1>7. PICK r : r = cacheMsgQueue'[m] OBVIOUS
<1>8. CASE ~Grants(n)
  <2>1. status = cacheLineStatus'[m][b] /\ type = currentMemOp'[m].type /\ r = q
    BY <1>2, <1>4, <1>5, <1>7, <1>8, HandsKeep
  <2> QED BY <1>3, <1>6, <1>7, <2>1, AccessMeans
<1>9. CASE Grants(n)
  <2>1. /\ \E given \in StatusFor(currentMemOp[n].type) : SetStatus(n, a, given)
        /\ SendMsgToCache(n, a, "CACHE_UPDATE") /\ UNCHANGED procVars
    BY <1>a, <1>9, GrantGives DEF Grants
  <2>2. PICK given \in StatusFor(currentMemOp[n].type) : SetStatus(n, a, given) BY <2>1
  <2>3. PICK ask \in CacheRequest : ask = "CACHE_UPDATE" BY DEF CacheRequest
  <2>4. PICK x \in CacheMessage :
          /\ x.addr = a
          /\ \A o \in Node : cacheMsgQueue'[o] = IF o = n THEN Append(cacheMsgQueue[o], x)
                                                          ELSE cacheMsgQueue[o]
    BY <1>1, <2>1, <2>3, AskSent
  <2>5. type = currentMemOp'[m].type BY <1>4, <2>1 DEF procVars
  <2>6. cacheLineStatus'[m][b] = IF m = n /\ b = a THEN given ELSE status
    BY <1>1, <1>2, <2>2 DEF SetStatus, TypeOK
  <2>7. CASE m = n /\ b = a
    <3>1. AccessFits(given, first, type, r, b) BY <1>4, <2>2, <2>7 DEF AccessFits
    <3> QED BY <1>3, <1>7, <2>5, <2>6, <2>7, <3>1, AccessMeans
  <2>8. CASE ~(m = n /\ b = a)
    <3>1. r = q \/ (r = Append(q, x) /\ x.addr # b) BY <1>5, <1>7, <2>4, <2>8
    <3>2. AccessFits(status, first, type, r, b) BY <1>6, <3>1, FitsKept
    <3>3. status = cacheLineStatus'[m][b] BY <2>6, <2>8
    <3> QED BY <1>3, <1>7, <2>5, <3>2, <3>3, AccessMeans
  <2> QED BY <2>7, <2>8
<1> QED BY <1>8, <1>9

\* The home takes a line away: what the cache has still to do goes first.
LEMMA HolderAccess ==
  ASSUME CoherenceInv, AccessInv, NEW n \in Node, AsksOn(n)
  PROVE  AccessInv'
<1>1. /\ Handling(n) /\ Current(n).type \in OwnerRequest /\ Block(n, TRUE)
      /\ SendMsgToCache(n, A(n), IF Current(n).type = "FETCH" THEN "CACHE_FETCH"
                                                              ELSE "CACHE_INVALIDATE")
      /\ SetStatus(n, A(n), IF Current(n).type = "FETCH" THEN "S" ELSE "I")
      /\ UNCHANGED procVars
  BY HandlesWhat DEF AsksOn, Invalidate, Fetch, OwnerRequest
<1>2. TypeOK /\ BlockingInv /\ CacheInv BY InvTypes DEF CoherenceInv
<1>3. PICK a \in Addr : a = A(n) BY <1>1, <1>2, CurrentType
<1>4. PICK asked \in OwnerRequest : asked = Current(n).type BY <1>1
<1>5. PICK ask \in CacheRequest : ask \in CacheAsk /\ SendMsgToCache(n, a, ask)
  BY <1>1, <1>3 DEF CacheRequest, CacheAsk
<1>6. ~Draining /\ FirstType(n, a) \notin OwnerRequest
      /\ \/ asked = "INVALIDATE" /\ cacheLineStatus[n][a] = "S"
         \/ asked \in Fetches
  BY <1>1, <1>3, <1>4, HolderHand DEF Asked, Fetches
<1>7. PICK serviced \in BOOLEAN : serviced = TRUE OBVIOUS
<1>8. /\ FirstType(n, a)' = asked
      /\ \A m \in Node, b \in Addr : m # n \/ b # a => FirstSame(m, b)
  BY <1>1, <1>2, <1>3, <1>4, <1>6, <1>7, BlockHolder
<1>9. PICK x \in CacheMessage :
        /\ x.type = ask /\ x.addr = a
        /\ \A m \in Node : cacheMsgQueue'[m] = IF m = n THEN Append(cacheMsgQueue[m], x)
                                                        ELSE cacheMsgQueue[m]
  BY <1>2, <1>5, AskSent
<1> SUFFICES ASSUME NEW m \in Node, NEW b \in Addr
             PROVE  AccessFits(cacheLineStatus[m][b], FirstType(m, b), currentMemOp[m].type,
                               cacheMsgQueue[m], b)'
  BY DEF AccessInv
<1>10. PICK status : status = cacheLineStatus[m][b] OBVIOUS
<1>11. PICK first : first = FirstType(m, b) OBVIOUS
<1>12. PICK type : type = currentMemOp[m].type /\ type = currentMemOp'[m].type
  BY <1>1 DEF procVars
<1>13. PICK q \in Seq(CacheMessage) : q = cacheMsgQueue[m] BY <1>2 DEF TypeOK
<1>14. AccessFits(status, first, type, q, b) BY <1>10, <1>11, <1>12, <1>13 DEF AccessInv
<1>15. PICK r : r = cacheMsgQueue'[m] OBVIOUS
<1>16. CASE m = n /\ b = a
  <2>1. PICK later : later = cacheLineStatus'[m][b] OBVIOUS
  <2>2. asked = FirstType(m, b)' BY <1>8, <1>16
  <2>3. r = Append(q, x) BY <1>9, <1>13, <1>15, <1>16
  <2> DEFINE S == AsCache(a, Accesses)
             T == AsCache(a, CacheAsk)
  <2>4. None(q, T) BY <1>2, <1>6, <1>13, <1>16 DEF CacheInv, AtCacheOnce
  <2>5. x \in T /\ x \notin S BY <1>5, <1>9 DEF AsCache, CacheAsk, Accesses
  <2>6. /\ Len(q) \in Nat /\ Len(r) = Len(q) + 1 /\ r[Len(q) + 1] = x
        /\ \A i \in 1..Len(q) : r[i] = q[i]
    BY <2>3, AppendProperties, LenProperties
  <2> HIDE DEF S, T
  <2>7. ~None(r, T) /\ Before(r, S, T) /\ (None(q, S) => None(r, S))
    <3>1. \A i \in 1..Len(r) : i \in 1..Len(q) \/ i = Len(q) + 1 BY <2>6
    <3>2. Len(q) + 1 \in 1..Len(r) BY <2>6
    <3>3. ~None(r, T) BY <2>5, <2>6, <3>2 DEF None
    <3>4. None(q, S) => None(r, S) BY <2>5, <2>6, <3>1 DEF None
    <3>5. ASSUME NEW i \in 1..Len(r), NEW j \in 1..Len(r), r[i] \in S, r[j] \in T
          PROVE  i < j
      <4>1. i \in 1..Len(q) BY <2>5, <2>6, <3>1, <3>5
      <4>2. j = Len(q) + 1 BY <2>4, <2>6, <3>1, <3>5 DEF None
      <4> QED BY <2>6, <4>1, <4>2
    <3> QED BY <3>3, <3>4, <3>5 DEF Before
  <2>8. None(q, S) \/ status \in StatusFor(type)
    BY <1>6, <1>11, <1>14, <1>16 DEF AccessFits, AskFor, Fetches, OwnerRequest, S
  <2>9. status \in StatusFor(type) => asked \in AskFor(type)
    BY <1>4, <1>6, <1>10, <1>16 DEF StatusFor, AskFor
  <2>10. AccessFits(later, asked, type, r, b)
    BY <1>16, <2>7, <2>8, <2>9 DEF AccessFits, S, T
  <2> QED BY <1>12, <1>15, <2>1, <2>2, <2>10, AccessMeans
<1>17. CASE ~(m = n /\ b = a)
  <2>1. status = cacheLineStatus'[m][b]
    BY <1>1, <1>2, <1>3, <1>10, <1>17 DEF SetStatus, TypeOK
  <2>2. PICK later : later = FirstType(m, b)' OBVIOUS
  <2>3. later = first \/ first \notin OwnerRequest BY <1>8, <1>11, <1>17, <2>2 DEF FirstSame
  <2>4. AccessFits(status, later, type, q, b) BY <1>14, <2>3, FitsFirst
  <2>5. r = q \/ (r = Append(q, x) /\ x.addr # b) BY <1>9, <1>13, <1>15, <1>17
  <2>6. AccessFits(status, later, type, r, b) BY <2>4, <2>5, FitsKept
  <2> QED BY <1>12, <1>15, <2>1, <2>2, <2>6, AccessMeans
<1> QED BY <1>16, <1>17

\* The cache has answered: none of its accesses to the line is left, or the node has it.
LEMMA CacheAckAccess ==
  ASSUME CoherenceInv, AccessInv, NEW n \in Node, CacheAck(n)
  PROVE  AccessInv'
<1>1. /\ Handling(n) /\ Current(n).type \in CacheAnswer /\ Unblock(n)
      /\ UNCHANGED <<cacheLineStatus, cacheMsgQueue, currentMemOp>>
  BY HandlesWhat DEF CacheAck, CacheAnswer, procVars
<1>2. TypeOK /\ BlockingInv /\ CacheInv /\ HoldersFirst BY InvTypes DEF CoherenceInv
<1>3. PICK a \in Addr : a = A(n) BY <1>1, <1>2, CurrentType
<1>4. ~Draining /\ FirstType(n, a) \in OwnerRequest BY <1>1, <1>3, CacheAckHand
<1>5. \A m \in Node, b \in Addr : m # n \/ b # a => FirstSame(m, b)
  BY <1>1, <1>2, <1>3, <1>4, UnblockHolder
<1> SUFFICES ASSUME NEW m \in Node, NEW b \in Addr
             PROVE  AccessFits(cacheLineStatus[m][b], FirstType(m, b), currentMemOp[m].type,
                               cacheMsgQueue[m], b)'
  BY DEF AccessInv
<1>6. PICK status : status = cacheLineStatus[m][b] OBVIOUS
<1>7. PICK first : first = FirstType(m, b) OBVIOUS
<1>8. PICK type : type = currentMemOp[m].type OBVIOUS
<1>9. PICK q : q = cacheMsgQueue[m] OBVIOUS
<1>10. PICK later : later = FirstType(m, b)' OBVIOUS
<1>11. AccessFits(status, first, type, q, b) BY <1>6, <1>7, <1>8, <1>9 DEF AccessInv
<1>12. AccessFits(status, later, type, q, b)
  <2>1. CASE m = n /\ b = a
    <3>1. Current(n) \in About(a, CacheAnswer) BY <1>1, <1>2, <1>3, HandAbout
    <3>2. ~None(incomingMsgQueue[n], About(a, CacheAnswer)) BY <1>1, <1>2, <1>4, <3>1, InHand
    <3>3. None(q, AsCache(a, CacheAsk)) BY <1>2, <1>9, <2>1, <3>2 DEF CacheInv, AtCacheOnce
    <3> QED BY <1>11, <2>1, <3>3 DEF AccessFits
  <2>2. CASE m # n \/ b # a
    <3>1. later = first \/ first \notin OwnerRequest BY <1>5, <1>7, <1>10, <2>2 DEF FirstSame
    <3> QED BY <1>11, <3>1, FitsFirst
  <2> QED BY <2>1, <2>2
<1>13. status = cacheLineStatus'[m][b] /\ type = currentMemOp'[m].type /\ q = cacheMsgQueue'[m]
  BY <1>1, <1>6, <1>8, <1>9
<1> QED BY <1>10, <1>12, <1>13, AccessMeans

\* The cache is asked for a line the node has the right to, the home for any other.
LEMMA StartGives ==
  ASSUME CoherenceInv, NEW n \in Node, HandleMemOpRequest(n)
  PROVE  /\ currentMemOpSuccessful[n] /\ UNCHANGED blockedMsgMap
         /\ \E op \in Op :
              /\ ProcessorStarts(n, op)
              /\ \/ /\ \E type \in HomeRequest : AskHome(n, op.addr, type)
                    /\ UNCHANGED <<cacheMsgQueue, cacheLineStatus>>
                 \/ /\ \E type \in Accesses : AskCache(n, op.addr, type)
                    /\ cacheLineStatus[n][op.addr] \in StatusFor(op.type)
                    /\ \/ UNCHANGED cacheLineStatus
                       \/ op.type = "write" /\ SetStatus(n, op.addr, "M")
<1>1. PICK addr \in Addr : \/ WriteInvalid(n, addr) \/ WriteShared(n, addr)
                           \/ WriteOwned(n, addr)
                           \/ ReadInvalid(n, addr) \/ ReadValid(n, addr)
  BY DEF HandleMemOpRequest
<1>2. currentMemOpSuccessful[n] /\ UNCHANGED blockedMsgMap BY StartIs
<1>3. PICK w \in Op : w = [addr |-> addr, type |-> "write"] BY DEF Op
<1>4. PICK r \in Op : r = [addr |-> addr, type |-> "read"] BY DEF Op
<1>5. w.addr = addr /\ w.type = "write" /\ r.addr = addr /\ r.type = "read" BY <1>3, <1>4
<1>6. CASE WriteInvalid(n, addr) \/ WriteShared(n, addr)
  <2>1. ProcessorStarts(n, w) BY <1>3, <1>6 DEF WriteInvalid, WriteShared, WriteRequest
  <2>2. (\E type \in HomeRequest : AskHome(n, addr, type)) /\ UNCHANGED cacheLineStatus
    BY <1>6 DEF WriteInvalid, WriteShared, HomeRequest
  <2>3. UNCHANGED cacheMsgQueue BY <2>2 DEF AskHome
  <2> QED BY <1>2, <1>5, <2>1, <2>2, <2>3
<1>7. CASE ReadInvalid(n, addr)
  <2>1. ProcessorStarts(n, r) /\ UNCHANGED cacheLineStatus
    BY <1>4, <1>7 DEF ReadInvalid, ReadRequest
  <2>2. \E type \in HomeRequest : AskHome(n, addr, type) BY <1>7 DEF ReadInvalid, HomeRequest
  <2>3. UNCHANGED cacheMsgQueue BY <2>2 DEF AskHome
  <2> QED BY <1>2, <1>5, <2>1, <2>2, <2>3
<1>8. CASE WriteOwned(n, addr)
  <2>1. ProcessorStarts(n, w) BY <1>3, <1>8 DEF WriteOwned, WriteRequest
  <2>2. /\ cacheLineStatus[n][addr] \in StatusFor("write")
        /\ \E type \in Accesses : AskCache(n, addr, type)
        /\ UNCHANGED cacheLineStatus \/ SetStatus(n, addr, "M")
    BY <1>8 DEF WriteOwned, StatusFor, Accesses
  <2> QED BY <1>2, <1>5, <2>1, <2>2
<1>9. CASE ReadValid(n, addr)
  <2>1. ProcessorStarts(n, r) /\ UNCHANGED cacheLineStatus
    BY <1>4, <1>9 DEF ReadValid, ReadRequest
  <2>2. \E type \in Accesses : AskCache(n, addr, type) BY <1>9 DEF ReadValid, Accesses
  <2>3. cacheLineStatus[n][addr] \in StatusFor("read")
    BY <1>9, InvTypes DEF ReadValid, StatusFor, TypeOK, ProtocolStatus
  <2> QED BY <1>2, <1>5, <2>1, <2>2, <2>3
<1> QED BY <1>1, <1>6, <1>7, <1>8, <1>9

\* ... and when an operation starts, with the right if it starts at the cache.
LEMMA StartAccess ==
  ASSUME CoherenceInv, AccessInv, NEW n \in Node, HandleMemOpRequest(n)
  PROVE  AccessInv'
<1>1. TypeOK /\ Outstanding(n) BY InvTypes DEF CoherenceInv, OutstandingInv
<1>2. currentMemOpSuccessful[n] /\ UNCHANGED blockedMsgMap BY StartGives
<1>3. PICK op \in Op :
        /\ ProcessorStarts(n, op)
        /\ \/ UNCHANGED <<cacheMsgQueue, cacheLineStatus>>
           \/ /\ \E type \in Accesses : AskCache(n, op.addr, type)
              /\ cacheLineStatus[n][op.addr] \in StatusFor(op.type)
              /\ \/ UNCHANGED cacheLineStatus
                 \/ op.type = "write" /\ SetStatus(n, op.addr, "M")
  BY StartGives
<1>4. PICK a \in Addr : a = op.addr BY DEF Op
<1>5. NoAccess(n) BY <1>1, <1>2, IdleNode
<1>6. currentMemOp' = [currentMemOp EXCEPT ![n] = op] BY <1>3 DEF ProcessorStarts
<1> SUFFICES ASSUME NEW m \in Node, NEW b \in Addr
             PROVE  AccessFits(cacheLineStatus[m][b], FirstType(m, b), currentMemOp[m].type,
                               cacheMsgQueue[m], b)'
  BY DEF AccessInv
<1>7. PICK status : status = cacheLineStatus'[m][b] OBVIOUS
<1>8. PICK first : first = FirstType(m, b) /\ first = FirstType(m, b)' BY <1>2 DEF FirstType
<1>9. PICK type : type = currentMemOp'[m].type OBVIOUS
<1>10. PICK q \in Seq(CacheMessage) : q = cacheMsgQueue[m] BY <1>1 DEF TypeOK
<1>11. PICK r : r = cacheMsgQueue'[m] OBVIOUS
<1>12. m = n => None(q, AsCache(b, Accesses))
  BY <1>5, <1>10 DEF NoAccess, CacheMarks, AsCache, None
<1>13. \/ r = q
       \/ /\ m = n /\ cacheLineStatus[n][a] \in StatusFor(op.type)
          /\ \/ UNCHANGED cacheLineStatus
             \/ op.type = "write" /\ SetStatus(n, a, "M")
          /\ \E x \in CacheMessage : x.addr = a /\ r = Append(q, x)
  <2>1. CASE UNCHANGED cacheMsgQueue BY <1>10, <1>11, <2>1
  <2>2. CASE \E ask \in Accesses : AskCache(n, op.addr, ask)
    <3>1. PICK ask \in Accesses : SendMsgToCache(n, a, ask) BY <1>4, <2>2 DEF AskCache
    <3>2. ask \in CacheRequest BY DEF Accesses, CacheRequest
    <3>3. PICK x \in CacheMessage :
            /\ x.addr = a
            /\ \A o \in Node : cacheMsgQueue'[o] = IF o = n THEN Append(cacheMsgQueue[o], x)
                                                            ELSE cacheMsgQueue[o]
      BY <1>1, <3>1, <3>2, AskSent
    <3>4. r = q \/ (m = n /\ r = Append(q, x)) BY <1>10, <1>11, <3>3
    <3>5. CASE UNCHANGED cacheMsgQueue BY <1>10, <1>11, <3>5
    <3> QED BY <1>3, <1>4, <3>3, <3>4, <3>5
  <2> QED BY <1>3, <2>1, <2>2
<1>14. CASE m # n
  <2>1. status = cacheLineStatus[m][b] /\ type = currentMemOp[m].type
    BY <1>1, <1>3, <1>4, <1>6, <1>7, <1>9, <1>14 DEF SetStatus, TypeOK
  <2>2. AccessFits(status, first, type, q, b) BY <1>8, <1>10, <2>1 DEF AccessInv
  <2> QED BY <1>7, <1>8, <1>9, <1>10, <1>11, <1>13, <1>14, <2>2, AccessMeans
<1>15. CASE m = n /\ r = q
  <2>1. AccessFits(status, first, type, r, b) BY <1>12, <1>15 DEF AccessFits
  <2> QED BY <1>7, <1>8, <1>9, <1>11, <2>1, AccessMeans
<1>16. CASE m = n /\ r # q
  <2>1. PICK x \in CacheMessage : x.addr = a /\ r = Append(q, x) BY <1>13, <1>16
  <2>2. CASE b = a
    <3>1. type = op.type BY <1>1, <1>6, <1>9, <1>16 DEF TypeOK
    <3>2. status = cacheLineStatus[n][a] \/ (op.type = "write" /\ status = "M")
      BY <1>1, <1>7, <1>13, <1>16, <2>2 DEF SetStatus, TypeOK
    <3>3. status \in StatusFor(type) BY <1>13, <1>16, <3>1, <3>2 DEF StatusFor
    <3>4. AccessFits(status, first, type, r, b) BY <3>3 DEF AccessFits
    <3> QED BY <1>7, <1>8, <1>9, <1>11, <3>4, AccessMeans
  <2>3. CASE b # a
    <3>1. AccessFits(status, first, type, q, b) BY <1>12, <1>16 DEF AccessFits
    <3>2. AccessFits(status, first, type, r, b) BY <2>1, <2>3, <3>1, FitsKept
    <3> QED BY <1>7, <1>8, <1>9, <1>11, <3>2, AccessMeans
  <2> QED BY <2>2, <2>3
<1> QED BY <1>14, <1>15, <1>16

\* Every step keeps AccessInv, ...
LEMMA AccessStep ==
  LinesFit /\ CoherenceInv /\ AccessInv /\ [Next]_vars => AccessInv'
<1> SUFFICES ASSUME LinesFit, CoherenceInv, AccessInv, [Next]_vars PROVE AccessInv'
  OBVIOUS
<1>1. \A n \in Node : RunsOn(n) \/ UNCHANGED vars => AccessInv' BY RunsAccess
<1>2. \A n \in Node : HandlesOn(n) => AccessInv' BY QuietAccess, HolderAccess, CacheAckAccess
<1>3. \A n \in Node : HandleMemOpRequest(n) => AccessInv' BY StartAccess
<1>4. 0 \in Node BY ZeroIsNode
<1> QED BY <1>1, <1>2, <1>3, <1>4, StepsOnly

\* ... and it holds initially.
LEMMA AccessInit ==
  Init => AccessInv
<1> SUFFICES ASSUME Init, NEW n \in Node, NEW a \in Addr
             PROVE  AccessFits(cacheLineStatus[n][a], FirstType(n, a), currentMemOp[n].type,
                               cacheMsgQueue[n], a)
  BY DEF AccessInv
<1>1. cacheMsgQueue[n] = <<>> BY DEF Init
<1>2. None(cacheMsgQueue[n], AsCache(a, Accesses)) BY <1>1 DEF None
<1> QED BY <1>2 DEF AccessFits

-------------------------------------------------------------------------------
(* The steps of the coherent memory. *)

NodeRights == [n \in Node |-> [a \in Addr |-> RightOf(n, a)]]
NodePendings == [n \in Node |-> PendingOf(n)]
MemoryStep == [Memory!Next]_<<NodeRights, NodePendings>>

RightStays(n, a) == RightOf(n, a)' = RightOf(n, a)
PendingStays(n) == PendingOf(n)' = PendingOf(n)
RightsBut(n, a) == \A m \in Node, b \in Addr : m # n \/ b # a => RightStays(m, b)
PendingsBut(n) == \A m \in Node : m # n => PendingStays(m)

\* A change of one right, and of one pending operation, ...
LEMMA RightsChange ==
  ASSUME NEW n \in Node, NEW a \in Addr, RightsBut(n, a), NEW r, r = RightOf(n, a)'
  PROVE  NodeRights' = [NodeRights EXCEPT ![n][a] = r]
  BY DEF NodeRights, RightsBut, RightStays

\* ... as CoherentMemory writes it.
LEMMA PendingsChange ==
  ASSUME NEW n \in Node, PendingsBut(n), NEW p, p = PendingOf(n)'
  PROVE  NodePendings' = [NodePendings EXCEPT ![n] = p]
  BY DEF NodePendings, PendingsBut, PendingStays

\* A step that changes no right and no pending operation stutters, ...
LEMMA MemoryStutters ==
  ASSUME \A m \in Node, b \in Addr : RightStays(m, b), \A m \in Node : PendingStays(m)
  PROVE  MemoryStep
<1>1. NodeRights' = NodeRights BY DEF NodeRights, RightStays
<1>2. NodePendings' = NodePendings BY DEF NodePendings, PendingStays
<1> QED BY <1>1, <1>2 DEF MemoryStep

\* ... one that gives an idle node an operation is Begin, ...
LEMMA MemoryBegins ==
  ASSUME \A m \in Node, b \in Addr : RightStays(m, b), NEW n \in Node, PendingsBut(n),
         PendingOf(n) = {}, NEW op \in Op, PendingOf(n)' = {op}
  PROVE  MemoryStep
<1>1. NodeRights' = NodeRights BY DEF NodeRights, RightStays
<1>2. NodePendings' = [NodePendings EXCEPT ![n] = {op}] BY PendingsChange
<1>3. NodePendings[n] = {} BY DEF NodePendings
<1>4. op \in Memory!Op BY DEF Op, Memory!Op
<1>5. Memory!Begin(n) BY <1>1, <1>2, <1>3, <1>4 DEF Memory!Begin, NodeRights, NodePendings
<1> QED BY <1>5 DEF MemoryStep, Memory!Next

\* ... one that raises a right that fits those of the others is Grant, ...
LEMMA MemoryGrants ==
  ASSUME NEW n \in Node, NEW a \in Addr, RightsBut(n, a), \A m \in Node : PendingStays(m),
         NEW r \in Memory!Right, RightOf(n, a)' = r, RightOf(n, a) \in Memory!Weaker(r),
         \A m \in Node \ {n} : Memory!Compatible(r, RightOf(m, a))
  PROVE  MemoryStep
<1>1. NodeRights' = [NodeRights EXCEPT ![n][a] = r] BY RightsChange
<1>2. NodePendings' = NodePendings BY DEF NodePendings, PendingStays
<1>3. NodeRights[n][a] \in Memory!Weaker(r)
      /\ \A m \in Node \ {n} : Memory!Compatible(r, NodeRights[m][a])
  BY DEF NodeRights
<1>4. Memory!Grant(n, a) BY <1>1, <1>2, <1>3 DEF Memory!Grant, NodeRights, NodePendings
<1> QED BY <1>4 DEF MemoryStep, Memory!Next

\* ... one that lowers a right is Revoke, ...
LEMMA MemoryRevokes ==
  ASSUME NEW n \in Node, NEW a \in Addr, RightsBut(n, a), \A m \in Node : PendingStays(m),
         RightOf(n, a)' \in Memory!Weaker(RightOf(n, a))
  PROVE  MemoryStep
<1>0. PICK r : r = RightOf(n, a)' OBVIOUS
<1>1. NodeRights' = [NodeRights EXCEPT ![n][a] = r] BY <1>0, RightsChange
<1>2. NodePendings' = NodePendings BY DEF NodePendings, PendingStays
<1>3. r \in Memory!Weaker(NodeRights[n][a]) BY <1>0 DEF NodeRights
<1>4. Memory!Revoke(n, a) BY <1>1, <1>2, <1>3 DEF Memory!Revoke, NodeRights, NodePendings
<1> QED BY <1>4 DEF MemoryStep, Memory!Next

\* ... and one that ends an operation whose right is there is Perform.
LEMMA MemoryPerforms ==
  ASSUME NEW n \in Node, NEW op \in Op, RightsBut(n, op.addr), PendingsBut(n),
         PendingOf(n) = {op}, PendingOf(n)' = {},
         RightOf(n, op.addr) \in {op.type, "write"},
         RightOf(n, op.addr)' \in {RightOf(n, op.addr)} \cup Memory!Weaker(RightOf(n, op.addr))
  PROVE  MemoryStep
<1>0. PICK a \in Addr : a = op.addr BY DEF Op
<1>1. PICK r : r = RightOf(n, a)' OBVIOUS
<1>2. NodeRights' = [NodeRights EXCEPT ![n][a] = r] BY <1>0, <1>1, RightsChange
<1>3. NodePendings' = [NodePendings EXCEPT ![n] = {}] BY PendingsChange
<1>4. NodePendings[n] = {op} /\ NodeRights[n][a] = RightOf(n, a) BY DEF NodeRights, NodePendings
<1>5. NodeRights[n][a] \in {op.type, "write"}
      /\ r \in {NodeRights[n][a]} \cup Memory!Weaker(NodeRights[n][a])
  BY <1>0, <1>1, <1>4
<1>6. op \in NodePendings[n] BY <1>4
<1>7. /\ NodeRights[n][op.addr] \in {op.type, "write"}
      /\ r \in {NodeRights[n][op.addr]} \cup Memory!Weaker(NodeRights[n][op.addr])
      /\ NodeRights' = [NodeRights EXCEPT ![n][op.addr] = r]
  BY <1>0, <1>2, <1>5
<1>8. \E o \in NodePendings[n] :
        /\ NodeRights[n][o.addr] \in {o.type, "write"}
        /\ NodePendings' = [NodePendings EXCEPT ![n] = {}]
        /\ \E x \in {NodeRights[n][o.addr]} \cup Memory!Weaker(NodeRights[n][o.addr]) :
             NodeRights' = [NodeRights EXCEPT ![n][o.addr] = x]
  BY <1>3, <1>6, <1>7
<1>9. Memory!Perform(n) BY <1>8 DEF Memory!Perform, NodeRights, NodePendings
<1> QED BY <1>9 DEF MemoryStep, Memory!Next

-------------------------------------------------------------------------------
(* What the right and the operation of a node depend on. *)

RightWith(status, type, q, a) ==
  IF status \in {"M", "E"} \/ (~None(q, AsCache(a, Accesses)) /\ type = "write") THEN "write"
  ELSE IF status = "S" \/ ~None(q, AsCache(a, Accesses)) THEN "read" ELSE "none"

PerformedMsgs == {msg \in Message : msg.type \in {"CACHE_READ_REPLY", "CACHE_UPDATE_ACK"}}
PendingWith(successful, p, op, queue) ==
  IF ~successful THEN IF None(p, PerformedMsgs) THEN {op} ELSE {}
  ELSE IF queue # <<>> THEN {Head(queue)} ELSE {}

\* The accesses in RightOf and the answers in PendingOf, ...
LEMMA AccessingIs ==
  ASSUME NEW q \in Seq(CacheMessage), NEW a
  PROVE  ({i \in DOMAIN q : q[i].type \in {"CACHE_READ", "CACHE_UPDATE"} /\ q[i].addr = a} # {})
           <=> ~None(q, AsCache(a, Accesses))
<1>1. DOMAIN q = 1..Len(q) /\ \A i \in 1..Len(q) : q[i] \in CacheMessage BY LenProperties
<1> QED BY <1>1 DEF None, AsCache, Accesses

\* ... said with None.
LEMMA PerformedIs ==
  ASSUME NEW p \in Seq(Message)
  PROVE  (\E i \in DOMAIN p : p[i].type \in {"CACHE_READ_REPLY", "CACHE_UPDATE_ACK"})
           <=> ~None(p, PerformedMsgs)
<1>1. DOMAIN p = 1..Len(p) /\ \A i \in 1..Len(p) : p[i] \in Message BY LenProperties
<1> QED BY <1>1 DEF None, PerformedMsgs

\* The right of a node, and its right after a step, ...
LEMMA RightMeans ==
  ASSUME TypeOK, TypeOK', NEW n \in Node, NEW a \in Addr
  PROVE  /\ RightOf(n, a) = RightWith(cacheLineStatus[n][a], currentMemOp[n].type,
                                      cacheMsgQueue[n], a)
         /\ RightOf(n, a)' = RightWith(cacheLineStatus'[n][a], currentMemOp'[n].type,
                                       cacheMsgQueue'[n], a)
<1>1. cacheMsgQueue[n] \in Seq(CacheMessage) /\ cacheMsgQueue'[n] \in Seq(CacheMessage)
  BY DEF TypeOK
<1>2. PICK q \in Seq(CacheMessage) : q = cacheMsgQueue[n] BY <1>1
<1>3. PICK r \in Seq(CacheMessage) : r = cacheMsgQueue'[n] BY <1>1
<1>4. ({i \in DOMAIN q : q[i].type \in {"CACHE_READ", "CACHE_UPDATE"} /\ q[i].addr = a} # {})
        <=> ~None(q, AsCache(a, Accesses))
  BY AccessingIs
<1>5. ({i \in DOMAIN r : r[i].type \in {"CACHE_READ", "CACHE_UPDATE"} /\ r[i].addr = a} # {})
        <=> ~None(r, AsCache(a, Accesses))
  BY AccessingIs
<1>6. RightOf(n, a) = RightWith(cacheLineStatus[n][a], currentMemOp[n].type, q, a)
  BY <1>2, <1>4 DEF RightOf, AtCache, RightWith
<1>7. RightOf(n, a)' = RightWith(cacheLineStatus'[n][a], currentMemOp'[n].type, r, a)
  BY <1>3, <1>5 DEF RightOf, AtCache, RightWith
<1> QED BY <1>2, <1>3, <1>6, <1>7

\* ... and its pending operation, from the queues and variables they depend on.
LEMMA PendingMeans ==
  ASSUME TypeOK, TypeOK', NEW n \in Node
  PROVE  /\ PendingOf(n) = PendingWith(currentMemOpSuccessful[n], incomingMsgQueue[n],
                                       currentMemOp[n], memActionQueue[n])
         /\ PendingOf(n)' = PendingWith(currentMemOpSuccessful'[n], incomingMsgQueue'[n],
                                        currentMemOp'[n], memActionQueue'[n])
<1>1. incomingMsgQueue[n] \in Seq(Message) /\ incomingMsgQueue'[n] \in Seq(Message)
  BY DEF TypeOK
<1>2. PICK p \in Seq(Message) : p = incomingMsgQueue[n] BY <1>1
<1>3. PICK r \in Seq(Message) : r = incomingMsgQueue'[n] BY <1>1
<1>4. (\E i \in DOMAIN p : p[i].type \in {"CACHE_READ_REPLY", "CACHE_UPDATE_ACK"})
        <=> ~None(p, PerformedMsgs)
  BY PerformedIs
<1>5. (\E i \in DOMAIN r : r[i].type \in {"CACHE_READ_REPLY", "CACHE_UPDATE_ACK"})
        <=> ~None(r, PerformedMsgs)
  BY PerformedIs
<1>6. PendingOf(n) = PendingWith(currentMemOpSuccessful[n], p, currentMemOp[n], memActionQueue[n])
  BY <1>2, <1>4 DEF PendingOf, PendingWith
<1>7. PendingOf(n)' = PendingWith(currentMemOpSuccessful'[n], r, currentMemOp'[n],
                                  memActionQueue'[n])
  BY <1>3, <1>5 DEF PendingOf, PendingWith
<1> QED BY <1>2, <1>3, <1>6, <1>7

\* A right stays where the status and the accesses of the line do, ...
LEMMA RightStaysWhen ==
  ASSUME TypeOK, TypeOK', NEW n \in Node, NEW a \in Addr,
         cacheLineStatus'[n][a] = cacheLineStatus[n][a],
         None(cacheMsgQueue[n], AsCache(a, Accesses))
           <=> None(cacheMsgQueue'[n], AsCache(a, Accesses)),
         \/ currentMemOp'[n] = currentMemOp[n]
         \/ None(cacheMsgQueue[n], AsCache(a, Accesses))
  PROVE  RightStays(n, a)
  BY RightMeans DEF RightStays, RightWith

\* ... a pending operation where the operation and its answers do.
LEMMA PendingStaysWhen ==
  ASSUME TypeOK, TypeOK', NEW n \in Node,
         currentMemOpSuccessful'[n] = currentMemOpSuccessful[n],
         currentMemOp'[n] = currentMemOp[n], memActionQueue'[n] = memActionQueue[n],
         None(incomingMsgQueue[n], PerformedMsgs) <=> None(incomingMsgQueue'[n], PerformedMsgs)
  PROVE  PendingStays(n)
  BY PendingMeans DEF PendingStays, PendingWith

-------------------------------------------------------------------------------
(* The rights the nodes have of a line are those of a readers-writer lock. *)

RightsFit ==
  \A a \in Addr, n, m \in Node : n # m => Memory!Compatible(RightOf(n, a), RightOf(m, a))

\* RightMeans without a step.
LEMMA RightIs ==
  ASSUME TypeOK, NEW n \in Node, NEW a \in Addr
  PROVE  RightOf(n, a) = RightWith(cacheLineStatus[n][a], currentMemOp[n].type,
                                   cacheMsgQueue[n], a)
<1>1. PICK q \in Seq(CacheMessage) : q = cacheMsgQueue[n] BY DEF TypeOK
<1>2. ({i \in DOMAIN q : q[i].type \in {"CACHE_READ", "CACHE_UPDATE"} /\ q[i].addr = a} # {})
        <=> ~None(q, AsCache(a, Accesses))
  BY AccessingIs
<1> QED BY <1>1, <1>2 DEF RightOf, AtCache, RightWith

\* A line the node does not have and that no home takes away, ...
LEMMA NoRight ==
  ASSUME CoherenceInv, AccessInv, NEW n \in Node, NEW a \in Addr,
         cacheLineStatus[n][a] = "I", FirstType(n, a) \notin OwnerRequest
  PROVE  RightOf(n, a) = "none"
<1>1. TypeOK BY InvTypes
<1>2. AccessFits(cacheLineStatus[n][a], FirstType(n, a), currentMemOp[n].type,
                 cacheMsgQueue[n], a)
  BY DEF AccessInv
<1>3. None(cacheMsgQueue[n], AsCache(a, Accesses))
  BY <1>2 DEF AccessFits, StatusFor, AskFor, Fetches, OwnerRequest
<1> QED BY <1>1, <1>3, RightIs DEF RightWith

\* ... and one it shares and that no home takes from an owner.
LEMMA ReadRight ==
  ASSUME CoherenceInv, AccessInv, NEW n \in Node, NEW a \in Addr,
         cacheLineStatus[n][a] \in {"S", "I"}, FirstType(n, a) \notin Fetches
  PROVE  RightOf(n, a) \in {"none", "read"}
<1>1. TypeOK BY InvTypes
<1>2. AccessFits(cacheLineStatus[n][a], FirstType(n, a), currentMemOp[n].type,
                 cacheMsgQueue[n], a)
  BY DEF AccessInv
<1>3. currentMemOp[n].type = "write" => None(cacheMsgQueue[n], AsCache(a, Accesses))
  BY <1>2 DEF AccessFits, StatusFor, AskFor
<1> QED BY <1>1, <1>3, RightIs DEF RightWith

\* One node may have any right to a line, or all may read at most: ...
LEMMA LineRights ==
  ASSUME CoherenceInv, AccessInv, NEW a \in Addr
  PROVE  \/ \E o \in Node : \A n \in Node \ {o} : RightOf(n, a) = "none"
         \/ \A n \in Node : RightOf(n, a) \in {"none", "read"}
<1>1. AtRest(a) \/ AwaitsAcks(a) \/ AwaitsOwner(a) BY DEF CoherenceInv, LineInv
<1>2. \A n \in Node : Lacks(n, a) => RightOf(n, a) = "none" BY NoRight DEF Lacks, Has, Clear
<1>3. \A n \in Node : Shares(n, a) => cacheLineStatus[n][a] \in {"S", "I"} BY DEF Shares, Has
<1>4. \A n \in Node : Shares(n, a) /\ FirstType(n, a) \notin OwnerRequest
                        => RightOf(n, a) \in {"none", "read"}
  BY <1>3, ReadRight DEF OwnerRequest, Fetches
<1>5. CASE AtRest(a)
  <2>1. CASE Mask(a) = {} BY <1>2, <1>5, <2>1 DEF AtRest
  <2>2. CASE \A n \in Mask(a) : Shares(n, a) /\ Clear(n, a)
    BY <1>2, <1>4, <1>5, <2>2 DEF AtRest, Clear
  <2>3. CASE \E o \in Node : Mask(a) = {o} BY <1>2, <1>5, <2>3 DEF AtRest
  <2> QED BY <1>5, <2>1, <2>2, <2>3 DEF AtRest
<1>6. CASE AwaitsAcks(a)
  <2>1. \A n \in Node : Invalidating(n, a) => cacheLineStatus[n][a] \in {"S", "I"}
                                              /\ FirstType(n, a) \notin Fetches
    BY <1>3 DEF Invalidating, Asked, AtHolder, Answered, Has, OwnerRequest, Fetches
  <2>2. \A n \in Node : Invalidating(n, a) => RightOf(n, a) \in {"none", "read"}
    BY <2>1, ReadRight
  <2>3. \A n \in Node : \/ Lacks(n, a) \/ Invalidating(n, a)
                        \/ Shares(n, a) /\ Clear(n, a)
    BY <1>6 DEF AwaitsAcks
  <2> QED BY <1>2, <1>4, <2>2, <2>3 DEF Clear
<1>7. CASE AwaitsOwner(a) BY <1>2, <1>7 DEF AwaitsOwner
<1> QED BY <1>1, <1>5, <1>6, <1>7

\* ... so no two rights conflict.
LEMMA RightsAlwaysFit ==
  CoherenceInv /\ AccessInv => RightsFit
<1> SUFFICES ASSUME CoherenceInv, AccessInv, NEW a \in Addr, NEW n \in Node, NEW m \in Node,
                    n # m
             PROVE  Memory!Compatible(RightOf(n, a), RightOf(m, a))
  BY DEF RightsFit
<1> QED BY LineRights DEF Memory!Compatible

\* What leaves the operations of the processors as they are, ...
LEMMA HandsProcessors ==
  ASSUME NEW n \in Node, HandlesOn(n), ~Rollback(n), ~MemOpDone(n)
  PROVE  UNCHANGED procVars
<1>1. CASE \/ HomeBusy(n) \/ ReadMissShares(n) \/ ReadMissGivesExclusive(n) \/ ReadMissFetches(n)
           \/ WriteMissUncached(n) \/ WriteMissInvalidates(n) \/ WriteMissFetches(n)
           \/ InvalidateOtherRollsBack(n) \/ InvalidateOtherInvalidates(n)
           \/ InvalidateOtherGrants(n)
  BY <1>1 DEF HomeBusy, ReadMissShares, ReadMissGivesExclusive, ReadMissFetches, ReadMiss,
         WriteMissUncached, WriteMissInvalidates, WriteMissFetches, WriteMiss,
         InvalidateOtherRollsBack, InvalidateOtherInvalidates, InvalidateOtherGrants
<1>2. CASE \/ Invalidate(n) \/ Fetch(n)
           \/ InvalidateAckCounts(n) \/ InvalidateAckGrants(n)
           \/ WriteBackAnswersWrite(n) \/ WriteBackAnswersRead(n)
           \/ InvalidateOtherAck(n) \/ DataValueReply(n) \/ CacheAck(n)
  BY <1>2 DEF Invalidate, Fetch, InvalidateAckCounts, InvalidateAckGrants, InvalidateAck,
         WriteBackAnswersWrite, WriteBackAnswersRead, WriteBack, InvalidateOtherAck,
         DataValueReply, CacheAck
<1> QED BY <1>1, <1>2 DEF HandlesOn

\* ... and whether the cache has answered them.
LEMMA HandsPerformed ==
  ASSUME CoherenceInv, NEW n \in Node, HandlesOn(n), ~MemOpDone(n), NEW m \in Node
  PROVE  None(incomingMsgQueue[m], PerformedMsgs) <=> None(incomingMsgQueue'[m], PerformedMsgs)
<1>0. Handling(n) BY HandledAdds
<1>1. TypeOK BY InvTypes
<1>2. PICK dsts : \E type \in MessageType : Reply(n, dsts, type) /\ type \notin CacheReply
  BY <1>1, HandlerSends
<1>3. PICK type \in MessageType : Reply(n, dsts, type) /\ type \notin CacheReply BY <1>2
<1>4. Current(n).type \notin {"CACHE_READ_REPLY", "CACHE_UPDATE_ACK"}
  <2>1. CASE \/ HomeBusy(n) \/ ReadMissShares(n) \/ ReadMissGivesExclusive(n)
             \/ ReadMissFetches(n)
             \/ WriteMissUncached(n) \/ WriteMissInvalidates(n) \/ WriteMissFetches(n)
             \/ InvalidateOtherRollsBack(n) \/ InvalidateOtherInvalidates(n)
             \/ InvalidateOtherGrants(n)
    <3>1. \E ask \in HomeRequest : Handles(n, ask)
      BY <2>1
         DEF HomeBusy, ReadMissShares, ReadMissGivesExclusive, ReadMissFetches, ReadMiss,
             WriteMissUncached, WriteMissInvalidates, WriteMissFetches, WriteMiss,
             InvalidateOtherRollsBack, InvalidateOtherInvalidates, InvalidateOtherGrants,
             HomeRequest
    <3>2. Current(n).type \in HomeRequest BY <3>1, HandlesWhat
    <3> QED BY <3>2 DEF HomeRequest
  <2>2. CASE \/ InvalidateAckCounts(n) \/ InvalidateAckGrants(n)
             \/ WriteBackAnswersWrite(n) \/ WriteBackAnswersRead(n)
             \/ InvalidateOtherAck(n) \/ DataValueReply(n) \/ Rollback(n)
    BY <2>2, HandlesWhat
       DEF InvalidateAckCounts, InvalidateAckGrants, InvalidateAck, WriteBackAnswersWrite,
           WriteBackAnswersRead, WriteBack, InvalidateOtherAck, DataValueReply, Rollback
  <2>3. CASE Invalidate(n) \/ Fetch(n)
    <3>1. Current(n).type \in OwnerRequest
      BY <2>3, HandlesWhat DEF Invalidate, Fetch, OwnerRequest
    <3> QED BY <3>1 DEF OwnerRequest
  <2>4. CASE CacheAck(n) BY <2>4, HandlesWhat DEF CacheAck
  <2> QED BY <2>1, <2>2, <2>3, <2>4 DEF HandlesOn
<1>5. Current(n) \notin PerformedMsgs BY <1>4 DEF PerformedMsgs
<1>6. NewMessage(n, A(n), type, nodeLatency) \notin PerformedMsgs
  BY <1>3 DEF NewMessage, PerformedMsgs, CacheReply
<1>7. Like(incomingMsgQueue[m], incomingMsgQueue'[m], PerformedMsgs)
  BY <1>0, <1>1, <1>3, <1>5, <1>6, Unmoved
<1> QED BY <1>7 DEF Like

\* An answer in hand is the only one.
LEMMA PerformedHand ==
  ASSUME CoherenceInv, NEW n \in Node, Handling(n), Current(n).type \in Answers
  PROVE  /\ ~currentMemOpSuccessful[n]
         /\ Current(n) \in PerformedMsgs <=> ~None(incomingMsgQueue[n], PerformedMsgs)
<1>1. TypeOK /\ RequestsWait /\ Outstanding(n) BY InvTypes DEF CoherenceInv, OutstandingInv
<1>2. ~Draining /\ ~currentMemOpSuccessful[n] BY <1>1, AnswerInHand
<1>3. Current(n) \in InMarks(n, n) BY <1>1, HandMarks
<1>4. 1 \in 1..Len(incomingMsgQueue[n]) /\ Current(n) = incomingMsgQueue[n][1]
  BY <1>1, <1>2, InHand
<1>5. ~Free(n, In(n)) BY <1>3, <1>4, QueuesAtPlaces DEF Free, None
<1>6. Lone(n, In(n)) BY <1>1, <1>5, OneMark, Places
<1>7. One(incomingMsgQueue[n], InMarks(n, n)) BY <1>6, QueuesAtPlaces DEF Lone
<1>8. \A j \in 1..Len(incomingMsgQueue[n]) : j # 1 => incomingMsgQueue[n][j] \notin InMarks(n, n)
  BY <1>3, <1>4, <1>7 DEF One
<1>9. PerformedMsgs \subseteq InMarks(n, n) BY DEF InMarks, PerformedMsgs, Answers
<1> QED BY <1>2, <1>4, <1>8, <1>9 DEF None

-------------------------------------------------------------------------------
(* Every step is a step of the coherent memory. *)

\* A component that only waits is a stutter.
LEMMA IdleMemory ==
  ASSUME CoherenceInv, TypeOK', NEW n \in Node, IdlesOn(n) \/ UNCHANGED vars
  PROVE  MemoryStep
<1>1. TypeOK BY InvTypes
<1>2. UNCHANGED <<cacheLineStatus, procVars>>
  BY DEF IdlesOn, CacheTick, HandlerTick, DrainEnds, ProcessorWaits, vars
<1>3. UNCHANGED <<currentMemOp, currentMemOpSuccessful, memActionQueue>> BY <1>2 DEF procVars
<1>4. ASSUME NEW m \in Node, NEW b \in Addr PROVE RightStays(m, b)
  <2>1. PICK q \in Seq(CacheMessage) : q = cacheMsgQueue[m] BY <1>1 DEF TypeOK
  <2>2. cacheMsgQueue'[m] = q \/ cacheMsgQueue'[m] = Older(q) BY <1>1, <2>1, IdleSame
  <2>3. \A i \in 1..Len(q) : Older(q)[i] \in AsCache(b, Accesses) <=> q[i] \in AsCache(b, Accesses)
    BY OlderRequests DEF AsCache
  <2>4. None(q, AsCache(b, Accesses)) <=> None(cacheMsgQueue'[m], AsCache(b, Accesses))
    BY <2>2, <2>3, OlderRequests DEF None
  <2> QED BY <1>1, <1>2, <1>3, <2>1, <2>4, RightStaysWhen
<1>5. ASSUME NEW m \in Node PROVE PendingStays(m)
  <2>1. PICK p \in Seq(Message) : p = incomingMsgQueue[m] BY <1>1 DEF TypeOK
  <2>2. incomingMsgQueue'[m] = p \/ incomingMsgQueue'[m] = Older(p)
    BY <1>1, <2>1 DEF IdlesOn, CacheTick, HandlerTick, DrainEnds, ProcessorWaits, TypeOK, vars
  <2>3. \A i \in 1..Len(p) : Older(p)[i] \in PerformedMsgs <=> p[i] \in PerformedMsgs
    BY OlderMessages DEF PerformedMsgs
  <2>4. None(p, PerformedMsgs) <=> None(incomingMsgQueue'[m], PerformedMsgs)
    BY <2>2, <2>3, OlderMessages DEF None
  <2> QED BY <1>1, <1>3, <2>1, <2>4, PendingStaysWhen
<1> QED BY <1>4, <1>5, MemoryStutters

\* A message that is no grant, no request of a home and no answer to the processor.
LEMMA QuietMemory ==
  ASSUME CoherenceInv, TypeOK', NEW n \in Node, HandlesOn(n), ~AsksOn(n), ~Grants(n),
         ~Rollback(n), ~MemOpDone(n)
  PROVE  MemoryStep
<1>1. TypeOK BY InvTypes
<1>2. UNCHANGED <<cacheLineStatus, cacheMsgQueue, currentMemOp>> BY HandsKeep
<1>3. UNCHANGED <<currentMemOpSuccessful, memActionQueue>> BY HandsProcessors DEF procVars
<1>4. \A m \in Node, b \in Addr : RightStays(m, b) BY <1>1, <1>2, RightStaysWhen
<1>5. \A m \in Node : PendingStays(m) BY <1>1, <1>2, <1>3, HandsPerformed, PendingStaysWhen
<1> QED BY <1>4, <1>5, MemoryStutters

\* The operation that is rolled back is still to be performed.
LEMMA RollbackMemory ==
  ASSUME CoherenceInv, TypeOK', NEW n \in Node, HandlesOn(n), Rollback(n)
  PROVE  MemoryStep
<1>1. TypeOK BY InvTypes
<1>2. Handling(n) /\ Current(n).type = "ROLLBACK" BY HandlesWhat DEF Rollback
<1>3. /\ UNCHANGED <<cacheLineStatus, cacheMsgQueue, currentMemOp>>
      /\ memActionQueue' = [memActionQueue EXCEPT ![n] = <<currentMemOp[n]>> \o @]
      /\ currentMemOpSuccessful' = [currentMemOpSuccessful EXCEPT ![n] = TRUE]
  BY DEF Rollback, MemOpSucceeds
<1>4. ~MemOpDone(n)
  <2> SUFFICES ASSUME MemOpDone(n) PROVE FALSE OBVIOUS
  <2>1. Current(n).type \in {"CACHE_READ_REPLY", "CACHE_UPDATE_ACK"}
    BY HandlesWhat DEF MemOpDone
  <2> QED BY <1>2, <2>1
<1>5. \A m \in Node, b \in Addr : RightStays(m, b) BY <1>1, <1>3, RightStaysWhen
<1>6. \A m \in Node : m # n => PendingStays(m)
  BY <1>1, <1>3, <1>4, HandsPerformed, PendingStaysWhen DEF TypeOK
<1>7. PendingStays(n)
  <2>1. PICK op \in Op : op = currentMemOp[n] BY <1>1 DEF TypeOK
  <2>2. PICK q \in Seq(Op) : q = memActionQueue[n] BY <1>1 DEF TypeOK
  <2>3. ~currentMemOpSuccessful[n] /\ None(incomingMsgQueue[n], PerformedMsgs)
    <3>1. Current(n).type \in Answers BY <1>2 DEF Answers
    <3>2. Current(n) \notin PerformedMsgs BY <1>2 DEF PerformedMsgs
    <3> QED BY <1>2, <3>1, <3>2, PerformedHand
  <2>4. currentMemOpSuccessful'[n] /\ memActionQueue'[n] = <<op>> \o q
    BY <1>1, <1>3, <2>1, <2>2 DEF TypeOK
  <2>5. <<op>> \o q # <<>> /\ Head(<<op>> \o q) = op
    <3>1. <<op>> \in Seq(Op) /\ Len(<<op>>) = 1 /\ <<op>>[1] = op OBVIOUS
    <3>2. /\ Len(<<op>> \o q) = 1 + Len(q) /\ Len(q) \in Nat /\ <<op>> \o q \in Seq(Op)
          /\ (<<op>> \o q)[1] = op
      BY <3>1, ConcatProperties, LenProperties
    <3>3. <<op>> \o q # <<>> BY <3>2, EmptySeq
    <3> QED BY <3>2, <3>3, HeadTailProperties
  <2>6. PendingOf(n) = {op} BY <1>1, <2>1, <2>3, PendingMeans DEF PendingWith
  <2>7. PendingOf(n)' = {op} BY <1>1, <2>4, <2>5, PendingMeans DEF PendingWith
  <2> QED BY <2>6, <2>7 DEF PendingStays
<1> QED BY <1>5, <1>6, <1>7, MemoryStutters

\* The processor hears that its operation was performed: the next of the task begins.
LEMMA DoneMemory ==
  ASSUME CoherenceInv, TypeOK', NEW n \in Node, MemOpDone(n)
  PROVE  MemoryStep
<1>1. TypeOK BY InvTypes
<1>2. Handling(n) /\ Current(n).type \in {"CACHE_READ_REPLY", "CACHE_UPDATE_ACK"}
      /\ NoReply(n)
  BY HandlesWhat DEF MemOpDone
<1>3. /\ UNCHANGED <<cacheLineStatus, cacheMsgQueue, currentMemOp, memActionQueue>>
      /\ currentMemOpSuccessful' = [currentMemOpSuccessful EXCEPT ![n] = TRUE]
  BY DEF MemOpDone, MemOpSucceeds
<1>4. \A m \in Node, b \in Addr : RightStays(m, b) BY <1>1, <1>3, RightStaysWhen
<1>5. PendingsBut(n)
  <2> SUFFICES ASSUME NEW m \in Node, m # n PROVE PendingStays(m) BY DEF PendingsBut
  <2>1. incomingMsgQueue'[m] = incomingMsgQueue[m]
    BY <1>1, <1>2 DEF NoReply, Rest, TypeOK
  <2> QED BY <1>1, <1>3, <2>1, PendingStaysWhen DEF TypeOK
<1>6. Current(n) \in PerformedMsgs /\ Current(n).type \in Answers
  BY <1>1, <1>2, CurrentType DEF PerformedMsgs, Answers
<1>7. PendingOf(n) = {}
  <2>1. ~currentMemOpSuccessful[n] /\ ~None(incomingMsgQueue[n], PerformedMsgs)
    BY <1>2, <1>6, PerformedHand
  <2> QED BY <1>1, <2>1, PendingMeans DEF PendingWith
<1>8. PICK q \in Seq(Op) : q = memActionQueue[n] /\ q = memActionQueue'[n]
  BY <1>1, <1>3 DEF TypeOK
<1>9. currentMemOpSuccessful'[n] BY <1>1, <1>3 DEF TypeOK
<1>10. PendingOf(n)' = IF q # <<>> THEN {Head(q)} ELSE {}
  BY <1>1, <1>8, <1>9, PendingMeans DEF PendingWith
<1>11. CASE q = <<>>
  <2>1. PendingStays(n) BY <1>7, <1>10, <1>11 DEF PendingStays
  <2>2. \A m \in Node : PendingStays(m) BY <1>5, <2>1 DEF PendingsBut
  <2> QED BY <1>4, <2>2, MemoryStutters
<1>12. CASE q # <<>>
  <2>1. PICK op \in Op : op = Head(q) BY <1>12, HeadTailProperties
  <2>2. PendingOf(n)' = {op} BY <1>10, <1>12, <2>1
  <2> QED BY <1>4, <1>5, <1>7, <2>2, MemoryBegins
<1> QED BY <1>11, <1>12

\* A grant: no other node has a conflicting right.
LEMMA GrantMemory ==
  ASSUME CoherenceInv, AccessInv, TypeOK', RightsFit', NEW n \in Node, HandlesOn(n), Grants(n)
  PROVE  MemoryStep
<1>1. TypeOK BY InvTypes
<1>2. PICK a \in Addr : a = A(n) BY <1>1, CurrentType, HandledAdds
<1>3. /\ NoAccess(n) /\ a = currentMemOp[n].addr /\ cacheLineStatus[n][a] \in {"S", "I"}
      /\ \E status \in StatusFor(currentMemOp[n].type) :
           SetStatus(n, a, status) /\ (status = "S" => cacheLineStatus[n][a] = "I")
      /\ SendMsgToCache(n, a, "CACHE_UPDATE") /\ UNCHANGED procVars
      /\ Handling(n) /\ Current(n).type \in Grant
  BY <1>2, GrantGives, HandlesWhat DEF Grants, InvalidateOtherAck, DataValueReply, Grant
<1>4. PICK given \in StatusFor(currentMemOp[n].type) :
        SetStatus(n, a, given) /\ (given = "S" => cacheLineStatus[n][a] = "I")
  BY <1>3
<1>5. UNCHANGED <<currentMemOp, currentMemOpSuccessful, memActionQueue>> BY <1>3 DEF procVars
<1>6. PICK ask \in CacheRequest : ask = "CACHE_UPDATE" BY DEF CacheRequest
<1>7. PICK x \in CacheMessage :
        /\ x.type = ask /\ x.addr = a
        /\ \A m \in Node : cacheMsgQueue'[m] = IF m = n THEN Append(cacheMsgQueue[m], x)
                                                        ELSE cacheMsgQueue[m]
  BY <1>1, <1>3, <1>6, AskSent
<1>8. RightsBut(n, a)
  <2> SUFFICES ASSUME NEW m \in Node, NEW b \in Addr, m # n \/ b # a PROVE RightStays(m, b)
    BY DEF RightsBut
  <2>1. PICK q \in Seq(CacheMessage) : q = cacheMsgQueue[m] BY <1>1 DEF TypeOK
  <2>2. None(q, AsCache(b, Accesses)) <=> None(cacheMsgQueue'[m], AsCache(b, Accesses))
    <3>1. CASE m # n BY <1>7, <2>1, <3>1
    <3>2. CASE m = n
      <4>1. x \notin AsCache(b, Accesses) BY <1>7, <3>2 DEF AsCache
      <4> QED BY <1>7, <2>1, <3>2, <4>1, RequestsLike DEF Like
    <3> QED BY <3>1, <3>2
  <2>3. cacheLineStatus'[m][b] = cacheLineStatus[m][b] BY <1>1, <1>4 DEF SetStatus, TypeOK
  <2> QED BY <1>1, <1>5, <2>1, <2>2, <2>3, RightStaysWhen
<1>9. ~MemOpDone(n)
  <2> SUFFICES ASSUME MemOpDone(n) PROVE FALSE OBVIOUS
  <2>1. Current(n).type \in {"CACHE_READ_REPLY", "CACHE_UPDATE_ACK"}
    BY HandlesWhat DEF MemOpDone
  <2> QED BY <1>3, <2>1 DEF Grant
<1>10. \A m \in Node : PendingStays(m) BY <1>1, <1>5, <1>9, HandsPerformed, PendingStaysWhen
<1>11. PICK type \in {"read", "write"} : type = currentMemOp[n].type BY <1>1 DEF TypeOK, Op
<1>12. RightOf(n, a) = IF cacheLineStatus[n][a] = "S" THEN "read" ELSE "none"
  <2>1. PICK q \in Seq(CacheMessage) : q = cacheMsgQueue[n] BY <1>1 DEF TypeOK
  <2>2. None(q, AsCache(a, Accesses))
    BY <1>3, <2>1 DEF NoAccess, CacheMarks, AsCache, None
  <2> QED BY <1>1, <1>3, <2>1, <2>2, RightMeans DEF RightWith
<1>13. PICK r : r = RightOf(n, a)' OBVIOUS
<1>14. r = IF given \in {"M", "E"} THEN "write" ELSE IF type = "write" THEN "write" ELSE "read"
  <2>1. PICK q \in Seq(CacheMessage) : q = cacheMsgQueue[n] BY <1>1 DEF TypeOK
  <2>2. x \in AsCache(a, Accesses) BY <1>6, <1>7 DEF AsCache, Accesses
  <2>3. ~None(cacheMsgQueue'[n], AsCache(a, Accesses)) BY <1>7, <2>1, <2>2, RequestsLike
  <2>4. cacheLineStatus'[n][a] = given BY <1>1, <1>4 DEF SetStatus, TypeOK
  <2>5. type = currentMemOp'[n].type BY <1>5, <1>11
  <2>6. r = RightWith(given, type, cacheMsgQueue'[n], a) BY <1>1, <1>13, <2>4, <2>5, RightMeans
  <2> QED BY <2>3, <2>6 DEF RightWith
<1>15. r \in Memory!Right /\ RightOf(n, a) \in Memory!Weaker(r)
  BY <1>4, <1>11, <1>12, <1>14 DEF StatusFor, Memory!Right, Memory!Weaker
<1>16. \A m \in Node \ {n} : Memory!Compatible(r, RightOf(m, a))
  <2> TAKE m \in Node \ {n}
  <2>1. Memory!Compatible(RightOf(n, a)', RightOf(m, a)')
    BY DEF RightsFit, Memory!Compatible
  <2>2. RightOf(m, a)' = RightOf(m, a) BY <1>8 DEF RightsBut, RightStays
  <2> QED BY <1>13, <2>1, <2>2
<1> QED BY <1>8, <1>10, <1>13, <1>15, <1>16, MemoryGrants

\* The home takes the line away.
LEMMA HolderMemory ==
  ASSUME CoherenceInv, TypeOK', NEW n \in Node, HandlesOn(n), AsksOn(n)
  PROVE  MemoryStep
<1>1. /\ Handling(n) /\ Current(n).type \in OwnerRequest
      /\ SendMsgToCache(n, A(n), IF Current(n).type = "FETCH" THEN "CACHE_FETCH"
                                                              ELSE "CACHE_INVALIDATE")
      /\ SetStatus(n, A(n), IF Current(n).type = "FETCH" THEN "S" ELSE "I")
      /\ UNCHANGED procVars
  BY HandlesWhat DEF AsksOn, Invalidate, Fetch, OwnerRequest
<1>2. TypeOK BY InvTypes
<1>3. PICK a \in Addr : a = A(n) BY <1>1, <1>2, CurrentType
<1>4. UNCHANGED <<currentMemOp, currentMemOpSuccessful, memActionQueue>> BY <1>1 DEF procVars
<1>5. PICK ask \in CacheRequest : ask \in CacheAsk /\ SendMsgToCache(n, a, ask)
  BY <1>1, <1>3 DEF CacheRequest, CacheAsk
<1>6. PICK x \in CacheMessage :
        /\ x.type = ask /\ x.addr = a
        /\ \A m \in Node : cacheMsgQueue'[m] = IF m = n THEN Append(cacheMsgQueue[m], x)
                                                        ELSE cacheMsgQueue[m]
  BY <1>2, <1>5, AskSent
<1>7. PICK later : /\ SetStatus(n, a, later)
                   /\ later = IF Current(n).type = "FETCH" THEN "S" ELSE "I"
  BY <1>1, <1>3
<1>8. later = "S" => cacheLineStatus[n][a] \in {"M", "E"}
  <2>1. later = "S" => Current(n).type = "FETCH" BY <1>7
  <2>2. Current(n).type = "FETCH" => cacheLineStatus[n][a] \in OwnedLine
    BY <1>1, <1>3, HolderHand
  <2> QED BY <2>1, <2>2 DEF OwnedLine
<1>9. \A m \in Node, b \in Addr :
        None(cacheMsgQueue[m], AsCache(b, Accesses)) <=> None(cacheMsgQueue'[m], AsCache(b, Accesses))
  <2> TAKE m \in Node, b \in Addr
  <2>1. PICK q \in Seq(CacheMessage) : q = cacheMsgQueue[m] BY <1>2 DEF TypeOK
  <2>2. x \notin AsCache(b, Accesses) BY <1>5, <1>6 DEF AsCache, Accesses, CacheAsk
  <2>3. Like(q, Append(q, x), AsCache(b, Accesses)) BY <2>2, RequestsLike
  <2> QED BY <1>6, <2>1, <2>3 DEF Like
<1>10. RightsBut(n, a)
  <2> SUFFICES ASSUME NEW m \in Node, NEW b \in Addr, m # n \/ b # a PROVE RightStays(m, b)
    BY DEF RightsBut
  <2>1. cacheLineStatus'[m][b] = cacheLineStatus[m][b] BY <1>2, <1>7 DEF SetStatus, TypeOK
  <2> QED BY <1>2, <1>4, <1>9, <2>1, RightStaysWhen
<1>11. ~MemOpDone(n)
  <2> SUFFICES ASSUME MemOpDone(n) PROVE FALSE OBVIOUS
  <2>1. Current(n).type \in {"CACHE_READ_REPLY", "CACHE_UPDATE_ACK"}
    BY HandlesWhat DEF MemOpDone
  <2> QED BY <1>1, <2>1 DEF OwnerRequest
<1>12. \A m \in Node : PendingStays(m) BY <1>2, <1>4, <1>11, HandsPerformed, PendingStaysWhen
<1>13. RightOf(n, a)' \in {RightOf(n, a)} \cup Memory!Weaker(RightOf(n, a))
  <2>1. PICK accesses \in BOOLEAN : /\ accesses = ~None(cacheMsgQueue[n], AsCache(a, Accesses))
                                    /\ accesses = ~None(cacheMsgQueue'[n], AsCache(a, Accesses))
    BY <1>9
  <2>2. PICK type : type = currentMemOp[n].type /\ type = currentMemOp'[n].type BY <1>4
  <2>3. PICK status : status = cacheLineStatus[n][a] OBVIOUS
  <2>4. later = cacheLineStatus'[n][a] BY <1>2, <1>7 DEF SetStatus, TypeOK
  <2>5. RightOf(n, a) = IF status \in {"M", "E"} \/ (accesses /\ type = "write") THEN "write"
                        ELSE IF status = "S" \/ accesses THEN "read" ELSE "none"
    BY <1>2, <2>1, <2>2, <2>3, RightMeans DEF RightWith
  <2>6. RightOf(n, a)' = IF later \in {"M", "E"} \/ (accesses /\ type = "write") THEN "write"
                         ELSE IF later = "S" \/ accesses THEN "read" ELSE "none"
    BY <1>2, <2>1, <2>2, <2>4, RightMeans DEF RightWith
  <2>7. later \in {"S", "I"} BY <1>7
  <2> QED BY <1>8, <2>3, <2>5, <2>6, <2>7 DEF Memory!Weaker
<1>14. CASE RightOf(n, a)' \in Memory!Weaker(RightOf(n, a))
  BY <1>10, <1>12, <1>14, MemoryRevokes
<1>15. CASE RightOf(n, a)' = RightOf(n, a)
  <2>1. \A m \in Node, b \in Addr : RightStays(m, b) BY <1>10, <1>15 DEF RightsBut, RightStays
  <2> QED BY <1>12, <2>1, MemoryStutters
<1> QED BY <1>13, <1>14, <1>15

\* The cache answers: an access is performed with the right it needs.
LEMMA WorksMemory ==
  ASSUME CoherenceInv, TypeOK', NEW n \in Node, CacheWorks(n)
  PROVE  MemoryStep
<1>1. TypeOK /\ Outstanding(n) /\ MessagesOK BY InvTypes DEF CoherenceInv, OutstandingInv
<1>2. PICK s \in CacheMessage :
        /\ cacheMsgQueue[n] # <<>> /\ s = Head(cacheMsgQueue[n])
        /\ s.type \in CacheRequest /\ s.addr \in Addr
        /\ cacheMsgQueue' = [cacheMsgQueue EXCEPT ![n] = Tail(@)]
        /\ CacheReplies(n, s.addr, AnswerTo[s.type])
  BY <1>1, ServedIs
<1>3. PICK a \in Addr : a = s.addr BY <1>2
<1>4. PICK type : type = AnswerTo[s.type] OBVIOUS
<1>5. PICK x : x = NewMessage(n, a, type, cacheLatency) OBVIOUS
<1>6. type \in MessageType /\ (type \in {"CACHE_READ_REPLY", "CACHE_UPDATE_ACK"}
                                 <=> s.type \in Accesses)
  BY <1>2, <1>4 DEF AnswerTo, CacheRequest, Accesses, MessageType, CacheReply
<1>7. x \in Message /\ x.type = type
  BY <1>1, <1>5, <1>6, NewMessageType DEF TypeOK, NewMessage
<1>8. UNCHANGED <<cacheLineStatus, currentMemOp, currentMemOpSuccessful, memActionQueue>>
  BY DEF CacheWorks, CacheReads, CacheInvalidates, CacheFetches, CacheUpdates, CacheServes,
         procVars
<1>9. \A m \in Node :
        /\ cacheMsgQueue[m] \in Seq(CacheMessage) /\ incomingMsgQueue[m] \in Seq(Message)
        /\ cacheMsgQueue'[m] = IF m = n THEN Tail(cacheMsgQueue[n]) ELSE cacheMsgQueue[m]
        /\ incomingMsgQueue'[m] = IF m = n THEN Append(incomingMsgQueue[n], x)
                                           ELSE incomingMsgQueue[m]
  BY <1>1, <1>2, <1>3, <1>4, <1>5 DEF TypeOK, CacheReplies
<1>10. PICK q \in Seq(CacheMessage) : q = cacheMsgQueue[n] /\ q # <<>> /\ Head(q) = s
  BY <1>2, <1>9
<1>11. PICK p \in Seq(Message) : p = incomingMsgQueue[n] BY <1>9
<1>12. \A b : s \in AsCache(b, Accesses) <=> a = b /\ s.type \in Accesses
  BY <1>3 DEF AsCache
<1>13. x \in PerformedMsgs <=> s.type \in Accesses BY <1>6, <1>7 DEF PerformedMsgs
<1>14. \A m \in Node, b \in Addr :
         m # n \/ b # a \/ s.type \notin Accesses => RightStays(m, b)
  <2> SUFFICES ASSUME NEW m \in Node, NEW b \in Addr, m # n \/ b # a \/ s.type \notin Accesses
               PROVE  RightStays(m, b)
    OBVIOUS
  <2>1. None(cacheMsgQueue[m], AsCache(b, Accesses))
          <=> None(cacheMsgQueue'[m], AsCache(b, Accesses))
    <3>1. CASE m # n BY <1>9, <3>1
    <3>2. CASE m = n
      <4>1. s \notin AsCache(b, Accesses) BY <1>12, <3>2
      <4> QED BY <1>9, <1>10, <3>2, <4>1, RequestsLike DEF Like
    <3> QED BY <3>1, <3>2
  <2> QED BY <1>1, <1>8, <2>1, RightStaysWhen
<1>15. PendingsBut(n)
  <2> SUFFICES ASSUME NEW m \in Node, m # n PROVE PendingStays(m) BY DEF PendingsBut
  <2> QED BY <1>1, <1>8, <1>9, PendingStaysWhen
<1>16. CASE s.type \notin Accesses
  <2>1. None(p, PerformedMsgs) <=> None(incomingMsgQueue'[n], PerformedMsgs)
    BY <1>7, <1>9, <1>11, <1>13, <1>16, AppendLike DEF Like
  <2>2. PendingStays(n) BY <1>1, <1>8, <1>11, <2>1, PendingStaysWhen
  <2>3. \A m \in Node : PendingStays(m) BY <1>15, <2>2 DEF PendingsBut
  <2> QED BY <1>14, <1>16, <2>3, MemoryStutters
<1>17. CASE s.type \in Accesses
  <2>1. PICK op \in Op : op = currentMemOp[n] /\ op = currentMemOp'[n] BY <1>1, <1>8 DEF TypeOK
  <2>2. op.addr = a
    <3>1. 1 \in 1..Len(q) /\ s = q[1] BY <1>10, EmptySeq, LenProperties
    <3>2. RequestOK(n, s) BY <1>1, <1>10, <3>1 DEF MessagesOK
    <3> QED BY <1>3, <1>17, <2>1, <3>2 DEF RequestOK
  <2>3. ~None(q, AsCache(a, Accesses)) BY <1>10, <1>12, <1>17, RequestsLike
  <2>4. ~currentMemOpSuccessful[n] /\ None(p, PerformedMsgs)
    <3>1. ~None(q, CacheMarks) BY <2>3 DEF None, AsCache, CacheMarks
    <3>2. ~Free(n, Own) BY <1>10, <3>1, QueuesAtPlaces DEF Free
    <3>3. Own \in Place /\ In(n) \in Place \ {Own} BY Places
    <3>4. ~currentMemOpSuccessful[n] /\ Free(n, In(n)) BY <1>1, <3>2, <3>3, OneMark
    <3>5. None(p, AnswerMsgs) BY <1>11, <3>4, FreeMeans DEF NoAnswer
    <3>6. PerformedMsgs \subseteq AnswerMsgs BY DEF PerformedMsgs, AnswerMsgs, Answers
    <3> QED BY <3>4, <3>5, <3>6 DEF None
  <2>5. PendingOf(n) = {op} BY <1>1, <1>11, <2>1, <2>4, PendingMeans DEF PendingWith
  <2>6. PendingOf(n)' = {}
    <3>1. ~None(incomingMsgQueue'[n], PerformedMsgs)
      BY <1>7, <1>9, <1>11, <1>13, <1>17, AppendLike
    <3>2. ~currentMemOpSuccessful'[n] BY <1>8, <2>4
    <3> QED BY <1>1, <3>1, <3>2, PendingMeans DEF PendingWith
  <2>7. RightsBut(n, op.addr) BY <1>14, <2>2 DEF RightsBut
  <2>8. PICK status : status = cacheLineStatus[n][a] /\ status = cacheLineStatus'[n][a] BY <1>8
  <2>9. op.type \in {"read", "write"} BY DEF Op
  <2>10. RightOf(n, a) = IF status \in {"M", "E"} \/ op.type = "write" THEN "write" ELSE "read"
    BY <1>1, <1>10, <2>1, <2>3, <2>8, RightMeans DEF RightWith
  <2>11. RightOf(n, a)' \in {IF status \in {"M", "E"} \/ op.type = "write" THEN "write" ELSE "read",
                             IF status \in {"M", "E"} THEN "write"
                             ELSE IF status = "S" THEN "read" ELSE "none"}
    BY <1>1, <2>1, <2>8, <2>9, RightMeans DEF RightWith
  <2>12. RightOf(n, a) \in {op.type, "write"} BY <2>9, <2>10
  <2>13. RightOf(n, a)' \in {RightOf(n, a)} \cup Memory!Weaker(RightOf(n, a))
    BY <2>10, <2>11 DEF Memory!Weaker
  <2> QED BY <1>15, <2>2, <2>5, <2>6, <2>7, <2>12, <2>13, MemoryPerforms
<1> QED BY <1>16, <1>17

\* The processor starts: an operation begins, or the next of the task goes on.
LEMMA StartMemory ==
  ASSUME CoherenceInv, TypeOK', NEW n \in Node, HandleMemOpRequest(n)
  PROVE  MemoryStep
<1>1. TypeOK /\ Outstanding(n) BY InvTypes DEF CoherenceInv, OutstandingInv
<1>2. currentMemOpSuccessful[n] BY StartGives
<1>3. PICK op \in Op :
        /\ ProcessorStarts(n, op)
        /\ \/ /\ \E type \in HomeRequest : AskHome(n, op.addr, type)
              /\ UNCHANGED <<cacheMsgQueue, cacheLineStatus>>
           \/ /\ \E type \in Accesses : AskCache(n, op.addr, type)
              /\ cacheLineStatus[n][op.addr] \in StatusFor(op.type)
              /\ \/ UNCHANGED cacheLineStatus
                 \/ op.type = "write" /\ SetStatus(n, op.addr, "M")
  BY StartGives
<1>4. PICK a \in Addr : a = op.addr BY DEF Op
<1>5. /\ currentMemOp' = [currentMemOp EXCEPT ![n] = op]
      /\ currentMemOpSuccessful' = [currentMemOpSuccessful EXCEPT ![n] = FALSE]
      /\ \E next \in NextOps(n) :
           next[1] = op /\ memActionQueue' = [memActionQueue EXCEPT ![n] = next[2]]
  BY <1>3 DEF ProcessorStarts
<1>6. NoAccess(n) /\ NoAnswer(n) BY <1>1, <1>2, IdleNode
<1>7. \A m \in Node : /\ currentMemOp'[m] = IF m = n THEN op ELSE currentMemOp[m]
                      /\ currentMemOpSuccessful'[m] = IF m = n THEN FALSE
                                                               ELSE currentMemOpSuccessful[m]
                      /\ m # n => memActionQueue'[m] = memActionQueue[m]
  BY <1>1, <1>5 DEF TypeOK
<1>8. \A m \in Node : None(incomingMsgQueue[m], PerformedMsgs)
                        <=> None(incomingMsgQueue'[m], PerformedMsgs)
  <2>1. CASE UNCHANGED incomingMsgQueue BY <2>1
  <2>2. CASE \E type \in HomeRequest : AskHome(n, op.addr, type)
    <3>1. PICK type \in HomeRequest : AskHome(n, a, type) BY <1>4, <2>2
    <3>2. PICK x : x = NewMessage(n, a, type, nodeLatency) OBVIOUS
    <3>3. x \in Message /\ x \notin PerformedMsgs
      BY <1>1, <3>2, NewMessageType
         DEF TypeOK, MessageType, NewMessage, HomeRequest, PerformedMsgs
    <3>4. \A m \in Node : incomingMsgQueue'[m] = IF m = Home[a] THEN Append(incomingMsgQueue[m], x)
                                                                ELSE incomingMsgQueue[m]
      BY <3>1, <3>2 DEF AskHome, SendMsgToNode
    <3>5. \A m \in Node : incomingMsgQueue[m] \in Seq(Message) BY <1>1 DEF TypeOK
    <3> QED BY <3>3, <3>4, <3>5, AppendLike DEF Like
  <2> QED BY <1>3, <2>1, <2>2 DEF AskCache
<1>9. PendingsBut(n) BY <1>1, <1>7, <1>8, PendingStaysWhen DEF PendingsBut
<1>10. PendingOf(n)' = {op}
  <2>1. None(incomingMsgQueue[n], PerformedMsgs)
    <3>1. PerformedMsgs \subseteq AnswerMsgs BY DEF PerformedMsgs, AnswerMsgs, Answers
    <3> QED BY <1>6, <3>1 DEF NoAnswer, None
  <2> QED BY <1>1, <1>7, <1>8, <2>1, PendingMeans DEF PendingWith
<1>11. PICK todo \in Seq(Op) : todo = memActionQueue[n] BY <1>1 DEF TypeOK
<1>12. PendingOf(n) = IF todo # <<>> THEN {Head(todo)} ELSE {}
  BY <1>1, <1>2, <1>11, PendingMeans DEF PendingWith
<1>13. todo # <<>> => op = Head(todo) BY <1>5, <1>11 DEF NextOps
<1>14. \A m \in Node, b \in Addr : RightStays(m, b)
  <2> TAKE m \in Node, b \in Addr
  <2>1. CASE UNCHANGED <<cacheMsgQueue, cacheLineStatus>> /\ m = n
    <3>1. PICK q \in Seq(CacheMessage) : q = cacheMsgQueue[m] BY <1>1 DEF TypeOK
    <3>2. None(q, AsCache(b, Accesses))
      BY <1>6, <2>1, <3>1 DEF NoAccess, CacheMarks, AsCache, None
    <3> QED BY <1>1, <2>1, <3>1, <3>2, RightStaysWhen
  <2>2. CASE UNCHANGED <<cacheMsgQueue, cacheLineStatus>> /\ m # n
    BY <1>1, <1>7, <2>2, RightStaysWhen
  <2>3. ASSUME NEW type \in Accesses, AskCache(n, op.addr, type),
               cacheLineStatus[n][op.addr] \in StatusFor(op.type),
               \/ UNCHANGED cacheLineStatus
               \/ op.type = "write" /\ SetStatus(n, op.addr, "M")
        PROVE  RightStays(m, b)
    <3>1. type \in CacheRequest BY DEF Accesses, CacheRequest
    <3>2. SendMsgToCache(n, a, type) BY <1>4, <2>3 DEF AskCache
    <3>3. PICK x \in CacheMessage :
            /\ x.addr = a
            /\ \A o \in Node : cacheMsgQueue'[o] = IF o = n THEN Append(cacheMsgQueue[o], x)
                                                            ELSE cacheMsgQueue[o]
      BY <1>1, <3>1, <3>2, AskSent
    <3>4. PICK q \in Seq(CacheMessage) : q = cacheMsgQueue[m] BY <1>1 DEF TypeOK
    <3>a. UNCHANGED cacheLineStatus \/ (op.type = "write" /\ SetStatus(n, a, "M"))
      BY <1>4, <2>3
    <3>b. /\ m # n \/ b # a => cacheLineStatus'[m][b] = cacheLineStatus[m][b]
          /\ \/ cacheLineStatus'[n][a] = cacheLineStatus[n][a]
             \/ op.type = "write" /\ cacheLineStatus'[n][a] = "M"
      <4>1. cacheLineStatus \in [Node -> [Addr -> ProtocolStatus]] BY <1>1 DEF TypeOK
      <4>2. CASE UNCHANGED cacheLineStatus BY <4>2
      <4>3. CASE op.type = "write" /\ SetStatus(n, a, "M") BY <4>1, <4>3 DEF SetStatus
      <4> QED BY <3>a, <4>2, <4>3
    <3>5. m # n \/ b # a => cacheLineStatus'[m][b] = cacheLineStatus[m][b] BY <3>b
    <3>6. CASE m # n
      <4>1. cacheMsgQueue'[m] = q BY <3>3, <3>4, <3>6
      <4> QED BY <1>1, <1>7, <3>4, <3>5, <3>6, <4>1, RightStaysWhen
    <3>7. m = n => None(q, AsCache(b, Accesses))
      BY <1>6, <3>4 DEF NoAccess, CacheMarks, AsCache, None
    <3>8. CASE m = n /\ b # a
      <4>1. x \notin AsCache(b, Accesses) BY <3>3, <3>8 DEF AsCache
      <4>2. None(q, AsCache(b, Accesses)) <=> None(cacheMsgQueue'[m], AsCache(b, Accesses))
        BY <3>3, <3>4, <3>8, <4>1, RequestsLike DEF Like
      <4> QED BY <1>1, <3>4, <3>5, <3>7, <3>8, <4>2, RightStaysWhen
    <3>9. CASE m = n /\ b = a
      <4>1. PICK status : status = cacheLineStatus[n][a] OBVIOUS
      <4>2. PICK later : later = cacheLineStatus'[n][a] OBVIOUS
      <4>3. later = status \/ (op.type = "write" /\ later = "M")
        BY <3>b, <4>1, <4>2
      <4>4. status \in StatusFor(op.type) BY <1>4, <2>3, <4>1
      <4>5. RightOf(n, a) = IF status \in {"M", "E"} THEN "write"
                            ELSE IF status = "S" THEN "read" ELSE "none"
        BY <1>1, <3>4, <3>7, <3>9, <4>1, RightMeans DEF RightWith
      <4>6. op.type \in {"read", "write"} BY DEF Op
      <4>7. op.type = currentMemOp'[n].type BY <1>7
      <4>8. RightOf(n, a)' = RightWith(later, op.type, cacheMsgQueue'[n], a)
        BY <1>1, <4>2, <4>7, RightMeans
      <4>9. RightOf(n, a)' = RightOf(n, a)
        BY <4>3, <4>4, <4>5, <4>6, <4>8 DEF RightWith, StatusFor
      <4> QED BY <3>9, <4>9 DEF RightStays
    <3> QED BY <3>6, <3>8, <3>9
  <2> QED BY <1>3, <2>1, <2>2, <2>3 DEF AskHome
<1>15. CASE todo = <<>>
  <2>1. PendingOf(n) = {} BY <1>12, <1>15
  <2> QED BY <1>9, <1>10, <1>14, <2>1, MemoryBegins
<1>16. CASE todo # <<>>
  <2>1. PendingStays(n) BY <1>10, <1>12, <1>13, <1>16 DEF PendingStays
  <2>2. \A m \in Node : PendingStays(m) BY <1>9, <2>1 DEF PendingsBut
  <2> QED BY <1>14, <2>2, MemoryStutters
<1> QED BY <1>15, <1>16

\* Every step of the handlers is one of the memory, or a stutter, ...
LEMMA MemoryNext ==
  LinesFit /\ CoherenceInv /\ AccessInv /\ TypeOK' /\ RightsFit' /\ [Next]_vars => MemoryStep
<1> SUFFICES ASSUME LinesFit, CoherenceInv, AccessInv, TypeOK', RightsFit', [Next]_vars
             PROVE  MemoryStep
  OBVIOUS
<1>1. 0 \in Node BY ZeroIsNode
<1>2. \A n \in Node : RunsOn(n) => IdlesOn(n) \/ CacheWorks(n) BY DEF RunsOn, IdlesOn, CacheWorks
<1>3. \A n \in Node : IdlesOn(n) \/ UNCHANGED vars => MemoryStep BY IdleMemory
<1>4. \A n \in Node : CacheWorks(n) => MemoryStep BY WorksMemory
<1>5. \A n \in Node : HandlesOn(n) => MemoryStep
  BY QuietMemory, RollbackMemory, DoneMemory, GrantMemory, HolderMemory
<1>6. \A n \in Node : HandleMemOpRequest(n) => MemoryStep BY StartMemory
<1> QED BY <1>1, <1>2, <1>3, <1>4, <1>5, <1>6, StepsOnly

\* ... and the initial states are its initial states.
LEMMA MemoryInit ==
  LinesFit /\ Init => Memory!Init
<1> SUFFICES ASSUME LinesFit, Init PROVE Memory!Init
  OBVIOUS
<1>1. TypeOK BY CoherenceInit, InvTypes
<1>2. ASSUME NEW n \in Node, NEW a \in Addr PROVE RightOf(n, a) = "none"
  <2>1. cacheLineStatus[n][a] = "I" /\ cacheMsgQueue[n] = <<>> BY DEF Init
  <2>2. None(cacheMsgQueue[n], AsCache(a, Accesses)) BY <2>1 DEF None
  <2> QED BY <1>1, <2>1, <2>2, RightIs DEF RightWith
<1>3. ASSUME NEW n \in Node PROVE PendingOf(n) = {}
  BY DEF Init, PendingOf
<1>4. [n \in Node |-> [a \in Addr |-> RightOf(n, a)]] = [n \in Node |-> [a \in Addr |-> "none"]]
  BY <1>2
<1>5. [n \in Node |-> PendingOf(n)] = [n \in Node |-> {}] BY <1>3
<1> QED BY <1>4, <1>5 DEF Memory!Init

\* The handlers implement the coherent memory: for every number of contexts, set of lines,
\* latency and task, in caches that never evict, the rights to a line are those of a
\* readers-writer lock, an access is performed with the right it needs, and an operation
\* that was begun, rolled back or not, is performed once before the next begins.
THEOREM MemoryImplemented == ASSUME LinesFit PROVE Spec => ImplementsMemory
<1>1. Init => Memory!Init BY MemoryInit
<1>2. Init => AccessInv BY AccessInit
<1>3. CoherenceInv /\ AccessInv /\ [Next]_vars => AccessInv' BY AccessStep
<1>4. CoherenceInv => TypeOK BY InvTypes
<1>5. CoherenceInv /\ AccessInv => RightsFit BY RightsAlwaysFit
<1>6. CoherenceInv /\ AccessInv /\ TypeOK' /\ RightsFit' /\ [Next]_vars
        => [Memory!Next]_<<[n \in Node |-> [a \in Addr |-> RightOf(n, a)]],
                           [n \in Node |-> PendingOf(n)]>>
  BY MemoryNext DEF MemoryStep, NodeRights, NodePendings
<1>7. Spec => []CoherenceInv BY CoherenceAlways
<1> QED BY <1>1, <1>2, <1>3, <1>4, <1>5, <1>6, <1>7, PTL
        DEF Spec, ImplementsMemory, Memory!Spec

===============================================================================
