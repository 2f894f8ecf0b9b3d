------------------------------- MODULE Context -------------------------------
(***************************************************************************)
(* What every node of the simulated machine has, whatever the protocol:    *)
(* its queues, its cache, its processor and its share of the directory,    *)
(* and the order in which Simulator::run and Context::run step them        *)
(* (backend/Simulator: context.cpp, cache.cpp, processor.cpp, and the code *)
(* the two protocol handlers share).                                       *)
(*                                                                         *)
(* The simulator is one loop.  In each cycle the contexts run in the order *)
(* of their ids, and a context runs its cache, then its protocol handler,  *)
(* then its processor.  "turn" is the context that runs and "phase" the    *)
(* part of it that is next, so that one message, or one memory operation,  *)
(* is one step:                                                            *)
(*    tick -> cache -> handler -> (the processor, then the next context)   *)
(* and "drain" is the handler inside checkBlockedQueueAtAddress.           *)
(***************************************************************************)
EXTENDS Integers, Sequences, FiniteSets, Directory, CacheSet

CONSTANTS
  NumContexts,      \* contexts 0 .. NumContexts - 1
  Addr,             \* line addresses
  Home,             \* Home[a]: getHomeNodeIdByAddr, the high bits of the address
  SetIndex,         \* SetIndex[a]: the cache set a falls in
  Ways,             \* E: lines per cache set
  InitialLines,     \* what a set may hold at first, see Init
  Tasks,            \* Tasks[n]: the memory operations a task of n may hold
  Protocols,        \* values the command line may give protocol,
  NodeLatencies,    \* nodeLatency
  CacheLatencies    \* and cacheLatency

Node == 0..(NumContexts - 1)
CacheSets == {SetIndex[a] : a \in Addr}
Op == [addr : Addr, type : {"read", "write"}]

ASSUME ContextAssumption ==
  /\ Protocols \subseteq {"MSI", "MESI"}
  /\ NumContexts \in Nat \ {0}
  /\ Addr # {}
  /\ Home \in [Addr -> Node]
  /\ Ways \in Nat \ {0}
  /\ InitialLines \subseteq Seq(Addr)
  /\ Tasks \in [Node -> SUBSET (Seq(Op) \ {<<>>})]
  /\ NodeLatencies \subseteq Nat
  /\ CacheLatencies \subseteq Nat

CacheRequest == {"CACHE_READ", "CACHE_UPDATE", "CACHE_INVALIDATE", "CACHE_FETCH"}
CacheReply == {"CACHE_READ_REPLY", "CACHE_UPDATE_ACK", "CACHE_INVALIDATE_ACK",
               "CACHE_FETCH_ACK", "CACHE_EVICTION_ALERT"}
HomeRequest == {"READ_MISS", "WRITE_MISS", "INVALIDATE_OTHER"}
OwnerRequest == {"INVALIDATE", "FETCH", "FETCH_INVALIDATE"}
NodeReply == {"INVALIDATE_ACK", "INVALIDATE_OTHER_ACK", "DATA_VALUE_REPLY",
              "DATA_VALUE_REPLY_E", "DATA_WRITE_BACK", "ROLLBACK"}

\* Cache misses never name a type outside these; protocolStatus "I" is "not in
\* the map cacheLineStatus".
Message == [type : CacheReply \cup HomeRequest \cup OwnerRequest \cup NodeReply,
            src : Node, addr : Addr, latency : Nat, serviced : BOOLEAN]
CacheMessage == [type : CacheRequest, addr : Addr, latency : Nat]
ProtocolStatus == {"M", "E", "S", "I"}

\* Why the program stopped: a failed assert, "cache line not found, quitting",
\* or front() of an empty vector.
Halt == {"no", "assert", "exit", "empty_front"}

VARIABLES
  protocol, nodeLatency, cacheLatency,  \* the globals of main.cpp
  turn, phase, drainAddr,     \* where the simulator's loop is
  halt,                       \* "no" while the program runs
  incomingMsgQueue,           \* [Node -> Seq(Message)]
  blockedMsgMap,              \* [Node -> [Addr -> Seq(Message)]], <<>>: no entry
  cacheMsgQueue,              \* [Node -> Seq(CacheMessage)]
  cache,                      \* [Node -> [CacheSets -> Seq(Addr)]]
  cacheLineStatus,            \* [Node -> [Addr -> ProtocolStatus]]
  pendingInvAckCount,         \* [Addr -> Int], kept by the home; 0: no entry
  directory,                  \* [Addr -> Entries(Node)], kept by the home
  currentMemOp, currentMemOpSuccessful, memActionQueue

loopVars == <<turn, phase, drainAddr>>
procVars == <<currentMemOp, currentMemOpSuccessful, memActionQueue>>
cacheVars == <<cacheMsgQueue, cache>>
homeVars == <<directory, pendingInvAckCount>>
globals == <<protocol, nodeLatency, cacheLatency>>
vars == <<globals, loopVars, halt, incomingMsgQueue, blockedMsgMap, cacheVars,
          cacheLineStatus, homeVars, procVars>>

TypeOK ==
  /\ protocol \in {"MSI", "MESI"} /\ nodeLatency \in Nat /\ cacheLatency \in Nat
  /\ turn \in Node
  /\ phase \in {"tick", "cache", "handler", "drain"}
  /\ drainAddr \in Addr
  /\ halt \in Halt
  /\ incomingMsgQueue \in [Node -> Seq(Message)]
  /\ blockedMsgMap \in [Node -> [Addr -> Seq(Message)]]
  /\ cacheMsgQueue \in [Node -> Seq(CacheMessage)]
  /\ cache \in [Node -> [CacheSets -> Seq(Addr)]]
  /\ cacheLineStatus \in [Node -> [Addr -> ProtocolStatus]]
  /\ pendingInvAckCount \in [Addr -> Int]
  /\ directory \in [Addr -> Entries(Node)]
  /\ currentMemOp \in [Node -> Op]
  /\ currentMemOpSuccessful \in [Node -> BOOLEAN]
  /\ memActionQueue \in [Node -> Seq(Op)]

\* Contexts as their constructors leave them.  currentMemOp and the address the
\* drain is at are not read before they are set.  The cache's constructor leaves its
\* lines as malloc returns them: a set is empty in memory that is zero, and holds any
\* lines in memory that was used before.
Init ==
  /\ protocol \in Protocols
  /\ nodeLatency \in NodeLatencies /\ cacheLatency \in CacheLatencies
  /\ turn = 0 /\ phase = "tick" /\ drainAddr = CHOOSE a \in Addr : TRUE
  /\ halt = "no"
  /\ incomingMsgQueue = [n \in Node |-> <<>>]
  /\ blockedMsgMap = [n \in Node |-> [a \in Addr |-> <<>>]]
  /\ cacheMsgQueue = [n \in Node |-> <<>>]
  /\ cache \in [Node -> [CacheSets -> InitialLines]]
  /\ cacheLineStatus = [n \in Node |-> [a \in Addr |-> "I"]]
  /\ pendingInvAckCount = [a \in Addr |-> 0]
  /\ directory = [a \in Addr |-> NoEntry]
  /\ currentMemOp = [n \in Node |-> CHOOSE o \in Op : TRUE]
  /\ currentMemOpSuccessful = [n \in Node |-> TRUE]
  /\ memActionQueue = [n \in Node |-> <<>>]

-------------------------------------------------------------------------------
(* Messages. *)

NewMessage(src, addr, type, latency) ==
  [type |-> type, src |-> src, addr |-> addr, latency |-> latency, serviced |-> FALSE]

\* sendMsgToNode from n to every node of dsts, on the queues q.
SendMsgToNode(q, n, dsts, addr, type) ==
  [d \in Node |-> IF d \in dsts THEN Append(q[d], NewMessage(n, addr, type, nodeLatency))
                                ELSE q[d]]

\* sendMsgToCache at n.
SendMsgToCache(n, addr, type) ==
  cacheMsgQueue' = [cacheMsgQueue EXCEPT
    ![n] = Append(@, [type |-> type, addr |-> addr, latency |-> cacheLatency])]

\* Mutant: a message that has arrived goes on ageing.
OlderThanArrived(q) == [i \in 1..Len(q) |-> [q[i] EXCEPT !.latency = @ - 1]]

\* Every message of a queue one cycle older.
Older(q) ==
  [i \in 1..Len(q) |-> [q[i] EXCEPT !.latency = IF @ > 0 THEN @ - 1 ELSE @]]

\* Only the head of a queue is looked at: one that has not arrived yet holds back
\* those behind it.
Arrived(q) == q # <<>> /\ Head(q).latency = 0

-------------------------------------------------------------------------------
(* Cache::run. *)

CacheTick(n) ==
  /\ halt = "no" /\ turn = n /\ phase = "tick"
  /\ cacheMsgQueue' = [cacheMsgQueue EXCEPT ![n] = Older(@)]
  /\ phase' = "cache"
  /\ UNCHANGED <<globals, turn, drainAddr, halt, incomingMsgQueue, blockedMsgMap,
                 cache, cacheLineStatus, homeVars, procVars>>

CacheServes(n, type) ==
  /\ halt = "no" /\ turn = n /\ phase = "cache"
  /\ Arrived(cacheMsgQueue[n])
  /\ Head(cacheMsgQueue[n]).type = type
  /\ cacheMsgQueue' = [cacheMsgQueue EXCEPT ![n] = Tail(@)]
  /\ UNCHANGED <<globals, loopVars, blockedMsgMap, cacheLineStatus, homeVars,
                 procVars>>

CacheReplies(n, addr, type) ==
  incomingMsgQueue' = [incomingMsgQueue EXCEPT
    ![n] = Append(@, NewMessage(n, addr, type, cacheLatency))]

Lines(n, addr) == cache[n][SetIndex[addr]]
SetLines(n, addr, lines) == cache' = [cache EXCEPT ![n][SetIndex[addr]] = lines]

\* A line the request names must be in the cache: getLine exits the program
\* when it is not.
CacheReads(n) ==
  LET a == Head(cacheMsgQueue[n]).addr
  IN  /\ CacheServes(n, "CACHE_READ")
      /\ Holds(Lines(n, a), a)
      /\ SetLines(n, a, ReadLine(Lines(n, a), a))
      /\ CacheReplies(n, a, "CACHE_READ_REPLY")
      /\ UNCHANGED halt

CacheInvalidates(n) ==
  LET a == Head(cacheMsgQueue[n]).addr
  IN  /\ CacheServes(n, "CACHE_INVALIDATE")
      /\ Holds(Lines(n, a), a)
      /\ SetLines(n, a, InvalidateLine(Lines(n, a), a))
      /\ CacheReplies(n, a, "CACHE_INVALIDATE_ACK")
      /\ UNCHANGED halt

CacheFetches(n) ==
  LET a == Head(cacheMsgQueue[n]).addr
  IN  /\ CacheServes(n, "CACHE_FETCH")
      /\ Holds(Lines(n, a), a)
      /\ SetLines(n, a, FetchLine(Lines(n, a), a))
      /\ CacheReplies(n, a, "CACHE_FETCH_ACK")
      /\ UNCHANGED halt

CacheLineNotFound(n) ==
  LET a == Head(cacheMsgQueue[n]).addr
  IN  /\ \E type \in CacheRequest \ {"CACHE_UPDATE"} : CacheServes(n, type)
      /\ ~Holds(Lines(n, a), a)
      /\ halt' = "exit"
      /\ UNCHANGED <<incomingMsgQueue, cache>>

CacheUpdates(n) ==
  LET a == Head(cacheMsgQueue[n]).addr
  IN  /\ CacheServes(n, "CACHE_UPDATE")
      /\ ~Evicts(Lines(n, a), a, Ways)
      /\ SetLines(n, a, UpdateLine(Lines(n, a), a, Ways))
      /\ CacheReplies(n, a, "CACHE_UPDATE_ACK")
      /\ UNCHANGED halt

\* The alert (its source is the constant 0) enters the queue ahead of the ACK.
CacheUpdateEvicts(n) ==
  LET a == Head(cacheMsgQueue[n]).addr
      alert == NewMessage(0, Victim(Lines(n, a)), "CACHE_EVICTION_ALERT", cacheLatency)
      ack == NewMessage(n, a, "CACHE_UPDATE_ACK", cacheLatency)
  IN  /\ CacheServes(n, "CACHE_UPDATE")
      /\ Evicts(Lines(n, a), a, Ways)
      /\ SetLines(n, a, UpdateLine(Lines(n, a), a, Ways))
      /\ incomingMsgQueue' = [incomingMsgQueue EXCEPT ![n] = @ \o <<alert, ack>>]
      /\ UNCHANGED halt

CacheRun(n) ==
  \/ CacheTick(n) \/ CacheReads(n) \/ CacheInvalidates(n) \/ CacheFetches(n)
  \/ CacheUpdates(n) \/ CacheUpdateEvicts(n) \/ CacheLineNotFound(n)

-------------------------------------------------------------------------------
(* checkIncomingMsgQueue, and what it does with what handleMessage returns. *)

HandlerTick(n) ==
  /\ halt = "no" /\ turn = n /\ phase = "cache"
  /\ ~Arrived(cacheMsgQueue[n])
  /\ incomingMsgQueue' = [incomingMsgQueue EXCEPT ![n] = Older(@)]
  /\ phase' = "handler"
  /\ UNCHANGED <<globals, turn, drainAddr, halt, blockedMsgMap, cacheVars,
                 cacheLineStatus, homeVars, procVars>>

\* handleMessage(msg, false) from the incoming queue, or handleMessage(msg, true)
\* from the front of the blocked queue of drainAddr.
Draining == phase = "drain"
Handling(n) ==
  /\ halt = "no" /\ turn = n
  /\ \/ phase = "handler" /\ Arrived(incomingMsgQueue[n])
     \/ /\ Draining /\ blockedMsgMap[n][drainAddr] # <<>>
        /\ ~Head(blockedMsgMap[n][drainAddr]).serviced
Current(n) == IF Draining THEN Head(blockedMsgMap[n][drainAddr])
                          ELSE Head(incomingMsgQueue[n])

\* The incoming queues without the message being handled.
Rest(n) == IF Draining THEN incomingMsgQueue
                       ELSE [incomingMsgQueue EXCEPT ![n] = Tail(@)]

\* The queues after the message being handled has been answered with "type" to
\* the nodes of dsts.
Reply(n, dsts, type) ==
  incomingMsgQueue' = SendMsgToNode(Rest(n), n, dsts, Current(n).addr, type)
NoReply(n) == incomingMsgQueue' = Rest(n)

\* Mutant: a message that was answered stays in the blocked queue.
DoneKeepsBlocked(n) == UNCHANGED <<blockedMsgMap, loopVars>>

\* handleMessage returns true: the message is gone, and the drain goes on.
Done(n) ==
  /\ blockedMsgMap' = IF Draining
                        THEN [blockedMsgMap EXCEPT ![n][drainAddr] = Tail(@)]
                        ELSE blockedMsgMap
  /\ UNCHANGED loopVars

\* Mutant: no request goes first.
AddToBlockedBehind(q, msg) == Append(q, msg)

\* addToBlockedMsgMap: requests of a home to a holder go first.
AddToBlocked(q, msg) == IF msg.type \in OwnerRequest THEN <<msg>> \o q ELSE Append(q, msg)

\* handleMessage returns false: the message waits in the blocked queue of its
\* address, and a drain ends.
Block(n, serviced) ==
  LET msg == [Current(n) EXCEPT !.serviced = serviced]
  IN  /\ blockedMsgMap' = [blockedMsgMap EXCEPT ![n][msg.addr] =
                             IF Draining THEN <<msg>> \o Tail(@) ELSE AddToBlocked(@, msg)]
      /\ phase' = "handler"
      /\ UNCHANGED <<turn, drainAddr>>

\* Mutant: the home takes up every request at once.
ServiceableAlways(n) == TRUE

\* A request to the home is taken up unless others wait for its line.
Serviceable(n) == Draining \/ blockedMsgMap[n][Current(n).addr] = <<>>

\* The first blocked message of the line has been answered; it is removed, and
\* checkBlockedQueueAtAddress goes down the rest.
Waiting(n) == blockedMsgMap[n][Current(n).addr]

\* Mutant: the messages behind it are left where they are.
UnblockFirst(n) ==
  /\ blockedMsgMap' = [blockedMsgMap EXCEPT ![n][Current(n).addr] = Tail(@)]
  /\ UNCHANGED loopVars

Unblock(n) ==
  /\ blockedMsgMap' = [blockedMsgMap EXCEPT ![n][Current(n).addr] = Tail(@)]
  /\ phase' = "drain" /\ drainAddr' = Current(n).addr
  /\ UNCHANGED turn

\* checkBlockedQueueAtAddress ends: the queue is empty, or its front is being
\* serviced already.
DrainEnds(n) ==
  /\ halt = "no" /\ turn = n /\ Draining
  /\ blockedMsgMap[n][drainAddr] # <<>> => Head(blockedMsgMap[n][drainAddr]).serviced
  /\ phase' = "handler"
  /\ UNCHANGED <<globals, turn, drainAddr, halt, incomingMsgQueue, blockedMsgMap,
                 cacheVars, cacheLineStatus, homeVars, procVars>>

\* The program stops while it handles a message.
Stops(why) ==
  /\ halt' = why
  /\ UNCHANGED <<globals, loopVars, incomingMsgQueue, blockedMsgMap, cacheVars,
                 cacheLineStatus, homeVars, procVars>>

-------------------------------------------------------------------------------
(* Processor::run. *)

\* The memory operation the processor takes next and the queue it leaves: the
\* front of memActionQueue, or of the task that is next in the task queue.
\* Which task that is, and when it arrives, is for the simulator to decide.
NextOps(n) ==
  LET bodies == IF memActionQueue[n] # <<>> THEN {memActionQueue[n]} ELSE Tasks[n]
  IN  {<<Head(b), Tail(b)>> : b \in bodies}

\* The next context's turn.
EndTurn(n) ==
  /\ turn' = (n + 1) % NumContexts
  /\ phase' = "tick"
  /\ UNCHANGED drainAddr

ProcessorTurn(n) ==
  /\ halt = "no" /\ turn = n /\ phase = "handler"
  /\ ~Arrived(incomingMsgQueue[n])
  /\ EndTurn(n)
  /\ UNCHANGED <<globals, halt, blockedMsgMap, cache, homeVars>>

\* The memory operation is still in progress, or no task is there.
ProcessorWaits(n) ==
  /\ ProcessorTurn(n)
  /\ currentMemOpSuccessful[n] => memActionQueue[n] = <<>>
  /\ UNCHANGED <<incomingMsgQueue, cacheMsgQueue, cacheLineStatus, procVars>>

\* The processor starts the operation op; the handler's handleMemOpRequest, which
\* ends the processor's turn, is the protocol's.
ProcessorStarts(n, op) ==
  /\ ProcessorTurn(n)
  /\ currentMemOpSuccessful[n]
  /\ \E next \in NextOps(n) :
       next[1] = op /\ memActionQueue' = [memActionQueue EXCEPT ![n] = next[2]]
  /\ currentMemOp' = [currentMemOp EXCEPT ![n] = op]
  /\ currentMemOpSuccessful' = [currentMemOpSuccessful EXCEPT ![n] = FALSE]

\* handleMemOpRequest asks the home node of the line, ...
AskHome(n, addr, type) ==
  /\ incomingMsgQueue' = SendMsgToNode(incomingMsgQueue, n, {Home[addr]}, addr, type)
  /\ UNCHANGED cacheMsgQueue

\* ... or the cache.
AskCache(n, addr, type) ==
  /\ SendMsgToCache(n, addr, type)
  /\ UNCHANGED incomingMsgQueue

\* setSuccessful(true): the processor may go on.
MemOpSucceeds(n) ==
  /\ currentMemOpSuccessful' = [currentMemOpSuccessful EXCEPT ![n] = TRUE]

==============================================================================
