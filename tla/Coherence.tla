------------------------------ MODULE Coherence ------------------------------
(***************************************************************************)
(* What the protocol handlers promise, over the state of ProtocolHandler.  *)
(***************************************************************************)
EXTENDS ProtocolHandler

\* The messages of the incoming queues that satisfy P: where each one is.
InFlight(P(_)) ==
  UNION {{<<n, i>> : i \in {j \in DOMAIN incomingMsgQueue[n] : P(incomingMsgQueue[n][j])}}
         : n \in Node}

\* The messages of blocked queues that satisfy P.
Blocked(P(_)) ==
  UNION {UNION {{<<n, a, i>> :
           i \in {j \in DOMAIN blockedMsgMap[n][a] : P(blockedMsgMap[n][a][j])}}
           : a \in Addr} : n \in Node}

\* The requests in the queue of n's cache that satisfy P.
AtCache(n, P(_)) == {i \in DOMAIN cacheMsgQueue[n] : P(cacheMsgQueue[n][i])}

-------------------------------------------------------------------------------
\* A node that may write a line (MODIFIED or EXCLUSIVE) is the only one that has
\* it: the coherent state of a line the handlers exist for.
SingleWriter ==
  \A a \in Addr, n, m \in Node :
    n # m /\ cacheLineStatus[n][a] \in {"M", "E"} => cacheLineStatus[m][a] = "I"

\* What a node may do with a line: what its cacheLineStatus says, and for an access
\* its cache has still to do, what the operation needs.
RightOf(n, a) ==
  LET Access(r) == r.type \in {"CACHE_READ", "CACHE_UPDATE"} /\ r.addr = a
      accesses == AtCache(n, Access) # {}
  IN  IF cacheLineStatus[n][a] \in {"M", "E"} \/ (accesses /\ currentMemOp[n].type = "write")
        THEN "write"
      ELSE IF cacheLineStatus[n][a] = "S" \/ accesses THEN "read" ELSE "none"

\* The memory operation a node has still to perform: the one in progress until the
\* cache has answered, or the one that is next, a rolled back one among them.
PendingOf(n) ==
  LET Performed(msg) == msg.type \in {"CACHE_READ_REPLY", "CACHE_UPDATE_ACK"}
      performed == \E i \in DOMAIN incomingMsgQueue[n] : Performed(incomingMsgQueue[n][i])
  IN  IF ~currentMemOpSuccessful[n] THEN IF performed THEN {} ELSE {currentMemOp[n]}
      ELSE IF memActionQueue[n] # <<>> THEN {Head(memActionQueue[n])} ELSE {}

\* The protocol implements the coherent memory: rights to a line are exclusive for
\* a writer across the status maps and the accesses caches have still to do, every
\* access is performed with the right it needs, and an operation that was begun,
\* rolled back or not, is performed once before the next begins.
Memory == INSTANCE CoherentMemory WITH
  right <- [n \in Node |-> [a \in Addr |-> RightOf(n, a)]],
  pending <- [n \in Node |-> PendingOf(n)]
ImplementsMemory == Memory!Spec

\* The home's directory knows every node that has the line, and an owner as the
\* owner: the home never skips a node it has to invalidate or fetch from.
DirectoryCovers ==
  \A a \in Addr, n \in Node :
    /\ cacheLineStatus[n][a] # "I" => n \in directory[a].processorMask
    /\ cacheLineStatus[n][a] \in {"M", "E"} => directory[a].status \in OwnedEntry

\* The home counts the ACKs it waits for exactly: each is an INVALIDATE on its
\* way or waiting for a cache, or an ACK on its way back.
AckCountExact ==
  \A a \in Addr :
    LET Unanswered(msg) == msg.addr = a /\ msg.type \in {"INVALIDATE", "INVALIDATE_ACK"}
    IN  pendingInvAckCount[a] = Cardinality(InFlight(Unanswered))
                              + Cardinality(Blocked(Unanswered))

\* A memory operation in progress is in exactly one place: a request at or on its
\* way to the home, an answer on its way back, or a request or answer of the
\* cache.  None is lost and none is answered twice.
OneOutstanding ==
  \A n \in Node :
    LET Request(msg) == msg.src = n /\ msg.type \in HomeRequest
        Answer(msg) ==
          msg.type \in {"DATA_VALUE_REPLY", "DATA_VALUE_REPLY_E", "INVALIDATE_OTHER_ACK",
                        "ROLLBACK", "CACHE_READ_REPLY", "CACHE_UPDATE_ACK"}
        Access(r) == r.type \in {"CACHE_READ", "CACHE_UPDATE"}
        answers == {p \in InFlight(Answer) : p[1] = n}
    IN  Cardinality(InFlight(Request)) + Cardinality(Blocked(Request))
          + Cardinality(answers) + Cardinality(AtCache(n, Access))
        = IF currentMemOpSuccessful[n] THEN 0 ELSE 1

\* A home services one request of a line at a time, in the order they were
\* blocked: among the requests that wait, only the first may be serviced.
OneTransaction ==
  \A n \in Node, a \in Addr :
    \A i, j \in DOMAIN blockedMsgMap[n][a] :
      LET q == blockedMsgMap[n][a]
      IN  i < j /\ q[i].type \in HomeRequest
            => q[j].type \in HomeRequest /\ ~q[j].serviced

\* A request the home is servicing while it waits for no ACK waits for one owner:
\* one FETCH or FETCH_INVALIDATE is on its way or waiting for a cache, or its
\* DATA_WRITE_BACK is on its way.  Nobody waits for an answer that never comes.
OwnerAnswers ==
  \A a \in Addr :
    LET Serviced(msg) == msg.addr = a /\ msg.type \in HomeRequest /\ msg.serviced
        Asked(msg) == msg.addr = a /\ msg.type \in {"FETCH", "FETCH_INVALIDATE",
                                                    "DATA_WRITE_BACK"}
    IN  pendingInvAckCount[a] = 0
          => Cardinality(Blocked(Serviced))
             = Cardinality(InFlight(Asked)) + Cardinality(Blocked(Asked))

\* "This must be from exclusive owner" says the comment on DATA_WRITE_BACK: the home
\* still knows the sender of one that is on its way as the owner of the line.
WriteBackFromOwner ==
  \A n \in Node : \A i \in DOMAIN incomingMsgQueue[n] :
    LET msg == incomingMsgQueue[n][i]
    IN  msg.type = "DATA_WRITE_BACK"
          => /\ directory[msg.addr].status \in OwnedEntry
             /\ directory[msg.addr].processorMask = {msg.src}

\* "Cache only gets this request when the line exists" says the comment on readLine:
\* getLine never exits the program.
CacheFindsLine == halt # "exit"

\* No assert of the handlers fails, no blocked queue is empty when its front is
\* taken, and the cache finds every line it is asked for.
NeverStops == halt = "no"

\* The comment "should match status of local cache" on cacheLineStatus: while no
\* request for a line is at the cache and no alert of its eviction on the way, the
\* cache has the lines whose status is not I, and no other.
StatusMatchesCache ==
  \A n \in Node, a \in Addr :
    LET Request(r) == r.addr = a
        Alert(msg) == msg.addr = a /\ msg.type = "CACHE_EVICTION_ALERT"
        settled == /\ AtCache(n, Request) = {}
                   /\ ~\E i \in DOMAIN incomingMsgQueue[n] : Alert(incomingMsgQueue[n][i])
    IN  settled => (Holds(Lines(n, a), a) <=> cacheLineStatus[n][a] # "I")

\* Every memory operation a processor starts, rolled back or not, completes, and
\* so does the task it belongs to.
MemOpCompletes ==
  \A n \in Node :
    ~currentMemOpSuccessful[n] ~> currentMemOpSuccessful[n] /\ memActionQueue[n] = <<>>

==============================================================================
