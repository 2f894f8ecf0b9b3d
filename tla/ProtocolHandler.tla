--------------------------- MODULE ProtocolHandler ---------------------------
(***************************************************************************)
(* The MSI and the MESI protocol handler (backend/Simulator:               *)
(* MSIHandler.cpp, MESIHandler.cpp).  The two share most of their code;    *)
(* what MESI adds is guarded by protocol = "MESI".  One action per case of *)
(* handleMessage and of handleMemOpRequest, and one per outcome where a    *)
(* case has several.                                                       *)
(***************************************************************************)
EXTENDS Context

\* The address of the message in hand, its sender, the line's status in this
\* node's cache, and the directory entry lookupDirectoryEntry returns for it.
A(n) == Current(n).addr
Source(n) == Current(n).src
LineStatus(n) == cacheLineStatus[n][A(n)]
Entry(n) == LookUpEntry(directory[A(n)])

SetStatus(n, addr, status) ==
  cacheLineStatus' = [cacheLineStatus EXCEPT ![n][addr] = status]
SetEntry(addr, entry) == directory' = [directory EXCEPT ![addr] = entry]

\* Statuses of a line its holder owns, in the cache and in the directory.
OwnedLine == IF protocol = "MESI" THEN {"M", "E"} ELSE {"M"}
OwnedEntry == IF protocol = "MESI" THEN {"MODIFIED", "EXCLUSIVE"} ELSE {"MODIFIED"}

-------------------------------------------------------------------------------
(* What stops the program inside handleMessage. *)

\* The last ACK a home waits for.
LastAck(n) == pendingInvAckCount[A(n)] = 1

\* front() of the blocked queue of the line is taken without a look at its size.
TakesFront(n) ==
  \/ Current(n).type \in {"CACHE_INVALIDATE_ACK", "CACHE_FETCH_ACK"}
  \/ Current(n).type = "INVALIDATE_ACK" /\ LastAck(n)
EmptyFront(n) == TakesFront(n) /\ Waiting(n) = <<>>

\* The first blocked message of the line, if there is one, is one of types.
FrontIn(n, types) == Waiting(n) # <<>> => Head(Waiting(n)).type \in types

\* The asserts of handleMessage, by the type of the message.
Asserts(n) ==
  LET type == Current(n).type
  IN  /\ ~Current(n).serviced
      /\ type \in {"INVALIDATE_OTHER", "INVALIDATE_ACK"} => Home[A(n)] = n
      /\ type = "INVALIDATE_ACK" /\ LastAck(n)
           => FrontIn(n, {"WRITE_MISS", "INVALIDATE_OTHER"})
      /\ type = "INVALIDATE_OTHER_ACK"
           => Source(n) = Home[A(n)] /\ currentMemOp[n].addr = A(n)
      /\ type \in {"FETCH", "FETCH_INVALIDATE"} => LineStatus(n) \in OwnedLine \cup {"I"}
      /\ type \in {"DATA_VALUE_REPLY", "DATA_VALUE_REPLY_E"} => ~currentMemOpSuccessful[n]
      /\ type = "DATA_WRITE_BACK" => FrontIn(n, {"WRITE_MISS", "READ_MISS"})
      /\ type = "CACHE_UPDATE_ACK" => currentMemOp[n].addr = A(n)
      /\ type = "CACHE_INVALIDATE_ACK" => FrontIn(n, {"INVALIDATE", "FETCH_INVALIDATE"})
      /\ type = "CACHE_FETCH_ACK" => FrontIn(n, {"FETCH"})

\* The asserts only MESIHandler.cpp has.
AssertsMESI(n) ==
  LET type == Current(n).type
  IN  /\ type = "READ_MISS" => Home[A(n)] = n
      /\ type = "INVALIDATE" => Source(n) = Home[A(n)]
      /\ type = "DATA_VALUE_REPLY" => LineStatus(n) = "I"
      /\ type = "DATA_VALUE_REPLY_E" => currentMemOp[n].type = "read"
      /\ type = "CACHE_READ_REPLY" => currentMemOp[n].addr = A(n)
      /\ type \in {"CACHE_READ_REPLY", "CACHE_UPDATE_ACK"} => ~currentMemOpSuccessful[n]

AssertsHold(n) == Asserts(n) /\ (protocol = "MESI" => AssertsMESI(n))

HandlerStops(n) ==
  /\ Handling(n)
  /\ \/ EmptyFront(n) /\ Stops("empty_front")
     \/ ~EmptyFront(n) /\ ~AssertsHold(n) /\ Stops("assert")

\* The handler takes up a message of this type.
Handles(n, type) ==
  /\ Handling(n) /\ Current(n).type = type
  /\ ~EmptyFront(n) /\ AssertsHold(n)
  /\ UNCHANGED <<globals, halt, cache>>

-------------------------------------------------------------------------------
(* Requests of a node to the home of the line. *)

\* Another message of the line is being serviced: wait behind it.
HomeBusy(n) ==
  /\ \E type \in HomeRequest : Handles(n, type)
  /\ ~Serviceable(n)
  /\ Block(n, FALSE)
  /\ NoReply(n)
  /\ UNCHANGED <<cacheMsgQueue, cacheLineStatus, homeVars, procVars>>

ReadMiss(n) ==
  /\ Handles(n, "READ_MISS") /\ Serviceable(n)
  /\ UNCHANGED <<cacheMsgQueue, cacheLineStatus, pendingInvAckCount, procVars>>

WriteMiss(n) ==
  /\ Handles(n, "WRITE_MISS") /\ Serviceable(n)
  /\ UNCHANGED <<cacheMsgQueue, cacheLineStatus, procVars>>

\* MSI gives an uncached line out SHARED, MESI EXCLUSIVE.
ReadMissShares(n) ==
  /\ ReadMiss(n)
  /\ Entry(n).status \in {"SHARED"} \cup (IF protocol = "MSI" THEN {"UNCACHED"} ELSE {})
  /\ Reply(n, {Source(n)}, "DATA_VALUE_REPLY")
  /\ SetEntry(A(n), UpdateEntry(Entry(n), "SHARED", Source(n)))
  /\ Done(n)

ReadMissGivesExclusive(n) ==
  /\ protocol = "MESI"
  /\ ReadMiss(n) /\ Entry(n).status = "UNCACHED"
  /\ Reply(n, {Source(n)}, "DATA_VALUE_REPLY_E")
  /\ SetEntry(A(n), UpdateEntry(Entry(n), "EXCLUSIVE", Source(n)))
  /\ Done(n)

ReadMissFetches(n) ==
  /\ ReadMiss(n) /\ Entry(n).status \in OwnedEntry
  /\ Reply(n, {Owner(Entry(n))}, "FETCH")
  /\ SetEntry(A(n), Entry(n))
  /\ Block(n, TRUE)

WriteMissUncached(n) ==
  /\ WriteMiss(n) /\ Entry(n).status = "UNCACHED"
  /\ Reply(n, {Source(n)}, "DATA_VALUE_REPLY")
  /\ SetEntry(A(n), UpdateEntry(Entry(n), "MODIFIED", Source(n)))
  /\ Done(n)
  /\ UNCHANGED pendingInvAckCount

\* insert() leaves a count that is there already as it is.
AwaitInvalidateAcks(addr, count) ==
  pendingInvAckCount' =
    [pendingInvAckCount EXCEPT ![addr] = IF @ = 0 THEN count ELSE @]

\* Every sharer is asked, the requester included if it is one.
WriteMissInvalidates(n) ==
  /\ WriteMiss(n) /\ Entry(n).status = "SHARED"
  /\ Reply(n, Entry(n).processorMask, "INVALIDATE")
  /\ AwaitInvalidateAcks(A(n), Cardinality(Entry(n).processorMask))
  /\ SetEntry(A(n), Entry(n))
  /\ Block(n, TRUE)

WriteMissFetches(n) ==
  /\ WriteMiss(n) /\ Entry(n).status \in OwnedEntry
  /\ Reply(n, {Owner(Entry(n))}, "FETCH_INVALIDATE")
  /\ SetEntry(A(n), Entry(n))
  /\ Block(n, TRUE)
  /\ UNCHANGED pendingInvAckCount

\* The line is no longer shared: the requester must try again with a WRITE_MISS.
InvalidateOtherRollsBack(n) ==
  /\ Handles(n, "INVALIDATE_OTHER") /\ Serviceable(n)
  /\ Entry(n).status # "SHARED"
  /\ Reply(n, {Source(n)}, "ROLLBACK")
  /\ SetEntry(A(n), Entry(n))
  /\ Done(n)
  /\ UNCHANGED <<cacheMsgQueue, cacheLineStatus, pendingInvAckCount, procVars>>

OtherSharers(n) == Entry(n).processorMask \ {Source(n)}

InvalidateOtherInvalidates(n) ==
  /\ Handles(n, "INVALIDATE_OTHER") /\ Serviceable(n)
  /\ Entry(n).status = "SHARED" /\ OtherSharers(n) # {}
  /\ Reply(n, OtherSharers(n), "INVALIDATE")
  /\ AwaitInvalidateAcks(A(n), Cardinality(OtherSharers(n)))
  /\ SetEntry(A(n), Entry(n))
  /\ Block(n, TRUE)
  /\ UNCHANGED <<cacheMsgQueue, cacheLineStatus, procVars>>

InvalidateOtherGrants(n) ==
  /\ Handles(n, "INVALIDATE_OTHER") /\ Serviceable(n)
  /\ Entry(n).status = "SHARED" /\ OtherSharers(n) = {}
  /\ SetEntry(A(n), UpdateEntry(Entry(n), "MODIFIED", Source(n)))
  /\ Reply(n, {Source(n)}, "INVALIDATE_OTHER_ACK")
  /\ Done(n)
  /\ UNCHANGED <<cacheMsgQueue, cacheLineStatus, pendingInvAckCount, procVars>>

-------------------------------------------------------------------------------
(* Requests of a home to a holder of the line. *)

\* The line is not here (any more): an INVALIDATE is acknowledged at once, a
\* FETCH or FETCH_INVALIDATE is left to the DATA_WRITE_BACK of the eviction.
InvalidateAbsentSilent(n) ==   \* mutant: no ACK
  /\ Handles(n, "INVALIDATE") /\ LineStatus(n) = "I"
  /\ NoReply(n)
  /\ Done(n)
  /\ UNCHANGED <<cacheMsgQueue, cacheLineStatus, homeVars, procVars>>

InvalidateAbsent(n) ==
  /\ Handles(n, "INVALIDATE") /\ LineStatus(n) = "I"
  /\ Reply(n, {Source(n)}, "INVALIDATE_ACK")
  /\ Done(n)
  /\ UNCHANGED <<cacheMsgQueue, cacheLineStatus, homeVars, procVars>>

FetchAbsent(n) ==
  /\ \E type \in {"FETCH", "FETCH_INVALIDATE"} : Handles(n, type)
  /\ LineStatus(n) = "I"
  /\ NoReply(n)
  /\ Done(n)
  /\ UNCHANGED <<cacheMsgQueue, cacheLineStatus, homeVars, procVars>>

\* Mutant: the status of the line is kept.
InvalidateKeeps(n) ==
  /\ \E type \in {"INVALIDATE", "FETCH_INVALIDATE"} : Handles(n, type)
  /\ LineStatus(n) # "I"
  /\ SendMsgToCache(n, A(n), "CACHE_INVALIDATE")
  /\ NoReply(n)
  /\ Block(n, TRUE)
  /\ UNCHANGED <<cacheLineStatus, homeVars, procVars>>

\* The line is here: the cache is asked, and the request waits for its reply.
Invalidate(n) ==
  /\ \E type \in {"INVALIDATE", "FETCH_INVALIDATE"} : Handles(n, type)
  /\ LineStatus(n) # "I"
  /\ SetStatus(n, A(n), "I")
  /\ SendMsgToCache(n, A(n), "CACHE_INVALIDATE")
  /\ NoReply(n)
  /\ Block(n, TRUE)
  /\ UNCHANGED <<homeVars, procVars>>

Fetch(n) ==
  /\ Handles(n, "FETCH") /\ LineStatus(n) # "I"
  /\ SetStatus(n, A(n), "S")
  /\ SendMsgToCache(n, A(n), "CACHE_FETCH")
  /\ NoReply(n)
  /\ Block(n, TRUE)
  /\ UNCHANGED <<homeVars, procVars>>

-------------------------------------------------------------------------------
(* Answers of a holder to the home of the line. *)

InvalidateAck(n) ==
  /\ Handles(n, "INVALIDATE_ACK")
  /\ pendingInvAckCount' = [pendingInvAckCount EXCEPT ![A(n)] = @ - 1]
  /\ UNCHANGED <<cacheMsgQueue, cacheLineStatus, procVars>>

InvalidateAckCounts(n) ==
  /\ InvalidateAck(n) /\ ~LastAck(n)
  /\ NoReply(n)
  /\ Done(n)
  /\ UNCHANGED directory

\* The last ACK: the request that waits first gets the line.
InvalidateAckGrants(n) ==
  LET first == Head(Waiting(n))
  IN  /\ InvalidateAck(n) /\ LastAck(n)
      /\ SetEntry(A(n), UpdateEntry(directory[A(n)], "MODIFIED", first.src))
      /\ Reply(n, {first.src}, IF first.type = "WRITE_MISS" THEN "DATA_VALUE_REPLY"
                                                            ELSE "INVALIDATE_OTHER_ACK")
      /\ Unblock(n)

\* A DATA_WRITE_BACK answers the request that waits first, ...
WriteBack(n) ==
  /\ Handles(n, "DATA_WRITE_BACK")
  /\ UNCHANGED <<cacheMsgQueue, cacheLineStatus, pendingInvAckCount, procVars>>

WriteBackAnswersWrite(n) ==
  LET first == Head(Waiting(n))
  IN  /\ WriteBack(n) /\ Waiting(n) # <<>> /\ first.type = "WRITE_MISS"
      /\ Reply(n, {first.src}, "DATA_VALUE_REPLY")
      /\ SetEntry(A(n), UpdateEntry(directory[A(n)], "MODIFIED", first.src))
      /\ Unblock(n)

WriteBackAnswersRead(n) ==
  LET first == Head(Waiting(n))
      entry == IF protocol = "MESI" THEN Entry(n) ELSE directory[A(n)]
      exclusive == protocol = "MESI" /\ entry.status = "UNCACHED"
  IN  /\ WriteBack(n) /\ Waiting(n) # <<>> /\ first.type = "READ_MISS"
      /\ Reply(n, {first.src}, IF exclusive THEN "DATA_VALUE_REPLY_E" ELSE "DATA_VALUE_REPLY")
      /\ SetEntry(A(n), UpdateEntry(entry, IF exclusive THEN "EXCLUSIVE" ELSE "SHARED",
                                    first.src))
      /\ Unblock(n)

\* ... or, when none waits, tells that the owner has evicted the line.
WriteBackEvicts(n) ==
  /\ WriteBack(n) /\ Waiting(n) = <<>>
  /\ SetEntry(A(n), UpdateEntry(directory[A(n)], "UNCACHED", Source(n)))
  /\ NoReply(n)
  /\ Done(n)

-------------------------------------------------------------------------------
(* Answers of the home to the requester. *)

InvalidateOtherAck(n) ==
  /\ Handles(n, "INVALIDATE_OTHER_ACK")
  /\ SetStatus(n, A(n), "M")
  /\ SendMsgToCache(n, A(n), "CACHE_UPDATE")
  /\ NoReply(n)
  /\ Done(n)
  /\ UNCHANGED <<homeVars, procVars>>

\* insert() leaves a status that is there already as it is.
DataValueReply(n) ==
  \E type \in {"DATA_VALUE_REPLY", "DATA_VALUE_REPLY_E"} :
    LET status == CASE type = "DATA_VALUE_REPLY_E" -> "E"
                    [] type = "DATA_VALUE_REPLY" /\ currentMemOp[n].type = "write" -> "M"
                    [] OTHER -> "S"
    IN  /\ Handles(n, type)
        /\ SetStatus(n, A(n), IF LineStatus(n) = "I" THEN status ELSE LineStatus(n))
        /\ SendMsgToCache(n, A(n), "CACHE_UPDATE")
        /\ NoReply(n)
        /\ Done(n)
        /\ UNCHANGED <<homeVars, procVars>>

\* reAddCurrMemOp puts the operation back in front of the processor's queue.
Rollback(n) ==
  /\ Handles(n, "ROLLBACK")
  /\ memActionQueue' = [memActionQueue EXCEPT ![n] = <<currentMemOp[n]>> \o @]
  /\ MemOpSucceeds(n)
  /\ NoReply(n)
  /\ Done(n)
  /\ UNCHANGED <<cacheMsgQueue, cacheLineStatus, homeVars, currentMemOp>>

-------------------------------------------------------------------------------
(* Answers of the cache. *)

MemOpDone(n) ==
  /\ \E type \in {"CACHE_READ_REPLY", "CACHE_UPDATE_ACK"} : Handles(n, type)
  /\ MemOpSucceeds(n)
  /\ NoReply(n)
  /\ Done(n)
  /\ UNCHANGED <<cacheMsgQueue, cacheLineStatus, homeVars, currentMemOp, memActionQueue>>

\* The INVALIDATE, FETCH_INVALIDATE or FETCH in front of the blocked queue is
\* answered to the home it came from.
CacheAck(n) ==
  LET first == Head(Waiting(n))
  IN  /\ \E type \in {"CACHE_INVALIDATE_ACK", "CACHE_FETCH_ACK"} : Handles(n, type)
      /\ Reply(n, {first.src}, IF first.type = "INVALIDATE" THEN "INVALIDATE_ACK"
                                                            ELSE "DATA_WRITE_BACK")
      /\ Unblock(n)
      /\ UNCHANGED <<cacheMsgQueue, cacheLineStatus, homeVars, procVars>>

\* Mutant: the status of the line is kept.
EvictionAlertKeeps(n) ==
  /\ Handles(n, "CACHE_EVICTION_ALERT")
  /\ IF LineStatus(n) \in OwnedLine \cup {"I"}
       THEN Reply(n, {Home[A(n)]}, "DATA_WRITE_BACK")
       ELSE NoReply(n)
  /\ Done(n)
  /\ UNCHANGED <<cacheMsgQueue, cacheLineStatus, homeVars, procVars>>

\* cacheLineStatus[addr] makes an entry for a line the map does not hold, and the
\* value it makes is the first of the enumeration, M.
EvictionAlert(n) ==
  /\ Handles(n, "CACHE_EVICTION_ALERT")
  /\ IF LineStatus(n) \in OwnedLine \cup {"I"}
       THEN Reply(n, {Home[A(n)]}, "DATA_WRITE_BACK")
       ELSE NoReply(n)
  /\ SetStatus(n, A(n), "I")
  /\ Done(n)
  /\ UNCHANGED <<cacheMsgQueue, homeVars, procVars>>

-------------------------------------------------------------------------------
(* handleMemOpRequest. *)

WriteRequest(n, addr) ==
  /\ ProcessorStarts(n, [addr |-> addr, type |-> "write"])

ReadRequest(n, addr) ==
  /\ ProcessorStarts(n, [addr |-> addr, type |-> "read"])
  /\ UNCHANGED cacheLineStatus

WriteInvalid(n, addr) ==
  /\ WriteRequest(n, addr) /\ cacheLineStatus[n][addr] = "I"
  /\ AskHome(n, addr, "WRITE_MISS")
  /\ UNCHANGED cacheLineStatus

WriteShared(n, addr) ==
  /\ WriteRequest(n, addr) /\ cacheLineStatus[n][addr] = "S"
  /\ AskHome(n, addr, "INVALIDATE_OTHER")
  /\ UNCHANGED cacheLineStatus

\* A write to an EXCLUSIVE line makes it MODIFIED without a word to the home.
WriteOwned(n, addr) ==
  /\ WriteRequest(n, addr) /\ cacheLineStatus[n][addr] \in {"M", "E"}
  /\ AskCache(n, addr, "CACHE_UPDATE")
  /\ IF protocol = "MESI" THEN SetStatus(n, addr, "M") ELSE UNCHANGED cacheLineStatus

ReadInvalid(n, addr) ==
  /\ ReadRequest(n, addr) /\ cacheLineStatus[n][addr] = "I"
  /\ AskHome(n, addr, "READ_MISS")

ReadValid(n, addr) ==
  /\ ReadRequest(n, addr) /\ cacheLineStatus[n][addr] # "I"
  /\ AskCache(n, addr, "CACHE_READ")

HandleMemOpRequest(n) ==
  \E addr \in Addr : \/ WriteInvalid(n, addr) \/ WriteShared(n, addr) \/ WriteOwned(n, addr)
                     \/ ReadInvalid(n, addr) \/ ReadValid(n, addr)

-------------------------------------------------------------------------------
HandleMessage(n) ==
  \/ HomeBusy(n)
  \/ ReadMissShares(n) \/ ReadMissGivesExclusive(n) \/ ReadMissFetches(n)
  \/ WriteMissUncached(n) \/ WriteMissInvalidates(n) \/ WriteMissFetches(n)
  \/ InvalidateOtherRollsBack(n) \/ InvalidateOtherInvalidates(n) \/ InvalidateOtherGrants(n)
  \/ InvalidateAbsent(n) \/ FetchAbsent(n) \/ Invalidate(n) \/ Fetch(n)
  \/ InvalidateAckCounts(n) \/ InvalidateAckGrants(n)
  \/ WriteBackAnswersWrite(n) \/ WriteBackAnswersRead(n) \/ WriteBackEvicts(n)
  \/ InvalidateOtherAck(n) \/ DataValueReply(n) \/ Rollback(n)
  \/ MemOpDone(n) \/ CacheAck(n) \/ EvictionAlert(n)
  \/ HandlerStops(n)

Next ==
  \E n \in Node : \/ CacheRun(n)
                  \/ HandlerTick(n) \/ HandleMessage(n) \/ DrainEnds(n)
                  \/ ProcessorWaits(n) \/ HandleMemOpRequest(n)

Spec == Init /\ [][Next]_vars

\* The simulator is one thread that takes steps until it stops.  As Next is enabled
\* unless the program has stopped, this is WF_vars(Next) without its ENABLED.
FairSpec == Spec /\ (<>[](halt = "no") => []<><<Next>>_vars)

==============================================================================
