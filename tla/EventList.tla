------------------------------ MODULE EventList ------------------------------
(***************************************************************************)
(* EventList of the middle layer (middle/eventQ.cpp): the events of a      *)
(* trace, one at a time, in an order in which they can be handled.  An     *)
(* event that has a number waits in the queue of its context for its turn, *)
(* and with it what the context recorded later; the events of a context    *)
(* wait from the start for the create by its parent.                       *)
(*                                                                         *)
(* A step is one turn of a loop of getNextContechEvent, which calls itself *)
(* when it has queued what it read.  An event is its position in the trace.*)
(***************************************************************************)
EXTENDS Events

VARIABLES
  read,         \* how many events have been read from the file
  queued,       \* queuedEvents: the queues of the contexts that have one
  waiting,      \* waitingEvents; the list that holds a NULL is empty here
  current,      \* eventQueueCurrent
  ticketNum,
  barrierNum,
  minTicket,    \* minQueuedTicket
  resetMin,     \* resetMinTicket
  currMin,      \* currMinTicket
  reader,       \* which loop getNextContechEvent is in, or what it has returned
  event         \* the event returned, if reader = "deliver"

readerVars == <<read, queued, waiting, current, ticketNum, barrierNum, minTicket, resetMin,
                currMin, reader, event>>
scanVars == <<minTicket, resetMin, currMin>>

End == -1                 \* queuedEvents.end()
NoTicket == 1000000000    \* ~0: more than any ticket

\* f with f[c] = s, and f without c.
With(f, c, s) == [d \in DOMAIN f \cup {c} |-> IF d = c THEN s ELSE f[d]]
Without(f, c) == [d \in DOMAIN f \ {c} |-> f[d]]

\* The first of the contexts of S in the order of the map, the iterator's end if there is none.
First(S) == IF S = {} THEN End ELSE CHOOSE c \in S : \A d \in S : c <= d
After(c, S) == First({d \in S : d > c})

ReaderInit ==
  /\ read = 0
  /\ queued = [c \in {} |-> <<>>]
  /\ waiting = [c \in {} |-> <<>>]
  /\ current = End
  /\ ticketNum = 0
  /\ barrierNum = 0
  /\ minTicket = 0
  /\ resetMin = FALSE
  /\ currMin = NoTicket
  /\ reader = "scan"
  /\ event = 0

\* getNextContechEvent is called.
Call ==
  /\ reader' = "scan"
  /\ currMin' = NoTicket

\* It returns event i.
Return(i) ==
  /\ reader' = "deliver"
  /\ event' = i
-----------------------------------------------------------------------------
(* The loop over the queues *)

NothingQueued == DOMAIN queued = {}
Blocked == ticketNum < minTicket /\ ~resetMin

\* Nothing is queued, or the cached minimum says that nothing queued may be removed.
LeaveScan ==
  /\ reader = "scan"
  /\ NothingQueued \/ Blocked
  /\ reader' = "file"
  /\ UNCHANGED <<read, queued, waiting, current, ticketNum, barrierNum, scanVars, event>>

Scanning == reader = "scan" /\ ~NothingQueued /\ ~Blocked

EraseEmpty ==
  /\ Scanning
  /\ queued[current] = <<>>
  /\ queued' = Without(queued, current)
  /\ current' = LET next == After(current, DOMAIN queued)
                IN  IF next = End THEN First(DOMAIN queued') ELSE next
  /\ UNCHANGED <<read, waiting, ticketNum, barrierNum, scanVars, reader, event>>

HeadOfQueue == Head(queued[current])
PopHead == queued' = [queued EXCEPT ![current] = Tail(@)]

TakePlain ==
  /\ Scanning /\ queued[current] # <<>>
  /\ ~IsOrdered(trace[HeadOfQueue])
  /\ PopHead
  /\ Return(HeadOfQueue)
  /\ UNCHANGED <<read, waiting, current, ticketNum, barrierNum, scanVars>>

TakeSync ==
  /\ Scanning /\ queued[current] # <<>>
  /\ IsSync(trace[HeadOfQueue]) /\ trace[HeadOfQueue].n = ticketNum
  /\ PopHead
  /\ ticketNum' = ticketNum + 1
  /\ current' = First(DOMAIN queued)
  /\ Return(HeadOfQueue)
  /\ UNCHANGED <<read, waiting, barrierNum, scanVars>>

TakeBarrier ==
  /\ Scanning /\ queued[current] # <<>>
  /\ IsBarrier(trace[HeadOfQueue]) /\ trace[HeadOfQueue].n = barrierNum
  /\ PopHead
  /\ barrierNum' = barrierNum + 1
  /\ current' = First(DOMAIN queued)
  /\ Return(HeadOfQueue)
  /\ UNCHANGED <<read, waiting, ticketNum, scanVars>>

\* The head of the queue has a number, and it is not its turn.
NotItsTurn ==
  /\ Scanning /\ queued[current] # <<>>
  /\ \/ IsSync(trace[HeadOfQueue]) /\ trace[HeadOfQueue].n # ticketNum
     \/ IsBarrier(trace[HeadOfQueue]) /\ trace[HeadOfQueue].n # barrierNum

\* The lowest ticket of the queues looked at in this call.
SeenMin ==
  IF IsSync(trace[HeadOfQueue]) /\ trace[HeadOfQueue].n < currMin
    THEN trace[HeadOfQueue].n ELSE currMin

SkipQueue ==
  /\ NotItsTurn
  /\ After(current, DOMAIN queued) # End
  /\ current' = After(current, DOMAIN queued)
  /\ currMin' = SeenMin
  /\ UNCHANGED <<read, queued, waiting, ticketNum, barrierNum, minTicket, resetMin, reader,
                 event>>

\* After the last queue the minimum is kept if it was to be found, and to be found otherwise;
\* behind a barrier event it is left alone.
SkipLastQueue ==
  /\ NotItsTurn
  /\ After(current, DOMAIN queued) = End
  /\ current' = First(DOMAIN queued)
  /\ resetMin' = ~resetMin
  /\ minTicket' = IF IsBarrier(trace[HeadOfQueue]) THEN minTicket
                  ELSE IF resetMin THEN SeenMin ELSE 0
  /\ currMin' = SeenMin
  /\ reader' = "file"
  /\ UNCHANGED <<read, queued, waiting, ticketNum, barrierNum, event>>
-----------------------------------------------------------------------------
(* The loop over the file *)

Reading == reader = "file" /\ read < Len(trace)
NextRead == read + 1
Reader == trace[NextRead].ctx

\* The context has a queue, or waits for its create: the event goes behind the others.
ReadQueued ==
  /\ Reading
  /\ Reader \in DOMAIN queued
  /\ read' = NextRead
  /\ queued' = [queued EXCEPT ![Reader] = Append(@, NextRead)]
  /\ UNCHANGED <<waiting, current, ticketNum, barrierNum, scanVars, reader, event>>

\* The parent's create came first.
Announced(c) == c \in DOMAIN waiting /\ waiting[c] = <<>>

ReadWaiting ==
  /\ Reading
  /\ Reader \notin DOMAIN queued
  /\ Reader \in DOMAIN waiting /\ ~Announced(Reader)
  /\ read' = NextRead
  /\ waiting' = [waiting EXCEPT ![Reader] = Append(@, NextRead)]
  /\ UNCHANGED <<queued, current, ticketNum, barrierNum, scanVars, reader, event>>

\* The event is not held back for those before it.
ReadNext ==
  /\ Reading
  /\ Reader \notin DOMAIN queued
  /\ Reader \in DOMAIN waiting => Announced(Reader)
  /\ read' = NextRead

ReadPlain ==
  /\ ReadNext
  /\ ~IsOrdered(trace[NextRead]) /\ trace[NextRead].type # "created"
  /\ Return(NextRead)
  /\ UNCHANGED <<queued, waiting, current, ticketNum, barrierNum, scanVars>>

\* It begins the queue of its context.
BeginQueue ==
  /\ queued' = With(queued, Reader, <<NextRead>>)
  /\ current' = First(DOMAIN queued')
  /\ Call
  /\ UNCHANGED <<waiting, ticketNum, barrierNum, event>>

ReadSyncEarly ==
  /\ ReadNext
  /\ IsSync(trace[NextRead]) /\ trace[NextRead].n > ticketNum
  /\ BeginQueue
  /\ resetMin' = TRUE
  /\ minTicket' = 0

ReadSync ==
  /\ ReadNext
  /\ IsSync(trace[NextRead]) /\ trace[NextRead].n <= ticketNum
  /\ ticketNum' = ticketNum + 1
  /\ Return(NextRead)
  /\ UNCHANGED <<queued, waiting, current, barrierNum, scanVars>>

ReadBarrierEarly ==
  /\ ReadNext
  /\ IsBarrier(trace[NextRead]) /\ trace[NextRead].n > barrierNum
  /\ BeginQueue
  /\ resetMin' = TRUE
  /\ UNCHANGED minTicket

ReadBarrier ==
  /\ ReadNext
  /\ IsBarrier(trace[NextRead]) /\ trace[NextRead].n <= barrierNum
  /\ barrierNum' = barrierNum + 1
  /\ Return(NextRead)
  /\ UNCHANGED <<queued, waiting, current, ticketNum, scanVars>>

\* The first event of a context, its create delivered.
ReadCreated ==
  /\ ReadNext
  /\ trace[NextRead].type = "created"
  /\ Announced(Reader)
  /\ waiting' = Without(waiting, Reader)
  /\ Return(NextRead)
  /\ UNCHANGED <<queued, current, ticketNum, barrierNum, scanVars>>

\* Mutant: a context may begin before its create.
ReadCreatedAtOnce ==
  /\ ReadNext
  /\ trace[NextRead].type = "created"
  /\ ~Announced(Reader)
  /\ Return(NextRead)
  /\ UNCHANGED <<queued, waiting, current, ticketNum, barrierNum, scanVars>>

ReadCreatedEarly ==
  /\ ReadNext
  /\ trace[NextRead].type = "created"
  /\ ~Announced(Reader)
  /\ waiting' = With(waiting, Reader, <<NextRead>>)
  /\ Call
  /\ UNCHANGED <<queued, current, ticketNum, barrierNum, minTicket, resetMin, event>>

\* Mutant: the end of the file is counted as an event.
EndOfFileCounted ==
  /\ reader = "file"
  /\ read = Len(trace)
  /\ read' = read + 1
  /\ reader' = "eof"
  /\ UNCHANGED <<queued, waiting, current, ticketNum, barrierNum, scanVars, event>>

\* NULL is returned, and the list of this trace deleted with what its queues hold.
EndOfFile ==
  /\ reader = "file"
  /\ read = Len(trace)
  /\ reader' = "eof"
  /\ UNCHANGED <<read, queued, waiting, current, ticketNum, barrierNum, scanVars, event>>
-----------------------------------------------------------------------------
(* Deliver: the middle layer handles the event and asks for the next one. *)

\* Mutant: the iterator is left where it was.
ReadyEventsKeepsIterator(c) ==
  /\ UNCHANGED current
  /\ IF c \notin DOMAIN waiting
       THEN waiting' = With(waiting, c, <<>>) /\ UNCHANGED queued
       ELSE queued' = With(queued, c, waiting[c]) /\ waiting' = Without(waiting, c)

\* readyEvents: the create of context c is handled.
ReadyEvents(c) ==
  IF c \notin DOMAIN waiting
    THEN /\ waiting' = With(waiting, c, <<>>)
         /\ UNCHANGED <<queued, current>>
    ELSE /\ queued' = With(queued, c, waiting[c])
         /\ waiting' = Without(waiting, c)
         /\ current' = First(DOMAIN queued')

Deliver ==
  /\ reader = "deliver"
  /\ IF trace[event].type = "create"
       THEN ReadyEvents(trace[event].on)
       ELSE UNCHANGED <<queued, waiting, current>>
  /\ Call
  /\ event' = 0
  /\ UNCHANGED <<read, ticketNum, barrierNum, minTicket, resetMin>>

ReaderStep ==
  \/ LeaveScan \/ EraseEmpty \/ TakePlain \/ TakeSync \/ TakeBarrier
  \/ SkipQueue \/ SkipLastQueue
  \/ ReadQueued \/ ReadWaiting \/ ReadPlain \/ ReadSyncEarly \/ ReadSync
  \/ ReadBarrierEarly \/ ReadBarrier \/ ReadCreated \/ ReadCreatedEarly \/ EndOfFile
-----------------------------------------------------------------------------
(* Properties *)

\* The events that a map of queues holds.
Held(q) == UNION {{q[c][i] : i \in DOMAIN q[c]} : c \in DOMAIN q}

\* What has been returned is delivered.
Delivered == (1 .. read) \ (Held(queued) \cup Held(waiting))

Order == INSTANCE TraceOrder WITH
  delivered <- Delivered, ticket <- ticketNum, barrier <- barrierNum
ImplementsTraceOrder == Order!OrderSpec

\* The iterator that is kept between the calls points into the map, whatever was inserted or
\* erased in the meantime (eventQ.cpp:161, 389).
IteratorValid ==
  /\ current \in DOMAIN queued \cup {End}
  /\ DOMAIN queued # {} => current # End
=============================================================================
