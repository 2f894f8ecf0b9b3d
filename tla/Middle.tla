-------------------------------- MODULE Middle --------------------------------
(***************************************************************************)
(* From a program to its task graph: the program is recorded (Recorder),   *)
(* and when it has ended the middle layer reads its trace (EventList),     *)
(* builds the task graph (TaskGraph) and gives the finished tasks to the   *)
(* writer thread (TaskWriter).                                             *)
(***************************************************************************)
EXTENDS Recorder, EventList, TaskGraph, TaskWriter

VARIABLE graph

vars == <<recorderVars, readerVars, writerVars, graph>>

\* The main loop is the reader's caller: it handles an event when the one before is handled.
\* A failed assert ends the process.
Recorded == program = Finished
Handled == graph.sent = <<>>
Aborted == graph.failed \/ writer = "aborted"
Running == writer # "ended" /\ ~Aborted

Init ==
  /\ trace = <<>>
  /\ \E p \in Programs : RecorderInit(p)
  /\ ReaderInit
  /\ WriterInit
  /\ graph = EmptyGraph
-----------------------------------------------------------------------------
Records ==
  /\ ~Recorded
  /\ RecorderStep
  /\ UNCHANGED <<readerVars, writerVars, graph>>

Reads ==
  /\ Running /\ Recorded /\ Handled
  /\ ReaderStep
  /\ UNCHANGED <<recorderVars, writerVars, graph>>

\* The handler of an event; what it queues is queued by the next steps.
HandleEvent ==
  /\ Running /\ Recorded /\ Handled
  /\ Deliver
  /\ graph' = Handle(graph, trace[event])
  /\ UNCHANGED <<recorderVars, writerVars>>

QueueHandled ==
  /\ Running /\ ~Handled
  /\ QueueTask(Head(graph.sent), graph.task[Head(graph.sent)].blocks >= MaxBlocks)
  /\ graph' = [graph EXCEPT !.sent = Tail(@)]
  /\ UNCHANGED <<recorderVars, readerVars>>

\* The trace is read: the tasks that the contexts still have are queued, then the flag is set.
HandleEnd ==
  /\ Running /\ reader = "eof" /\ Handled
  /\ \E c \in Context : graph.live[c] # {}
  /\ graph' = HandleRest(graph)
  /\ UNCHANGED <<recorderVars, readerVars, writerVars>>

Ends ==
  /\ Running /\ reader = "eof" /\ Handled
  /\ \A c \in Context : graph.live[c] = {}
  /\ NoMoreTasks
  /\ UNCHANGED <<recorderVars, readerVars, graph>>

WriterStep == TestLoop \/ Sleeps \/ Wakes \/ TakeChunk \/ WriteChunk(graph.task) \/ WriteIndex
WriterTurn ==
  /\ Running /\ Recorded
  /\ WriterStep
  /\ UNCHANGED <<recorderVars, readerVars, graph>>

Stopped == ~Running /\ UNCHANGED vars

Next ==
  \/ Records
  \/ Reads \/ HandleEvent \/ QueueHandled \/ HandleEnd \/ Ends
  \/ WriterTurn
  \/ Stopped

Spec == Init /\ [][Next]_vars

\* Some thread runs as long as the process does.  This is WF_vars(Next), since one can run until
\* then (deadlock is checked), and a thread that could run and does not is no matter as
\* no thread has a loop that does nothing.
FairSpec == Spec /\ (<>[]Running => []<><<Next>>_vars)
-----------------------------------------------------------------------------
(* Properties *)

TypeOK ==
  /\ trace \in Seq(Event)
  /\ program \in Programs \cup {Finished}
  /\ read \in 0 .. Len(trace)
  /\ Held(queued) \cup Held(waiting) \subseteq 1 .. read
  /\ reader \in {"scan", "file", "deliver", "eof"}
  /\ writer \in {"test", "lock", "asleep", "write", "index", "ended", "aborted"}
  /\ ToSet(chunk) \cup DOMAIN written \subseteq DOMAIN graph.task

\* Tickets tell the order in which a lock was held: there is a release between two acquires of
\* a lock and an acquire between two releases (ct_runtime.c:734).
Tickets(a) == {i \in DOMAIN trace : IsSync(trace[i]) /\ trace[i].on = a}
TicketsAlternate ==
  Recorded =>
    \A a \in Address : \A i, j \in Tickets(a) :
      /\ trace[i].n < trace[j].n
      /\ ~\E k \in Tickets(a) : trace[i].n < trace[k].n /\ trace[k].n < trace[j].n
      => trace[i].type # trace[j].type

\* The tasks queued for the writer are not changed any more (taskWrite.cpp:32).
QueuedTasksFinal == graph.late = {}

\* No event is left behind when the reader says that there are no more (eventQ.cpp:159).
Lost == reader = "eof" /\ Held(queued) \cup Held(waiting) # {}
AllDelivered == ~Lost

\* The asserts about the contexts, joins, barriers and the index hold unless events were lost.
AssertsHold == Aborted => Lost

\* Unless events were lost the graph that is written is whole: all its tasks, with the
\* predecessors and successors they have in the end, and every edge known to both ends.
Times(t, s) == Cardinality({i \in DOMAIN s : s[i] = t})
GraphComplete ==
  writer = "ended" /\ ~Lost =>
    /\ DOMAIN written = DOMAIN graph.task
    /\ \A t \in DOMAIN written :
         /\ written[t].s = graph.task[t].succ
         /\ written[t].p = Len(graph.task[t].pred)
         /\ \A u \in DOMAIN written : Times(u, graph.task[t].succ) = Times(t, graph.task[u].pred)

\* A barrier task has each thread that uses the barrier once before it and once behind it, and
\* there is a task for each time they met (BarrierWrapper.cpp:36).
ContextsOf(s) == [i \in DOMAIN s |-> s[i][1]]
Entrants(a) == {trace[i].ctx : i \in {j \in DOMAIN trace : trace[j].type = "enter" /\ trace[j].on = a}}
Entries(a) == {i \in DOMAIN trace : trace[i].type = "enter" /\ trace[i].on = a}
BarrierTasks == {t \in DOMAIN graph.task : TypeOf(graph, t) = "barrier"}
BarrierMeets ==
  writer = "ended" /\ ~Lost =>
    /\ \A t \in BarrierTasks : \E a \in Address :
         \A s \in {ContextsOf(graph.task[t].pred), ContextsOf(graph.task[t].succ)} :
           IsInjective(s) /\ ToSet(s) = Entrants(a)
    /\ Cardinality(UNION {Entries(a) : a \in Address})
         = Cardinality(UNION {{t} \X DOMAIN graph.task[t].pred : t \in BarrierTasks})

\* The process ends, with its graph written or by an assert.
Terminates == <>(writer = "ended" \/ Aborted)
=============================================================================
