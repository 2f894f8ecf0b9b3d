# A verification project for SyncdSim

SyncdSim is the Contech tracing framework with a simulator of directory-based
cache coherence built on it.  This directory holds TLA+ modules of the
simulator, of the compiler pass that instruments a program, of the tracing
runtime, of the library that reads a trace back, of the middle layer that turns it
into a task graph, of three back ends that read one and of the analysis that schedules
its instructions, the configurations that
check them with TLC, and proofs checked with TLAPS.  PROJECT.json ties every
definition to the lines it models and lists the runs, the mutants that show that each
property can fail, the hazards and the theorems.

## 1. The system

| Part | State | Operations | Modelled |
|---|---|---|---|
| Simulator (`backend/Simulator/simulator.cpp`) | `pendingSuccessors`, `completedPredecessors`, `numUnfinishedTasks` | constructor, `run` | TaskScheduler |
| Context (`context.cpp`) | task queue, completed tasks, message queues, memory operation in progress | `run`, queue accessors | Context, TaskScheduler |
| Processor (`processor.cpp`) | `currTask`, `memActionQueue` | `run`, `populateMemActionQueue`, `reAddCurrMemOp` | Context, TaskScheduler (not `populateMemActionQueue`) |
| Cache (`cache.cpp`) | ways with tag, valid bit, `lru_counter` | `run` and its four requests | CacheSet, Context, CacheWays |
| Directory (`directory.cpp`) | an entry per line: status and holders | `lookUpEntry`, `updateEntry` | Directory |
| MSI and MESI handler (`MSIHandler.cpp`, `MESIHandler.cpp`) | `cacheLineStatus`, `pendingInvAckCount`, `blockedMsgMap` | `handleMessage` (16 and 17 cases), `handleMemOpRequest`, the blocked queues | ProtocolHandler |
| Contech runtime (`common/runtime`) | a buffer per thread, queue and free list with a lock each, `__ctCurrentBuffers`, memory limit; numbers of tickets and barriers | allocating, queueing, thread start and exit, the background writer | TraceBuffers, Recorder |
| Middle layer (`middle`) | `queuedEvents`, `waitingEvents`, next ticket and barrier number; contexts with their unfinished tasks; lock owners; barriers; `taskQueue` | `getNextContechEvent`, `readyEvents`, a handler per event, `onEnter`/`onExit`, the task writer | EventList, TaskGraph, TaskWriter, Middle |
| Event library (`common/eventLib`) | bytes consumed and bytes the markers announced, next block id, current context, table of blocks | `createContechEvent` | TraceEncoding, EventCodec |
| Task library (`common/taskLib`) | position in the index; task data | `getNextTask`, edges, region of interest, serialising | TaskFile (not the encoding) |
| Race detector (`backend/Heltech`) | a clock per task still needed, the last access of each byte, the races reported | a task, a memory operation | RaceDetector |
| Communication tracker (`backend/CommTracker`) | per byte its last writer and the contexts that have it | read, write, allocate, free | CommTracker |
| Cache back end (`backend/SimpleCache`) | a deque of lines per set, a count of accesses | a request | SimpleCache |
| LLVM pass (`llvm-contech`) | `cfgInfoMap`, `bb_count`, the function as rewritten so far | `internalSplitOnCall`, `attemptTailDuplicate`, `checkAndApplyElideId`, `findSimilarMemoryInst`, `internalRunOnBasicBlock`, `InstrumentFunctionCall` | Instrument |
| LLVM dynamic analysis (`llvm/.../DynamicAnalysis`) | available and full levels of the units, six buffers and queues, issue cycles of values, lines and addresses, the reuse tree | `analyzeInstruction`, `finishAnalysis`, `resetAnalysis` | SplayTree, ExecutionUnits, OooBuffers, DynamicAnalysis |
| Other passes, Pin tool, other back ends, scripts | | | no: sequential passes or I/O, see PROJECT.json |

**How the parts interact.**  The simulator is one thread.  `Simulator::run` is a
loop of cycles; in a cycle every context runs in the order of its id, and
`Context::run` runs the context's cache, its protocol handler and its
processor.  The processor takes a task from its queue and gives the task's
memory operations to the handler one at a time.  The handler answers an
operation from its own cache or asks the *home* of the line (the context that
the high bits of the address name), whose directory knows the holders.  Home,
holders and requester exchange messages by appending to each other's
`incomingMsgQueue`; a message is looked at when its latency has counted down,
and only while everything before it in the queue has arrived too.  A request for
a line that is being serviced waits in the home's blocked queue for the line; so
does, at a holder, a request of the home that waits for the cache.  When a task's
operations are done the simulator counts it off its successors and hands out
those that were waiting for it only.

The traced program calls the runtime.  A thread stores events into a buffer of
its own; when it is full, before a join and at the end it appends the buffer to a
queue under one lock, and takes another from a free list under a second, or makes
one if the limit allows it, or sleeps until there is one.  A background thread
writes the queued buffers to the trace file and gives them back; when all buffers
there may be are out it keeps what it has written aside until the queue is empty,
and then wakes every sleeper at once.  Events that must be ordered across
threads carry a number that their thread drew: locks from one counter, barriers
from another.

What a thread stores was decided when the program was compiled.  The pass cuts blocks
after their calls, duplicates some into their predecessors, and puts calls of the
runtime into each block: one stores the block's id, one each address that cannot be
derived from an earlier one, one completes the event and one checks that the buffer has
room; the id of a block that always follows the one before is left out.  What was left
out it writes into a table of blocks, from which the event library puts it back when it
reads the trace, in which there is nothing but these bytes and a marker before
each buffer.

The middle layer runs later, on the trace.  Its event queue hands out the events
in an order in which numbers rise and no context runs before its create; a handler
per event extends the task graph; finished tasks go through a queue to a writer
thread, which writes them as they come, and at the end an index in breadth-first
order.  The simulator reads that graph, and so do the other back ends, each a
program of its own: it takes the tasks in the order of the index, in which a task
follows its predecessors, and goes through the memory operations of each.  The
dynamic analysis does so for the tasks of one context, inside an interpreter that has the
program: it takes the instructions of each block of a task and computes when each would
issue on a processor with given units and buffers.

**What is hard.**  Transactions on a line overlap: an upgrade loses its race and
is rolled back, the home may be one of the holders, invalidations have several
ACKs, answers free a queue of waiting requests.  Evictions happen on their own
and are reported late.  Lines of the cache start uninitialised and `front()` is
taken of empty vectors.  Successors are counted by predecessors that complete on
different contexts in any order.  The writer of the runtime reads the queue
without its lock and counts the buffers at the limit over many turns; a sleeper
takes a buffer without looking whether there is one.  The event queue remembers
the lowest ticket in order not to look at its queues, and an iterator over a map
that it inserts into and erases from.  A task is given to the writer, who deletes
it, while joins, locks and barriers hold pointers to tasks; a barrier is entered
again while others still leave it.  The race detector remembers one access of a byte
and drops the clock of a task when its last successor has been read; the tracker
keeps the readers of a byte as bits of a mask.  Caches find a victim by comparing
counters that other requests raise too.  The pass leaves out what it takes to be known,
and the reader knows only the table: an event or a change of buffer that comes between
two blocks where the pass saw none shifts every byte behind it.  The analysis searches for
a level in two structures, of which one is in chunks made on demand; it simulates
buffers by the cycles at which their entries leave, several accesses ahead of the fetch; and
what it keeps over tasks it keeps with times and cycles to which offsets are added.

**What makes each part correct.**

- Handlers: one writer or many readers of a line; the directory knows every
  holder; the ACK count is exact; a home services one request of a line at a
  time; an operation is performed once, and eventually; no assert fails.
- Cache: a request always finds its line; the cache holds exactly the lines whose
  status says so; the line that goes is the one used longest ago.
- Task dispatch: each task once, after all its predecessors; the loop ends with
  every task completed and the bookkeeping empty.
- Runtime: a buffer is in one place; each queued buffer is written once, in the
  order of its thread; every sleeper is woken and finds a buffer; the process ends
  with the trace complete.
- Pass, runtime and event library: the pass changes no path of the program; nothing is
  stored past the end of a buffer; what is read is what was run.
- Middle layer: tickets say who had a lock when; every event is delivered, in
  order; every task is written once, when nothing will change it, with its edges
  known at both ends; a barrier task joins exactly those who met.
- Race detector: the clocks say what the paths of the graph say; no race with a write
  goes unreported on a byte, and what is reported is one.
- Communication tracker: a record for each first read of what another wrote, and none
  besides.
- Dynamic analysis: an instruction issues at the first cycle at which its unit has room; a
  reuse distance is the number of lines since; buffers are empty at the end of a task;
  the spans that are computed in several ways agree.

## 2. The modules

```
Directory   CacheSet
      \       /
       Context            queues, cache, processor, order of a cycle
          |
    ProtocolHandler       one action per case of the handlers; Spec, FairSpec
          |
      Coherence  ----->   CoherentMemory   (INSTANCE ... WITH: the abstract memory)
          |
     MCCoherence          values of the constants

  ProtocolHandlerProofs   extends Coherence
  OutstandingProofs       extends ProtocolHandlerProofs
  CoherenceLines          extends OutstandingProofs
  CoherenceProofs         extends CoherenceLines

  TaskScheduler           dispatch of tasks;  MCTaskScheduler, TaskSchedulerProofs

  TraceBuffers  ----->  TraceFile        TraceBuffersProofs

               Events
     /       /        \
Recorder  EventList  TaskGraph  TaskWriter        EventList ----->  TraceOrder
     \       \        /         /
                Middle                            MCMiddle, MiddleProofs

        TaskFile                     CacheGeometry       CacheSet
        /      \                      /         \            |
RaceDetector  CommTracker      CacheWays   SimpleCache   LruSets
        \      /                      \         /            ^
        BackEnds                       Caches  -------------+
               \                      /
               MCConsumers ----------+               ConsumersProofs extends BackEnds, Caches
                    |
              DynamicAnalysis  ----->  IssueSlots
                    |
               OooBuffers
               /        \
   ExecutionUnits      SplayTree

Instrument   EventCodec
        \     /
     TraceEncoding            MCTraceEncoding
```

**Directory** is one entry: `LookUpEntry` creates a missing one as UNCACHED,
`UpdateEntry` has the four cases of `updateEntry`.  The bit vector is a set.

**CacheSet** is one set of the cache.  `lru_counter` is written only where
`global_counter` grows, and is only compared, so a set is the sequence of its
valid lines, smallest counter first.  `readLine`, `invalidateLine` and
`fetchLine` change a copy of the line in the code, so here they return the set
they were given.

**Context** holds all variables.  `turn` and `phase` say where the loop is, and a
step is one message or one memory operation: `CacheTick` ages the cache's
messages, `CacheReads` ... `CacheUpdateEvicts` serve one each, `HandlerTick` ages
the incoming ones, the handler's actions take one each, `ProcessorWaits` or an
operation's start ends the turn.  `phase = "drain"` is the inside of
`checkBlockedQueueAtAddress`, in which the front of a blocked queue is handled.
`Done`, `Block` and `Unblock` are what happens after `handleMessage` returned true,
returned false, or removed the front of the blocked queue itself.  `halt` says why
the program stopped: a failed assert, the `exit` in `getLine`, or `front()` of an
empty vector, which is undefined and ends the behaviour here.  `protocol`,
`nodeLatency` and `cacheLatency` are the globals `main` sets, chosen in `Init`.

**ProtocolHandler** has an action per case of `handleMessage` and
`handleMemOpRequest`, and one per outcome where a case has several.  The two
handlers differ little; what only MESI has is guarded by `protocol = "MESI"`.
`Asserts` and `AssertsMESI` collect the asserts by message type.

**CoherentMemory** is the abstract specification: rights to a line are those of
a readers-writer lock, an operation is performed only with the right it needs,
and the one begun is performed before another begins.  There are no messages in
it.  **Coherence** states the properties over ProtocolHandler and instantiates
CoherentMemory: a node's right is its `cacheLineStatus`, or what an access that is
still in its cache's queue needs; its pending operation is the one in progress
until the cache has answered, or the one put back by a rollback.

**TaskScheduler** is the task level: `StartTask`, `CompleteTask` and
`ProcessorReturns` are the paths through `Processor::run`, `Collect`,
`SuccessorWaits`, `SuccessorReady` and `NextContext` the loops of `Simulator::run`.
How long a task's operations take is left open: `CompleteTask` may happen in any
cycle.

**TraceBuffers** is the runtime's pool.  `pc` says where a thread is; a thread
allocates (`AllocateFromList`, `AllocateNew`, `AllocateSleeps`), is woken
(`WokenTakes`, or `WokenSleeps` if the limit is back), queues a full buffer, a
copy of one that is nearly empty (`FlushSmall`) or its last, and exits in two
steps: the exit is counted before the last buffer is queued.  Main ends, counts
itself and joins the writer.  The writer waits (`WriterWakes`, `WriterTimesOut`),
leaves the lock, writes, takes the buffer off the queue, and gives it back or puts
it aside or ends the limit.  A step is what is done under one lock or between
two; the unlocked reads of the queue are steps of their own.  **TraceFile** is what
it promises: a sequence of buffers that are handed over by threads and written.

**Recorder** is what the instrumented threads do with their buffers: a program of
locks, creates, joins, barriers and blocks, the draws of the numbers and the
moments at which a buffer is queued.  It leaves out the pool, which TraceBuffers
shows to be a queue.  **EventList** is the reader: a step is a turn of one of the two
loops of `getNextContechEvent`; the recursion is a jump back to the first.
**TraceOrder** is what it promises: each event at most once, by context in the order
recorded, numbered events in the order of their numbers, none before the create.
**TaskGraph** has no variables: an operator per handler takes the graph to the next.
`late` collects tasks changed after they were given to the writer and `failed` the
asserts.  **TaskWriter** is the queue, the signal, the two tests of the writer, and the
index.  **Middle** composes them: the program runs, then the main thread's loop and
the writer in any interleaving.

**TaskFile** is a task graph as a back end reads it: tasks in the order of the index,
each with the list of its predecessors, and the region of interest.  **RaceDetector**
is Heltech: `RaceTask` takes a task up and merges the clocks of its predecessors
(`PredSet`, which is `predSet`), `RaceOp` is one memory operation.  **CommTracker** has an
operator per operation.  **BackEnds** steps both over one file, whose memory operations
it chooses as it goes (`MemoryOp`), and keeps a history `log` of them; the properties
compare what the two say with that history and with the paths of the graph.  Neither
reads the other's state; stepping them together saves a second exploration of all files.

**CacheWays** is the simulator's cache as the code has it: ways with valid bits, tags
and counters.  **SimpleCache** is a deque of lines per set, and a request that may reach
into the next set.  **LruSets** is what both promise, in the operators of CacheSet:
least recently used.  **Caches** gives both the same requests and shows that each
implements LruSets, which is why Context may keep a set as a sequence.

**SplayTree** is the header that all trees of the dynamic analysis come from; the order in
which nodes lie matters, since some searches stop at the root's neighbours.
**ExecutionUnits** is the levels of the units: a function from the available cycles of a
unit to their issues, the set of full ones, the search, `FindNextAvailableIssueCycle`
and what it calls, and what `finishAnalysis` computes of them and checks.  **OooBuffers** is the reservation station, the reorder, load, store and
line fill buffers, the queues in front of three of them, and
`IncreaseInstructionFetchCycle`.
These are operators on a record `m`; **DynamicAnalysis** has the reuse tree and the level of
memory that a distance stands for, the variables, an action per
instruction of a block, the drain at the end of a task, and the reset.  An instruction has
an operation, a unit, the users of its value, and, if a call is among those, the uses of the
parameters it is passed as.  **IssueSlots** is what the levels promise: an instruction that asks
at a cycle issues at the first one from there that its unit has room in, and whose issue
overlaps no full one.

**MCConsumers** is the back ends, the caches and the analysis for one run: a behaviour is
given tasks, requests or instructions.  It has the values of the constants too.

**Instrument** is the pass on the control-flow graph of one program: `SplitOnCall`,
`TailDuplicate` and `InstrumentBlock` are the turns of the three loops of `runOnModule`.
A block is a sequence of loads, stores, atomics and calls, and `inserted` the sequence of
what a thread does when it runs it.  An address is a known value or a GEP with constant
and variable indices; `Similar` and `Delta` are the result and the offset of
`findSimilarMemoryInst`.  **EventCodec** has the sizes of the events, as they are
stored and as they are read, and the packing of an id.  **TraceEncoding** runs the
program: a thread goes through `inserted`, with a buffer of cells at offsets, of which a
store removes those it overlaps, and then the reader goes through the file.  `held` is
the buffer and position that a block reads at its start.  What happens to a buffer on its
way to the file is TraceBuffers'.

## 3. The runs

| Run | Instance | Asks |
|---|---|---|
| share | 2 contexts, 2 lines with different homes, 4 ways, both protocols, latencies 1 and 0 | transactions on one line and on two at the same time, with liveness |
| share4 | 4 contexts of which 3 have tasks, 1 line, both protocols, latencies 0 or 2 against 1 | several ACKs, several waiting requests |
| evict | 2 contexts, 2 shared lines, 1 way, caches empty or used before | what survives the races with evictions |
| private | 2 contexts, 4 lines not shared, 1 way, tasks of 2 operations | evictions without a race |
| tasks | 9 tasks, 4 contexts | dispatch and termination |
| buffers | 3 threads, 5 buffers, a full buffer each, either size of copy | no buffer lost, nobody left asleep, the trace whole, the end reached |
| middle | 3 programs of 3 contexts, 1 full buffer, blocks of length 1 | the graph of every recording, in every order of buffers and writer |
| consumers | 84 graphs of 5 tasks of 3 contexts, 2 bytes, 4 memory operations; or 2 sets of 2 ways, 6 lines, 5 requests; or 4 blocks, 4 addresses of 3 lines, 7 instructions over any number of tasks | races and communication against their definitions; both caches are least recently used; the analysis finds the first slot, the distance and a report that agrees with itself |
| encode | 8 programs of 1 to 8 blocks, 2 threads in one, a buffer of 260 bytes | what is read back is what was run, and no store leaves its buffer |
| fetch_evicted, timed_wait, fast_check | as evict, buffers (2 threads), middle (the lock program) | what the code breaks, section 5 |

**Properties.**  `SingleWriter`, `DirectoryCovers`, `AckCountExact`,
`OneOutstanding`, `OneTransaction`, `OwnerAnswers`, `WriteBackFromOwner`,
`StatusMatchesCache` and `NeverStops` are invariants that relate the state of
several nodes and of messages under way.  `ImplementsMemory` is the refinement,
`MemOpCompletes` and `Terminates` are liveness.

In `tasks`, `DispatchedOnceReady` is about each task and `CompletionsReleased` about the
bookkeeping: a completed task is kept while a successor waits for it, and nothing is left
at the end.

In `buffers`, `BuffersAccounted` (a buffer is in one place, and the count is that of all) and
`SleepersAtLimit` say that the pool's bookkeeping is right through the limit and its end, `NoFault` that no list
that is empty is followed, `TraceComplete` that nothing of a thread that was joined
is missing at exit, `ImplementsTraceFile` that buffers are written once, whole and
in order.  In `middle`, `TicketsAlternate` says that the numbers the runtime draws
tell who had a lock when; `IteratorValid` and `ImplementsTraceOrder` are about the
reader; `QueuedTasksFinal`, `GraphComplete` and `BarrierMeets` about the graph and
its writer; `AssertsHold` that the layer's own asserts fail only after events were
lost, which is what `fast_check` shows to happen.

In `consumers`, `HbExact` says that clocks answer for paths; `RacesExact` that of a
write and a later access that no path connects one is never passed over without a
report on the byte (`WriteRaceCaught`), and the converse (`RacesReal`); `CommunicationsExact` that the records are
the first reads of what another context wrote last.  `ReuseExact` compares the reuse tree
with the accesses, over tasks; `ReportHolds` says of the end of every task that the drain
has emptied what it does not ask for, and that no assertion and no fatal error of
`finishAnalysis` fires.  `WaysImplementLru`, `SimpleImplementsLru` and `ImplementsIssueSlots`
are refinements.

In `encode`, `PathsKept` is about the pass alone: after every instruction comes what came
after it in the program as it was.  `BufferHolds` is the room that the checks leave.
`DecodedAsStored` is the whole way: each thread's blocks with the addresses of their
operations, and its events, are read in the order in which it ran them, whatever was left
out, wherever a buffer ended, however the buffers of threads are mixed.  A run checks the properties that
its instance can put at risk; each is shown to be breakable by a mutant of the
code.

**Bounds.**  Two contexts give every pair of roles, the home being one of
them; the third active context in share4 gives two sharers to invalidate besides a writer,
and a second waiting request.  Its fourth context exists because the number of
contexts is a power of two.  The latencies of the runs make the path between nodes
longer than, or shorter than, the one through the cache; a message of latency 0
is handled in the cycle it is sent if its receiver has yet to run.  One line is
enough for a transaction, since the handlers keep all their state per line; two are
needed for homes with mixed roles and for evictions.  One way instead of four only makes
evictions come sooner.  Tasks of one operation are enough where nothing depends
on what a task's next operation is, as a context may start any task next.  Nothing in
the modules of the coherence protocol counts up, so there are no bounds in their
guards.  No
symmetry is used: contexts run in the order of their ids, main is not like other
threads, and the reader's queues are in the order of the contexts.

In `buffers` a thread fills at most `MaxFlushes` = 1 buffers besides its last,
enough to be at the limit with some threads asleep, some buffers put aside and
some in the queue.  Five buffers for three threads are the fewest that work
(section 4).  `MayIdle` lets the timeout come while threads are alive; it is on in
`timed_wait` only, as everything stops after it.  In `middle` a program is at most
five operations long and one buffer becomes full before it has to be queued
(`flushes`); the programs are chosen so that buffers reach the trace in an order
unlike that of the events: a child before its create, high tickets before low
ones, a barrier left and entered again.  `MaxBlocks` = 1 makes every second
block split its task, `SignalThreshold` = 4 makes the writer run early in some and
late in other behaviours.  A barrier has two parties, the same each time.  The end
of the program clears what the recorder keeps, so that the behaviours of one trace
meet (`EndProgram`).

In `consumers` a file is a graph over one of two lists of contexts, with any edges
that keep a context in order; the last task follows all others, as main does that
has joined its threads.  Predecessors are listed in one order in the files of one list
and in the other in those of the other, since a clock takes the last of a context first.  `MaxOps` = 4 is an allocation, two accesses and a
free, or four accesses; an operation names an allocation of two bytes or a part of it.
A request of the caches has eight bytes and lies in a line or across two; `MaxCounter` = 5
fills a set and evicts twice.  `IntMax` and `IntBits` are those of the code.

The processor of the analysis is small, so that seven instructions (`MaxInstructions`) fill
each of its buffers and queue behind each: three entries in the reservation station, four in
the reorder buffer, two loads, a store and a line fill.  Its units take two instructions a cycle, one, one in
two cycles or one in eight; the L1 cache has one line and the last level two, with none
between, so that an access may reach either or the memory.  A chunk has 16 cycles instead of
131072, so levels lie in several, at their ends too.  The blocks have a dependence through
a value, one through a parameter of a call, one around a loop through a PHI, and loads and
stores of a line, at addresses that are equal or not.  `Dice` is `{FALSE}`: no other core is taken to have a line.
Runs of up to sixty instructions with both dice, which are too many to enumerate, were
simulated with the same properties and found nothing against them.

In `encode` the sizes of ids, addresses and events are those of the code; the buffer has 260
bytes instead of a megabyte and `Margin` is 200 instead of 1024, so that every program hands
over buffers several times, before, in and after each kind of block; `ElideLimit` and the
size of a large block shrink with the margin.  `SmallBuffer` = 100 makes some buffers copied
and some replaced.  `IdLow` = 2 makes ids take both of their parts.  A loop is left after at
most `MaxTurns` = 2 turns.  The margin is more than any program of the run stores between two
checks.  Eight programs have the cases: a duplicated block, an elided id, derived addresses of
each kind, atomics before and after the last address, a call in the middle of a block, one
that the program ends its block with, one before a return, every event, a large block with
and without room for it, and the two other cases that `Sound` is about.

**Fairness.**  The simulator is one thread that takes steps until it stops:
`<>[](halt = "no") => []<><<Next>>_vars`.  A step is enabled unless the program has
stopped (the runs with liveness check deadlock), so this is `WF_vars(Next)`; TLC
checks it in half the time as it need not evaluate ENABLED in every state.
In TaskScheduler the memory operations of a task come to an end, which is what
`MemOpCompletes` shows of the handlers; it is stated as strong fairness of
`CompleteTask`, as the action is enabled only during the context's turn.

In TraceBuffers each thread that can go on does, and so does the writer (weak
fairness of each); a thread whose program does not end is no concern, as
`MaxFlushes` bounds it.  A timeout comes if nothing else does.  In Middle some
thread runs as long as the process does, which is weak fairness of `Next`; no
thread has a loop that does nothing, so nothing more is needed.

**Deadlock** is checked except in the runs that evict shared lines, where the
program may stop, in `tasks`, where the loop ends, and in the runs of the runtime,
where the process ends.  Middle ends in `Stopped`, MCConsumers and TraceEncoding in
`Finished`, so their deadlock checks are real.

## 4. The proofs

`ProtocolHandlerProofs` proves, for any number of contexts, any lines, homes, cache
sets, ways, tasks and latencies, both protocols, and caches that start with
anything in them:

- `TypeCorrect`: the variables keep their types.
- `OneTransactionAlways`: behind the first request in a home's blocked queue are
  only requests to the home, and none of those is being serviced.

Both follow from the inductive invariant `BlockingInv`, which is `TypeOK` and
`BlockedInOrder`.  The order alone is not inductive.  A drain takes up the front
of the queue of `drainAddr` but `handleMessage` files what it must block under the
message's own address; the message goes back to the queue it came from only if
every message of a queue is about the address of the queue, the first part of
`InOrder`.  `TailInOrder`, `FrontInOrder` and `AppendInOrder` treat the three changes
of a queue; `DoneQueues`, `BlockQueues` and `UnblockQueues` the three results of
`handleMessage`; a lemma for each group of cases (`HomeRequestSteps` ...
`ProcessorSteps`) the actions.  That evictions may happen at any time makes no
difference: `evict` checks the property on a small instance in which evictions break
others.

`OutstandingProofs` proves, in the same generality:

- `OneOutstandingAlways`: a memory operation in progress is in exactly one place, and a
  processor that has none has left nothing behind.
- `ReadsFoundAlways`: a line the cache is asked to read is in the cache.

`OneOutstanding` counts messages; the proof counts none.  For each node the messages that
stand for its operation are a set of *marks*, different in each queue (`AskMarks`: its
requests, in any home's queues; `InMarks`: the answers too, in its own; `CacheMarks`), and
`Outstanding` says that all queues are free of them but one, which has one.  `TailMarks`,
`AppendMarks`, `FrontMarks` and `SameMarks` say what a change of a queue does to marks;
`Follows` says what a step may do to an operation (it stays, goes from one queue to another,
begins or ends), `EveryStepFollows` that each step does, and `OutstandingFollows` that the
operation is then still in one place.  Only `OneCounted` at the end speaks of cardinalities.
The invariant `OutstandingInv` needs two things more:

- Only requests wait in blocked queues (`RequestsWait`): the drain takes up the front and
  drops what the handler is done with, so an answer that waited would be lost.
- `CacheLineNotFound` ends the program and takes the request with it.  That the request is
  never a read of the processor needs `LinesInv`: a line the node has a status for is in its
  cache, or the update that brings it is still to come, or the alert that it was evicted is
  on its way; and behind each alert is the ACK of the update that evicted the line
  (`AcksFollow`, as the cache queues the two at once).  A processor that starts an operation
  has no ACK on its way, hence no alert, hence the line.

`CoherenceProofs` proves the coherence of the lines, in the same generality but for one
hypothesis:

- `SingleWriterAlways`: a node that may write a line is the only one that has it.
- `DirectoryCoversAlways`: the directory knows every node that has a line.
- `AckCountExactAlways` and `OwnerAnswersAlways`: the home waits for exactly the ACKs, or
  for the one answer of an owner, that are on their way.
- `NeverStopsAlways`: no assert fails, no empty queue is asked for its front, and the cache
  has every line it is asked for.
- `WriteBackAlways`: a DATA_WRITE_BACK comes from the owner the directory knows.
- `MemoryImplemented`: the handlers implement CoherentMemory (`Spec => ImplementsMemory`).

The hypothesis is `LinesFit`: the caches start zeroed, and the lines that fall into a set fit
into its ways.  It cannot be dropped: where a shared line is evicted these properties do not
hold (section 5; TLC finds `SingleWriter`, `DirectoryCovers` and `OwnerAnswers` violated in
the instance of `evict`).  Runs `share` and `share4` are instances of it.  `AckCountExact`
is checked with evictions too, by `evict`.

A request for a line involves the home's blocked queue, its directory and its count, and at
each node the status of the line, a grant on its way, a request of the home on its way or
blocked, a request to the cache or its answer, and an ACK on its way back.  None of the
properties is inductive by itself.  The invariant `CoherenceInv` says of each line in which
of three phases it is (`LineInv`):

- `AtRest`: the home serves no request; the directory has exactly the nodes that have the
  line or to which a grant is on its way (`Shares`, `Owns`), and no request of the home is
  anywhere (`Clear`).
- `AwaitsAcks`: each sharer but the one that asks has been sent an INVALIDATE, which is in
  one place (`Invalidating`), or has answered and lost the line; the count is the number of
  those that have not answered.
- `AwaitsOwner`: the one owner has been sent a FETCH or FETCH_INVALIDATE, which is in one
  place (`Fetching`).

A grant counts as the right it brings, and reaches its node before the next request of the
home does (`GrantsFirst`): queues are in order.  Besides, requests are about the operation in
progress and reach the right node (`MessagesOK`), who misses a line does not have it
(`MissesOK`), a request of the home to a holder is in front of all others of its blocked queue
(`HoldersFirst`) and with the cache once (`AtCacheOnce`), where it finds the line or follows the
update that brings it (`AsksFound`), and no set has a line twice (`SetFits`).  It rests on
`OutstandingInv`: that a grant changes a status as it should needs that no other answer to
the same node is on its way.

`CoherenceLines` has the invariant and a lemma per outcome of the handlers for what it does
to the line in hand (`ReadMissSharesLines` ... `WriteBackLines`); all other lines stay as they
are by `OtherLine`, as what a step takes or sends is about one line.  `CoherenceProofs` has the
steps in which no message is handled, the asserts (`AssertsAlways`), the caches (`SetFitsStep`), the
queues and the requests at the caches, and puts them together in `CoherenceStep`.  Then come the
two counts, where `AsksCounted` pairs the nodes that have a request of the home with the places of
the messages, and the refinement.

The refinement needs more than `CoherenceInv`, which does not say what an access that waits in
its cache's queue may rely on: the status can be taken from the node while it waits.  `AccessInv`
says what then holds: the node still has the right the access needs, or the request of the home
that took it is being serviced and waits in the same queue behind the access.  So the home has not been
answered yet and has granted the line to nobody, and the rights as Coherence maps them, from
statuses and accesses together, fit (`RightsAlwaysFit`, from the phases of `LineInv`).  Each
step is then a step of the memory or a stutter (`MemoryNext`): where the answer to an operation
is taken up, or the processor takes a task, the next operation is begun (`Begin`); a grant that is
taken up is `Grant`;
a request of the home that lowers a status is `Revoke`, unless an access keeps the right; the
cache's answer to an access is `Perform`, with the right given up if it was kept for the access
only; a rollback and all else leave both variables alone, as the operation put back is the
one that was pending.

`TaskSchedulerProofs` proves, for every finite task graph (edges recorded at both
ends, once each, a root without predecessors) and every number of contexts:

- `TypeCorrect`: the variables keep their types.
- `DispatchCorrect`: a task has been dispatched once if it is the root, or all its
  predecessors have completed and have told it so, and not at all otherwise.
- `InvariantHolds`: the invariant behind it, `IInv`.
- `CompletionsCorrect`: a completed task is remembered for exactly its successors that are
  not dispatched yet, and a loop that ends below the cap leaves no task and no entry behind.

`DispatchedOnceReady` is not inductive.  A task is dispatched when its count
reaches 0, so the counts must be exact (`CountsExact`: an entry of
`pendingSuccessors` is the number of predecessors that have not told the task yet).
That a predecessor tells once needs that it is collected once, and so that it is in
one place only from its dispatch to its collection (`InOnePlace`), and that the
successors still in hand are distinct ones of the task in hand
(`SuccessorsInHand`).  The proof has a lemma per part and per kind of step:
`TakeHead` and `AppendNew` say what moving a task between queues does to
`Contains` and `Once`, `StartTaskPlaces` and `CompleteTaskPlaces` treat the
processor, `CollectInv` and `SignalRecords` the bookkeeping, and `InvStep` puts
them together.  `CompletionsReleased` is proved from `CompletionInv`, which adds that the
unfinished tasks and the collected ones are the tasks up to the cap (`TasksCounted`): at the
end all are collected, so by `IInv` no place has a task left.

`TraceBuffersProofs` proves, for any number of threads and any limit:

- `TypeCorrect`: the variables keep their types; no more buffers are made than the
  limit allows.
- `SleepersCorrect`: a thread sleeps only while the count is at the limit, so that
  the wakeup at the end of the limit reaches everyone.
- `NoFaultCorrect`: with two buffers more than threads neither the writer nor a woken
  thread follows a list that is empty.  The comment in `ct_runtime.c:136` asks whether
  that wait needs an additional check; this is the answer.  The invariant counts:
  every buffer that exists is with a thread, queued, with the writer, put aside or
  free, so at the limit, with one buffer per thread, one is put aside and the
  free list has what the count says.
- `TraceCorrect`: the runtime implements TraceFile, through the refinement of
  module TraceBuffers.
- `BuffersCorrect`: every buffer made is in one place, whatever the limit and wherever a
  fault stopped someone.  That it is somewhere is `Covered`, which `NoFaultCorrect` needs
  too; `Placed` adds that it is in no second place and no list has it twice, which is what
  moving a buffer, or appending the list put aside to the free list, keeps (`JoinDistinct`).
- `EndCorrect`: when the writer has exited, the threads that are joined have ended and all
  they queued is in the file.  The writer compares two counts with the queue empty; the
  invariant `EndInv` says what they count (`ExitsCounted`), that main's own exit is counted
  after those it joins have ended (`MainLast`), and that what a thread queued is in the file or
  the queue (`HandedOn`).

`MiddleProofs` proves, for any contexts and any programs that create each thread once, what
is recorded of them and what the reader of the middle layer delivers:

- `RecordedWellFormed`: what is recorded of a program is a trace the reader can read: no number
  is drawn twice, a context but the main thread begins with the event that it was created, and
  it is created once.
- `IteratorAlwaysValid`: the iterator kept between two calls of `getNextContechEvent` points
  into the map of queues.
- `TraceOrderImplemented`: the reader implements TraceOrder, where an event is delivered when it
  has been read and is in no queue.
- `TicketsAlternateForOwners`: where a thread gives back only locks that are held and no other
  is giving back, and draws no ticket 0 for it, there is a release between two acquires of a
  lock in the trace, by their numbers, and an acquire between two releases.
- `TicketsAlternateForMutexes`: the same where threads unlock what they have locked, and no lock
  is held at first; nothing is asked of the run.

The reader's part, `ReaderInv`, is about any well-formed trace.  It says what was read and is held
(`ReadSoFar`): a queue has events of its context, in their order, and a context with a queue
waits for nothing (`Queues`); the creates of the contexts that wait for nothing, and of queued
events that their context was created, are delivered (`Creations`); and each number below
`ticketNum` or `barrierNum` is the number of an event that is delivered (`Counted`), so that the next
one with a number is not.  That the events of a context go out in order needs that those of it
that are held are the last read (`ReadDelivered`, `TakenHead`).  `PopIn`, `WithIn`, `PushIn` and
`WithoutIn` treat the map of queues, `HeadReads`, `NextReads`, `ReadWaits` and `CreateHandled` the
ways of an event, `FirstIn` and `IteratorKept` the iterator.  The cached lowest ticket is in none
of the invariants: however wrong it is, the reader does not deliver too early.  That it
may keep the reader from delivering at all is finding `fast_check`.

The recorder's part, `RecorderInv`, is about a program that runs.  Its events are in the trace or in
the buffers of the contexts (`Log`), and queueing a buffer moves them to the end of the trace.
`LogsKept` says that two events have different numbers and are about different creates, and that
nothing of a context is recorded before it is created; `TicketsDrawn` that a ticket that was drawn ahead
is one thread's; `EventsKnown` that the numbers of the events were drawn and that the threads they
name run; `Creators` that a thread runs because an operation of the program that is finished
created it, so that the next create is of another.  The last needs that no two operations create the same
thread, which is an assumption on the constant (`ProgramsAssumption`) and what `__ctAllocateCTid`
sees to, an atomic counter (`ct_runtime.c:107`).  When the program has ended all is in
the trace, which is then well formed (`RecordedSoFar`); `MiddleInv` goes over from the one invariant
to the other there.

The tickets of a lock, `TicketsOf`, are those of the events that are in the trace and the
buffers and those that threads have drawn ahead for releases whose events they have not stored;
without the latter the property is not inductive, since the event of a release may be stored
after that of the next acquire. `TicketsInv` says that they alternate and that the last one is
of an acquire just when the lock is taken (`Alternating`), which it is until the ticket of the
release is drawn and not until it is given back (`Taken`). So an acquire, which finds the lock
free, draws a ticket after one of a release (`AcquireTickets`), a release one after that of an
acquire (`DrawTicketTickets`), and to give the lock back and to store the event change no ticket
(`UnlockTickets`, `StoreReleaseTickets`); `LastTicket` is the lemma about tickets that are drawn
last. `OwnsUnlock` is needed: two releases of a lock in a row do not alternate, and one that
draws 0 may have its ticket replaced after the next acquire. It is a hypothesis about the run in the
first theorem, which also covers the semaphore program of `middle` wherever its release is not
the first to draw. In the second it follows from `Mutexes`, which is about the programs and
which the lock program and the barrier program of `middle` satisfy: a thread that has locked and
not unlocked is the holder of the lock until it gives it back, the one holder there is
(`HoldersInv`), and when something is held a ticket has been drawn before.

**ConsumersProofs** proves of the caches, for any numbers of sets, ways and bytes per block:

- `WaysLruImplemented`: the ways of CacheWays implement LruSets;
- `SimpleLruImplemented`: the deques of SimpleCache implement it.

They are theorems of `CachesSpec`, from which MCConsumers takes its steps on requests.  The
invariants, `WaysInv` and `SimpleInv`, say that the places of each set that hold a line, ways or
positions in a deque, can be listed (`Lists`): there is a sequence of their tags and counters, each
place once, in which counters grow and all tags differ, and no counter has reached the cache's.
The listing is the abstract set: the place that the refinement finds by counting how many are
older is the entry with that number (`RankIs`, `WaysListed`, `BlockListed`).  It is needed because a
victim found by comparing counters is the line used longest ago only if no two counters are
equal; the scan from INT_MAX finds one because counters stay below it (`VictimIs`), which
`MaxCounter` assumes of a run.  What a use does to the listing is the same in both programs: the entry
of a hit is dropped (`EntriesHit`), or the first of a full set (`EntriesEvict`), or none (`EntriesAdd`), and
the new one is appended.  `WayChosen` and `BlockUse` show that `updateLine` and
`updateCacheLine` are these three cases; in a deque the lines behind the victim also move up
(`PlacesRenamed`).  `AddressParts`, `EvictionLine` and `PartsAre` do the arithmetic: the address of an
eviction lies in the victim's line, and the part of a request past its block is the line after,
in another set, where the index wraps too.

And of the tracker of communication, for any files, bytes and operations:

- `CommunicationsRecorded`: the records are the first reads of what another context wrote last.

It is a theorem of `BackEndsSpec`, under the hypothesis `ContextsFit`: contexts are below the width
of an int, so that each has bits of its own in a mask (`MasksApart`).  The invariant,
`CommIInv`, says three things of the history: the table's owner of a byte is who wrote it last
(`OwnersExact`); a context other than the owner's has a bit among the sharers just when it has read
the byte since (`SharersExact`), while nothing is claimed of the owner's own context, whose reads
are not counted; and the records can be numbered by the first reads (`Numbers`), each by one
that it describes.  The third is stronger than the equality of counts, which is not inductive by
itself: one read may add records that are equal to none or to several others.  A free
removes as many bytes as the history says were allocated because `AllocationExact` is part
of the invariant.  `TableWritten`, `TableFreed` and `TableRead` are the three changes of the table; in
`RecordsRead` a read adds a record for each byte of `Upwards`, which lists every byte once
(`UpwardsLists`).

And of the race detector, for any files and operations:

- `ClocksExact`: for every task before the one being analysed, the clocks tell whether a path leads from
  it to that one, and the clocks kept are those of the tasks that are still needed;
- `RacesReported`: of a byte that only others free, what is reported are races, and a write with
  a later access that no path connects is never passed over without a report on the block.

They are theorems of `BackEndsSpec`, under the hypothesis `ContextsOrdered`: the tasks of a context are on
one path of the graph.  The middle layer gives it, as each task of a context continues the one before or a barrier
both are ordered with, and the instance (`OrderKept`); without it the last number of a
context would say nothing of those before it.  The invariant of the clocks, `HbInv`, says until the
loop is left that the count of each task read is the number of edges from it to tasks not
read yet (`RefsExact`), edges and not tasks, since a list may name a predecessor twice; that
the clocks that are there are those of tasks with a successor to come or with none at
all (`ClocksKept`); and that a clock has for each context the number of the last of its tasks on a path to
the clock's own (`ClocksAre`, `ClockExact`).  `RefsNext` and `KeptNext` are the counting down and the
dropping, `PredSetExact` the merging of the predecessors' clocks, which are all there because
the task that is read next was still to come.  `ClocksAnswer` goes from there to the property: a number up
to the clock's is that of the named task or of one before it in the context, and so on a path.
What a path is, `Ancestors`, is a recursive function; `AncestorsUnfold` shows that its
recursion has a solution, the least set of places closed under predecessors, from which
`AncestorsEarlier` and `AncestorsTransitive` follow.

For the reports, `RaceIInv` adds what the detector remembers of a byte, as long as no
task frees it after its own access (`FreedByOthers`, without which it is false, see section 5):
the access is one of the block, and if the block has been written it is the last write (`LastOk`);
and a byte whose races are not reported any more has had a report in the block
(`NotedOk`), which is true after a free because the free resets both.  The history is in the order of the
tasks and the region of interest is one stretch of it (`HistoryInv`), so that the write that is remembered is in it
when the first write and the access are.  That is what `CaughtNew` needs: an access that no
path connects with a write of the block, though one connects it with the write
remembered, is behind two writes that no path connects, or there would be a path through both; and
their race was reported when the second came.  The sizes of blocks are those of the history
(`SizesExact`), so that a free resets the bytes that were allocated.  After the region
of interest the loop is left, and only what has been reported is spoken of (`RaceStopped`).

Assumed are `ContextAssumption`, `TaskGraphAssumption`, `EventsAssumption`,
`ProgramsAssumption`, `GeometryAssumption`, `CachesAssumption` (two sets or more: with one
a request may use it twice) and `BackEndsAssumption` (a file's tasks are in the order the middle layer
writes them) on the constants and the library's theorems on finite sets, sequences and
well-founded orders.

Only model-checked are: all liveness; `StatusMatchesCache`, which holds only where no line is
shared, as `invalidateLine` leaves the line in the cache; the handlers where private lines are
evicted (`private`); `TicketsAlternate` of programs that unlock what they have not locked; what
the middle layer makes of the events (`QueuedTasksFinal`, `AssertsHold`, `GraphComplete`,
`BarrierMeets`), whose invariants depend on the programs too; the decoding of the trace, where
the reader's table is a function of the paths of a program; and the dynamic analysis, where
trees and the searches in them are.

## 5. Findings

Without evictions the protocol does all it should (section 4).  What the comments, asserts and
notes of the repository say and a run refutes:

- **fetch_evicted**: a request of the home waits in the cache's queue behind a
  CACHE_UPDATE that evicts its line; `getLine` exits the program (`cache.cpp:60`).
- **timed_wait**: after a timeout with nothing queued and threads alive `condRetVal`
  keeps its value; the writer never waits again and never releases the lock of the
  queue (`ct_main.c:295`).
- **fast_check**: `readyEvents` fills the queues without resetting the cached minimum
  (`eventQ.cpp:384`), and the check at `eventQ.cpp:160` hides what it has queued to the end.

Run `evict` shows what holds all the same: ACKs are counted exactly, an operation
is in one place, and a home services one request of a line at a time, until the
program stops.

Met while modelling, and not the subject of a run:

- A DATA_WRITE_BACK of an eviction is taken for the answer to a request, or erases the
  entry of a line that was granted since (`MSIHandler.cpp:448`); two nodes end up with
  the line, one MODIFIED.  `SingleWriter` is therefore checked without evictions.
- `invalidateLine` clears the valid bit of a copy (`cache.cpp:80`), so the line is
  evicted later; that eviction reads `cacheLineStatus[addr]` of a line that is not in
  the map, which makes it M (`MESIHandler.cpp:598`), and a DATA_WRITE_BACK goes out
  from a node that owns nothing.
- The last buffer of a detached thread may be lost: its exit is counted before the
  buffer is queued, and the writer may end in between (`ct_runtime.c:238` has a TODO
  about it).  `TraceComplete` is about the other threads.
- At the limit a small copy that is last in the queue is freed with `continue`
  (`ct_main.c:404`), which passes the test for the end of the limit; the buffers put
  aside stay there until another is queued.  `Terminates` is stated for runs without
  small copies.
- With fewer than two buffers more than threads the end of the limit dereferences
  a NULL `memLimitQueueTail` (`ct_main.c:426`).
- A release that draws the first ticket of all, 0, draws another when it is stored
  (`ct_runtime.c:734`): ticket 0 is then in no event, and nothing with a ticket is ever
  delivered.  A release whose call fails leaves a hole of the same kind (line 731).
  The semaphore program of `middle` does the former.
- Events that are queued when the file ends are dropped (`eventQ.cpp:55`).  The graph
  may then name a task that was never created, and the index reads the entry at
  `end()` (`taskWrite.cpp:495`).
- A thread that joins another and ends without a block in between, while the exit of
  the joined thread is held back by a ticket, has its join task removed with the join
  pending (assert at `Context.cpp:51`).
- The branch for a queued rank event deletes it and leaves it in the queue
  (`eventQ.cpp:181`); no rank event is ever queued.
- A `pthread_create` that fails leaves a create in the trace whose child never appears
  (`ct_runtime.c:276`); a join by a thread that is not the creator is never completed
  (`Context.cpp:83`).
- A task that frees a byte it accessed last leaves with `continue` (`heltech.cpp:220`)
  before the access is cleared, which the comment at line 281 says a free does: an access
  to the next block at that address is then compared with one of the last.  `RacesExact`
  is about bytes that are freed by others (`FreedByOthers`);
  without that condition TLC finds a race that is none.
- The comment at `heltech.cpp:273` says that a read of what another task wrote, and read
  itself afterwards, will not be a race; the write is what is remembered, and the code
  reports it.  A read before a write is remembered only if no other access is,
  so such a race may be passed over.
- The detector leaves its loop at the last task of the region of interest, which by
  default is the last task of all; that task is not looked at.  It takes memcpy for three
  accesses of one byte.
- `1 << context` is an int (`CommTracker.cpp:128`): contexts 32 and above share bits with
  those below, so a first read may go unrecorded.  `CommunicationsExact` is checked with three
  contexts and proved for 32.
  A read of a byte nobody wrote is recorded as a communication from task 0:0, unless
  context 0 is the reader.
- The first request of a memcpy in SimpleCache has the number of the access before it;
  of two lines with one number the first in the deque is the victim, whichever came
  first.  A cache of a single set gives both lines of a request one number too.
- An access that the processor splits (`processor.cpp:28`) becomes two operations whose
  addresses are aligned to 512 bytes where a line has 64: often the same line twice,
  while the line that it reaches into is not asked for.
- `findSimilarMemoryInst` compares the indices of GEPs of different lengths up to the shorter
  (`Contech.cpp:941`): the address derived for the later is then that of another field.
- The entry block of a function has a check after its event (`Contech.cpp:1871`); if the id
  of its only successor is left out and the buffer is handed over there, the reader takes
  the marker for operations.
- A block of more than 170 stored addresses makes room after it has read buffer and position
  (`Contech.cpp:1859`), and stores into the buffer that was handed over.  It has no check at
  its end, so the next block may start with no room at all.
  `DecodedAsStored` and `BufferHolds` leave these cases out by name (`Sound`, `Large`); with
  any of the conditions dropped TLC finds the trace that cannot be read.
- Blocks that end with calls of functions that are not instrumented have no checks; a chain of
  them may store more than the 1024 bytes that a check leaves.  The check tests the position
  behind the block event, not behind the events of delayed atomics.
- `containCall` is read before it is set (`Contech.cpp:1851`); what it starts as can only keep
  an id from being left out.
- A delay event stored in a buffer that was waited for is lost: the position is reset after
  it (`ct_runtime.c:145`).
- The marker's loop adds to `&buf` whole arrays (`ct_main.c:338`), so that a partial write
  continues with what is on the stack.
- The buffers of the dynamic analysis do not keep to their sizes: fullness is tested with `==`
  (`DynamicAnalysis.cpp:2135`, 3021), entries of the queues are put into a buffer at their cycle
  whether it has room or not (1639, 1690), and above its size a buffer is no longer full.
  Longer programs than those of `consumers` show it in simulation.  The place of a queued load is
  the difference of two unsigned counts (1923), which is above 0 whenever it is not 0.
- Two accesses go past the end of a vector in such programs: the line fill buffer at the length of
  its queue (1745), and the chunk of a cycle that a queue's stall is marked in (2236, 2255,
  2272), which nobody has created.  The model sets `fault` there and stops.
- An access that is queued for a buffer enters it in one cycle only (1690); a fetch that jumps past
  that cycle leaves it in the queue until it completes.  The drain asks for the vector of loads that
  is no longer used (`Final.cpp:692`); the reorder buffer, which has every instruction, is
  what makes it wait for them.
- Two loads that complete in one cycle have one key in the tree of queued loads, from which
  nodes are deleted by key (1672).  `k` is not set back for a second call that uses a value
  (2983).  The bits of a span have room for 100 cycles behind the last level (`Final.cpp:81`);
  a longer latency writes past them.
- Ways with garbage counters, as uninitialised memory may leave them, are not least
  recently used, and a counter of INT_MAX is never a victim (`cache.cpp:126`).

## 6. Abstractions

A line is a number and its home and set are constants of the instance.  A
memory operation is a line and read or write.  The dirty bit is written and
never read; it is left out, as are all statistics.  A queue is a sequence; the
loop of `checkIncomingMsgQueue` removes the handled messages together at its
end, the model one by one, which nothing in between can see.  The order in which
tasks reach a context is left open in ProtocolHandler (`Tasks`), so that any
schedule TaskScheduler allows is among those checked.  Uninitialised lines are
`InitialLines`: sets that are empty, or hold one arbitrary line.  Duplicate edges
of a task graph and graphs with more than one root are excluded by
`TaskGraphAssumption`.

In the runtime a buffer is a number and what it holds a count; the size of a buffer
is whether it is copied.  Write errors, regions of interest, OpenMP, Cilk and the
overhead counters are left out, and `malloc` succeeds.  `pthread_cond_wait` may return
unasked.  In the middle layer times are left out, so that the asserts about them and the tie
breaking of the index are too; so are memory operations, MPI and several ranks,
condition variables, tries that fail, and the initial create of context 0.
Writing a chunk of tasks is one step, since nobody else touches them, which
`QueuedTasksFinal` checks.

A file read by a back end holds reads, writes, allocations and frees of a program that
allocates what is free and frees what it has allocated.  The
bytes of an operation are treated alike and alone by the detector, so an operation is one
step.  The counts that the tracker keeps per basic block and the statistics of the caches
are left out.  In CacheWays the memory of the ways is zero; Context covers sets that hold
a line of garbage when they start.

In Instrument a block has its loads, stores, atomics and calls; other instructions, phi
nodes and what duplication does to them, invokes, calls that do not return, OpenMP and Cilk
calls, switches and the modes that only mark are left out, and a block whose address is
taken, or a phi that feeds itself, does not occur.  In
TraceEncoding the eight bytes that a store of an address writes are the six that stay.  A
buffer reaches the file when it is queued.  The fields of events other than block events are
bytes that are counted.

In the dynamic analysis throughputs are fractions, which the code computes in floats; the ports,
the address units, vector widths, bytes transferred, occupancies that are only reported, and the
histograms are left out; the barrier of a basic block is always 0.  Time is counted
in one behaviour by `MaxInstructions`.  The distance between tasks is twice the longest latency,
as in the code.  What the relaxation does with the matrix of bottlenecks
(`Execution.cpp:736`) is to run further analyzers of the same kind.

Not modelled, with the reasons in PROJECT.json: `populateMemActionQueue`, memcpy, regions of
interest in the middle layer, the encoding of tasks, the other compiler passes, the
Pin tool and the remaining back ends.  Those are single passes that count or print (the
critical path, the block counts, the dot output), other policies of the same caches, or
are not built; what they would show of the system is in the graph they read, which
`middle` checks.

## 7. Plan

1. *Done*: the simulator (Directory, CacheSet, Context, ProtocolHandler,
   CoherentMemory, Coherence, TaskScheduler), the runtime (TraceBuffers, TraceFile),
   the middle layer (Recorder, EventList, TraceOrder, TaskGraph, TaskWriter, Middle),
   and the proofs of section 4.
2. *Done*: the caches (CacheWays, SimpleCache, LruSets) and two back ends (RaceDetector,
   CommTracker); the trace's bytes (Instrument, EventCodec, TraceEncoding); the dynamic analysis
   (SplayTree, ExecutionUnits, IssueSlots, OooBuffers, DynamicAnalysis).  Left: the processor's queue with offsets and split accesses; the bottlenecks and
   their relaxation; OpenMP and Cilk in the pass.
3. More proofs.  *Done*: that the lines are coherent where nothing is evicted, and that the
   handlers implement CoherentMemory there.  That EventList implements
   TraceOrder and keeps its iterator valid.  That the caches implement LruSets, and that the
   communication tracker and the race detector are exact.  Left: the barriers of the middle layer, the
   decoding of the trace.
