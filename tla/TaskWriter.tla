------------------------------ MODULE TaskWriter ------------------------------
(***************************************************************************)
(* The background task writer of the middle layer (middle/taskWrite.cpp):  *)
(* the main thread gives it finished tasks through taskQueue, it writes    *)
(* them to the task graph file as they come, and the index when there are  *)
(* no more.  A task is <<context, number>>; what the writer keeps of one   *)
(* are the number of its predecessors and its successors.                  *)
(***************************************************************************)
EXTENDS Integers, Sequences, FiniteSets, SequencesExt

CONSTANT SignalThreshold   \* QUEUE_SIGNAL_THRESHOLD

ASSUME SignalThresholdAssumption == SignalThreshold \in Nat

VARIABLES
  taskQueue,     \* the tasks given to the writer; empty too when it has taken the last queue
  noMoreTasks,
  signalled,     \* a signal on taskQueueCond has been sent to the waiting writer
  writer,        \* where the writer is
  chunk,         \* writeTaskQueue
  written,       \* writeTaskMap
  indexed        \* the tasks that are in the index

writerVars == <<taskQueue, noMoreTasks, signalled, writer, chunk, written, indexed>>

WriterInit ==
  /\ taskQueue = <<>>
  /\ noMoreTasks = FALSE
  /\ signalled = FALSE
  /\ writer = "test"
  /\ chunk = <<>>
  /\ written = [t \in {} |-> [p |-> 0, s |-> <<>>]]
  /\ indexed = {}
-----------------------------------------------------------------------------
(* The main thread *)

\* Only a writer that waits gets a signal.
Signal(condition) == signalled' = (signalled \/ (condition /\ writer = "asleep"))

\* backgroundQueueTask; big: the task has as many basic blocks as one may have.
QueueTask(t, big) ==
  /\ taskQueue' = Append(taskQueue, t)
  /\ Signal(Len(taskQueue) = SignalThreshold \/ big)
  /\ UNCHANGED <<noMoreTasks, writer, chunk, written, indexed>>

NoMoreTasks ==
  /\ ~noMoreTasks
  /\ noMoreTasks' = TRUE
  /\ Signal(TRUE)
  /\ UNCHANGED <<taskQueue, writer, chunk, written, indexed>>
-----------------------------------------------------------------------------
(* The writer *)

\* Mutant: the flag is read once, before the loop.
TestLoopCached ==
  /\ writer = "test"
  /\ writer' = "lock"
  /\ UNCHANGED <<taskQueue, noMoreTasks, signalled, chunk, written, indexed>>

\* The test of the outer loop, without the lock.
TestLoop ==
  /\ writer = "test"
  /\ writer' = IF noMoreTasks /\ taskQueue = <<>> THEN "index" ELSE "lock"
  /\ UNCHANGED <<taskQueue, noMoreTasks, signalled, chunk, written, indexed>>

Sleeps ==
  /\ writer = "lock"
  /\ ~noMoreTasks /\ taskQueue = <<>>
  /\ writer' = "asleep"
  /\ UNCHANGED <<taskQueue, noMoreTasks, signalled, chunk, written, indexed>>

Wakes ==
  /\ writer = "asleep"
  /\ signalled
  /\ signalled' = FALSE
  /\ writer' = "lock"
  /\ UNCHANGED <<taskQueue, noMoreTasks, chunk, written, indexed>>

TakeChunk ==
  /\ writer = "lock"
  /\ noMoreTasks \/ taskQueue # <<>>
  /\ chunk' = taskQueue
  /\ taskQueue' = <<>>
  /\ writer' = "write"
  /\ UNCHANGED <<noMoreTasks, signalled, written, indexed>>

\* A chunk is one step: nothing else uses its tasks (FinalTasks of module Middle).
WriteChunk(task) ==
  /\ writer = "write"
  /\ written' = [t \in DOMAIN written \cup ToSet(chunk) |->
                   IF t \in DOMAIN written THEN written[t]
                   ELSE [p |-> Len(task[t].pred), s |-> task[t].succ]]
  /\ writer' = IF ToSet(chunk) \cap DOMAIN written # {} \/ ~IsInjective(chunk)
                 THEN "aborted" ELSE "test"
  /\ chunk' = <<>>
  /\ UNCHANGED <<taskQueue, noMoreTasks, signalled, indexed>>

\* How often the tasks in done have t as their successor.
Completed(t, done) ==
  Cardinality({e \in UNION {{u} \X DOMAIN written[u].s : u \in done} :
                 written[e[1]].s[e[2]] = t})

\* A task is in the index when all that precede it are, the first one at once.
Ready(done) ==
  {t \in DOMAIN written :
     t = <<0, 0>> \/ (written[t].p > 0 /\ Completed(t, done) >= written[t].p)}

Indexed[n \in 0 .. Cardinality(DOMAIN written)] ==
  IF n = 0 THEN {<<0, 0>>} ELSE Ready(Indexed[n - 1])

\* A successor that is not in the map, or not any more, is the entry at end(): undefined.
Absent(done) ==
  \/ \E u \in done : ~(ToSet(written[u].s) \subseteq DOMAIN written)
  \/ \E t \in DOMAIN written : Completed(t, done) > written[t].p

WriteIndex ==
  /\ writer = "index"
  /\ indexed' = Indexed[Cardinality(DOMAIN written)]
  /\ \/ writer' = "ended" /\ indexed' = DOMAIN written
     \/ writer' = "aborted" /\ (indexed' # DOMAIN written \/ Absent(indexed'))
  /\ UNCHANGED <<taskQueue, noMoreTasks, signalled, chunk, written>>
=============================================================================
