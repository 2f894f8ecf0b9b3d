---------------------------- MODULE TaskScheduler ----------------------------
(***************************************************************************)
(* The task level of the simulator: Simulator::run hands the tasks of a    *)
(* task graph to the contexts, and each context's processor works through  *)
(* its task queue (backend/Simulator: simulator.cpp, the task queues of    *)
(* context.cpp, and the part of Processor::run that takes tasks).          *)
(*                                                                         *)
(* A cycle steps the contexts in the order of their ids.  "run" is the     *)
(* processor of context "turn"; "collect" is the simulator's loop over the *)
(* tasks the context has just completed, and over the successors of each.  *)
(* How long the memory operations of a task take is left open here; module *)
(* ProtocolHandler has them.                                               *)
(***************************************************************************)
EXTENDS Integers, Sequences, FiniteSets

CONSTANTS
  NumContexts,      \* contexts 0 .. NumContexts - 1
  Task,             \* the tasks of the graph
  Root,             \* the first task of the graph's file
  Succ,             \* Succ[t]: getSuccessorTasks
  ContextId,        \* ContextId[t]: the context the traced program ran t on
  NoMemOps,         \* the tasks without memory operations
  UnfinishedTaskCap, \* UNFINISHED_TASK_CAP
  NoTask

Context == 0..(NumContexts - 1)
Pred(s) == {p \in Task : \E i \in 1..Len(Succ[p]) : Succ[p][i] = s}

\* An edge is recorded at both ends, and once: Pred is getPredecessorTasks.
ASSUME TaskGraphAssumption ==
  /\ NumContexts \in Nat \ {0}
  /\ IsFiniteSet(Task) /\ NoTask \notin Task
  /\ Root \in Task
  /\ Succ \in [Task -> Seq(Task)]
  /\ \A t \in Task : \A i, j \in 1..Len(Succ[t]) : Succ[t][i] = Succ[t][j] => i = j
  /\ Pred(Root) = {}
  /\ ContextId \in [Task -> Nat]
  /\ NoMemOps \subseteq Task
  /\ UnfinishedTaskCap \in Nat \ {0}

VARIABLES
  turn, phase,            \* where the simulator's loop is
  taskQueue,              \* [Context -> Seq(Task)]
  currTask,               \* [Context -> Task or NoTask]
  completedTasks,         \* [Context -> Seq(Task)], those not looked at yet
  current, successors,    \* the completed task in hand, its successors still to do
  pendingSuccessors,      \* [Task -> Nat], the count of an entry; 0: no entry
  completedPredecessors,  \* [Task -> Int]; 0: no entry
  numUnfinishedTasks,
  dispatches,             \* history: how often a task was added to a task queue
  collected               \* history: the completed tasks the simulator has looked at

graphVars == <<pendingSuccessors, completedPredecessors, dispatches, collected>>
queueVars == <<taskQueue, currTask, completedTasks>>
vars == <<turn, phase, queueVars, current, successors, graphVars, numUnfinishedTasks>>

TypeOK ==
  /\ turn \in Context /\ phase \in {"run", "collect", "done"}
  /\ taskQueue \in [Context -> Seq(Task)]
  /\ currTask \in [Context -> Task \cup {NoTask}]
  /\ completedTasks \in [Context -> Seq(Task)]
  /\ current \in Task /\ successors \in Seq(Task)
  /\ pendingSuccessors \in [Task -> Int]
  /\ completedPredecessors \in [Task -> Int]
  /\ numUnfinishedTasks \in Int
  /\ dispatches \in [Task -> Nat]
  /\ collected \subseteq Task

\* Mutant: the context of the traced program is taken as it is.
AddToTaskQueueRaw(t) ==
  taskQueue' = [taskQueue EXCEPT ![ContextId[t]] = Append(@, t)]

AddToTaskQueue(t) ==
  taskQueue' = [taskQueue EXCEPT ![ContextId[t] % NumContexts] = Append(@, t)]

\* The simulator's constructor hands out the first task only.
Init ==
  /\ turn = 0 /\ phase = "run"
  /\ taskQueue = [n \in Context |->
                    IF n = ContextId[Root] % NumContexts THEN <<Root>> ELSE <<>>]
  /\ currTask = [n \in Context |-> NoTask]
  /\ completedTasks = [n \in Context |-> <<>>]
  /\ current = Root /\ successors = <<>>
  /\ pendingSuccessors = [t \in Task |-> 0]
  /\ completedPredecessors = [t \in Task |-> 0]
  /\ numUnfinishedTasks =
       IF UnfinishedTaskCap <= Cardinality(Task) THEN UnfinishedTaskCap ELSE Cardinality(Task)
  /\ dispatches = [t \in Task |-> IF t = Root THEN 1 ELSE 0]
  /\ collected = {}

-------------------------------------------------------------------------------
(* Processor::run. *)

Running(n) == turn = n /\ phase = "run"

\* The next task; one with memory operations keeps the processor busy until a
\* later cycle.
StartTask(n) ==
  /\ Running(n) /\ currTask[n] = NoTask /\ taskQueue[n] # <<>>
  /\ currTask' = [currTask EXCEPT ![n] = Head(taskQueue[n])]
  /\ taskQueue' = [taskQueue EXCEPT ![n] = Tail(@)]
  /\ phase' = IF Head(taskQueue[n]) \in NoMemOps THEN "run" ELSE "collect"
  /\ UNCHANGED <<turn, completedTasks, current, successors, graphVars, numUnfinishedTasks>>

\* The memory operations of the task are done.
CompleteTask(n) ==
  /\ Running(n) /\ currTask[n] # NoTask
  /\ completedTasks' = [completedTasks EXCEPT ![n] = Append(@, currTask[n])]
  /\ currTask' = [currTask EXCEPT ![n] = NoTask]
  /\ UNCHANGED <<turn, phase, taskQueue, current, successors, graphVars, numUnfinishedTasks>>

\* A memory operation is in progress, or there is no task.
ProcessorReturns(n) ==
  /\ Running(n)
  /\ \/ currTask[n] # NoTask /\ currTask[n] \notin NoMemOps
     \/ currTask[n] = NoTask /\ taskQueue[n] = <<>>
  /\ phase' = "collect"
  /\ UNCHANGED <<turn, queueVars, current, successors, graphVars, numUnfinishedTasks>>

-------------------------------------------------------------------------------
(* Simulator::run. *)

Collecting(n) == turn = n /\ phase = "collect"

\* The next task the context has completed.
Collect(n) ==
  LET t == Head(completedTasks[n])
  IN  /\ Collecting(n) /\ successors = <<>> /\ completedTasks[n] # <<>>
      /\ completedTasks' = [completedTasks EXCEPT ![n] = Tail(@)]
      /\ current' = t /\ successors' = Succ[t]
      /\ numUnfinishedTasks' = numUnfinishedTasks - 1
      /\ completedPredecessors' =
           [completedPredecessors EXCEPT ![t] = IF @ = 0 THEN Len(Succ[t]) ELSE @]
      /\ collected' = collected \cup {t}
      /\ UNCHANGED <<turn, phase, taskQueue, currTask, pendingSuccessors, dispatches>>

\* Predecessors of s still to complete, once current has.
CountAfter(s) ==
  IF pendingSuccessors[s] # 0 THEN pendingSuccessors[s] - 1 ELSE Cardinality(Pred(s)) - 1

Signal(n) ==
  /\ Collecting(n) /\ successors # <<>>
  /\ successors' = Tail(successors)
  /\ pendingSuccessors' =
       [pendingSuccessors EXCEPT ![Head(successors)] = CountAfter(Head(successors))]
  /\ UNCHANGED <<turn, phase, currTask, completedTasks, current, collected, numUnfinishedTasks>>

\* The successor waits for another of its predecessors, ...
SuccessorWaits(n) ==
  /\ Signal(n) /\ CountAfter(Head(successors)) # 0
  /\ UNCHANGED <<taskQueue, completedPredecessors, dispatches>>

\* Mutants: the task in hand is the only predecessor that is released, and a
\* successor does not wait for the last.
SuccessorReadyReleasesOne(n) ==
  LET s == Head(successors)
  IN  /\ Signal(n) /\ CountAfter(s) = 0
      /\ AddToTaskQueue(s)
      /\ dispatches' = [dispatches EXCEPT ![s] = @ + 1]
      /\ completedPredecessors' = [completedPredecessors EXCEPT ![current] = @ - 1]
SuccessorReadyEarly(n) ==
  LET s == Head(successors)
  IN  /\ Signal(n)
      /\ AddToTaskQueue(s)
      /\ dispatches' = [dispatches EXCEPT ![s] = @ + 1]
      /\ completedPredecessors' =
           [p \in Task |-> completedPredecessors[p] - (IF p \in Pred(s) THEN 1 ELSE 0)]

\* ... or this was the last.
SuccessorReady(n) ==
  LET s == Head(successors)
  IN  /\ Signal(n) /\ CountAfter(s) = 0
      /\ AddToTaskQueue(s)
      /\ dispatches' = [dispatches EXCEPT ![s] = @ + 1]
      /\ completedPredecessors' =
           [p \in Task |-> completedPredecessors[p] - (IF p \in Pred(s) THEN 1 ELSE 0)]

\* The loop ends after a cycle in which enough tasks were completed.
NextContext(n) ==
  /\ Collecting(n) /\ successors = <<>> /\ completedTasks[n] = <<>>
  /\ turn' = (n + 1) % NumContexts
  /\ phase' = IF turn' = 0 /\ numUnfinishedTasks <= 0 THEN "done" ELSE "run"
  /\ UNCHANGED <<queueVars, current, successors, graphVars, numUnfinishedTasks>>

-------------------------------------------------------------------------------
Next ==
  \E n \in Context :
    \/ StartTask(n) \/ CompleteTask(n) \/ ProcessorReturns(n)
    \/ Collect(n) \/ SuccessorWaits(n) \/ SuccessorReady(n) \/ NextContext(n)

Spec == Init /\ [][Next]_vars

\* The loop runs on, and the memory operations of a task come to an end.
FairSpec == Spec /\ WF_vars(Next) /\ \A n \in Context : SF_vars(CompleteTask(n))

-------------------------------------------------------------------------------
\* The predecessors of s whose completion s has been told of.
Told(s) == {p \in Pred(s) : /\ p \in collected
                            /\ p = current => \A i \in 1..Len(successors) : successors[i] # s}

\* A task is given to a context once, and only after all its predecessors have
\* completed, whatever order they complete in.
DispatchedOnceReady ==
  \A t \in Task :
    dispatches[t] = IF t = Root \/ (Pred(t) # {} /\ Told(t) = Pred(t)) THEN 1 ELSE 0

\* The count of an entry of pendingSuccessors is that of the predecessors the task
\* still waits for.
CountsExact ==
  \A s \in Task :
    pendingSuccessors[s] = IF Told(s) = {} THEN 0 ELSE Cardinality(Pred(s) \ Told(s))

\* The successors in hand are the rest of those of a task that was collected.
SuccessorsInHand ==
  /\ \A i \in 1..Len(successors) :
       successors[i] \in Task /\ current \in Pred(successors[i]) /\ current \in collected
  /\ \A i, j \in 1..Len(successors) : successors[i] = successors[j] => i = j

\* A task that was dispatched and is not collected is in one place, in a task queue,
\* at a processor or among the completed tasks of a context; no other is in any.
InFlight(t) == dispatches[t] = 1 /\ t \notin collected
Contains(queue, t) == \E n \in Context : \E i \in 1..Len(queue[n]) : queue[n][i] = t
AtProcessor(t) == \E n \in Context : currTask[n] = t
Once(queue) ==
  \A n, m \in Context : \A i \in 1..Len(queue[n]), j \in 1..Len(queue[m]) :
    queue[n][i] = queue[m][j] => n = m /\ i = j
InOnePlace ==
  /\ Once(taskQueue) /\ Once(completedTasks)
  /\ \A n, m \in Context : currTask[n] # NoTask /\ currTask[n] = currTask[m] => n = m
  /\ \A t \in Task :
       /\ Contains(taskQueue, t) => InFlight(t) /\ ~AtProcessor(t)
       /\ Contains(completedTasks, t) => InFlight(t) /\ ~AtProcessor(t) /\ ~Contains(taskQueue, t)
       /\ AtProcessor(t) => InFlight(t)

\* The inductive invariant behind DispatchedOnceReady.
IInv ==
  /\ TypeOK /\ DispatchedOnceReady /\ CountsExact /\ SuccessorsInHand /\ InOnePlace
  /\ \A t \in collected : dispatches[t] = 1

\* A completed task is remembered until the last of its successors is dispatched,
\* and no longer: the unsigned counts of completedPredecessors never wrap.
PredecessorsReleased ==
  \A p \in Task :
    completedPredecessors[p] =
      IF p \in collected THEN Cardinality({s \in Task : p \in Pred(s) /\ dispatches[s] = 0})
                        ELSE 0

\* The simulator's count of the unfinished tasks goes down with every task it looks
\* at, and the loop ends with no successor in hand.
TasksCounted ==
  /\ numUnfinishedTasks + Cardinality(collected) =
       IF UnfinishedTaskCap <= Cardinality(Task) THEN UnfinishedTaskCap ELSE Cardinality(Task)
  /\ phase = "done" => successors = <<>> /\ numUnfinishedTasks <= 0

\* The inductive invariant behind CompletionsReleased.
CompletionInv == IInv /\ PredecessorsReleased /\ TasksCounted

\* When the loop ends without the cap, every task has been completed, and nothing
\* is left in a queue or waited for.
NothingLeft ==
  phase = "done" /\ Cardinality(Task) <= UnfinishedTaskCap
    => /\ collected = Task
       /\ \A t \in Task : pendingSuccessors[t] = 0 /\ completedPredecessors[t] = 0
       /\ \A n \in Context : taskQueue[n] = <<>> /\ currTask[n] = NoTask

\* Both: completed tasks are released by the last of their successors, up to the end.
CompletionsReleased == PredecessorsReleased /\ NothingLeft

\* The loop ends: no task waits for ever for a predecessor or for its context.
Terminates == <>(phase = "done")

==============================================================================
