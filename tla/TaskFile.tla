------------------------------ MODULE TaskFile -------------------------------
(***************************************************************************)
(* A task graph as a back end reads it (common/taskLib/TaskGraph.cpp): the *)
(* tasks in the order of the index, which taskWrite makes breadth first,   *)
(* so that a task follows its predecessors, and the region of interest.    *)
(* A task is known by its context and its number in it (TaskId).           *)
(***************************************************************************)
EXTENDS Integers, Sequences, FiniteSets

CONSTANTS
  Files,      \* the task graph files that may be read
  Byte        \* addresses of memory

TaskId == Nat \X Nat
ContextOf(tid) == tid[1]
SeqOf(tid) == tid[2]

VARIABLES
  file,         \* the file, from initFromFile on
  nextTask,     \* how many tasks of the index have been read
  current       \* the task being analysed, as its place in the index; 0: none

fileVars == <<file, nextTask, current>>

Tasks == file.tasks
Id(i) == Tasks[i].id
PredIds(i) == {Tasks[i].pred[k] : k \in DOMAIN Tasks[i].pred}

\* getSuccessorTasks().size(): the edges that leave the task tid, each as often as it
\* is written; a lock that its last holder takes again doubles an edge.
SuccCount(tid) ==
  Cardinality(UNION {{i} \X {k \in DOMAIN Tasks[i].pred : Tasks[i].pred[k] = tid} :
                     i \in DOMAIN Tasks})

\* The tasks that come before each task in every execution: what the graph means.
Ancestors(tasks) ==
  LET anc[i \in DOMAIN tasks] ==
        UNION {{j} \cup anc[j] :
               j \in {k \in 1..(i - 1) : \E p \in DOMAIN tasks[i].pred : tasks[i].pred[p] = tasks[k].id}}
  IN  anc
Before == Ancestors(Tasks)
Unordered(i, j) == i # j /\ i \notin Before[j] /\ j \notin Before[i]

\* What the middle layer writes: ids are unique, predecessors come first, and the
\* tasks of a context are in the order of their numbers.
WellFormed(tasks) ==
  \A i, j \in DOMAIN tasks :
    /\ tasks[i].id = tasks[j].id => i = j
    /\ i < j /\ ContextOf(tasks[i].id) = ContextOf(tasks[j].id)
         => SeqOf(tasks[i].id) < SeqOf(tasks[j].id)
    /\ \A k \in DOMAIN tasks[i].pred : \E h \in 1..(i - 1) : tasks[h].id = tasks[i].pred[k]

TaskGraphInit ==
  /\ file \in Files
  /\ nextTask = 0
  /\ current = 0

\* getNextTask: the next position of the index.
GetNextTask ==
  /\ nextTask < Len(Tasks)
  /\ nextTask' = nextTask + 1
  /\ current' = nextTask + 1
  /\ UNCHANGED file
==============================================================================
