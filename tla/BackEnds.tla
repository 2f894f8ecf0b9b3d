------------------------------- MODULE BackEnds -------------------------------
(***************************************************************************)
(* Two back ends over the same task graph.  Each is a program that reads   *)
(* the file alone; they are stepped together, so that every order of tasks *)
(* and memory operations is tried on both, and what they say is compared   *)
(* with the history of the operations, which is what the file holds.       *)
(***************************************************************************)
EXTENDS RaceDetector, CommTracker

CONSTANTS
  Op,       \* the memory operations a task may hold
  MaxOps    \* the bound: operations in a file

VARIABLE log    \* history: the operations that have been read

backEndsVars == <<fileVars, raceVars, commVars, log>>

Operation == [type : {"read", "write", "malloc", "free"}, addr : Byte, size : Nat]

ASSUME BackEndsAssumption ==
  /\ Op \subseteq Operation
  /\ MaxOps \in Nat
  /\ IntBits \in Nat \ {0}
  /\ Byte \subseteq Nat
  /\ \A f \in Files :
       /\ f.tasks \in Seq([id : TaskId, pred : Seq(TaskId)])
       /\ WellFormed(f.tasks)

BackEndsInit == TaskGraphInit /\ RaceInit /\ CommInit /\ log = <<>>

\* readContechTask.
ReadTask ==
  /\ GetNextTask
  /\ IF stopped THEN UNCHANGED raceVars ELSE RaceTask(nextTask + 1)
  /\ UNCHANGED <<commVars, log>>

\* The size of the block at addr, from the operations before the k-th.
AllocatedSize(addr, k) ==
  LET marks == {m \in 1..(k - 1) : log[m].addr = addr /\ log[m].type \in {"malloc", "free"}}
  IN  IF marks = {} \/ log[Largest(marks)].type = "free" THEN 0 ELSE log[Largest(marks)].size

\* The next memory operation of the task that is being analysed, of a program that
\* allocates what is free and frees what it has allocated.
MemoryOp(op) ==
  LET at == Len(log) + 1
      size == IF op.type = "free" THEN AllocatedSize(op.addr, at) ELSE op.size
  IN  /\ current # 0 /\ Len(log) < MaxOps
      /\ op.type = "malloc" => AllocatedSize(op.addr, at) = 0
      /\ op.type = "free" => size # 0
      /\ IF stopped THEN UNCHANGED raceVars ELSE RaceOp(Id(current), op, at)
      /\ CommOp(Id(current), op)
      /\ log' = Append(log, [task |-> current, type |-> op.type, addr |-> op.addr,
                             size |-> size, roi |-> inROI /\ ~stopped])
      /\ UNCHANGED fileVars

BackEndsNext == ReadTask \/ \E op \in Op : MemoryOp(op)

BackEndsSpec == BackEndsInit /\ [][BackEndsNext]_backEndsVars

-------------------------------------------------------------------------------
(* The history. *)

Touches(k, b) == b \in Bytes(log[k].addr, log[k].size)
Accesses(k, b) == log[k].type \in {"read", "write"} /\ Touches(k, b)
FreesByte(k, b) == log[k].type = "free" /\ Touches(k, b)

\* No free of b from the i-th operation up to, not including, the j-th.
SameBlock(i, j, b) == \A k \in i..(j - 1) : ~FreesByte(k, b)

\* No task frees b after its own access: such a free does not reset what the detector
\* remembers of b (heltech.cpp:220), and races of the next block are lost or invented.
FreedByOthers(b) ==
  \A f \in DOMAIN log : FreesByte(f, b) =>
    ~ \E k \in 1..(f - 1) :
        Accesses(k, b) /\ log[k].task = log[f].task /\ SameBlock(k, f, b)

-------------------------------------------------------------------------------
(* Properties. *)

\* hbPathCheck answers for the task being analysed and every task before it whether
\* there is a path in the graph, although a clock names the last predecessor of a
\* context first and a clock is dropped when its last successor has been read; and the
\* clocks kept are those of the tasks with a successor to come, or with none at all
\* (updateVecClock, heltech.cpp:57).
HbExact ==
  current # 0 /\ ~stopped =>
    /\ \A j \in 1..(current - 1) : HbPathCheck(Id(j), Id(current)) <=> j \in Before[current]
    /\ DOMAIN vecClock =
         {Id(j) : j \in {k \in 1..nextTask :
            SuccCount(Id(k)) = 0 \/ \E m \in (nextTask + 1)..Len(Tasks) : Id(k) \in PredIds(m)}}

\* A write in the region of interest and a later access of the same allocation, in tasks
\* no path connects, are never both passed over: some race on the byte has been reported,
\* although one access of the byte is remembered only (heltech.cpp:265).  A read before a
\* write may be passed over.
WriteRaceCaught ==
  \A b \in Byte : FreedByOthers(b) =>
    \A i, j \in DOMAIN log :
      /\ i < j /\ Accesses(i, b) /\ Accesses(j, b) /\ log[i].type = "write"
      /\ log[i].roi /\ log[j].roi
      /\ Unordered(log[i].task, log[j].task) /\ SameBlock(i, j, b)
      => \E r \in races : r.byte = b /\ r.at <= j /\ SameBlock(r.at, j, b)

\* Every race that is reported is one: the two tasks access the byte in one allocation,
\* one of them writes or frees it after a write, and no path connects them.
RacesReal ==
  \A r \in races : FreedByOthers(r.byte) =>
    \E i \in 1..(r.at - 1) :
      /\ Accesses(i, r.byte) /\ Touches(r.at, r.byte) /\ SameBlock(i, r.at, r.byte)
      /\ Id(log[i].task) = r.from /\ Id(log[r.at].task) = r.to
      /\ "write" \in {log[i].type, log[r.at].type}
      /\ Unordered(log[i].task, log[r.at].task)

\* Both, of every byte that only others free: what hel_tech reports are the write races.
RacesExact == WriteRaceCaught /\ RacesReal

\* What a context communicates: the writer whose byte the k-th operation reads, 0:0 when
\* nobody has written it since it was freed.
LastWriter(k, b) ==
  LET marks == {m \in 1..(k - 1) : Touches(m, b) /\ log[m].type # "read"}
      m == Largest(marks)
  IN  IF marks = {} \/ log[Largest(marks)].type = "free"
        THEN [at |-> IF marks = {} THEN 0 ELSE m, tid |-> <<0, 0>>]
        ELSE [at |-> m, tid |-> Id(log[m].task)]

FirstReads ==
  {p \in (DOMAIN log) \X Byte :
     LET k == p[1]  b == p[2]  c == ContextOf(Id(log[k].task))  w == LastWriter(k, b)
     IN  /\ log[k].type = "read" /\ Touches(k, b) /\ ContextOf(w.tid) # c
         /\ \A m \in (w.at + 1)..(k - 1) :
              ~(log[m].type = "read" /\ Touches(m, b) /\ ContextOf(Id(log[m].task)) = c)}

RecordOf(p) == [sender |-> LastWriter(p[1], p[2]).tid, address |-> p[2],
                receiver |-> Id(log[p[1]].task)]

\* There is one record for each first read by a context of what another context wrote
\* last, and no other: a write takes the byte from all that had it, a free forgets its
\* writer (CommTracker.cpp:40, 74, 10).
CommunicationsExact ==
  \A r \in {records[k] : k \in DOMAIN records} \cup {RecordOf(p) : p \in FirstReads} :
    Cardinality({k \in DOMAIN records : records[k] = r})
      = Cardinality({p \in FirstReads : RecordOf(p) = r})
==============================================================================
