------------------------------ MODULE OooBuffers ------------------------------
(***************************************************************************)
(* The out-of-order window: reservation station, reorder buffer, load,     *)
(* store and line fill buffer, and the queues of memory accesses that wait *)
(* for a place in the last three.  Of the record m these operators use     *)
(*   cycle, remaining   InstructionFetchCycle, RemainingInstructionsFetch  *)
(*   rs, rob, sb, lfb   the cycles at which an entry leaves; only rob is a *)
(*                      queue, the others are kept sorted                  *)
(*   lb, toLoad         LoadBufferCompletionCyclesTree and                 *)
(*                      DispatchToLoadBufferQueueTree                      *)
(*   toStore, toLfb     the other two queues: [issue, completion]          *)
(*   minLoad, maxToLoad MinLoadBuffer, MaxDispatchToLoadBufferQueueTree    *)
(*   fault              an element past the end of a vector was read       *)
(***************************************************************************)
EXTENDS ExecutionUnits, SplayTree
LOCAL INSTANCE SequencesExt

CONSTANTS
  ReservationStationSize, ReorderBufferSize, LoadBufferSize, StoreBufferSize,
  LineFillBufferSize,           \* 0: without a limit
  InstructionFetchBandwidth     \* or INF

Later(s, c) == SelectSeq(s, LAMBDA e : e > c)
Incomplete(s, c) == SelectSeq(s, LAMBDA e : e.completion > c)
Enter(s, c) == SelectSeq(s, LAMBDA e : e <= c) \o <<c>> \o Later(s, c)
Fill(s, q) == LET f[k \in 0..Len(q)] == IF k = 0 THEN s ELSE Enter(f[k - 1], q[k].completion)
              IN  f[Len(q)]

Full(s, size) == size > 0 /\ Len(s) = size
LoadBufferFull(m) == LoadBufferSize > 0 /\ Size(m.lb) = LoadBufferSize

\* The search for c stops at a later load when there is nothing between: earlier loads to
\* its left are then left in the buffer.
RECURSIVE RemoveFromLoadBufferTree(_, _), RemoveRoots(_, _, _)
RemoveRoots(m, c, s) ==
  IF s = Null \/ (s # Null /\ Key(s) > c) THEN [m EXCEPT !.lb = s]
  ELSE RemoveFromLoadBufferTree(
         [m EXCEPT !.lb = Right(s),
                   !.minLoad = IF c >= @ /\ Right(s) # Null THEN MinKey(Right(s)) ELSE @], c)
RemoveFromLoadBufferTree(m, c) == RemoveRoots(m, c, Splay(c, m.lb))

RemoveFromReorderBuffer(rob, c) ==
  LET waits == {i \in DOMAIN rob : rob[i] > c}
  IN  IF waits = {} THEN <<>> ELSE SubSeq(rob, Least(waits), Len(rob))

RemoveCompleted(m) ==
  RemoveFromLoadBufferTree(
    [m EXCEPT !.rs = Later(@, m.cycle), !.rob = RemoveFromReorderBuffer(@, m.cycle),
              !.sb = Later(@, m.cycle), !.lfb = Later(@, m.cycle),
              !.toStore = Incomplete(@, m.cycle), !.toLfb = Incomplete(@, m.cycle)],
    m.cycle)

\* Loads that have their place by now.  They are deleted by key, in the order they were
\* found in: of two with the same key, whichever the search finds.
DispatchLoad(m, n) ==
  [m EXCEPT !.lb = InsertAgain([key |-> n.key], @),
            !.minLoad = IF m.lb = Null THEN n.key ELSE Least({@, n.key}),
            !.toLoad = Delete(n.key, @)]
DispatchToLoadBufferTree(m) ==
  FoldLeft(DispatchLoad, m,
           SelectSeq(InOrder(m.toLoad), LAMBDA n : n.issue <= m.cycle /\ n.issue # 0))

\* Stores and fills that issue in this very cycle.
DispatchToBuffers(m) ==
  LET now(q) == SelectSeq(q, LAMBDA e : e.issue = m.cycle)
      other(q) == SelectSeq(q, LAMBDA e : e.issue # m.cycle)
  IN  [m EXCEPT !.sb = Fill(@, now(m.toStore)), !.toStore = other(@),
                !.lfb = Fill(@, now(m.toLfb)), !.toLfb = other(@)]

UpdateBuffers(m) == DispatchToBuffers(DispatchToLoadBufferTree(RemoveCompleted(m)))
-------------------------------------------------------------------------------
\* Fetch waits from the cycle after from until m.cycle.
Stalled(m, stall, from) ==
  IF m.cycle <= from + 1 THEN m
  ELSE GetTreeChunk(
         [m EXCEPT !.full = @ \cup ((from + 1)..(m.cycle - 1)) \X {stall},
                   !.count[stall] = @ + m.cycle - from - 1,
                   !.first[stall] = IF @ = 0 THEN from + 1 ELSE @,
                   !.last[stall] = m.cycle - 1], m.cycle - 1)

WaitForReservationStation(m, from) ==
  IF Full(m.rs, ReservationStationSize) THEN Stalled([m EXCEPT !.cycle = m.rs[1]], "RS_STALL", from)
  ELSE m
WaitForReorderBuffer(m, from) ==
  IF Full(m.rob, ReorderBufferSize)
  THEN Stalled([m EXCEPT !.cycle = Most({@, m.rob[1]})], "ROB_STALL", from)
  ELSE m

WindowFull(m) == Full(m.rob, ReorderBufferSize) \/ Full(m.rs, ReservationStationSize)
AfterTheWait(m) ==
  IF WindowFull(m) THEN [UpdateBuffers(m) EXCEPT !.remaining = InstructionFetchBandwidth] ELSE m

NextCycle(m, emptyBuffers) ==
  LET spent == m.remaining = 0 /\ InstructionFetchBandwidth # INF
  IN  [m EXCEPT !.cycle = IF emptyBuffers \/ spent THEN @ + 1 ELSE @,
                !.remaining = IF spent /\ ~ emptyBuffers THEN InstructionFetchBandwidth ELSE @]

\* While accesses wait for a buffer, the cycle before is one of its stalls; the chunk of that
\* cycle is not created.
QueueStall(m, stall, waiting) ==
  LET c == m.cycle - 1 IN
  CASE ~ waiting -> m
    [] waiting /\ Chunk(c) >= m.chunks -> [m EXCEPT !.fault = TRUE]
    [] OTHER -> [MarkFull(m, c, stall) EXCEPT
                   !.count[stall] = @ + 1, !.last[stall] = c,
                   !.first[stall] = IF m.count[stall] = 0 THEN c ELSE @]
QueueStalls(m, from) ==
  IF m.cycle = from THEN m
  ELSE QueueStall(QueueStall(QueueStall(m, "LFB_STALL", m.toLfb # <<>>),
                             "LB_STALL", m.toLoad # Null), "SB_STALL", m.toStore # <<>>)

IncreaseInstructionFetchCycle(m, emptyBuffers) ==
  QueueStalls(
    NextCycle(AfterTheWait(WaitForReorderBuffer(WaitForReservationStation(
                UpdateBuffers(m), m.cycle), m.cycle)), emptyBuffers),
    m.cycle)

MustWait(m) == m.remaining = 0 \/ WindowFull(m)

RECURSIVE Fetch(_), Drain(_)
Fetch(m) == IF MustWait(m) /\ ~ m.fault THEN Fetch(IncreaseInstructionFetchCycle(m, FALSE)) ELSE m

\* At the end of a task.  Loads are not waited for: their buffer is a tree now, and it is the
\* vector of before that is asked.
Drain(m) ==
  IF m.fault \/ (m.rs = <<>> /\ m.rob = <<>> /\ m.sb = <<>> /\ m.lfb = <<>>) THEN m
  ELSE Drain(IncreaseInstructionFetchCycle(m, TRUE))
-------------------------------------------------------------------------------
\* The cycle at which the store or line fill buffer has a place for an access behind those in
\* its queue; PastTheEnd when no such entry exists.
PastTheEnd == -1
FindIssueCycleWhenBufferIsFull(buffer, queue, size) ==
  CASE queue = <<>> -> buffer[1]
    [] queue # <<>> /\ Len(queue) >= size ->
         Least({queue[i].completion : i \in (Len(queue) + 1 - size)..Len(queue)})
    [] OTHER -> IF Len(queue) < Len(buffer) THEN buffer[Len(queue) + 1] ELSE PastTheEnd

\* The walk towards k in a tree: the key of the node it ends at.
RECURSIVE Closest(_, _)
Closest(k, t) ==
  CASE k < Key(t) /\ Left(t) # Null /\ Key(Left(t)) >= k -> Closest(k, Left(t))
    [] k > Key(t) /\ Right(t) # Null -> Closest(k, Right(t))
    [] OTHER -> Key(t)

LoadSlotAfter(e, lb, toLoad) ==
  LET before == IF Left(lb) # Null THEN Size(Left(lb)) + (IF Key(lb) <= e THEN 1 ELSE 0)
                ELSE IF Key(lb) = e THEN 1 ELSE 0
      after == CASE Key(toLoad) > e -> Size(toLoad)
                 [] Key(toLoad) <= e /\ Right(toLoad) # Null -> Size(Right(toLoad))
                 [] OTHER -> 1
      queued == Closest(e + 1, toLoad)
      held == Closest(e + 1, lb)
  IN  IF before # after THEN e      \* before - after > 0, and both are unsigned
      ELSE IF held > e + 1 THEN Least({held, queued}) ELSE queued

\* <<the cycle, m with its trees splayed>>
LoadSlotIn(m, e) == <<LoadSlotAfter(e, m.lb, m.toLoad), m>>
FindIssueCycleWhenLoadBufferTreeIsFull(m) ==
  IF m.toLoad = Null THEN <<m.minLoad, m>>
  ELSE LoadSlotIn([m EXCEPT !.lb = Splay(m.maxToLoad, @), !.toLoad = Splay(m.maxToLoad, @)],
                  m.maxToLoad)
===============================================================================
