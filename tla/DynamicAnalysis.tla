---------------------------- MODULE DynamicAnalysis ----------------------------
(***************************************************************************)
(* The dynamic analysis of a task graph: for every instruction of the      *)
(* blocks of a context's tasks, in their order, the cycle at which it      *)
(* would issue on a processor with limited units and buffers.  At the end  *)
(* of a task the spans are reported and all starts anew but for what is    *)
(* known of the caches.  An action is one instruction.                     *)
(***************************************************************************)
EXTENDS OooBuffers

CONSTANTS
  Instruction,      \* id -> [op, unit, users, args]; users: the ids that use its value
  Blocks,           \* sequences of ids
  Addresses, CacheLineSize,
  L1CacheSize, L2CacheSize, LLCCacheSize,   \* lines; 0: no such cache, or no limit
  Dice,             \* what the dice may say, {FALSE} when no communication is assumed
  MaxInstructions   \* the bound of a behaviour

VARIABLES m,            \* the units and buffers: see ExecutionUnits and OooBuffers
          values,       \* InstructionValueIssueCycleMap
          lines,        \* CacheLineIssueCycleMap: line -> [LastAccess, IssueCycle]
          addresses,    \* MemoryAddressIssueCycleMap
          reuse,        \* ReuseTree
          counters,     \* [total, instOffset, cycleOffset], and executed: all there were, for the bound
          ahead,        \* the rest of the block
          phase         \* "run", or "report" at the end of a task

caches == <<lines, reuse>>
analysisVars == <<m, values, lines, addresses, reuse, counters, ahead, phase>>

\* What resetAnalysis leaves and Init starts with.
Fresh ==
  [cycle |-> 0, remaining |-> InstructionFetchBandwidth,
   rs |-> <<>>, rob |-> <<>>, sb |-> <<>>, lfb |-> <<>>, lb |-> Null,
   toLoad |-> Null, toStore |-> <<>>, toLfb |-> <<>>, minLoad |-> 0, maxToLoad |-> 0,
   avail |-> [u \in Unit |-> <<>>], full |-> {}, chunks |-> 0,
   count |-> [r \in Unit \cup Stall |-> 0], first |-> [r \in Unit \cup Stall |-> 0],
   last |-> [r \in Unit \cup Stall |-> 0], lastLoad |-> 0, lastStore |-> 0,
   asked |-> <<"none", 0>>, fault |-> FALSE]
NoValues == [i \in DOMAIN Instruction |-> 0]

AnalysisInit ==
  /\ m = Fresh /\ values = NoValues
  /\ lines = <<>> /\ addresses = <<>> /\ reuse = Null
  /\ counters = [total |-> 0, instOffset |-> 0, cycleOffset |-> 0, executed |-> 0]
  /\ ahead = <<>> /\ phase = "run"

Running == phase = "run" /\ ~ m.fault
-------------------------------------------------------------------------------
(* How many other lines were accessed since a line was last: the tree has  *)
(* one node for each line, keyed by the time of its last access, and the   *)
(* distance decides which memory an access is taken to reach.              *)

RoundUp(d) == IF d <= 0 THEN d ELSE Least({2^k : k \in 0..d} \ 0..(d - 1))

\* Down from the root, adding what lies to the right.
RECURSIVE CountFrom(_, _)
CountFrom(last, t) ==
  CASE last < Key(t) /\ Left(t) = Null -> Size(Right(t))
    [] last < Key(t) /\ Left(t) # Null -> Size(Right(t)) + 1 + CountFrom(last, Left(t))
    [] last > Key(t) /\ Right(t) = Null -> 0
    [] last > Key(t) /\ Right(t) # Null -> CountFrom(last, Right(t))
    [] OTHER -> Size(Right(t)) + 1

\* The first access of a line has none before it: last is 0.
ReuseTreeSearch(last, t) == IF last = 0 \/ t = Null THEN -1 ELSE CountFrom(last, t)

\* Mutant: the node of the access before stays.
ReuseTreeKeeps(last, line, t) == t

ReuseTreeDelete(last, line, t) ==
  IF last # 0 /\ [key |-> last, address |-> line] \in {InOrder(t)[i] : i \in DOMAIN InOrder(t)}
  THEN Delete(last, t) ELSE t

\* <<the distance, the tree with the access now>>
ReuseOf(last, now, line, t) ==
  IF L1CacheSize = 0 THEN <<-1, Insert([key |-> line, address |-> line], t)>>
  ELSE <<RoundUp(ReuseTreeSearch(last, t)),
         Insert([key |-> now, address |-> line], ReuseTreeDelete(last, line, t))>>

\* GetExtendedInstructionType of a load or store: the level it reaches, or "none" (a fatal
\* error) if no cache is large enough and the last one has no limit.  The dice decide whether
\* another core is taken to have the line.
LevelOf(distance, communicated) ==
  CASE distance < 0 /\ L1CacheSize = 0 -> "L1"
    [] (distance < 0 /\ L1CacheSize # 0) \/ (distance > LLCCacheSize /\ LLCCacheSize # 0) ->
         IF communicated THEN "L3" ELSE "MEM"
    [] 0 <= distance /\ distance <= L1CacheSize -> IF communicated THEN "L3" ELSE "L1"
    [] L1CacheSize < distance /\ distance <= L2CacheSize /\ L2CacheSize # 0 ->
         IF communicated THEN "L3" ELSE "L2"
    [] L2CacheSize < distance /\ distance <= LLCCacheSize /\ LLCCacheSize # 0 -> "L3"
    [] OTHER -> "none"
-------------------------------------------------------------------------------
\* The users of a value may issue from cycle c on.  A PHI takes the last of its values.
Feed(vals, users, c, phis) ==
  [i \in DOMAIN vals |->
     CASE i \notin users -> vals[i]
       [] i \in users /\ phis /\ Instruction[i].op = "PHI" -> c
       [] OTHER -> Most({vals[i], c})]

\* Where i is an argument of a call: the uses of the parameter.
ArgumentUsers(i) ==
  UNION {arg.users : arg \in UNION {{x \in Instruction[c].args : x.of = i} :
                                      c \in {u \in Instruction[i].users : Instruction[u].op = "Call"}}}

\* A value is forgotten when it is read: the next execution starts from what it is fed since.
Read(i) == [values EXCEPT ![i] = 0]
Pass(vals, i, c) ==
  Feed(Feed(vals, Instruction[i].users, c, TRUE), ArgumentUsers(i), c, FALSE)

\* Control flow and what is not modelled by a unit: no cycle is taken, dependences are kept.
Control(i) ==
  LET op == Instruction[i].op
      issue == Most({m.cycle, values[i]})
  IN  /\ op \in {"Br", "PHI", "Call", "Ret", "Other"}
      /\ values' = Feed(Read(i), Instruction[i].users, IF op = "Br" THEN issue + 1 ELSE issue, op = "PHI")
      /\ UNCHANGED <<m, caches, addresses>>
-------------------------------------------------------------------------------
\* An instruction takes its place in the window; access: the level a load or store reaches.
EnterLineFillBuffer(t, issue, done) ==
  IF Full(t.lfb, LineFillBufferSize) \/ t.toLfb # <<>>
  THEN [t EXCEPT !.toLfb = Append(@, [issue |-> issue, completion |-> done])]
  ELSE [t EXCEPT !.lfb = Enter(@, done)]

QueueLoad(slot, t, done) ==
  [t EXCEPT !.rs = Enter(@, slot),
            !.maxToLoad = IF t.toLoad = Null THEN slot ELSE Most({@, slot}),
            !.toLoad = InsertAgain([key |-> done, issue |-> slot], @)]
HoldLoad(t, done) ==
  [t EXCEPT !.minLoad = IF t.lb = Null THEN done ELSE Least({@, done}),
            !.lb = InsertAgain([key |-> done], @)]
LoadEntered(t, found, done) ==
  IF LoadBufferFull(t) THEN QueueLoad(found[1], found[2], done) ELSE HoldLoad(t, done)
EnterLoadBuffer(t, level, issue, done) ==
  LET entered == LoadEntered(t, FindIssueCycleWhenLoadBufferTreeIsFull(t), done)
  IN  IF level # "L1" /\ LineFillBufferSize > 0 THEN EnterLineFillBuffer(entered, issue, done)
      ELSE entered

EnterStoreBuffer(t, issue, done) ==
  IF Full(t.sb, StoreBufferSize)
  THEN [t EXCEPT !.rs = Enter(@, FindIssueCycleWhenBufferIsFull(t.sb, t.toStore, StoreBufferSize)),
                 !.toStore = Append(@, [issue |-> issue, completion |-> done])]
  ELSE [t EXCEPT !.sb = Enter(@, done)]

EnterReservationStation(t, issue) ==
  IF ReservationStationSize > 0 THEN [t EXCEPT !.rs = Enter(@, issue)] ELSE t

EnterWindow(t, op, level, issue, done) ==
  LET fetched == [t EXCEPT !.remaining = IF @ > 0 THEN @ - 1 ELSE @]
      placed == CASE op = "Load" /\ LoadBufferSize > 0 -> EnterLoadBuffer(fetched, level, issue, done)
                  [] op = "Store" /\ StoreBufferSize > 0 -> EnterStoreBuffer(fetched, issue, done)
                  [] OTHER -> EnterReservationStation(fetched, issue)
  IN  IF ReorderBufferSize > 0 THEN [placed EXCEPT !.rob = Append(@, done)] ELSE placed

\* An instruction that issues at found[1], and the units and buffers after it.
Issued(found, op, level, latency) ==
  IF found[2].fault THEN found[2]
  ELSE EnterWindow(found[2], op, level, found[1], found[1] + latency)

IssueCompute(t, i) ==
  IF t.fault THEN <<0, t>>
  ELSE FindNextAvailableIssueCyclePortAndThroughtput(
         t, Most({t.cycle, values[i]}), Instruction[i].unit)
Compute(i) ==
  /\ Instruction[i].op = "Compute"
  /\ \E found \in {IssueCompute(Fetch(m), i)} :
       /\ m' = Issued(found, "Compute", "none", Latency[Instruction[i].unit])
       /\ values' = Pass(Read(i), i, found[1] + Latency[Instruction[i].unit])
  /\ UNCHANGED <<caches, addresses>>
-------------------------------------------------------------------------------
LineOfAddress(a) == a \div CacheLineSize
LineInfo(l) == IF l \in DOMAIN lines THEN lines[l] ELSE [access |-> 0, issue |-> 0]
Now == counters.total + 1 + counters.instOffset

\* Cycles kept over tasks count from the first; here from the start of this one.
ThisTask(c) == IF c < counters.cycleOffset THEN 0 ELSE c - counters.cycleOffset

Channel(op, level) ==
  IF level # "L1" THEN level ELSE IF op = "Load" THEN "L1_LOAD" ELSE "L1_STORE"

\* A load is behind what fills its line and its address, behind the loads before it, and
\* behind the entries that must leave the buffers it needs.
LineFillSlot(t, level) ==
  IF /\ level # "L1" /\ LoadBufferSize > 0
     /\ Full(t.lfb, LineFillBufferSize)
        \/ (LineFillBufferSize > 0 /\ ~ LoadBufferFull(t) /\ t.toLfb # <<>>)
  THEN FindIssueCycleWhenBufferIsFull(t.lfb, t.toLfb, LineFillBufferSize) ELSE 0
LoadSlot(t) ==
  IF LoadBufferFull(t) THEN FindIssueCycleWhenLoadBufferTreeIsFull(t) ELSE <<0, t>>
ReadyToLoad(t, slot, fill, a) ==
  Most({t.cycle, slot, fill, t.lastLoad, ThisTask(LineInfo(LineOfAddress(a)).issue),
        IF a \in DOMAIN addresses THEN ThisTask(addresses[a]) ELSE 0})
Loaded(found, fill) ==
  <<found[1], [found[2] EXCEPT !.lastLoad = found[1], !.fault = @ \/ fill = PastTheEnd]>>
LoadFrom(t, slot, fill, a, level) ==
  Loaded(IssueMemory(slot[2], ReadyToLoad(t, slot[1], fill, a), Channel("Load", level)), fill)
IssueLoad(t, a, level) == LoadFrom(t, LoadSlot(t), LineFillSlot(t, level), a, level)

\* A store is behind its value, the fill of its line, and the loads and stores before it.  A
\* place in the line fill buffer is looked for, but not waited for.
StoreSlot(t) ==
  IF Full(t.sb, StoreBufferSize)
  THEN FindIssueCycleWhenBufferIsFull(t.sb, t.toStore, StoreBufferSize) ELSE 0
ReadyToStore(t, i, a) ==
  Most({t.cycle, StoreSlot(t), values[i], ThisTask(LineInfo(LineOfAddress(a)).issue),
        t.lastStore, t.lastLoad})
Stored(found) == <<found[1], [found[2] EXCEPT !.lastStore = found[1]]>>
IssueStore(t, i, a, level) ==
  Stored(IssueMemory(t, ReadyToStore(t, i, a), Channel("Store", level)))

\* A line that had to be fetched can be accessed again when it is there, not before.
Accessed(a, level, u, done) ==
  LET info == LineInfo(LineOfAddress(a))
      slow == level # "L1" /\ Latency[u] > Latency["L1_LOAD"]
      there == done + counters.cycleOffset
  IN  /\ lines' = Put(lines, LineOfAddress(a),
                      [access |-> Now, issue |-> IF slow THEN Most({info.issue, there}) ELSE info.issue])
      /\ addresses' = IF slow THEN Put(addresses, a, there) ELSE addresses

IssueAccess(t, i, a, level) ==
  CASE t.fault -> <<0, t>>
    [] ~ t.fault /\ Instruction[i].op = "Load" -> IssueLoad(t, a, level)
    [] OTHER -> IssueStore(t, i, a, level)

AccessLevel(i, a, level) ==
  LET op == Instruction[i].op
      u == Channel(op, level)
  IN  \E found \in {IssueAccess(Fetch(m), i, a, level)} :
        /\ m' = Issued(found, op, level, Latency[u])
        /\ values' = Pass(IF op = "Store" THEN Read(i) ELSE values, i, found[1] + Latency[u])
        /\ Accessed(a, level, u, found[1] + Latency[u])

Access(i, a, communicated) ==
  /\ Instruction[i].op \in {"Load", "Store"}
  /\ \E reused \in {ReuseOf(LineInfo(LineOfAddress(a)).access, Now, LineOfAddress(a), reuse)} :
       /\ reuse' = reused[2]
       /\ LevelOf(reused[1], communicated) # "none"
       /\ AccessLevel(i, a, LevelOf(reused[1], communicated))
-------------------------------------------------------------------------------
\* The blocks of a task, in any order the program may take.
NextBlock(b) ==
  /\ Running /\ ahead = <<>>
  /\ counters.executed + Len(b) <= MaxInstructions
  /\ ahead' = b
  /\ UNCHANGED <<m, values, caches, addresses, counters, phase>>

analyzeInstruction(i) ==
  /\ Running /\ ahead # <<>> /\ i = Head(ahead)
  /\ Control(i) \/ Compute(i) \/ \E a \in Addresses, communicated \in Dice : Access(i, a, communicated)
  /\ ahead' = Tail(ahead)
  /\ counters' = [counters EXCEPT !.total = @ + 1, !.executed = @ + 1]
  /\ UNCHANGED phase

\* The end of a task: the buffers are drained, and the spans can be computed.
finishAnalysis ==
  /\ Running /\ ahead = <<>> /\ counters.total > 0
  /\ m' = Drain(m) /\ phase' = "report"
  /\ UNCHANGED <<values, caches, addresses, counters, ahead>>

\* Lines and reuse tree are kept.  Time goes on, with a distance that no memory latency spans.
resetAnalysis ==
  /\ phase = "report" /\ ~ m.fault
  /\ m' = Fresh /\ values' = NoValues /\ addresses' = <<>> /\ phase' = "run"
  /\ counters' = [counters EXCEPT
                     !.total = 0, !.instOffset = @ + counters.total + 2 * Latency["MEM"],
                     !.cycleOffset = @ + 2 * Latency["MEM"] + Most({m.lastLoad, m.lastStore})]
  /\ UNCHANGED <<caches, ahead>>

AnalysisFinished ==
  Running /\ ahead = <<>> /\ \A b \in Blocks : counters.executed + Len(b) > MaxInstructions

AnalysisNext ==
  \/ \E b \in Blocks : NextBlock(b)
  \/ \E i \in DOMAIN Instruction : analyzeInstruction(i)
  \/ finishAnalysis
  \/ resetAnalysis
-------------------------------------------------------------------------------
\* Issues a level of unit u takes before it is full.
Capacity ==
  [u \in {v \in Unit : Throughput[v] # Infinite} |->
     LET atLeast[n \in Nat] == IF LevelGotFull(u, n) THEN n ELSE atLeast[n + 1] IN atLeast[1]]
Room(u, n) == Throughput[u] = Infinite \/ n < Capacity[u]
IssuesOf(u) ==
  [c \in {f[1] : f \in {g \in m.full : g[2] = u}} \cup {d \in DOMAIN m.avail[u] : m.avail[u][d] > 0} |->
     IF <<c, u>> \in m.full THEN Capacity[u] ELSE m.avail[u][c]]

Slots == INSTANCE IssueSlots
           WITH issued <- [u \in Unit |-> IssuesOf(u)], asked <- m.asked, Distance <- Granularity

\* The trees of available levels and the chunks of full ones, with their search for a level that
\* takes an instruction (InsertNextAvailableIssueCycle and the five functions before it), are
\* an implementation of issue slots: no earlier level with room is missed, no full one taken,
\* and none whose issue another's would overlap.
ImplementsIssueSlots == Slots!Spec

\* Deletions and insertions of analyzeInstruction (2905-3000), over tasks and resets, keep one
\* node of the reuse tree for each line that was accessed, at the time of its last access, so
\* that a search counts the lines accessed since.
ReuseExact ==
  LET nodes == InOrder(reuse)
      Since(t) == Cardinality({l \in DOMAIN lines : lines[l].access >= t})
  IN  L1CacheSize > 0 =>
        /\ Len(nodes) = Cardinality(DOMAIN lines)
        /\ \A l \in DOMAIN lines :
             /\ \E k \in DOMAIN nodes : nodes[k] = [key |-> lines[l].access, address |-> l]
             /\ ReuseTreeSearch(lines[l].access, reuse) = Since(lines[l].access)

\* When finishAnalysis has emptied the buffers no access is left in them or waits for one,
\* though the drain does not ask for loads, and none of its fatal errors and assertions can
\* fire: the spans of a stall, computed in three ways, agree (837), the overlaps are at most
\* one (1056-1474) and the breakdown of each unit's time matches (1652) with no negative part.
\* No span reaches past the total one.
ReportHolds ==
  phase = "report" /\ ~ m.fault =>
    /\ m.lb = Null /\ m.toLoad = Null /\ m.toStore = <<>> /\ m.toLfb = <<>>
    /\ SpansOfStallsAgree(m) /\ BitsAgree(m) /\ OverlapsAtMostOne(m) /\ BreakdownMatches(m)
    /\ \A s \in Stall : \A c \in Levels(m, s) : c < TotalSpan(m)
===============================================================================
