---------------------------- MODULE ExecutionUnits ----------------------------
(***************************************************************************)
(* The levels (cycles) of the execution units: which are full, which still *)
(* take instructions, and the search for the first one that does.  The     *)
(* analysis keeps all this in a record m, of which these operators read    *)
(* and change                                                              *)
(*   avail   the nodes of AvailableCyclesTree of a unit, and their issues  *)
(*   full    FullOccupancyCyclesTree: pairs of a cycle and a unit or stall *)
(*   chunks  how many chunks of SplitTreeRange cycles that vector has      *)
(*   count, first, last   InstructionsCountExtended, FirstNonEmptyLevel    *)
(*                        and InstructionsLastIssueCycle                   *)
(*   asked   the last request, for the properties                          *)
(***************************************************************************)
EXTENDS Integers, FiniteSets, Functions, TLC

CONSTANTS
  CompUnit, MemUnit,      \* the execution units that compute, the channels of the memories
  GivenThroughput,        \* issues or bytes a cycle of each, a fraction <<n, d>>
  BaseThroughput,         \* ExecutionUnitsBaselineThroughput of the first
  ParallelIssue,          \* issues a cycle, at most; or INF
  AccessGranularity, MemoryWordSize,      \* bytes
  Latency,                \* cycles
  SplitTreeRange

INF == -1
Infinite == <<INF, 1>>
Unit == CompUnit \cup MemUnit
Stall == {"RS_STALL", "ROB_STALL", "LB_STALL", "SB_STALL", "LFB_STALL"}

Most(S) == CHOOSE x \in S : \A y \in S : y <= x
Least(S) == CHOOSE x \in S : \A y \in S : x <= y
CeilDiv(a, b) == (a + b - 1) \div b

roundNextPowerOfTwo(v) == IF v = 0 THEN 0 ELSE Least({2^k : k \in 0..v} \ 0..(v - 1))
roundNextMultiple(v, f) == CeilDiv(v, f) * f

\* What Init makes of the throughput it is given.
AccessWidth ==
  [u \in Unit |-> IF u \in CompUnit THEN 1 ELSE roundNextMultiple(MemoryWordSize, AccessGranularity)]
Throughput == [u \in Unit |->
  LET n == GivenThroughput[u][1] d == GivenThroughput[u][2]
      inverse == CeilDiv(d, n)
      rounded == roundNextPowerOfTwo(inverse)
  IN CASE GivenThroughput[u] = Infinite \/ (u \in CompUnit /\ n < d) -> GivenThroughput[u]
       [] u \in CompUnit /\ n >= d -> <<n \div d, 1>>
       [] u \in MemUnit /\ n < d -> <<1, IF inverse = rounded THEN rounded ELSE rounded \div 2>>
       [] u \in MemUnit /\ d <= n /\ n < AccessWidth[u] * d -> <<roundNextPowerOfTwo(CeilDiv(n, d)), 1>>
       [] OTHER -> <<roundNextMultiple(n \div d, AccessGranularity), 1>>]

\* Cycles an issue takes of its unit.
Granularity ==
  [u \in Unit |-> IF Throughput[u] = Infinite THEN 1
                  ELSE CeilDiv(AccessWidth[u] * Throughput[u][2], Throughput[u][1])]

Chunk(c) == c \div SplitTreeRange
GetTreeChunk(m, c) == [m EXCEPT !.chunks = IF Chunk(c) >= @ THEN Chunk(c) + 1 ELSE @]
ChunkEmpty(m, k) == \A f \in m.full : Chunk(f[1]) # k
MarkFull(m, c, u) == [m EXCEPT !.full = @ \cup {<<c, u>>}]

\* Mutant: a level is tried against the full ones before it, not against those after.
LooksBack(m, c, u) == \A f \in m.full : f[2] = u => f[1] <= c - Granularity[u] \/ c < f[1]

\* Not full, and no full level so near that one's issues take cycles of the other's.
ThereIsAvailableBandwidth(m, c, u) ==
  \A f \in m.full : f[2] = u => f[1] <= c - Granularity[u] \/ c + Granularity[u] <= f[1]

NextAvailable(m, c, u) == Least({k \in DOMAIN m.avail[u] : k > c})

RECURSIVE UntilEnoughBandwidth(_, _, _)
UntilEnoughBandwidth(m, c, u) ==
  IF ThereIsAvailableBandwidth(m, c, u) THEN c
  ELSE UntilEnoughBandwidth(m, NextAvailable(m, c, u), u)

\* In a chunk with nothing in it the search is made once; in the first chunk not at all.
FindNextAvailableIssueCycle(m, c, u) ==
  CASE ~ ChunkEmpty(m, Chunk(c)) -> UntilEnoughBandwidth(m, c, u)
    [] ChunkEmpty(m, Chunk(c)) /\ Chunk(c) = 0 -> c
    [] OTHER -> IF ThereIsAvailableBandwidth(m, c, u) THEN c ELSE NextAvailable(m, c, u)

\* The chunks the search creates on its way: up to the last level it looked at.
LastLookedAt(m, c, u) ==
  IF ~ ChunkEmpty(m, Chunk(c))
  THEN UntilEnoughBandwidth(m, c, u) + Granularity[u] - 1
  ELSE IF Chunk(c) = 0 THEN c ELSE c + Granularity[u] - 1

\* Ports take any number of instructions a cycle, so the first one is always available: the
\* search is repeated until it stays where it is.
RECURSIVE FindCycle(_, _, _)
FindCycle(m, c, u) ==
  LET y == FindNextAvailableIssueCycle(m, c, u) IN IF y = c THEN c ELSE FindCycle(m, y, u)

LevelGotFull(u, issues) ==
  LET n == Throughput[u][1] d == Throughput[u][2] par == ParallelIssue[u]
      width == issues * AccessWidth[u]
  IN  /\ Throughput[u] # Infinite
      /\ \/ par # INF /\ (issues = par \/ width * d = par * n)
         \/ /\ par = INF
            /\ IF u \in CompUnit THEN n * BaseThroughput[u][2] <= width * BaseThroughput[u][1] * d
               ELSE n <= width * d

Put(f, x, v) == (x :> v) @@ f
Cut(f, x) == Restrict(f, DOMAIN f \ {x})

InsertNextAvailableIssueCycle(m, c, u) ==
  LET issues == 1 + IF c \in DOMAIN m.avail[u] THEN m.avail[u][c] ELSE 0
      next == c + Granularity[u]
      opened == <<next, u>> \notin m.full
      counted == [m EXCEPT !.count[u] = @ + 1, !.last[u] = Most({@, c}),
                           !.first[u] = IF m.count[u] = 0 THEN c ELSE Least({@, c})]
      level == Cut(m.avail[u], c)
      nextLevel == IF next \in DOMAIN level \/ ~ opened THEN level ELSE Put(level, next, 0)
  IN  IF ~ LevelGotFull(u, issues) THEN [counted EXCEPT !.avail[u] = Put(level, c, issues)]
      ELSE GetTreeChunk(
             MarkFull([counted EXCEPT !.avail[u] = nextLevel,
                                      !.last[u] = IF opened THEN Most({@, next}) ELSE @], c, u),
             next)

\* The cycle at which an instruction of unit u that is ready at c issues, and m after it: a
\* memory access by one search, a computation by as many as it takes.
IssueAt(m, c, u, y) ==
  LET searched == GetTreeChunk(GetTreeChunk(m, LastLookedAt(m, c, u)), LastLookedAt(m, y, u))
  IN  <<y, InsertNextAvailableIssueCycle([searched EXCEPT !.asked = <<u, c>>], y, u)>>
IssueMemory(m, c, u) == IssueAt(m, c, u, FindNextAvailableIssueCycle(m, c, u))
FindNextAvailableIssueCyclePortAndThroughtput(m, c, u) == IssueAt(m, c, u, FindCycle(m, c, u))

\* A last level that only follows a full one has no issue yet.
GetLastIssueCycle(m, u) ==
  IF m.last[u] \in DOMAIN m.avail[u] /\ m.avail[u][m.last[u]] = 0
  THEN m.last[u] - Granularity[u] ELSE m.last[u]

-------------------------------------------------------------------------------
(* What is reported of the units and stalls at the end of a task: in how   *)
(* many cycles each was busy, alone and with others, and the parts of its  *)
(* time that bandwidth, issue, latency and stalls account for.             *)

LastIssueCycle(m, r) == IF r \in Unit THEN GetLastIssueCycle(m, r) ELSE m.last[r]

\* Available levels are kept where something issued.
ACTFinal(m, r, c) == r \in Unit /\ c \in DOMAIN m.avail[r] /\ m.avail[r][c] # 0
IsEmptyLevelFinal(m, r, c) == ~ ACTFinal(m, r, c) /\ <<c, r>> \notin m.full

\* For how many cycles from its level on an instruction is counted.
SpanLatency(r) == IF r \in Stall THEN 1 ELSE Latency[r]
IssueLatency(r) == IF r \in Stall THEN 1 ELSE Granularity[r]
GroupLatency(r) ==
  CASE r \in Stall -> 1
    [] r \in Unit /\ Throughput[r] = Infinite -> Latency[r]
    [] OTHER -> Most({Latency[r], Granularity[r]})

\* The first level is taken to have an instruction.
Levels(m, r) ==
  IF m.count[r] = 0 THEN {}
  ELSE {c \in m.first[r]..LastIssueCycle(m, r) : c = m.first[r] \/ ~ IsEmptyLevelFinal(m, r, c)}

\* A level adds what it reaches past the dominant one.
Span(m, r, width) ==
  LET levels == Levels(m, r)
      pass[c \in Int] ==      \* the span up to c, and its dominant level
        IF c < m.first[r] THEN <<0, c - width>>
        ELSE LET before == pass[c - 1]
             IN  IF c \notin levels THEN before
                 ELSE <<before[1] + Least({width, c - before[2]}), c>>
  IN  IF m.count[r] = 0 THEN 0 ELSE pass[LastIssueCycle(m, r)][1]

\* The bits of CGSFCache and CISFCache.
Busy(m, r, width) == UNION {c..(c + width - 1) : c \in Levels(m, r)}

CalculateSpanFinal(m, r) == Span(m, r, SpanLatency(r))
CalculateGroupSpanFinal(m, R) ==
  IF Cardinality(R) = 1 THEN Span(m, CHOOSE r \in R : TRUE, GroupLatency(CHOOSE r \in R : TRUE))
  ELSE Cardinality(UNION {Busy(m, r, GroupLatency(r)) : r \in R})
CalculateIssueSpanFinal(m, R) ==
  IF Cardinality(R) = 1 THEN Span(m, CHOOSE r \in R : TRUE, IssueLatency(CHOOSE r \in R : TRUE))
  ELSE Cardinality(UNION {Busy(m, r, IssueLatency(r)) : r \in R})

IssueSpan(m, u) == CalculateIssueSpanFinal(m, {u})
ResourcesSpan(m, r) == IF r \in Stall THEN m.count[r] ELSE CalculateGroupSpanFinal(m, {r})
ResourcesTotalStallSpan(m, u) == CalculateGroupSpanFinal(m, {u} \cup {s \in Stall : m.count[s] # 0})
TotalSpan(m) == Most({0} \cup {LastIssueCycle(m, u) + Latency[u] : u \in {v \in Unit : m.count[v] > 0}})
-------------------------------------------------------------------------------
\* Three computations of a stall's cycles, and the bits, come to the same.
SpansOfStallsAgree(m) ==
  \A s \in Stall :
    /\ m.count[s] = CalculateSpanFinal(m, s)
    /\ m.count[s] = CalculateGroupSpanFinal(m, {s})
BitsAgree(m) ==
  \A r \in Unit \cup Stall :
    /\ Cardinality(Busy(m, r, IssueLatency(r))) = CalculateIssueSpanFinal(m, {r})
    /\ Cardinality(Busy(m, r, GroupLatency(r))) = CalculateGroupSpanFinal(m, {r})

\* Two spans and the span of both: the part they have in common is no more than all of one.
Overlap(total, t1, t2) == total <= t1 + t2 /\ t1 + t2 - total <= Least({t1, t2})

Present(m, R) == {r \in R : m.count[r] # 0 /\ ResourcesSpan(m, r) # 0}
OverlapResourceStall(m) ==
  \A u \in Present(m, Unit), s \in Present(m, Stall) :
    Overlap(CalculateGroupSpanFinal(m, {u, s}), ResourcesSpan(m, u), ResourcesSpan(m, s))
OverlapResourceIssueStall(m) ==
  \A u \in {v \in Unit : m.count[v] # 0}, s \in Present(m, Stall) :
    Overlap(CalculateIssueSpanFinal(m, {u, s}), IssueSpan(m, u), m.count[s])
OverlapResourceResource(m) ==
  \A u, v \in Present(m, Unit) : u # v =>
    Overlap(CalculateGroupSpanFinal(m, {u, v}), ResourcesSpan(m, u), ResourcesSpan(m, v))
OverlapWithStalls(m) ==
  \A u, v \in {w \in Unit : m.count[w] # 0 /\ ResourcesTotalStallSpan(m, w) # 0} : u # v =>
    Overlap(CalculateGroupSpanFinal(m, {u, v} \cup Stall),
            ResourcesTotalStallSpan(m, u), ResourcesTotalStallSpan(m, v))
OverlapStallStall(m) ==
  \A r, s \in Present(m, Stall) : r # s =>
    Overlap(CalculateGroupSpanFinal(m, {r, s}), ResourcesSpan(m, r), ResourcesSpan(m, s))
OverlapsAtMostOne(m) ==
  /\ OverlapResourceStall(m) /\ OverlapResourceIssueStall(m) /\ OverlapResourceResource(m)
  /\ OverlapWithStalls(m) /\ OverlapStallStall(m)

\* Of the execution time of a unit, what its bandwidth asks for at least.
MinExecutionTime(m, u) ==
  LET thr == Throughput[u] par == ParallelIssue[u]
      n == IF thr = Infinite THEN par ELSE IF par = INF THEN thr[1] ELSE thr[1] * par
      bytes == IF u \in CompUnit THEN 1 ELSE AccessGranularity
  IN  CASE m.count[u] = 0 \/ (Latency[u] = 0 /\ n = INF) -> 0
        [] n = INF /\ Latency[u] # 0 -> 1
        [] OTHER -> CeilDiv(m.count[u] * bytes * thr[2], n)

\* The issue, latency and stall effects, and the rest, add up, and none is less than nothing.
BreakdownMatches(m) ==
  \A u \in {v \in Unit : m.count[v] # 0} :
    /\ MinExecutionTime(m, u) <= IssueSpan(m, u)
    /\ ResourcesSpan(m, u) # 0 => IssueSpan(m, u) <= ResourcesSpan(m, u)
    /\ ResourcesSpan(m, u) <= ResourcesTotalStallSpan(m, u)
===============================================================================
