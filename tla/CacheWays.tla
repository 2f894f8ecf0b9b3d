------------------------------- MODULE CacheWays -------------------------------
(***************************************************************************)
(* The cache of a simulated node as the code keeps it (backend/Simulator/  *)
(* cache.cpp): E ways per set, each with a valid bit, a tag and an         *)
(* lru_counter, and one counter for the whole cache.  Context models a set *)
(* as the sequence of its lines; this module is why it may.                *)
(*                                                                         *)
(* The memory of the ways is taken to be zero, see Init.  The dirty bit is *)
(* never read and is left out.                                             *)
(***************************************************************************)
EXTENDS CacheGeometry

CONSTANT IntMax     \* INT_MAX

VARIABLES
  ways,             \* cache: [sets -> [1..E -> cache_line]]
  globalCounter,    \* global_counter
  waysReply         \* what the last updateLine did

waysVars == <<ways, globalCounter, waysReply>>

Way == 1..Ways
NoEviction == -1

WaysInit ==
  /\ ways = [s \in SetIndices |-> [i \in Way |-> [valid |-> FALSE, tag |-> 0, lru |-> 0]]]
  /\ globalCounter = 0
  /\ waysReply = [missed |-> FALSE, eviction |-> NoEviction]

\* The ways that hold the line of addr, and the ways that hold nothing.
Hits(addr) == {i \in Way : /\ ways[SetIdx(addr)][i].tag = TagOf(addr)
                           /\ ways[SetIdx(addr)][i].valid}
Empty(addr) == {i \in Way : ~ways[SetIdx(addr)][i].valid}
FirstOf(S) == CHOOSE i \in S : \A j \in S : i <= j

\* min_lru starts from INT_MAX, and of equal counters the first way counts.
EvictionIdx(addr) ==
  LET set == ways[SetIdx(addr)]
  IN  FirstOf({i \in Way : set[i].lru < IntMax /\ \A j \in Way : set[i].lru <= set[j].lru})

\* readLine and fetchLine: the counter goes up, the line that gets it is a copy.
\* Without the line the program exits.
ReadOrFetch(addr) ==
  /\ Hits(addr) # {}
  /\ globalCounter' = globalCounter + 1
  /\ UNCHANGED <<ways, waysReply>>

\* Mutant: a hit leaves its lru_counter alone, as it does in readLine.
KeepsCounter(addr, i, tag) ==
  [ways EXCEPT ![SetIdx(addr)][i] =
    [valid |-> TRUE, tag |-> tag, lru |-> IF i \in Hits(addr) THEN @.lru ELSE globalCounter]]

\* Way i of the set of addr takes the line with this tag.
Take(addr, i, tag) ==
  [ways EXCEPT ![SetIdx(addr)][i] = [valid |-> TRUE, tag |-> tag, lru |-> globalCounter]]

\* evictionAddr: the low bits of addr and the tag of the victim.
EvictionAddr(addr, i) ==
  (addr % (NumSets * BlockSize)) + ways[SetIdx(addr)][i].tag * (NumSets * BlockSize)

\* updateLine: a hit, else the first empty way, else the way with the smallest counter.
UpdateWays(addr) ==
  /\ globalCounter' = globalCounter + 1
  /\ \/ /\ Hits(addr) # {}
        /\ ways' = Take(addr, FirstOf(Hits(addr)), TagOf(addr))
        /\ waysReply' = [missed |-> FALSE, eviction |-> NoEviction]
     \/ /\ Hits(addr) = {} /\ Empty(addr) # {}
        /\ ways' = Take(addr, FirstOf(Empty(addr)), TagOf(addr))
        /\ waysReply' = [missed |-> TRUE, eviction |-> NoEviction]
     \/ /\ Hits(addr) = {} /\ Empty(addr) = {}
        /\ ways' = Take(addr, EvictionIdx(addr), TagOf(addr))
        /\ waysReply' = [missed |-> TRUE, eviction |-> EvictionAddr(addr, EvictionIdx(addr))]
==============================================================================
