-------------------------------- MODULE Caches --------------------------------
(***************************************************************************)
(* The cache of the simulator and the back end SimpleCache, each against   *)
(* the abstract LruSets.  They are two programs; they are given the same   *)
(* requests so that one run tries every order on both.                     *)
(***************************************************************************)
EXTENDS CacheWays, SimpleCache

CONSTANTS
  Address,      \* byte addresses of requests
  Sizes,        \* sizes of requests, 8 at most
  Line,         \* the lines the addresses lie in, and the next
  MaxCounter    \* the bound: global_counter stops here

ASSUME CachesAssumption ==
  /\ NumSets > 1
  /\ Address \subseteq Nat /\ Line \subseteq Nat
  /\ Sizes \subseteq 1..BlockSize
  /\ IntMax \in Nat /\ MaxCounter \in 0..IntMax
  /\ \A a \in Address, n \in Sizes : {a \div BlockSize, (a + n - 1) \div BlockSize} \subseteq Line

VARIABLE asked  \* history: the first and the last byte of the last request

cachesVars == <<waysVars, simpleVars, asked>>

CachesInit == WaysInit /\ SimpleInit /\ asked = {}

\* A memory access: a CACHE_UPDATE for the simulator's cache.
Request(addr, size) ==
  /\ globalCounter < MaxCounter
  /\ UpdateWays(addr)
  /\ UpdateCache(addr, size)
  /\ asked' = {addr, addr + size - 1}

\* A CACHE_READ or CACHE_FETCH, of which only the simulator's cache knows.
Lookup(addr) ==
  /\ globalCounter < MaxCounter
  /\ ReadOrFetch(addr)
  /\ UNCHANGED <<simpleVars, asked>>

CachesNext == \E a \in Address : Lookup(a) \/ \E n \in Sizes : Request(a, n)

CachesSpec == CachesInit /\ [][CachesNext]_cachesVars

-------------------------------------------------------------------------------
(* The lines of a set, the one used longest ago first. *)

WaysLines(idx) ==
  LET valid == {i \in Way : ways[idx][i].valid}
      Older(i) == {j \in valid : ways[idx][j].lru < ways[idx][i].lru}
  IN  [k \in 1..Cardinality(valid) |->
        LineOf(idx, ways[idx][CHOOSE i \in valid : Cardinality(Older(i)) = k - 1].tag)]

SimpleLines(idx) ==
  LET block == cacheBlocks[idx]
      Older(i) == {j \in DOMAIN block : block[j].lastAccess < block[i].lastAccess}
  IN  [k \in 1..Len(block) |->
        LineOf(idx, block[CHOOSE i \in DOMAIN block : Cardinality(Older(i)) = k - 1].tag)]

\* The simulator's cache is asked for one line, that of the first byte.
WaysLru == INSTANCE LruSets WITH
  asked <- {b \div BlockSize : b \in {c \in asked : \A d \in asked : c <= d}},
  sets <- [s \in SetIndices |-> WaysLines(s)],
  missed <- waysReply.missed,
  evicted <- IF waysReply.eviction = NoEviction THEN {} ELSE {waysReply.eviction \div BlockSize}

SimpleLru == INSTANCE LruSets WITH
  asked <- {b \div BlockSize : b \in asked},
  sets <- [s \in SetIndices |-> SimpleLines(s)],
  missed <- ~hit,
  evicted <- {LineOf(e.idx, e.tag) : e \in erased}

-------------------------------------------------------------------------------
(* Properties. *)

\* The ways of the simulator's cache, found by comparing counters that lookups raise
\* too, hold, miss and evict as the sequence of lines does that Context keeps in their
\* place, and the address of the eviction names the line that went (cache.cpp:94).
WaysImplementLru == WaysLru!Spec

\* SimpleCache is a least-recently-used cache too, a request that reaches into the next
\* set included, past the last set as well (simpleCache.cpp:122).
SimpleImplementsLru == SimpleLru!Spec
==============================================================================
