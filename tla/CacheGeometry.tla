----------------------------- MODULE CacheGeometry -----------------------------
(***************************************************************************)
(* How an address falls apart in a set-associative cache: the simulator's  *)
(* (backend/Simulator/cache.cpp) and SimpleCache (backend/SimpleCache)     *)
(* cut it alike, into tag, set and place in the block.                     *)
(***************************************************************************)
EXTENDS Integers, Sequences, FiniteSets

CONSTANTS
  NumSets,      \* S, cacheBlocks.size()
  Ways,         \* E, 1 << global_s: lines per set
  BlockSize     \* 2^b, 1 << global_b

ASSUME GeometryAssumption ==
  NumSets \in Nat \ {0} /\ Ways \in Nat \ {0} /\ BlockSize \in Nat \ {0}

SetIndices == 0..(NumSets - 1)
TagOf(addr) == addr \div (NumSets * BlockSize)
SetIdx(addr) == (addr \div BlockSize) % NumSets

\* The number of the line with this tag in this set.
LineOf(idx, tag) == tag * NumSets + idx
==============================================================================
