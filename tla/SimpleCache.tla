------------------------------ MODULE SimpleCache ------------------------------
(***************************************************************************)
(* The back end SimpleCache (backend/SimpleCache/simpleCache.cpp): a cache *)
(* that counts misses.  A set is a deque of lines in the order they came   *)
(* in, each with the number of its last access, and the victim is the line *)
(* with the smallest number.  A request of up to 8 bytes may reach into    *)
(* the next line, which lies in the next set.                              *)
(*                                                                         *)
(* A longer access is several requests, and what a task allocates decides  *)
(* only to which block a miss is added, so a step is one request.  memcpy  *)
(* is left out: its first request has the number of the access before it.  *)
(***************************************************************************)
EXTENDS CacheGeometry

VARIABLES
  cacheBlocks,  \* [SetIndices -> Seq of lines]
  accesses,     \* p_stats->accesses
  hit,          \* what updateCache returned: every line was there
  erased        \* the lines the last request evicted

simpleVars == <<cacheBlocks, accesses, hit, erased>>

SimpleInit ==
  /\ cacheBlocks = [i \in SetIndices |-> <<>>]
  /\ accesses = 0 /\ hit = TRUE /\ erased = {}

At(block, tag) == {i \in DOMAIN block : block[i].tag = tag}

\* The scan of the deque: the first of the lines with the smallest number.
Oldest(block) ==
  CHOOSE i \in DOMAIN block : \A j \in DOMAIN block :
    block[i].lastAccess < block[j].lastAccess
      \/ (block[i].lastAccess = block[j].lastAccess /\ i <= j)

\* updateCacheLine on one set: what it holds after the access number num.
UpdateCacheLine(block, tag, num) ==
  LET new == [tag |-> tag, lastAccess |-> num]
      old == Oldest(block)
  IN  IF At(block, tag) # {}
        THEN [i \in DOMAIN block |-> IF i \in At(block, tag) THEN new ELSE block[i]]
      ELSE IF Len(block) < Ways THEN Append(block, new)
      ELSE Append(SubSeq(block, 1, old - 1) \o SubSeq(block, old + 1, Len(block)), new)

\* Mutant: the tag stays when the index wraps.
NextPartKeepsTag(idx, tag) == [idx |-> (idx + 1) % NumSets, tag |-> tag]

\* The set after idx; past the last set the index wraps and the tag is the next.
NextPart(idx, tag) ==
  IF idx + 1 >= NumSets THEN [idx |-> idx + 1 - NumSets, tag |-> tag + 1]
  ELSE [idx |-> idx + 1, tag |-> tag]

\* updateCache: the line of the address and, if bytes are left, the line behind it.
Parts(address, size) ==
  LET idx == SetIdx(address)  tag == TagOf(address)
  IN  {[idx |-> idx, tag |-> tag]} \cup
        (IF (address % BlockSize) + size > BlockSize THEN {NextPart(idx, tag)} ELSE {})

\* One request of updateBackend.
UpdateCache(address, size) ==
  LET parts == Parts(address, size)
      PartOf(i) == CHOOSE p \in parts : p.idx = i
      num == accesses + 1
      missing == {p \in parts : At(cacheBlocks[p.idx], p.tag) = {}}
  IN  /\ accesses' = num
      /\ cacheBlocks' = [i \in DOMAIN cacheBlocks |->
           IF i \in {p.idx : p \in parts}
             THEN UpdateCacheLine(cacheBlocks[i], PartOf(i).tag, num)
             ELSE cacheBlocks[i]]
      /\ hit' = (missing = {})
      /\ erased' =
           {[idx |-> p.idx, tag |-> cacheBlocks[p.idx][Oldest(cacheBlocks[p.idx])].tag] :
             p \in {q \in missing : Len(cacheBlocks[q.idx]) >= Ways}}
==============================================================================
