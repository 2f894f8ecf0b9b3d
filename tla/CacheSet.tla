------------------------------- MODULE CacheSet -------------------------------
(***************************************************************************)
(* One set of the set-associative cache of a node (backend/Simulator/      *)
(* cache.cpp).  The E lines of a set are compared only through their tags  *)
(* and their lru_counter, and lru_counter is written only by updateLine,   *)
(* from a counter that grows.  A set is therefore the sequence of the      *)
(* addresses whose lines are valid, the smallest lru_counter first.  The   *)
(* dirty bit is never read and is left out.  CacheWays keeps ways and      *)
(* counters, and ConsumersProofs proves that the two agree.                *)
(***************************************************************************)
EXTENDS Integers, Sequences

Holds(lines, addr) == \E i \in 1..Len(lines) : lines[i] = addr

\* readLine, invalidateLine and fetchLine copy the line getLine returns and
\* change the copy: the set keeps the line, its valid bit and its lru_counter.
ReadLine(lines, addr) == lines
InvalidateLine(lines, addr) == lines
FetchLine(lines, addr) == lines

\* updateLine on a hit: the line gets the largest lru_counter.
Touch(lines, addr) ==
  LET i == CHOOSE j \in 1..Len(lines) : lines[j] = addr
  IN  SubSeq(lines, 1, i - 1) \o SubSeq(lines, i + 1, Len(lines)) \o <<addr>>

\* updateLine evicts when the line is missing and all ways are valid; the victim
\* is the line with the smallest lru_counter.
Evicts(lines, addr, ways) == ~Holds(lines, addr) /\ Len(lines) >= ways
Victim(lines) == Head(lines)

UpdateLine(lines, addr, ways) ==
  IF Holds(lines, addr) THEN Touch(lines, addr)
  ELSE IF Evicts(lines, addr, ways) THEN Append(Tail(lines), addr)
  ELSE Append(lines, addr)

==============================================================================
