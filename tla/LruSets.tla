-------------------------------- MODULE LruSets --------------------------------
(***************************************************************************)
(* What a set-associative cache with least-recently-used replacement       *)
(* promises, whatever it keeps to find the victim: a set is the sequence   *)
(* of the lines it holds, the one used longest ago first (CacheSet).       *)
(* Lines are numbered; line l falls in set l modulo NumSets.               *)
(***************************************************************************)
EXTENDS CacheSet

CONSTANTS
  NumSets,
  Ways,     \* lines per set
  Line      \* lines that may be asked for

VARIABLES
  asked,    \* the lines of the last access
  sets,     \* [Sets -> Seq(Line)]
  missed,   \* did it find a line missing?
  evicted   \* the lines it evicted

lruVars == <<asked, sets, missed, evicted>>

Sets == 0..(NumSets - 1)
SetOf(l) == l % NumSets

Init == asked = {} /\ sets = [s \in Sets |-> <<>>] /\ missed = FALSE /\ evicted = {}

\* An access uses one line, or two that follow each other and lie in two sets.
Use(lines) ==
  /\ asked' = lines
  /\ sets' = [s \in Sets |->
       IF \E l \in lines : SetOf(l) = s
         THEN UpdateLine(sets[s], CHOOSE l \in lines : SetOf(l) = s, Ways)
         ELSE sets[s]]
  /\ missed' = (\E l \in lines : ~Holds(sets[SetOf(l)], l))
  /\ evicted' = {Victim(sets[SetOf(l)]) : l \in {m \in lines : Evicts(sets[SetOf(m)], m, Ways)}}

Next == \E l \in Line : Use({l}) \/ (l + 1 \in Line /\ Use({l, l + 1}))

Spec == Init /\ [][Next]_lruVars
==============================================================================
