------------------------------ MODULE IssueSlots ------------------------------
(***************************************************************************)
(* What the levels of the execution units promise: an instruction that may *)
(* issue from some cycle on issues in the first one that still has room    *)
(* and that no full cycle is too near to.  Nothing else is remembered than *)
(* how many instructions issued when.                                      *)
(***************************************************************************)
EXTENDS Integers, TLC

CONSTANTS Unit, Room(_, _),     \* Room(u, n): a cycle with n issues takes one more
          Distance              \* cycles from a full one to the next that takes any

VARIABLES issued,    \* unit -> cycle -> issues, of the cycles with any
          asked      \* the unit and the cycle of the last request

slots == <<issued, asked>>

None == <<"none", 0>>

IssuesAt(u, c) == IF c \in DOMAIN issued[u] THEN issued[u][c] ELSE 0

Takes(u, c) ==
  /\ Room(u, IssuesAt(u, c))
  /\ \A d \in DOMAIN issued[u] :
       c # d /\ d < c + Distance[u] /\ c < d + Distance[u] => Room(u, issued[u][d])

Init == issued = [u \in Unit |-> <<>>] /\ asked = None

\* The search ends: far enough from every cycle used there is room.
Issue(u, c) ==
  \E y \in {c} \cup {d + k : d \in DOMAIN issued[u], k \in 1..Distance[u]} :
    /\ c <= y /\ Takes(u, y)
    /\ \A z \in c..(y - 1) : ~ Takes(u, z)
    /\ issued' = [issued EXCEPT ![u] = (y :> (IssuesAt(u, y) + 1)) @@ @]

\* The next task starts with all cycles free.
Reset == issued' = [u \in Unit |-> <<>>] /\ asked' = None

Next == Reset \/ (asked' \in Unit \X Nat /\ Issue(asked'[1], asked'[2]))

Spec == Init /\ [][Next]_slots
===============================================================================
