---------------------------- MODULE CoherentMemory ----------------------------
(***************************************************************************)
(* What the directory protocol promises, without messages, home nodes or   *)
(* latencies: a node performs a memory operation only while it has the     *)
(* right to, the rights to a line are those of a readers-writer lock, and  *)
(* an operation that was begun is performed once before another begins.    *)
(***************************************************************************)
EXTENDS Integers

CONSTANTS Node, Addr

VARIABLES
  right,     \* [Node -> [Addr -> Right]]: what a node may do with a line
  pending    \* [Node -> SUBSET Op]: the operation a node has still to perform

Right == {"none", "read", "write"}
Op == [addr : Addr, type : {"read", "write"}]

TypeOK ==
  /\ right \in [Node -> [Addr -> Right]]
  /\ pending \in [Node -> SUBSET Op]

Init ==
  /\ right = [n \in Node |-> [a \in Addr |-> "none"]]
  /\ pending = [n \in Node |-> {}]

Weaker(r) == CASE r = "write" -> {"none", "read"} [] r = "read" -> {"none"} [] r = "none" -> {}
Compatible(r, s) == r = "none" \/ s = "none" \/ (r = "read" /\ s = "read")

Begin(n) ==
  /\ pending[n] = {}
  /\ \E o \in Op : pending' = [pending EXCEPT ![n] = {o}]
  /\ UNCHANGED right

\* A right is won only when no other node has a conflicting one.
Grant(n, a) ==
  /\ \E r \in Right :
       /\ right[n][a] \in Weaker(r)
       /\ \A m \in Node \ {n} : Compatible(r, right[m][a])
       /\ right' = [right EXCEPT ![n][a] = r]
  /\ UNCHANGED pending

Revoke(n, a) ==
  /\ \E r \in Weaker(right[n][a]) : right' = [right EXCEPT ![n][a] = r]
  /\ UNCHANGED pending

\* The operation is performed with the right it needs, which may be given up
\* with it.
Perform(n) ==
  \E o \in pending[n] :
    /\ right[n][o.addr] \in {o.type, "write"}
    /\ pending' = [pending EXCEPT ![n] = {}]
    /\ \E r \in {right[n][o.addr]} \cup Weaker(right[n][o.addr]) :
         right' = [right EXCEPT ![n][o.addr] = r]

Next ==
  \E n \in Node : \/ Begin(n) \/ Perform(n)
                  \/ \E a \in Addr : Grant(n, a) \/ Revoke(n, a)

Spec == Init /\ [][Next]_<<right, pending>>

==============================================================================
