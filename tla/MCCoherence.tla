----------------------------- MODULE MCCoherence -----------------------------
(***************************************************************************)
(* Instances of the contexts and their protocol.  All lines fall into one  *)
(* cache set.  The lines are 0, 1, ...; line a lives at context a modulo   *)
(* NumContexts.                                                            *)
(***************************************************************************)
EXTENDS Coherence

\* The contexts that get tasks; the others only serve the lines they are home to.
CONSTANT Active

MCHome == [a \in Addr |-> a % NumContexts]
MCSetIndex == [a \in Addr |-> 0]

\* Every active context may read and write every line, one operation per task.
MCTasks == [n \in Node |-> IF n \in Active THEN {<<o>> : o \in Op} ELSE {}]

\* No line is shared: lines 0 and 1 are used by context 0 only, 2 and 3 by context 1
\* only, so that each context is home to one line of its own and one of the other.  A
\* task is two memory operations; with one line per set every change of line evicts.
OpsOf(n) == {o \in Op : o.addr \div 2 = n}
PrivateTasks ==
  [n \in Node |-> IF n \in Active THEN {t \in OpsOf(n) \X OpsOf(n) : t[1].addr < t[2].addr}
                                  ELSE {}]

\* The memory of the caches: zero, or used before.
Zeroed == {<<>>}
UsedBefore == {<<>>} \cup {<<a>> : a \in Addr}
==============================================================================
