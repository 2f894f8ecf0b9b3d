----------------------------- MODULE MCConsumers ------------------------------
(***************************************************************************)
(* The programs that consume what the rest of the project produces: the    *)
(* back ends over a task graph file, the caches over a sequence of         *)
(* requests, the dynamic analysis over the instructions of a context.      *)
(* They share no state; a behaviour is a run of one of them, to the end of *)
(* the input.                                                              *)
(*                                                                         *)
(* Their instances are every task graph over a few lists of task ids, in   *)
(* which a task may follow any tasks before it as long as the tasks of a   *)
(* context stay in order; the predecessors of a task are listed in one     *)
(* order in the files of one shape and in the other in those of the other. *)
(* And caches of two sets of two ways, with three lines for each set: an   *)
(* access of eight bytes at the start of a line, or near its end, where it *)
(* reaches into the next one.  And instructions of four blocks in any      *)
(* order, with small buffers, for a cache of one line and one of two.      *)
(***************************************************************************)
EXTENDS BackEnds, Caches, DynamicAnalysis

VARIABLE input      \* what this run is given: "tasks", "requests" or "instructions"

vars == <<backEndsVars, cachesVars, analysisVars, input>>

\* Only the back ends are given a file; elsewhere it is any one.
Init ==
  /\ BackEndsInit /\ CachesInit /\ AnalysisInit
  /\ input \in {"tasks", "requests", "instructions"}
  /\ input # "tasks" => file = CHOOSE f \in Files : TRUE

\* The input is at its end.
Finished ==
  /\ CASE input = "tasks" -> nextTask = Len(Tasks)
       [] input = "requests" -> globalCounter = MaxCounter
       [] OTHER -> AnalysisFinished
  /\ UNCHANGED vars

Next ==
  \/ input = "tasks" /\ BackEndsNext /\ UNCHANGED <<cachesVars, analysisVars, input>>
  \/ input = "requests" /\ CachesNext /\ UNCHANGED <<backEndsVars, analysisVars, input>>
  \/ input = "instructions" /\ AnalysisNext /\ UNCHANGED <<backEndsVars, cachesVars, input>>
  \/ Finished

Spec == Init /\ [][Next]_vars

-------------------------------------------------------------------------------
(* The instances. *)

CONSTANTS Shapes    \* the lists of contexts of the tasks of a file

\* The ids of tasks whose contexts are listed in shape.
IdsOf(shape) ==
  [i \in DOMAIN shape |-> <<shape[i], Cardinality({j \in 1..(i - 1) : shape[j] = shape[i]})>>]

Downward(S) == LET u == Upwards(S) IN [k \in DOMAIN u |-> u[Len(u) + 1 - k]]

\* pred[i]: the tasks task i follows; the last one follows all that nothing else does,
\* as main does that has joined its threads.
Preds(n) ==
  LET upTo[k \in 1..n] ==
        IF k = 1 THEN {<<{}>>}
        ELSE {Append(p, S) : p \in upTo[k - 1], S \in SUBSET (1..(k - 1)) \ {{}}}
      Leaves(p) == 1..(n - 1) \ UNION {p[i] : i \in 1..(n - 1)}
  IN  {Append(p, Leaves(p)) : p \in upTo[n - 1]}

OrderKept(shape, pred) ==
  LET anc[i \in DOMAIN shape] == pred[i] \cup UNION {anc[j] : j \in pred[i]}
  IN  \A i, j \in DOMAIN shape : i < j /\ shape[i] = shape[j] => i \in anc[j]

FilesOf(shape) ==
  LET n == Len(shape)
      up == shape[2] = 0
      ids == IdsOf(shape)
      Listed(S) == LET l == IF up THEN Upwards(S) ELSE Downward(S)
                   IN  [k \in DOMAIN l |-> ids[l[k]]]
  IN  {[tasks |-> [i \in 1..n |-> [id |-> ids[i], pred |-> Listed(pred[i])]],
        roiStart |-> ids[IF up THEN 1 ELSE 3], roiEnd |-> ids[n]] :
         pred \in {p \in Preds(n) : OrderKept(shape, p)}}

MCFiles == UNION {FilesOf(shape) : shape \in Shapes}
MCShapes == {<<0, 0, 1, 2, 0>>, <<0, 1, 2, 0, 0>>}
MCOp == {[type |-> "read", addr |-> 1, size |-> 1], [type |-> "write", addr |-> 1, size |-> 2],
         [type |-> "malloc", addr |-> 1, size |-> 2], [type |-> "free", addr |-> 1, size |-> 0]}

MCAddress == {BlockSize * l : l \in 0..5} \cup {BlockSize * l + BlockSize - 4 : l \in 0..4}

\* An adder that takes two a cycle and a multiplier that takes one in two; the memory takes
\* longer for the bytes of an access than for the access.
MCCompUnit == {"INT_ADDER", "FP_MUL"}
MCMemUnit == {"L1_LOAD", "L1_STORE", "L3", "MEM"}
MCThroughput ==
  [u \in MCCompUnit \cup MCMemUnit |->
     CASE u = "INT_ADDER" -> <<2, 1>> [] u = "FP_MUL" -> <<1, 2>> [] u = "MEM" -> <<1, 1>>
       [] OTHER -> <<8, 1>>]
MCBase == [u \in MCCompUnit |-> <<1, 1>>]
MCParallelIssue == [u \in MCCompUnit \cup MCMemUnit |-> IF u = "L1_STORE" THEN 1 ELSE INF]
MCLatency ==
  [u \in MCCompUnit \cup MCMemUnit |->
     CASE u = "INT_ADDER" -> 1 [] u \in {"L1_LOAD", "L1_STORE"} -> 2 [] u = "FP_MUL" -> 3
       [] u = "L3" -> 4 [] u = "MEM" -> 6]

\* Loads whose value a computation and a call use, a loop's PHI, and a parameter's use.
Of(op, unit, users, args) == [op |-> op, unit |-> unit, users |-> users, args |-> args]
MCInstruction ==
  [i \in {"load", "add", "mul", "store", "phi", "br", "call", "use", "ret"} |->
     CASE i = "load" -> Of("Load", "none", {"add", "call"}, {})
       [] i = "add" -> Of("Compute", "INT_ADDER", {"mul", "phi"}, {})
       [] i = "mul" -> Of("Compute", "FP_MUL", {"store"}, {})
       [] i = "store" -> Of("Store", "none", {}, {})
       [] i = "phi" -> Of("PHI", "none", {"add"}, {})
       [] i = "br" -> Of("Br", "none", {"use"}, {})
       [] i = "call" -> Of("Call", "none", {}, {[of |-> "load", users |-> {"use"}]})
       [] i = "use" -> Of("Compute", "INT_ADDER", {}, {})
       [] i = "ret" -> Of("Ret", "none", {}, {})]
MCBlocks == {<<"load", "load">>, <<"phi", "add", "mul">>, <<"store", "br">>, <<"call", "use", "ret">>}
===============================================================================
