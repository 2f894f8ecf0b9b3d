--------------------------- MODULE MCTaskScheduler ---------------------------
(***************************************************************************)
(* A task graph with a fork into four tasks, joins that share predecessors *)
(* and one task without memory operations, on four contexts.  The traced   *)
(* program had six contexts; 4 and 5 of them become 0 and 1.               *)
(***************************************************************************)
EXTENDS TaskScheduler, TLC

MCTask == 1..9
MCSucc == (1 :> <<2, 3, 4, 5>>) @@ (2 :> <<6, 7>>) @@ (3 :> <<7, 6>>) @@ (4 :> <<7, 8>>)
            @@ (5 :> <<8>>) @@ (6 :> <<9>>) @@ (7 :> <<9>>) @@ (8 :> <<9>>) @@ (9 :> <<>>)
MCContextId == [t \in Task |-> (5 * t) % 6]
==============================================================================
