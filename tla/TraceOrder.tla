------------------------------ MODULE TraceOrder ------------------------------
(***************************************************************************)
(* What the middle layer's event queue promises: every event of the trace  *)
(* is delivered at most once; those of a context in the order in which it  *)
(* recorded them, those that have a ticket or a barrier number in the      *)
(* order of their numbers, and none of a context before its create.        *)
(* An event is its position in the trace.                                  *)
(***************************************************************************)
EXTENDS Events

VARIABLES
  delivered,   \* the events delivered so far
  ticket,      \* the next ticket
  barrier      \* the next barrier number

orderVars == <<trace, delivered, ticket, barrier>>

OrderInit ==
  /\ delivered = {}
  /\ ticket = 0
  /\ barrier = 0

\* The trace is recorded before any of it is delivered.
Extend ==
  /\ delivered = {}
  /\ UNCHANGED <<delivered, ticket, barrier>>

InContextOrder(i) == \A j \in 1 .. i - 1 : trace[j].ctx = trace[i].ctx => j \in delivered

Created(i) ==
  \E j \in delivered : trace[j].type = "create" /\ trace[j].on = trace[i].ctx

DeliverEvent(i) ==
  /\ i \notin delivered
  /\ InContextOrder(i)
  /\ trace[i].type = "created" => Created(i)
  /\ IsSync(trace[i]) => trace[i].n = ticket
  /\ IsBarrier(trace[i]) => trace[i].n = barrier
  /\ delivered' = delivered \cup {i}
  /\ ticket' = IF IsSync(trace[i]) THEN ticket + 1 ELSE ticket
  /\ barrier' = IF IsBarrier(trace[i]) THEN barrier + 1 ELSE barrier
  /\ UNCHANGED trace

OrderNext == Extend \/ \E i \in DOMAIN trace : DeliverEvent(i)

OrderSpec == OrderInit /\ [][OrderNext]_orderVars
=============================================================================
