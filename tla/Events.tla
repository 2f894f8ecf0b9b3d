-------------------------------- MODULE Events --------------------------------
(***************************************************************************)
(* The events of a trace, as the Contech runtime stores them (ct_runtime.c)*)
(* and the middle layer reads them (eventLib/ct_event.h), without their    *)
(* times and memory operations.  A trace is for one rank.                  *)
(***************************************************************************)
EXTENDS Integers, Sequences, FiniteSets

CONSTANTS
  Context,   \* contech_id: numbers, 0 for the main thread
  Address    \* sync_addr of the locks and barriers

ASSUME EventsAssumption ==
  /\ Context \subseteq Nat
  /\ IsFiniteSet(Context)
  /\ 0 \in Context

VARIABLE trace   \* the events of the trace file

\* A context recorded this; n is its ticket or barrier number, on the lock, barrier or
\* context it is about (itself if there is none).
Event ==
  [ctx : Context,
   type : {"block", "acquire", "release", "enter", "leave", "create", "created", "join", "exit"},
   n : Nat,
   on : Context \cup Address]

IsSync(e) == e.type \in {"acquire", "release"}
IsBarrier(e) == e.type \in {"enter", "leave"}
IsOrdered(e) == IsSync(e) \/ IsBarrier(e)

\* What every recording gives: numbers are drawn once, a context but the main thread
\* begins with the event that it was created, and it is created once.
WellFormed(tr) ==
  /\ tr \in Seq(Event)
  /\ \A i, j \in DOMAIN tr :
       /\ i # j /\ tr[i].n = tr[j].n => ~(IsSync(tr[i]) /\ IsSync(tr[j]))
       /\ i # j /\ tr[i].n = tr[j].n => ~(IsBarrier(tr[i]) /\ IsBarrier(tr[j]))
       /\ i < j /\ tr[i].ctx = tr[j].ctx => tr[j].type # "created"
       /\ tr[i].type = "create" => tr[i].on \in Context
       /\ i # j /\ tr[i].type = "create" /\ tr[j].type = "create" => tr[i].on # tr[j].on
=============================================================================
