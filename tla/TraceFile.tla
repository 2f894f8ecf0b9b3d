------------------------------ MODULE TraceFile ------------------------------
(***************************************************************************)
(* What the tracing runtime promises about the trace: the buffers that     *)
(* threads hand over are written to the file once each, in the order in    *)
(* which they were handed over, and the file is closed when nothing is     *)
(* left to write.  There are no locks, free lists or limits here.          *)
(***************************************************************************)
EXTENDS Naturals, Sequences

CONSTANT Thread

VARIABLES
  number,   \* how many buffers each thread has handed over
  handed,   \* the buffers handed over, as <<thread, number>>, oldest first
  file,     \* those that have been written
  closed

vars == <<number, handed, file, closed>>

Init ==
  /\ number = [t \in Thread |-> 0]
  /\ handed = <<>>
  /\ file = <<>>
  /\ closed = FALSE

\* A thread hands over its next buffer.
HandOver(t) ==
  /\ number' = [number EXCEPT ![t] = @ + 1]
  /\ handed' = Append(handed, <<t, number'[t]>>)
  /\ UNCHANGED <<file, closed>>

\* The oldest buffer that is not in the file is written.
Write ==
  /\ ~closed
  /\ Len(file) < Len(handed)
  /\ file' = Append(file, handed[Len(file) + 1])
  /\ UNCHANGED <<number, handed, closed>>

Close ==
  /\ ~closed
  /\ file = handed
  /\ closed' = TRUE
  /\ UNCHANGED <<number, handed, file>>

Next == (\E t \in Thread : HandOver(t)) \/ Write \/ Close

Spec == Init /\ [][Next]_vars
==============================================================================
