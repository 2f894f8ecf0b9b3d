---------------------------- MODULE TraceBuffers ----------------------------
(***************************************************************************)
(* The event buffers of the Contech runtime (common/runtime): the threads  *)
(* of the traced program take buffers, fill them and queue them, and the   *)
(* background thread writes the queued ones to the trace and gives them    *)
(* back.  At the memory limit the writer puts buffers aside until it has   *)
(* emptied the queue; the threads that need one sleep until then.          *)
(*                                                                         *)
(* A critical section is one step, and so is what runs between two         *)
(* accesses of shared state.  A buffer is a number, in the order of its    *)
(* malloc; 0 is a small copy, malloc'ed for one use.  Its contents are the *)
(* thread's number of it.                                                  *)
(***************************************************************************)
EXTENDS Integers, Sequences, FiniteSets

CONSTANTS
  Thread,       \* the threads a program may have
  Main,         \* the one that runs main
  MaxBuffers,   \* __ctMaxBuffers
  MaxFlushes,   \* bound: buffers a thread queues before its last one
  SmallCopies,  \* whether programs flush buffers that are nearly empty: FALSE, TRUE or both
  MayIdle,      \* whether 30 seconds may pass without a buffer
  Detached      \* the threads nobody joins; those they create are among them

ASSUME BuffersAssumption ==
  /\ IsFiniteSet(Thread)
  /\ Main \in Thread
  /\ MaxBuffers \in Nat \ {0}
  /\ MaxFlushes \in Nat
  /\ SmallCopies \subseteq BOOLEAN
  /\ MayIdle \in BOOLEAN
  /\ Detached \subseteq Thread \ {Main}

VARIABLES
  copiesSmall,    \* the member of SmallCopies that is true of this program
  pc,             \* what each thread does next
  local,          \* __ctThreadLocalBuffer: a buffer, or 0 for none (or initBuffer)
  flushed,        \* how many buffers each thread has queued
  queue,          \* __ctQueuedBuffers .. __ctQueuedBufferTail
  free,           \* __ctFreeBuffers
  current,        \* __ctCurrentBuffers
  made,           \* how many buffers have been malloc'ed
  globalNumber,   \* __ctThreadGlobalNumber
  exitNumber,     \* __ctThreadExitNumber
  writer,         \* what the background thread does next
  signalled,      \* __ctQueueSignal was signalled and the writer not yet awake
  taken,          \* t, the buffer the writer took off the queue
  aside,          \* memLimitQueue .. memLimitQueueTail
  asideCount,     \* memLimitBufCount
  file            \* what has been written

threadVars == <<pc, local, flushed>>
poolVars == <<free, current, made>>
countVars == <<globalNumber, exitNumber>>
writerVars == <<taken, aside, asideCount, file>>
vars == <<copiesSmall, threadVars, queue, poolVars, countVars, writer, signalled, writerVars>>

Buffer == 1 .. MaxBuffers
Queued == [id : Thread, n : Nat, buf : Buffer \cup {0}]

\* The writer spins with __ctQueueBufferLock held, or a fault left __ctFreeBufferLock held.
QueueLockFree == writer # "spin"
FreeLockFree == writer # "fault" /\ \A t \in Thread : pc[t] # "fault"

\* When main has returned the process is gone.
Running == pc[Main] # "ended"

Init ==
  /\ copiesSmall \in SmallCopies
  /\ pc = [t \in Thread |-> IF t = Main THEN "allocate" ELSE "unborn"]
  /\ local = [t \in Thread |-> 0]
  /\ flushed = [t \in Thread |-> 0]
  /\ queue = <<>>
  /\ free = <<>>
  /\ current = 0
  /\ made = 0
  /\ globalNumber = 1
  /\ exitNumber = 0
  /\ writer = "wait"
  /\ signalled = FALSE
  /\ taken = 0
  /\ aside = <<>>
  /\ asideCount = 0
  /\ file = <<>>
-----------------------------------------------------------------------------
(* __ctAllocateLocalBuffer *)

\* The head of the free list becomes t's buffer.
TakeHead(t) ==
  /\ local' = [local EXCEPT ![t] = Head(free)]
  /\ free' = Tail(free)
  /\ current' = current + 1
  /\ pc' = [pc EXCEPT ![t] = "run"]
  /\ UNCHANGED made

AllocateFromList(t) ==
  /\ pc[t] = "allocate" /\ Running /\ FreeLockFree
  /\ free # <<>>
  /\ TakeHead(t)
  /\ UNCHANGED <<copiesSmall, flushed, queue, countVars, writer, signalled, writerVars>>

\* Mutant: the limit is not tested.
AllocateNoLimit(t) ==
  /\ pc[t] = "allocate" /\ Running /\ FreeLockFree
  /\ free = <<>>
  /\ current' = current + 1
  /\ made' = made + 1
  /\ local' = [local EXCEPT ![t] = made']
  /\ pc' = [pc EXCEPT ![t] = "run"]
  /\ UNCHANGED <<copiesSmall, flushed, queue, free, countVars, writer, signalled, writerVars>>

AllocateNew(t) ==
  /\ pc[t] = "allocate" /\ Running /\ FreeLockFree
  /\ free = <<>>
  /\ current # MaxBuffers
  /\ current' = current + 1
  /\ made' = made + 1
  /\ local' = [local EXCEPT ![t] = made']
  /\ pc' = [pc EXCEPT ![t] = "run"]
  /\ UNCHANGED <<copiesSmall, flushed, queue, free, countVars, writer, signalled, writerVars>>

AllocateSleeps(t) ==
  /\ pc[t] = "allocate" /\ Running /\ FreeLockFree
  /\ free = <<>>
  /\ current = MaxBuffers
  /\ pc' = [pc EXCEPT ![t] = "asleep"]
  /\ UNCHANGED <<copiesSmall, local, flushed, queue, poolVars, countVars, writer,
                 signalled, writerVars>>

\* pthread_cond_wait may also return by itself.
WakesUnsignalled(t) ==
  /\ pc[t] = "asleep" /\ Running
  /\ pc' = [pc EXCEPT ![t] = "woken"]
  /\ UNCHANGED <<copiesSmall, local, flushed, queue, poolVars, countVars, writer,
                 signalled, writerVars>>

WokenSleeps(t) ==
  /\ pc[t] = "woken" /\ Running /\ FreeLockFree
  /\ current = MaxBuffers
  /\ pc' = [pc EXCEPT ![t] = "asleep"]
  /\ UNCHANGED <<copiesSmall, local, flushed, queue, poolVars, countVars, writer,
                 signalled, writerVars>>

\* The list is not tested again: an empty one is dereferenced.
WokenTakes(t) ==
  /\ pc[t] = "woken" /\ Running /\ FreeLockFree
  /\ current # MaxBuffers
  /\ IF free = <<>>
       THEN pc' = [pc EXCEPT ![t] = "fault"] /\ UNCHANGED <<local, poolVars>>
       ELSE TakeHead(t)
  /\ UNCHANGED <<copiesSmall, flushed, queue, countVars, writer, signalled, writerVars>>
-----------------------------------------------------------------------------
(* __ctQueueBuffer *)

\* Mutant: the buffer is linked in front of the queue.
EnqueueFirst(t, b) ==
  /\ Running /\ QueueLockFree
  /\ flushed' = [flushed EXCEPT ![t] = @ + 1]
  /\ queue' = <<[id |-> t, n |-> flushed'[t], buf |-> b]>> \o queue
  /\ signalled' = (signalled \/ (queue = <<>> /\ writer = "wait"))

\* The critical section: append, and signal if the queue was empty.
Enqueue(t, b) ==
  /\ Running /\ QueueLockFree
  /\ flushed' = [flushed EXCEPT ![t] = @ + 1]
  /\ queue' = Append(queue, [id |-> t, n |-> flushed'[t], buf |-> b])
  /\ signalled' = (signalled \/ (queue = <<>> /\ writer = "wait"))

\* A full buffer: queue it, allocate another.
FlushFull(t) ==
  /\ pc[t] = "run"
  /\ flushed[t] < MaxFlushes
  /\ Enqueue(t, local[t])
  /\ local' = [local EXCEPT ![t] = 0]
  /\ pc' = [pc EXCEPT ![t] = "allocate"]
  /\ UNCHANGED <<copiesSmall, poolVars, countVars, writer, writerVars>>

\* A buffer with less than 64KB: queue a copy, keep the buffer.
FlushSmall(t) ==
  /\ copiesSmall
  /\ pc[t] = "run"
  /\ flushed[t] < MaxFlushes
  /\ Enqueue(t, 0)
  /\ UNCHANGED <<copiesSmall, pc, local, poolVars, countVars, writer, writerVars>>

\* __ctQueueBuffer(false): the last buffer.
QueueLast(t, next) ==
  /\ Enqueue(t, local[t])
  /\ local' = [local EXCEPT ![t] = 0]
  /\ pc' = [pc EXCEPT ![t] = next]
-----------------------------------------------------------------------------
(* Threads are created and end *)

\* __ctThreadCreateActual: pthread_create succeeds, or the exit is counted at once.
CreateThread(t, c) ==
  /\ pc[t] = "run" /\ Running
  /\ pc[c] = "unborn" /\ (t \in Detached => c \in Detached)
  /\ globalNumber' = globalNumber + 1
  /\ \/ pc' = [pc EXCEPT ![c] = "allocate"] /\ UNCHANGED exitNumber
     \/ pc' = [pc EXCEPT ![c] = "failed"] /\ exitNumber' = exitNumber + 1
  /\ UNCHANGED <<copiesSmall, local, flushed, queue, poolVars, writer, signalled, writerVars>>

\* __ctCleanupThread counts the exit before the last buffer is queued.
CountExit(t) ==
  /\ t # Main
  /\ pc[t] = "run" /\ Running
  /\ exitNumber' = exitNumber + 1
  /\ pc' = [pc EXCEPT ![t] = "leave"]
  /\ UNCHANGED <<copiesSmall, local, flushed, queue, poolVars, globalNumber, writer,
                 signalled, writerVars>>

EndThread(t) ==
  /\ pc[t] = "leave"
  /\ QueueLast(t, "ended")
  /\ UNCHANGED <<copiesSmall, poolVars, countVars, writer, writerVars>>

\* main returns, the threads it joins having ended: __ctCleanupThreadMain.
EndMain ==
  /\ pc[Main] = "run"
  /\ \A t \in Thread \ (Detached \cup {Main}) : pc[t] \in {"unborn", "failed", "ended"}
  /\ QueueLast(Main, "count")
  /\ UNCHANGED <<copiesSmall, poolVars, countVars, writer, writerVars>>

CountMain ==
  /\ pc[Main] = "count"
  /\ exitNumber' = exitNumber + 1
  /\ pc' = [pc EXCEPT ![Main] = "join"]
  /\ UNCHANGED <<copiesSmall, local, flushed, queue, poolVars, globalNumber, writer,
                 signalled, writerVars>>

JoinWriter ==
  /\ pc[Main] = "join"
  /\ writer = "ended"
  /\ pc' = [pc EXCEPT ![Main] = "ended"]
  /\ UNCHANGED <<copiesSmall, local, flushed, queue, poolVars, countVars, writer,
                 signalled, writerVars>>
-----------------------------------------------------------------------------
(* __ctBackgroundThreadWriter *)

\* pthread_cond_timedwait returns 0; the loop goes round while the queue is empty.
WriterWakes ==
  /\ writer = "wait" /\ signalled
  /\ signalled' = FALSE
  /\ writer' = IF queue = <<>> THEN "wait" ELSE "scan"
  /\ UNCHANGED <<copiesSmall, threadVars, queue, poolVars, countVars, writerVars>>

\* Mutant: after a timeout only the queue is tested.
WriterTimesOutNoExit ==
  /\ \/ writer = "wait" /\ Running /\ (MayIdle \/ exitNumber = globalNumber \/ queue # <<>>)
     \/ writer = "spin"
  /\ writer' = IF queue # <<>> THEN "scan" ELSE "spin"
  /\ signalled' = FALSE
  /\ UNCHANGED <<copiesSmall, threadVars, queue, poolVars, countVars, writerVars>>

\* It returns ETIMEDOUT.  Where execution should not proceed the loop is to wait again, but
\* condRetVal keeps its value: the wait is left out, and the tests repeated with the lock held.
WriterTimesOut ==
  /\ \/ writer = "wait" /\ Running /\ (MayIdle \/ exitNumber = globalNumber \/ queue # <<>>)
     \/ writer = "spin"
  /\ writer' = IF exitNumber = globalNumber \/ queue # <<>> THEN "scan" ELSE "spin"
  /\ signalled' = FALSE
  /\ UNCHANGED <<copiesSmall, threadVars, queue, poolVars, countVars, writerVars>>

\* The test of the loop, without the lock, and the writing of the first buffer.
WriteBuffer ==
  /\ writer = "scan"
  /\ queue # <<>>
  /\ file' = Append(file, <<Head(queue).id, Head(queue).n>>)
  /\ writer' = "pop"
  /\ UNCHANGED <<copiesSmall, threadVars, queue, poolVars, countVars, signalled, taken,
                 aside, asideCount>>

LeaveLoop ==
  /\ writer = "scan"
  /\ queue = <<>>
  /\ writer' = "check"
  /\ UNCHANGED <<copiesSmall, threadVars, queue, poolVars, countVars, signalled, writerVars>>

\* A small copy is freed, and the loop continues at once.
PopBuffer ==
  /\ writer = "pop"
  /\ taken' = Head(queue).buf
  /\ queue' = Tail(queue)
  /\ writer' = IF taken' = 0 THEN "scan" ELSE "release"
  /\ UNCHANGED <<copiesSmall, threadVars, poolVars, countVars, signalled, aside,
                 asideCount, file>>

ReleaseToList ==
  /\ writer = "release" /\ FreeLockFree
  /\ current # MaxBuffers
  /\ free' = <<taken>> \o free
  /\ current' = current - 1
  /\ taken' = 0
  /\ writer' = "scan"
  /\ UNCHANGED <<copiesSmall, threadVars, queue, made, countVars, signalled, aside,
                 asideCount, file>>

\* At the limit, with more buffers queued.
PutAside ==
  /\ writer = "release" /\ FreeLockFree
  /\ current = MaxBuffers
  /\ queue # <<>>
  /\ aside' = Append(aside, taken)
  /\ asideCount' = IF aside = <<>> THEN 1 ELSE asideCount + 1
  /\ taken' = 0
  /\ writer' = "scan"
  /\ UNCHANGED <<copiesSmall, threadVars, queue, poolVars, countVars, signalled, file>>

\* Mutant: the last buffer is not linked behind those put aside.
EndLimitLosesLast ==
  /\ writer = "release" /\ FreeLockFree
  /\ current = MaxBuffers
  /\ queue = <<>>
  /\ IF aside = <<>>
       THEN writer' = "fault" /\ UNCHANGED <<pc, free, current, taken, aside>>
       ELSE /\ free' = aside \o free
            /\ current' = MaxBuffers - (asideCount + 1)
            /\ aside' = <<>>
            /\ taken' = 0
            /\ pc' = [t \in Thread |-> IF pc[t] = "asleep" THEN "woken" ELSE pc[t]]
            /\ writer' = "scan"
  /\ UNCHANGED <<copiesSmall, local, flushed, queue, made, countVars, signalled,
                 asideCount, file>>

\* Mutant: the condition variable is not signalled.
EndLimitWakesNobody ==
  /\ writer = "release" /\ FreeLockFree
  /\ current = MaxBuffers
  /\ queue = <<>>
  /\ IF aside = <<>>
       THEN writer' = "fault" /\ UNCHANGED <<pc, free, current, taken, aside>>
       ELSE /\ free' = aside \o <<taken>> \o free
            /\ current' = MaxBuffers - (asideCount + 1)
            /\ aside' = <<>>
            /\ taken' = 0
            /\ pc' = pc
            /\ writer' = "scan"
  /\ UNCHANGED <<copiesSmall, local, flushed, queue, made, countVars, signalled,
                 asideCount, file>>

\* Mutant: the limit is ended whatever the queue holds.
EndLimitAnyQueue ==
  /\ writer = "release" /\ FreeLockFree
  /\ current = MaxBuffers
  /\ IF aside = <<>>
       THEN writer' = "fault" /\ UNCHANGED <<pc, free, current, taken, aside>>
       ELSE /\ free' = aside \o <<taken>> \o free
            /\ current' = MaxBuffers - (asideCount + 1)
            /\ aside' = <<>>
            /\ taken' = 0
            /\ pc' = [t \in Thread |-> IF pc[t] = "asleep" THEN "woken" ELSE pc[t]]
            /\ writer' = "scan"
  /\ UNCHANGED <<copiesSmall, local, flushed, queue, made, countVars, signalled,
                 asideCount, file>>

\* At the limit, with the queue empty, everything goes to the free list, and the sleepers are
\* woken; memLimitQueueTail is dereferenced, whether or not a buffer was put aside.
EndLimit ==
  /\ writer = "release" /\ FreeLockFree
  /\ current = MaxBuffers
  /\ queue = <<>>
  /\ IF aside = <<>>
       THEN writer' = "fault" /\ UNCHANGED <<pc, free, current, taken, aside>>
       ELSE /\ free' = aside \o <<taken>> \o free
            /\ current' = MaxBuffers - (asideCount + 1)
            /\ aside' = <<>>
            /\ taken' = 0
            /\ pc' = [t \in Thread |-> IF pc[t] = "asleep" THEN "woken" ELSE pc[t]]
            /\ writer' = "scan"
  /\ UNCHANGED <<copiesSmall, local, flushed, queue, made, countVars, signalled,
                 asideCount, file>>

\* Mutant: the writer exits when every thread has, whatever is queued.
CheckExitOnly ==
  /\ writer = "check"
  /\ writer' = IF exitNumber = globalNumber THEN "ended"
               ELSE IF queue = <<>> THEN "wait" ELSE "scan"
  /\ UNCHANGED <<copiesSmall, threadVars, queue, poolVars, countVars, signalled, writerVars>>

\* Exit, or back to the wait; the lock is held in between.
CheckExit ==
  /\ writer = "check"
  /\ writer' = IF exitNumber = globalNumber /\ queue = <<>> THEN "ended"
               ELSE IF queue = <<>> THEN "wait" ELSE "scan"
  /\ UNCHANGED <<copiesSmall, threadVars, queue, poolVars, countVars, signalled, writerVars>>
-----------------------------------------------------------------------------
ThreadStep(t) ==
  \/ AllocateFromList(t) \/ AllocateNew(t) \/ AllocateSleeps(t)
  \/ WokenSleeps(t) \/ WokenTakes(t)
  \/ FlushFull(t) \/ FlushSmall(t)
  \/ \E c \in Thread : CreateThread(t, c)
  \/ CountExit(t) \/ EndThread(t)

MainStep == EndMain \/ CountMain \/ JoinWriter

WriterStep ==
  \/ WriterWakes \/ WriterTimesOut \/ WriteBuffer \/ LeaveLoop \/ PopBuffer
  \/ ReleaseToList \/ PutAside \/ EndLimit \/ CheckExit

Next ==
  \/ \E t \in Thread : ThreadStep(t) \/ WakesUnsignalled(t)
  \/ MainStep
  \/ WriterStep

Spec == Init /\ [][Next]_vars

\* t can take a step without waiting for the program.
Able(t) ==
  /\ Running
  /\ \/ pc[t] \in {"allocate", "woken"} /\ FreeLockFree
     \/ pc[t] = "run" /\ t # Main
     \/ pc[t] = "leave" /\ QueueLockFree

\* Every thread is scheduled, the timed wait returns, and the program's threads come to an
\* end: they flush a bounded number of times, and main returns.
FairSpec ==
  /\ Spec
  /\ \A t \in Thread : <>[]Able(t) => []<><<ThreadStep(t)>>_vars
  /\ WF_vars(MainStep)
  /\ WF_vars(WriterStep)
-----------------------------------------------------------------------------
(* Properties *)

TypeOK ==
  /\ copiesSmall \in SmallCopies
  /\ pc \in [Thread -> {"unborn", "failed", "allocate", "asleep", "woken", "run", "leave",
                        "count", "join", "ended", "fault"}]
  /\ local \in [Thread -> Buffer \cup {0}]
  /\ flushed \in [Thread -> Nat]
  /\ queue \in Seq(Queued)
  /\ free \in Seq(Buffer)
  /\ current \in Int
  /\ made \in Buffer \cup {0}
  /\ globalNumber \in Nat
  /\ exitNumber \in Nat
  /\ writer \in {"wait", "spin", "scan", "pop", "release", "check", "fault", "ended"}
  /\ signalled \in BOOLEAN
  /\ taken \in Buffer \cup {0}
  /\ aside \in Seq(Buffer)
  /\ asideCount \in Nat
  /\ file \in Seq(Thread \X Nat)

\* The places in which buffer b is: with a thread, in one of the three lists, with the writer.
PlacesOf(b) ==
  {<<"thread", t>> : t \in {u \in Thread : local[u] = b}}
    \cup {<<"queue", i>> : i \in {j \in DOMAIN queue : queue[j].buf = b}}
    \cup {<<"free", i>> : i \in {j \in DOMAIN free : free[j] = b}}
    \cup {<<"aside", i>> : i \in {j \in DOMAIN aside : aside[j] = b}}
    \cup {<<"writer", 0>> : i \in {j \in {0} : taken = b}}

\* No buffer is used by two threads, written while it is filled, or lost
\* (the lists linked at ct_main.c:426 and taken apart at ct_runtime.c:124).
BufferInOnePlace == \A b \in 1 .. made : \E p \in PlacesOf(b) : PlacesOf(b) = {p}

\* __ctCurrentBuffers is what is not on the free list, although it is set from a count made
\* over many turns of the writer (ct_main.c:436); it never exceeds the limit, and the assert
\* at ct_main.c:471 holds.
CountExact ==
  /\ current + Len(free) = made
  /\ current <= MaxBuffers
  /\ writer = "release" => current > 0

\* Both: every buffer that was made is somewhere once, and the count knows where.
BuffersAccounted == BufferInOnePlace /\ CountExact

\* A thread sleeps for a buffer only while the limit is reached: whoever ends the limit wakes
\* it (ct_runtime.c:139, ct_main.c:439).
SleepersAtLimit == \A t \in Thread : pc[t] = "asleep" => current = MaxBuffers

\* A woken thread finds a buffer on the list it does not test (ct_runtime.c:141), and the end
\* of the limit finds a buffer put aside (ct_main.c:426).
NoFault == FreeLockFree

\* When the writer has exited, the threads that are joined have ended and every buffer of
\* theirs is in the file (ct_main.c:491).
TraceComplete ==
  writer = "ended" =>
    \A t \in Thread \ Detached :
      /\ pc[t] \in {"unborn", "failed", "join", "ended"}
      /\ \A n \in 1 .. flushed[t] : \E i \in DOMAIN file : file[i] = <<t, n>>

\* After a timeout the writer computes the time again and waits, if it should still be waiting
\* (the comment at ct_main.c:302): it does not keep the queue from everybody for ever.
WaitsAgain == ~QueueLockFree ~> QueueLockFree

\* The trace is what TraceFile promises: the first buffer of the queue is in the file already
\* when it is about to be taken off the queue.
Unwritten ==
  LET q == IF writer = "pop" THEN Tail(queue) ELSE queue
  IN  [i \in DOMAIN q |-> <<q[i].id, q[i].n>>]
Trace == INSTANCE TraceFile WITH
  number <- flushed, handed <- file \o Unwritten, closed <- writer = "ended"
ImplementsTraceFile == Trace!Spec

\* A program that flushes full buffers only comes to its end.
Terminates == <>(copiesSmall \/ pc[Main] = "ended")
=============================================================================
