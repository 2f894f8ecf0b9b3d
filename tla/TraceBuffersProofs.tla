------------------------- MODULE TraceBuffersProofs -------------------------
(***************************************************************************)
(* Proofs about TraceBuffers, for every number of threads and of buffers.  *)
(***************************************************************************)
EXTENDS TraceBuffers, FiniteSetTheorems, SequenceTheorems, TLAPS

\* Whoever waits at the limit waits for buffers that have all been made, and those that are
\* put aside are counted.
AtLimit ==
  /\ current + Len(free) = made
  /\ aside # <<>> => made = MaxBuffers /\ asideCount = Len(aside)
  /\ \A t \in Thread : pc[t] \in {"asleep", "woken"} => made = MaxBuffers
  /\ writer = "pop" => queue # <<>>
  /\ writer = "release" => taken # 0
  /\ writer \notin {"release", "fault"} => taken = 0

CountInv == TypeOK /\ AtLimit /\ SleepersAtLimit

\* The initial state.
LEMMA CountInit == Init => CountInv
<1> SUFFICES ASSUME Init PROVE CountInv OBVIOUS
<1>1. TypeOK
  <2>1. <<>> \in Seq(Buffer) /\ <<>> \in Seq(Queued) /\ <<>> \in Seq(Thread \X Nat)
    BY EmptySeq
  <2>2. copiesSmall \in SmallCopies /\ signalled \in BOOLEAN BY DEF Init
  <2>3. local \in [Thread -> Buffer \cup {0}] /\ flushed \in [Thread -> Nat] BY DEF Init
  <2>4. pc \in [Thread -> {"unborn", "failed", "allocate", "asleep", "woken", "run", "leave",
                           "count", "join", "ended", "fault"}]
    BY DEF Init
  <2> QED BY <2>1, <2>2, <2>3, <2>4 DEF Init, TypeOK
<1>2. AtLimit BY DEF Init, AtLimit
<1>3. SleepersAtLimit BY DEF Init, SleepersAtLimit
<1> QED BY <1>1, <1>2, <1>3 DEF CountInv

\* Taking the head of the free list.
LEMMA TakeHeadCounts ==
  ASSUME CountInv, NEW t \in Thread, free # <<>>, TakeHead(t)
  PROVE  /\ Head(free) \in Buffer /\ free' \in Seq(Buffer) /\ Len(free') = Len(free) - 1
         /\ Len(free) > 0 /\ current < MaxBuffers
         /\ current' \in Int /\ current' + Len(free') = made
<1>1. free \in Seq(Buffer) /\ current \in Int /\ made \in Nat /\ made <= MaxBuffers
      /\ MaxBuffers \in Nat /\ current + Len(free) = made
  BY BuffersAssumption DEF CountInv, TypeOK, AtLimit, Buffer
<1>2. Head(free) \in Buffer /\ Tail(free) \in Seq(Buffer) /\ Len(Tail(free)) = Len(free) - 1
  BY <1>1, HeadTailProperties
<1>3. Len(free) \in Nat /\ Len(free) # 0 BY <1>1, EmptySeq, LenProperties
<1> QED BY <1>1, <1>2, <1>3 DEF TakeHead

\* Steps that take a buffer.
LEMMA CountAllocate ==
  ASSUME CountInv, NEW t \in Thread,
         AllocateFromList(t) \/ AllocateNew(t) \/ AllocateSleeps(t) \/ WakesUnsignalled(t)
           \/ WokenSleeps(t) \/ WokenTakes(t)
  PROVE  CountInv'
<1> USE DEF CountInv, TypeOK, AtLimit, SleepersAtLimit, countVars, writerVars
<1>0. MaxBuffers \in Nat \ {0} /\ current \in Int /\ made \in Nat /\ made <= MaxBuffers
      /\ Len(free) \in Nat /\ (free = <<>> <=> Len(free) = 0)
  BY BuffersAssumption, EmptySeq, LenProperties DEF Buffer
<1>1. CASE AllocateFromList(t)
  <2>1. TakeHead(t) /\ free # <<>> BY <1>1 DEF AllocateFromList
  <2>2. Head(free) \in Buffer /\ free' \in Seq(Buffer) /\ current < MaxBuffers
        /\ current' \in Int /\ current' + Len(free') = made
    BY <2>1, TakeHeadCounts
  <2> QED BY <1>1, <2>1, <2>2, <1>0, SMTT(30) DEF AllocateFromList, TakeHead
<1>2. CASE AllocateNew(t)
  <2>1. made' \in Buffer BY <1>0, <1>2 DEF AllocateNew, Buffer
  <2> QED BY <1>2, <1>0, <2>1 DEF AllocateNew, poolVars
<1>3. CASE AllocateSleeps(t) BY <1>3, <1>0 DEF AllocateSleeps, poolVars
<1>4. CASE WakesUnsignalled(t) BY <1>4, <1>0 DEF WakesUnsignalled, poolVars
<1>5. CASE WokenSleeps(t) BY <1>5, <1>0 DEF WokenSleeps, poolVars
<1>6. CASE WokenTakes(t)
  <2>1. free # <<>> /\ TakeHead(t) BY <1>6, <1>0 DEF WokenTakes
  <2> QED BY <1>6, <2>1, <1>0, TakeHeadCounts DEF WokenTakes, TakeHead
<1> QED BY <1>1, <1>2, <1>3, <1>4, <1>5, <1>6

\* Appending to the queue.
LEMMA EnqueueTypes ==
  ASSUME TypeOK, NEW t \in Thread, NEW b \in Buffer \cup {0}, Enqueue(t, b)
  PROVE  /\ flushed' \in [Thread -> Nat] /\ flushed'[t] = flushed[t] + 1
         /\ queue' \in Seq(Queued) /\ queue' # <<>> /\ signalled' \in BOOLEAN
<1>1. flushed' \in [Thread -> Nat] /\ flushed'[t] = flushed[t] + 1 BY DEF Enqueue, TypeOK
<1>2. [id |-> t, n |-> flushed'[t], buf |-> b] \in Queued BY <1>1 DEF Queued
<1>3. queue \in Seq(Queued) /\ signalled \in BOOLEAN BY DEF TypeOK
<1>4. queue' \in Seq(Queued) /\ queue' # <<>> BY <1>2, <1>3, AppendProperties DEF Enqueue
<1> QED BY <1>1, <1>3, <1>4 DEF Enqueue

\* Steps that queue a buffer, and the lives of threads.
LEMMA CountThread ==
  ASSUME CountInv, NEW t \in Thread,
         FlushFull(t) \/ FlushSmall(t) \/ (\E c \in Thread : CreateThread(t, c))
           \/ CountExit(t) \/ EndThread(t) \/ MainStep
  PROVE  CountInv'
<1>0. Main \in Thread /\ \A u \in Thread : local[u] \in Buffer \cup {0}
  BY BuffersAssumption DEF CountInv, TypeOK
<1> USE DEF CountInv, TypeOK, AtLimit, SleepersAtLimit, countVars, writerVars, poolVars
<1>1. CASE FlushFull(t) BY <1>1, <1>0, EnqueueTypes DEF FlushFull
<1>2. CASE FlushSmall(t) BY <1>2, EnqueueTypes DEF FlushSmall
<1>3. CASE \E c \in Thread : CreateThread(t, c)
  <2>1. PICK c \in Thread : CreateThread(t, c) BY <1>3
  <2>2. globalNumber' \in Nat /\ exitNumber' \in Nat BY <2>1 DEF CreateThread
  <2>3. CASE pc' = [pc EXCEPT ![c] = "allocate"] BY <2>1, <2>2, <2>3 DEF CreateThread
  <2>4. CASE pc' = [pc EXCEPT ![c] = "failed"] BY <2>1, <2>2, <2>4 DEF CreateThread
  <2> QED BY <2>1, <2>3, <2>4 DEF CreateThread
<1>4. CASE CountExit(t) BY <1>4 DEF CountExit
<1>5. CASE EndThread(t) BY <1>5, <1>0, EnqueueTypes DEF EndThread, QueueLast
<1>6. CASE EndMain BY <1>6, <1>0, EnqueueTypes DEF EndMain, QueueLast
<1>7. CASE CountMain BY <1>7, <1>0 DEF CountMain
<1>8. CASE JoinWriter BY <1>8, <1>0 DEF JoinWriter
<1> QED BY <1>1, <1>2, <1>3, <1>4, <1>5, <1>6, <1>7, <1>8 DEF MainStep

\* Two lists with an element between them.
LEMMA JoinLists ==
  ASSUME NEW S, NEW s \in Seq(S), NEW x \in S, NEW u \in Seq(S)
  PROVE  /\ s \o <<x>> \o u \in Seq(S)
         /\ Len(s \o <<x>> \o u) = Len(s) + 1 + Len(u)
         /\ \A i \in DOMAIN s : (s \o <<x>> \o u)[i] = s[i]
         /\ (s \o <<x>> \o u)[Len(s) + 1] = x
         /\ \A i \in DOMAIN u : (s \o <<x>> \o u)[Len(s) + 1 + i] = u[i]
<1>1. <<x>> \in Seq(S) /\ Len(<<x>>) = 1 /\ <<x>>[1] = x OBVIOUS
<1> DEFINE sx == s \o <<x>>
<1>2. sx \in Seq(S) /\ Len(sx) = Len(s) + 1 BY <1>1, ConcatProperties
<1>3. \A i \in DOMAIN s : sx[i] = s[i] BY <1>1
<1>4. sx[Len(s) + 1] = x BY <1>1
<1> HIDE DEF sx
<1>5. sx \o u \in Seq(S) /\ Len(sx \o u) = Len(s) + 1 + Len(u) BY <1>2, ConcatProperties, ZenonT(40)
<1>6. \A i \in DOMAIN sx : (sx \o u)[i] = sx[i] BY <1>2
<1>7. \A i \in DOMAIN u : (sx \o u)[Len(s) + 1 + i] = u[i] BY <1>2
<1>8. DOMAIN s = 1 .. Len(s) /\ DOMAIN sx = 1 .. Len(s) + 1 /\ Len(s) \in Nat
  BY <1>2, LenProperties
<1>9. /\ \A i \in DOMAIN s : (sx \o u)[i] = s[i]
      /\ (sx \o u)[Len(s) + 1] = x
  BY <1>3, <1>4, <1>6, <1>8
<1> QED BY <1>5, <1>7, <1>9 DEF sx

\* The steps of the writer.
LEMMA CountWriter ==
  ASSUME CountInv, WriterStep
  PROVE  CountInv'
<1> USE DEF CountInv, TypeOK, AtLimit, SleepersAtLimit, threadVars, countVars, writerVars, poolVars
<1>0. MaxBuffers \in Nat \ {0} /\ current \in Int /\ made \in Nat /\ made <= MaxBuffers
      /\ Len(free) \in Nat /\ (free = <<>> <=> Len(free) = 0)
      /\ Len(aside) \in Nat /\ (aside = <<>> <=> Len(aside) = 0)
  BY BuffersAssumption, EmptySeq, LenProperties DEF Buffer
<1>1. CASE WriterWakes BY <1>1 DEF WriterWakes
<1>2. CASE WriterTimesOut BY <1>2 DEF WriterTimesOut
<1>3. CASE WriteBuffer
  <2>1. Head(queue) \in Queued BY <1>3, HeadTailProperties DEF WriteBuffer
  <2>2. <<Head(queue).id, Head(queue).n>> \in Thread \X Nat BY <2>1 DEF Queued
  <2>3. file' \in Seq(Thread \X Nat) BY <1>3, <2>2, AppendProperties DEF WriteBuffer
  <2> QED BY <1>3, <2>3 DEF WriteBuffer
<1>4. CASE LeaveLoop BY <1>4 DEF LeaveLoop
<1>5. CASE PopBuffer
  <2>1. Head(queue) \in Queued /\ Tail(queue) \in Seq(Queued)
    BY <1>5, HeadTailProperties DEF PopBuffer
  <2>2. Head(queue).buf \in Buffer \cup {0} BY <2>1 DEF Queued
  <2> QED BY <1>5, <2>1, <2>2 DEF PopBuffer
<1>6. CASE ReleaseToList
  <2>1. <<taken>> \in Seq(Buffer) /\ Len(<<taken>>) = 1 BY <1>6 DEF ReleaseToList
  <2>2. free' \in Seq(Buffer) /\ Len(free') = Len(free) + 1
    BY <1>6, <2>1, ConcatProperties DEF ReleaseToList
  <2> QED BY <1>6, <1>0, <2>2 DEF ReleaseToList
<1>7. CASE PutAside
  <2>1. taken \in Buffer BY <1>7 DEF PutAside
  <2>2. aside' \in Seq(Buffer) /\ Len(aside') = Len(aside) + 1
    BY <1>7, <2>1, AppendProperties DEF PutAside
  <2> QED BY <1>7, <1>0, <2>2 DEF PutAside
<1>8. CASE EndLimit
  <2>1. CASE aside = <<>> BY <1>8, <2>1 DEF EndLimit
  <2>2. CASE aside # <<>>
    <3>1. aside \in Seq(Buffer) /\ taken \in Buffer /\ free \in Seq(Buffer)
      BY <1>8 DEF EndLimit
    <3>2. free' = aside \o <<taken>> \o free BY <1>8, <2>2 DEF EndLimit
    <3>3. free' \in Seq(Buffer) /\ Len(free') = Len(aside) + 1 + Len(free)
      BY <3>1, <3>2, JoinLists
    <3>4. made = MaxBuffers /\ Len(free) = 0 /\ asideCount = Len(aside)
      BY <1>8, <2>2, <1>0 DEF EndLimit
    <3>5. current' \in Int /\ current' + Len(free') = made
      BY <1>8, <2>2, <1>0, <3>3, <3>4 DEF EndLimit
    <3>6. pc' = [t \in Thread |-> IF pc[t] = "asleep" THEN "woken" ELSE pc[t]]
      BY <1>8, <2>2 DEF EndLimit
    <3>7. pc' \in [Thread -> {"unborn", "failed", "allocate", "asleep", "woken", "run", "leave",
                              "count", "join", "ended", "fault"}]
      BY <3>6
    <3>8. \A t \in Thread : pc'[t] # "asleep" BY <3>6
    <3> QED BY <1>8, <2>2, <3>3, <3>4, <3>5, <3>7, <3>8 DEF EndLimit
  <2> QED BY <2>1, <2>2
<1>9. CASE CheckExit BY <1>9 DEF CheckExit
<1> QED BY <1>1, <1>2, <1>3, <1>4, <1>5, <1>6, <1>7, <1>8, <1>9 DEF WriterStep

\* The types, the count and the sleepers are kept by every step.
LEMMA CountStep == CountInv /\ [Next]_vars => CountInv'
<1> SUFFICES ASSUME CountInv, [Next]_vars PROVE CountInv' OBVIOUS
<1>1. CASE Next
  <2>1. ASSUME NEW t \in Thread, ThreadStep(t) \/ WakesUnsignalled(t) PROVE CountInv'
    BY <2>1, CountAllocate, CountThread DEF ThreadStep
  <2>2. CASE MainStep BY <2>2, CountThread, BuffersAssumption
  <2>3. CASE WriterStep BY <2>3, CountWriter
  <2> QED BY <1>1, <2>1, <2>2, <2>3 DEF Next
<1>2. CASE UNCHANGED vars
  BY <1>2 DEF CountInv, TypeOK, AtLimit, SleepersAtLimit, vars, threadVars, poolVars,
              countVars, writerVars
<1> QED BY <1>1, <1>2

\* The count of buffers is exact in every state.
LEMMA CountInvariant == Spec => []CountInv
<1>1. Init => CountInv BY CountInit
<1>2. CountInv /\ [Next]_vars => CountInv' BY CountStep
<1> QED BY <1>1, <1>2, PTL DEF Spec

\* The variables keep their types: in particular no more than __ctMaxBuffers buffers are made.
THEOREM TypeCorrect == Spec => []TypeOK
<1>1. CountInv => TypeOK BY DEF CountInv
<1> QED BY <1>1, CountInvariant, PTL

\* Whoever ends the limit wakes the threads that sleep for a buffer (ct_runtime.c:139).
THEOREM SleepersCorrect == Spec => []SleepersAtLimit
<1>1. CountInv => SleepersAtLimit BY DEF CountInv
<1> QED BY <1>1, CountInvariant, PTL
-----------------------------------------------------------------------------
(* Where the buffers are *)

\* A buffer that has been made is somewhere.
Somewhere(b) ==
  \/ \E t \in Thread : local[t] = b
  \/ \E i \in DOMAIN queue : queue[i].buf = b
  \/ \E i \in DOMAIN free : free[i] = b
  \/ \E i \in DOMAIN aside : aside[i] = b
  \/ taken = b

Covered ==
  /\ \A b \in 1 .. made : Somewhere(b)
  /\ \A t \in Thread : pc[t] \notin {"run", "leave"} => local[t] = 0

PlaceInv == CountInv /\ Covered

\* At the start every buffer is somewhere.
LEMMA CoveredInit == Init => Covered
<1> SUFFICES ASSUME Init PROVE Covered OBVIOUS
<1>1. 1 .. made = {} BY DEF Init
<1>2. \A t \in Thread : local[t] = 0 BY DEF Init
<1> QED BY <1>1, <1>2 DEF Covered

\* Steps that move no buffer.
LEMMA CoveredIdle ==
  ASSUME Covered, UNCHANGED <<local, queue, free, aside, taken, made>>,
         \A t \in Thread : pc[t] \in {"run", "leave"} => pc'[t] \in {"run", "leave"}
                              \/ local[t] = 0
  PROVE  Covered'
BY DEF Covered, Somewhere

\* A thread takes the head of the free list.
LEMMA CoveredTake ==
  ASSUME PlaceInv, NEW t \in Thread, free # <<>>, TakeHead(t), local[t] = 0,
         UNCHANGED <<queue, aside, taken>>
  PROVE  Covered'
<1>1. free \in Seq(Buffer) /\ free # <<>> BY DEF PlaceInv, CountInv, TypeOK
<1>2. \A i \in DOMAIN free : free[i] = Head(free) \/ \E j \in DOMAIN Tail(free) : Tail(free)[j] = free[i]
  <2> SUFFICES ASSUME NEW i \in DOMAIN free
               PROVE  free[i] = Head(free) \/ \E j \in DOMAIN Tail(free) : Tail(free)[j] = free[i]
    OBVIOUS
  <2>1. CASE i = 1 BY <2>1, <1>1
  <2>2. CASE i # 1
    <3>1. i - 1 \in DOMAIN Tail(free) /\ Tail(free)[i - 1] = free[i] BY <2>2, <1>1
    <3> QED BY <3>1
  <2> QED BY <2>1, <2>2
<1>3. local' = [local EXCEPT ![t] = Head(free)] /\ local \in [Thread -> Buffer \cup {0}]
      /\ pc' = [pc EXCEPT ![t] = "run"] /\ free' = Tail(free) /\ made' = made
      /\ pc \in [Thread -> {"unborn", "failed", "allocate", "asleep", "woken", "run", "leave",
                           "count", "join", "ended", "fault"}]
  BY DEF PlaceInv, CountInv, TypeOK, TakeHead
<1>4. \A b \in 1 .. made : Somewhere(b)'
  <2> SUFFICES ASSUME NEW b \in 1 .. made PROVE Somewhere(b)' OBVIOUS
  <2>1. Somewhere(b) BY DEF PlaceInv, Covered
  <2>2. CASE \E u \in Thread : local[u] = b BY <2>2, <1>3 DEF Somewhere
  <2>3. CASE \E i \in DOMAIN free : free[i] = b BY <2>3, <1>2, <1>3 DEF Somewhere
  <2> QED BY <2>1, <2>2, <2>3 DEF Somewhere
<1> QED BY <1>3, <1>4 DEF PlaceInv, Covered

\* A buffer, or the copy 0, goes from a thread to the end of the queue.
LEMMA CoveredEnqueue ==
  ASSUME PlaceInv, NEW t \in Thread, NEW b \in Buffer \cup {0}, Enqueue(t, b),
         \/ b = local[t] /\ local' = [local EXCEPT ![t] = 0]
         \/ b = 0 /\ local' = local,
         \A u \in Thread \ {t} : pc'[u] = pc[u],
         pc'[t] = pc[t] \/ local'[t] = 0,
         UNCHANGED <<free, aside, taken, made>>
  PROVE  Covered'
<1> DEFINE new == [id |-> t, n |-> flushed'[t], buf |-> b]
<1>1. queue \in Seq(Queued) /\ queue' = Append(queue, new) /\ new.buf = b
  BY DEF PlaceInv, CountInv, TypeOK, Enqueue
<1> HIDE DEF new
<1>2. /\ \A i \in DOMAIN queue : i \in DOMAIN queue' /\ queue'[i] = queue[i]
      /\ Len(queue) + 1 \in DOMAIN queue' /\ queue'[Len(queue) + 1] = new
  BY <1>1
<1>3. local \in [Thread -> Buffer \cup {0}] BY DEF PlaceInv, CountInv, TypeOK
<1>4. \A c \in 1 .. made : Somewhere(c)'
  <2> SUFFICES ASSUME NEW c \in 1 .. made PROVE Somewhere(c)' OBVIOUS
  <2>0. made \in Nat BY DEF PlaceInv, CountInv, TypeOK, Buffer
  <2>1. Somewhere(c) /\ c # 0 BY <2>0 DEF PlaceInv, Covered
  <2>2. CASE \E u \in Thread : local[u] = c
    <3>1. PICK u \in Thread : local[u] = c BY <2>2
    <3>2. CASE local'[u] = c BY <3>2 DEF Somewhere
    <3>3. CASE local'[u] # c
      <4>1. b = c BY <3>1, <3>3, <1>3
      <4> QED BY <4>1, <1>1, <1>2 DEF Somewhere
    <3> QED BY <3>2, <3>3
  <2>3. CASE \E i \in DOMAIN queue : queue[i].buf = c BY <2>3, <1>2 DEF Somewhere
  <2> QED BY <2>1, <2>2, <2>3 DEF Somewhere
<1>5. \A u \in Thread : pc'[u] \notin {"run", "leave"} => local'[u] = 0
  BY <1>3 DEF PlaceInv, Covered
<1> QED BY <1>4, <1>5 DEF Covered

\* The writer takes the first buffer of the queue.
LEMMA CoveredPop ==
  ASSUME PlaceInv, PopBuffer
  PROVE  Covered'
<1>1. queue \in Seq(Queued) /\ queue # <<>> /\ taken = 0 /\ made \in Nat
  BY DEF PlaceInv, CountInv, TypeOK, AtLimit, PopBuffer, Buffer
<1>2. queue' = Tail(queue) /\ taken' = Head(queue).buf BY DEF PopBuffer
<1>3. \A i \in DOMAIN queue : i = 1 \/ (i - 1 \in DOMAIN queue' /\ queue'[i - 1] = queue[i])
  BY <1>1, <1>2
<1>4. queue[1] = Head(queue) BY <1>1
<1>5. \A b \in 1 .. made : Somewhere(b)'
  <2> SUFFICES ASSUME NEW b \in 1 .. made PROVE Somewhere(b)' OBVIOUS
  <2>1. Somewhere(b) /\ b # 0 BY <1>1 DEF PlaceInv, Covered
  <2>2. CASE \E i \in DOMAIN queue : queue[i].buf = b
    <3>1. PICK i \in DOMAIN queue : queue[i].buf = b BY <2>2
    <3> QED BY <3>1, <1>2, <1>3, <1>4 DEF Somewhere
  <2> QED BY <2>1, <2>2, <1>1 DEF Somewhere, PopBuffer, poolVars, threadVars
<1> QED BY <1>5 DEF PlaceInv, Covered, PopBuffer, poolVars, threadVars

\* The writer puts its buffer on the free list or aside, or empties the list of those aside.
LEMMA CoveredRelease ==
  ASSUME PlaceInv, ReleaseToList \/ PutAside \/ (EndLimit /\ aside # <<>>)
  PROVE  Covered'
<1>1. /\ free \in Seq(Buffer) /\ aside \in Seq(Buffer) /\ taken \in Buffer /\ made \in Nat
      /\ local \in [Thread -> Buffer \cup {0}]
  <2>1. writer = "release" BY DEF ReleaseToList, PutAside, EndLimit
  <2> QED BY <2>1 DEF PlaceInv, CountInv, TypeOK, AtLimit, Buffer
<1>2. /\ \A i \in DOMAIN free : \E j \in DOMAIN free' : free'[j] = free[i]
      /\ \A i \in DOMAIN aside : \/ \E j \in DOMAIN aside' : aside'[j] = aside[i]
                                 \/ \E j \in DOMAIN free' : free'[j] = aside[i]
      /\ \/ \E j \in DOMAIN free' : free'[j] = taken
         \/ \E j \in DOMAIN aside' : aside'[j] = taken
  <2>1. CASE ReleaseToList
    <3>1. free' = <<taken>> \o free /\ aside' = aside BY <2>1 DEF ReleaseToList
    <3>2. \A i \in DOMAIN free : i + 1 \in DOMAIN free' /\ free'[i + 1] = free[i] BY <3>1, <1>1
    <3>3. 1 \in DOMAIN free' /\ free'[1] = taken BY <3>1, <1>1
    <3> QED BY <3>1, <3>2, <3>3
  <2>2. CASE PutAside
    <3>1. aside' = Append(aside, taken) /\ free' = free BY <2>2 DEF PutAside, poolVars
    <3>2. \A i \in DOMAIN aside : i \in DOMAIN aside' /\ aside'[i] = aside[i] BY <3>1, <1>1
    <3>3. Len(aside) + 1 \in DOMAIN aside' /\ aside'[Len(aside) + 1] = taken BY <3>1, <1>1
    <3> QED BY <3>1, <3>2, <3>3
  <2>3. CASE EndLimit /\ aside # <<>>
    <3>1. free' = aside \o <<taken>> \o free BY <2>3 DEF EndLimit
    <3>2. /\ free' \in Seq(Buffer) /\ Len(free') = Len(aside) + 1 + Len(free)
          /\ \A i \in DOMAIN aside : free'[i] = aside[i]
          /\ free'[Len(aside) + 1] = taken
          /\ \A i \in DOMAIN free : free'[Len(aside) + 1 + i] = free[i]
      BY <3>1, <1>1, JoinLists
    <3>3. /\ DOMAIN free' = 1 .. Len(aside) + 1 + Len(free) /\ DOMAIN aside = 1 .. Len(aside)
          /\ DOMAIN free = 1 .. Len(free) /\ Len(aside) \in Nat /\ Len(free) \in Nat
      BY <3>2, <1>1, LenProperties
    <3>4. \A i \in DOMAIN free : Len(aside) + 1 + i \in DOMAIN free' BY <3>3
    <3>5. \A i \in DOMAIN aside : i \in DOMAIN free' BY <3>3
    <3>6. Len(aside) + 1 \in DOMAIN free' BY <3>3
    <3> QED BY <3>2, <3>4, <3>5, <3>6
  <2> QED BY <2>1, <2>2, <2>3
<1>3. UNCHANGED <<local, queue, made>>
      /\ \A t \in Thread : pc'[t] \notin {"run", "leave"} => pc[t] \notin {"run", "leave"}
  <2>1. CASE ReleaseToList \/ PutAside
    BY <2>1 DEF ReleaseToList, PutAside, threadVars, poolVars
  <2>2. CASE EndLimit /\ aside # <<>> BY <2>2 DEF EndLimit
  <2> QED BY <2>1, <2>2
<1>4. \A b \in 1 .. made : Somewhere(b)'
  <2> SUFFICES ASSUME NEW b \in 1 .. made PROVE Somewhere(b)' OBVIOUS
  <2>1. Somewhere(b) BY DEF PlaceInv, Covered
  <2>2. CASE \E i \in DOMAIN free : free[i] = b BY <2>2, <1>2 DEF Somewhere
  <2>3. CASE \E i \in DOMAIN aside : aside[i] = b BY <2>3, <1>2 DEF Somewhere
  <2>4. CASE taken = b BY <2>4, <1>2 DEF Somewhere
  <2> QED BY <2>1, <2>2, <2>3, <2>4, <1>3 DEF Somewhere
<1> QED BY <1>3, <1>4 DEF PlaceInv, Covered

\* With two buffers more than threads, the limit is not reached with nothing put aside.
LEMMA SomethingAside ==
  ASSUME PlaceInv, MaxBuffers >= Cardinality(Thread) + 2,
         current = MaxBuffers, queue = <<>>
  PROVE  aside # <<>>
<1> SUFFICES ASSUME aside = <<>> PROVE FALSE OBVIOUS
<1>1. MaxBuffers \in Nat /\ made = MaxBuffers /\ free = <<>>
  <2>1. MaxBuffers \in Nat /\ current \in Int /\ made \in Nat /\ made <= MaxBuffers
        /\ free \in Seq(Buffer) /\ current + Len(free) = made
    BY BuffersAssumption DEF PlaceInv, CountInv, TypeOK, AtLimit, Buffer
  <2>2. Len(free) \in Nat BY <2>1, LenProperties
  <2>3. Len(free) = 0 BY <2>1, <2>2
  <2> QED BY <2>1, <2>3, EmptySeq
<1> DEFINE Held == (1 .. MaxBuffers) \ {taken}
           holder == [b \in Held |-> CHOOSE t \in Thread : local[t] = b]
<1>2. \A b \in Held : \E t \in Thread : local[t] = b
  BY <1>1 DEF PlaceInv, Covered, Somewhere
<1>3. \A b \in Held : holder[b] \in Thread /\ local[holder[b]] = b BY <1>2
<1>4. holder \in Injection(Held, Thread)
  <2>1. holder \in [Held -> Thread] BY <1>3
  <2>2. \A b, c \in Held : holder[b] = holder[c] => b = c BY <1>3
  <2> HIDE DEF holder, Held
  <2> QED BY <2>1, <2>2 DEF Injection, IsInjective
<1>5. IsFiniteSet(1 .. MaxBuffers) /\ Cardinality(1 .. MaxBuffers) = MaxBuffers
  <2>1. 1 \in Int /\ MaxBuffers \in Int BY <1>1
  <2>2. IsFiniteSet(1 .. MaxBuffers)
        /\ Cardinality(1 .. MaxBuffers) = IF 1 > MaxBuffers THEN 0 ELSE MaxBuffers - 1 + 1
    BY <2>1, FS_Interval
  <2> QED BY <2>2, BuffersAssumption
<1>6. IsFiniteSet(Held) /\ Cardinality(Held) \in Nat /\ Cardinality(Held) >= MaxBuffers - 1
  <2>1. IsFiniteSet(Held)
        /\ Cardinality(Held) = IF taken \in 1 .. MaxBuffers THEN MaxBuffers - 1 ELSE MaxBuffers
    BY <1>5, FS_RemoveElement
  <2> HIDE DEF Held
  <2> QED BY <2>1, <1>1, FS_CardinalityType
<1> HIDE DEF Held, holder
<1>7. Cardinality(Held) <= Cardinality(Thread) BY <1>4, BuffersAssumption, FS_Injection
<1>8. Cardinality(Thread) \in Nat BY BuffersAssumption, FS_CardinalityType
<1> QED BY <1>1, <1>6, <1>7, <1>8

Enough == MaxBuffers >= Cardinality(Thread) + 2

\* The steps of threads.
LEMMA PlaceThread ==
  ASSUME PlaceInv, NEW t \in Thread, ThreadStep(t) \/ WakesUnsignalled(t) \/ MainStep
  PROVE  Covered' /\ (NoFault => NoFault')
<1>0. /\ pc \in [Thread -> {"unborn", "failed", "allocate", "asleep", "woken", "run", "leave",
                           "count", "join", "ended", "fault"}]
      /\ local \in [Thread -> Buffer \cup {0}]
      /\ CountInv /\ Covered
      /\ \A u \in Thread : pc[u] \notin {"run", "leave"} => local[u] = 0
      /\ Main \in Thread
  BY BuffersAssumption DEF PlaceInv, CountInv, TypeOK, Covered
<1> USE DEF NoFault, FreeLockFree, countVars, writerVars, poolVars
<1>1. CASE AllocateFromList(t)
  <2>1. Covered' BY <1>0, <1>1, CoveredTake DEF AllocateFromList
  <2> QED BY <1>0, <1>1, <2>1 DEF AllocateFromList, TakeHead
<1>2. CASE AllocateNew(t)
  <2>1. \A b \in 1 .. made' : b \in 1 .. made \/ b = made'
    BY <1>0, <1>2 DEF AllocateNew, CountInv, TypeOK, Buffer
  <2>2. ASSUME NEW b \in 1 .. made PROVE Somewhere(b)'
    <3>a. made \in Nat BY <1>0 DEF CountInv, TypeOK, Buffer
    <3>b. Somewhere(b) /\ b # 0 BY <1>0, <3>a DEF Covered
    <3>c. pc[t] = "allocate" BY <1>2 DEF AllocateNew
    <3>1. Somewhere(b) /\ b # 0 /\ local[t] = 0 BY <1>0, <3>b, <3>c
    <3>2. \A u \in Thread : local[u] = b => local'[u] = b BY <1>0, <1>2, <3>1 DEF AllocateNew
    <3> QED BY <1>2, <3>1, <3>2 DEF AllocateNew, Somewhere
  <2>3. Somewhere(made)' BY <1>0, <1>2 DEF AllocateNew, Somewhere
  <2>4. \A u \in Thread : pc'[u] \notin {"run", "leave"} => local'[u] = 0
    BY <1>0, <1>2 DEF AllocateNew
  <2>5. Covered' BY <2>1, <2>2, <2>3, <2>4 DEF Covered
  <2> QED BY <1>0, <1>2, <2>5 DEF AllocateNew
<1>3. CASE AllocateSleeps(t)
  <2>1. Covered' BY <1>0, <1>3, CoveredIdle DEF AllocateSleeps
  <2> QED BY <1>0, <1>3, <2>1 DEF AllocateSleeps
<1>4. CASE WakesUnsignalled(t)
  <2>1. Covered' BY <1>0, <1>4, CoveredIdle DEF WakesUnsignalled
  <2> QED BY <1>0, <1>4, <2>1 DEF WakesUnsignalled
<1>5. CASE WokenSleeps(t)
  <2>1. Covered' BY <1>0, <1>5, CoveredIdle DEF WokenSleeps
  <2> QED BY <1>0, <1>5, <2>1 DEF WokenSleeps
<1>6. CASE WokenTakes(t)
  <2>1. free # <<>>
    <3>1. current \in Int /\ current # MaxBuffers /\ made = MaxBuffers /\ current + Len(free) = made
      BY <1>0, <1>6 DEF WokenTakes, CountInv, TypeOK, AtLimit
    <3> QED BY <3>1, EmptySeq
  <2>2. Covered' BY <1>0, <1>6, <2>1, CoveredTake DEF WokenTakes
  <2> QED BY <1>0, <1>6, <2>1, <2>2 DEF WokenTakes, TakeHead
<1>7. CASE FlushFull(t)
  <2>1. local[t] \in Buffer \cup {0} BY <1>0
  <2>2. Covered' BY <1>0, <1>7, <2>1, CoveredEnqueue DEF FlushFull
  <2> QED BY <1>0, <1>7, <2>2 DEF FlushFull, Enqueue
<1>8. CASE FlushSmall(t)
  <2>1. Covered' BY <1>0, <1>8, CoveredEnqueue DEF FlushSmall
  <2> QED BY <1>0, <1>8, <2>1 DEF FlushSmall, Enqueue
<1>9. CASE \E c \in Thread : CreateThread(t, c)
  <2>1. PICK c \in Thread : CreateThread(t, c) BY <1>9
  <2>2. \A u \in Thread : pc[u] \in {"run", "leave"} => pc'[u] = pc[u]
    BY <1>0, <2>1 DEF CreateThread
  <2>3. Covered' BY <1>0, <2>1, <2>2, CoveredIdle DEF CreateThread
  <2>4. NoFault => \A u \in Thread : pc'[u] # "fault" BY <1>0, <2>1 DEF CreateThread
  <2> QED BY <1>0, <2>1, <2>3, <2>4 DEF CreateThread
<1>10. CASE CountExit(t)
  <2>1. Covered' BY <1>0, <1>10, CoveredIdle DEF CountExit
  <2> QED BY <1>0, <1>10, <2>1 DEF CountExit
<1>11. CASE EndThread(t)
  <2>1. local[t] \in Buffer \cup {0} BY <1>0
  <2>2. Covered' BY <1>0, <1>11, <2>1, CoveredEnqueue DEF EndThread, QueueLast
  <2> QED BY <1>0, <1>11, <2>2 DEF EndThread, QueueLast, Enqueue
<1>12. CASE EndMain
  <2>1. local[Main] \in Buffer \cup {0} BY <1>0
  <2>2. Covered' BY <1>0, <1>12, <2>1, CoveredEnqueue DEF EndMain, QueueLast
  <2> QED BY <1>0, <1>12, <2>2 DEF EndMain, QueueLast, Enqueue
<1>13. CASE CountMain
  <2>1. Covered' BY <1>0, <1>13, CoveredIdle DEF CountMain
  <2> QED BY <1>0, <1>13, <2>1 DEF CountMain
<1>14. CASE JoinWriter
  <2>1. Covered' BY <1>0, <1>14, CoveredIdle DEF JoinWriter
  <2> QED BY <1>0, <1>14, <2>1 DEF JoinWriter
<1> QED BY <1>1, <1>2, <1>3, <1>4, <1>5, <1>6, <1>7, <1>8, <1>9, <1>10, <1>11, <1>12, <1>13,
           <1>14 DEF ThreadStep, MainStep

\* The steps of the writer.
LEMMA PlaceWriter ==
  ASSUME PlaceInv, WriterStep
  PROVE  Covered' /\ (Enough /\ NoFault => NoFault')
<1>0. Covered BY DEF PlaceInv
<1> USE DEF NoFault, FreeLockFree, countVars, poolVars, threadVars
<1>1. CASE WriterWakes BY <1>0, <1>1, CoveredIdle DEF WriterWakes, writerVars
<1>2. CASE WriterTimesOut BY <1>0, <1>2, CoveredIdle DEF WriterTimesOut, writerVars
<1>3. CASE WriteBuffer BY <1>0, <1>3, CoveredIdle DEF WriteBuffer
<1>4. CASE LeaveLoop BY <1>0, <1>4, CoveredIdle DEF LeaveLoop, writerVars
<1>5. CASE PopBuffer BY <1>5, CoveredPop DEF PopBuffer
<1>6. CASE ReleaseToList BY <1>6, CoveredRelease DEF ReleaseToList
<1>7. CASE PutAside BY <1>7, CoveredRelease DEF PutAside
<1>8. CASE EndLimit
  <2>1. Enough => aside # <<>> BY <1>8, SomethingAside DEF EndLimit, Enough
  <2>2. CASE aside = <<>>
    <3>1. Covered' BY <1>0, <1>8, <2>2, CoveredIdle DEF EndLimit
    <3> QED BY <2>1, <2>2, <3>1
  <2>3. CASE aside # <<>>
    <3>1. Covered' BY <1>8, <2>3, CoveredRelease
    <3>2. NoFault => \A t \in Thread : pc'[t] # "fault" BY <1>8, <2>3 DEF EndLimit
    <3> QED BY <1>8, <2>3, <3>1, <3>2 DEF EndLimit
  <2> QED BY <2>2, <2>3
<1>9. CASE CheckExit BY <1>0, <1>9, CoveredIdle DEF CheckExit, writerVars
<1> QED BY <1>1, <1>2, <1>3, <1>4, <1>5, <1>6, <1>7, <1>8, <1>9 DEF WriterStep

\* No step loses a buffer.
LEMMA CoveredStep == PlaceInv /\ [Next]_vars => PlaceInv'
<1> SUFFICES ASSUME PlaceInv, [Next]_vars PROVE PlaceInv' OBVIOUS
<1>1. CountInv' BY CountStep DEF PlaceInv
<1>2. ASSUME NEW t \in Thread, ThreadStep(t) \/ WakesUnsignalled(t) PROVE Covered'
  BY <1>2, PlaceThread
<1>3. CASE MainStep BY <1>1, <1>3, PlaceThread, BuffersAssumption DEF PlaceInv
<1>4. CASE WriterStep BY <1>1, <1>4, PlaceWriter DEF PlaceInv
<1>5. CASE UNCHANGED vars
  <2>1. Covered' BY <1>5, CoveredIdle DEF PlaceInv, vars, threadVars, poolVars, writerVars
  <2> QED BY <1>1, <2>1 DEF PlaceInv
<1> QED BY <1>1, <1>2, <1>3, <1>4, <1>5 DEF Next, PlaceInv

\* A limit of two buffers more than threads is enough: a woken thread finds a buffer on the
\* list it does not test (ct_runtime.c:141), and the writer that ends the limit finds one put
\* aside (ct_main.c:426).
THEOREM NoFaultCorrect == Enough => (Spec => []NoFault)
<1> DEFINE Inv == PlaceInv /\ NoFault
<1>1. Init => Inv
  <2>1. Init => NoFault BY DEF Init, NoFault, FreeLockFree
  <2> QED BY <2>1, CountInit, CoveredInit DEF PlaceInv
<1>2. Enough /\ Inv /\ [Next]_vars => Inv'
  <2> SUFFICES ASSUME Enough, Inv, [Next]_vars PROVE Inv' OBVIOUS
  <2>1. PlaceInv' BY CoveredStep
  <2>2. CASE Next
    <3>1. ASSUME NEW t \in Thread, ThreadStep(t) \/ WakesUnsignalled(t) PROVE NoFault'
      BY <3>1, PlaceThread
    <3>2. ASSUME MainStep PROVE NoFault'
      BY <3>2, PlaceThread, BuffersAssumption
    <3>3. ASSUME WriterStep PROVE NoFault'
      BY <3>3, PlaceWriter
    <3> QED BY <2>1, <2>2, <3>1, <3>2, <3>3 DEF Next
  <2>3. CASE UNCHANGED vars
    BY <2>1, <2>3 DEF NoFault, FreeLockFree, vars, threadVars, writerVars
  <2> QED BY <2>2, <2>3
<1>3. Inv => NoFault OBVIOUS
<1>4. Enough => []Enough BY DEF Enough
<1> QED BY <1>1, <1>2, <1>3, <1>4, PTL DEF Spec
-----------------------------------------------------------------------------
(* No buffer is in two places *)

WithThread(b) == \E t \in Thread : local[t] = b
InQueue(b) == \E i \in DOMAIN queue : queue[i].buf = b
Has(q, b) == \E i \in DOMAIN q : q[i] = b
InFree(b) == Has(free, b)
InAside(b) == Has(aside, b)

\* A buffer is in one place of the five, ...
Apart(b) ==
  /\ WithThread(b) => ~InQueue(b) /\ ~InFree(b) /\ ~InAside(b) /\ taken # b
  /\ InQueue(b) => ~InFree(b) /\ ~InAside(b) /\ taken # b
  /\ InFree(b) => ~InAside(b) /\ taken # b
  /\ InAside(b) => taken # b

\* ... there only once, and has been made.
Distinct(q) == \A i, j \in DOMAIN q : q[i] = q[j] => i = j
DistinctBuffers(q) == \A i, j \in DOMAIN q : q[i].buf # 0 /\ q[i].buf = q[j].buf => i = j
Placed ==
  /\ \A b \in Buffer : Apart(b) /\ (Somewhere(b) => b <= made)
  /\ \A t, u \in Thread : local[t] # 0 /\ local[t] = local[u] => t = u
  /\ DistinctBuffers(queue) /\ Distinct(free) /\ Distinct(aside)

AccountInv == PlaceInv /\ Placed

\* The five places a buffer can be in.
LEMMA SomewhereIs ==
  ASSUME NEW b
  PROVE  Somewhere(b) <=> WithThread(b) \/ InQueue(b) \/ InFree(b) \/ InAside(b) \/ taken = b
BY DEF Somewhere, WithThread, InQueue, InFree, InAside, Has

\* A list of distinct elements, its head and its tail.
LEMMA TailDistinct ==
  ASSUME NEW q \in Seq(Buffer), q # <<>>, Distinct(q)
  PROVE  /\ Distinct(Tail(q))
         /\ \A b : Has(Tail(q), b) <=> Has(q, b) /\ b # Head(q)
         /\ Has(q, Head(q))
<1>1. /\ Head(q) = q[1] /\ 1 \in DOMAIN q
      /\ \A i \in DOMAIN Tail(q) : i + 1 \in DOMAIN q /\ i + 1 # 1 /\ Tail(q)[i] = q[i + 1]
      /\ \A i \in DOMAIN q : i # 1 => i - 1 \in DOMAIN Tail(q) /\ Tail(q)[i - 1] = q[i]
  OBVIOUS
<1>2. Distinct(Tail(q))
  <2> SUFFICES ASSUME NEW i \in DOMAIN Tail(q), NEW j \in DOMAIN Tail(q), Tail(q)[i] = Tail(q)[j]
               PROVE  i = j
    BY DEF Distinct
  <2>1. i + 1 = j + 1 BY <1>1 DEF Distinct
  <2>2. i \in Int /\ j \in Int OBVIOUS
  <2> QED BY <2>1, <2>2
<1>3. ASSUME NEW b, NEW i \in DOMAIN Tail(q), Tail(q)[i] = b
      PROVE  (\E k \in DOMAIN q : q[k] = b) /\ b # Head(q)
  BY <1>1, <1>3 DEF Distinct
<1>4. ASSUME NEW b, NEW i \in DOMAIN q, q[i] = b, b # Head(q)
      PROVE  \E k \in DOMAIN Tail(q) : Tail(q)[k] = b
  BY <1>1, <1>4
<1> QED BY <1>1, <1>2, <1>3, <1>4 DEF Has

\* The same of the queue, whose small copies are not buffers.
LEMMA QueueTail ==
  ASSUME NEW q \in Seq(Queued), q # <<>>, DistinctBuffers(q)
  PROVE  /\ DistinctBuffers(Tail(q))
         /\ \A b : b # 0 => ((\E i \in DOMAIN Tail(q) : Tail(q)[i].buf = b)
                               <=> (\E i \in DOMAIN q : q[i].buf = b) /\ b # Head(q).buf)
         /\ \E i \in DOMAIN q : q[i].buf = Head(q).buf
<1>1. /\ Head(q) = q[1] /\ 1 \in DOMAIN q
      /\ \A i \in DOMAIN Tail(q) : i + 1 \in DOMAIN q /\ i + 1 # 1 /\ Tail(q)[i] = q[i + 1]
      /\ \A i \in DOMAIN q : i # 1 => i - 1 \in DOMAIN Tail(q) /\ Tail(q)[i - 1] = q[i]
  OBVIOUS
<1>2. DistinctBuffers(Tail(q))
  <2> SUFFICES ASSUME NEW i \in DOMAIN Tail(q), NEW j \in DOMAIN Tail(q),
                      Tail(q)[i].buf # 0, Tail(q)[i].buf = Tail(q)[j].buf
               PROVE  i = j
    BY DEF DistinctBuffers
  <2>1. i + 1 = j + 1 BY <1>1 DEF DistinctBuffers
  <2>2. i \in Int /\ j \in Int OBVIOUS
  <2> QED BY <2>1, <2>2
<1>3. ASSUME NEW b, b # 0, NEW i \in DOMAIN Tail(q), Tail(q)[i].buf = b
      PROVE  (\E k \in DOMAIN q : q[k].buf = b) /\ b # Head(q).buf
  BY <1>1, <1>3 DEF DistinctBuffers
<1>4. ASSUME NEW b, NEW i \in DOMAIN q, q[i].buf = b, b # Head(q).buf
      PROVE  \E k \in DOMAIN Tail(q) : Tail(q)[k].buf = b
  BY <1>1, <1>4
<1> QED BY <1>1, <1>2, <1>3, <1>4

\* A buffer that is not in the queue is queued, or a copy.
LEMMA QueueAppend ==
  ASSUME NEW q \in Seq(Queued), DistinctBuffers(q), NEW x \in Queued,
         x.buf # 0 => \A i \in DOMAIN q : q[i].buf # x.buf
  PROVE  /\ DistinctBuffers(Append(q, x))
         /\ \A b : (\E i \in DOMAIN Append(q, x) : Append(q, x)[i].buf = b)
                    <=> (\E i \in DOMAIN q : q[i].buf = b) \/ b = x.buf
<1> DEFINE p == Append(q, x)
<1>1. /\ \A i \in DOMAIN q : i \in DOMAIN p /\ p[i] = q[i]
      /\ Len(q) + 1 \in DOMAIN p /\ p[Len(q) + 1] = x
      /\ \A i \in DOMAIN p : i \in DOMAIN q \/ i = Len(q) + 1
  OBVIOUS
<1> HIDE DEF p
<1>2. DistinctBuffers(p)
  <2> SUFFICES ASSUME NEW i \in DOMAIN p, NEW j \in DOMAIN p, p[i].buf # 0, p[i].buf = p[j].buf
               PROVE  i = j
    BY DEF DistinctBuffers
  <2>1. CASE i \in DOMAIN q /\ j \in DOMAIN q BY <2>1, <1>1 DEF DistinctBuffers
  <2>2. CASE i \notin DOMAIN q /\ j \notin DOMAIN q BY <2>2, <1>1
  <2>3. CASE i \in DOMAIN q /\ j \notin DOMAIN q BY <2>3, <1>1
  <2>4. CASE i \notin DOMAIN q /\ j \in DOMAIN q BY <2>4, <1>1
  <2> QED BY <2>1, <2>2, <2>3, <2>4
<1>3. \A b : (\E i \in DOMAIN p : p[i].buf = b) => (\E i \in DOMAIN q : q[i].buf = b) \/ b = x.buf
  BY <1>1
<1>4. \A b : (\E i \in DOMAIN q : q[i].buf = b) \/ b = x.buf => \E i \in DOMAIN p : p[i].buf = b
  BY <1>1
<1> QED BY <1>2, <1>3, <1>4 DEF p

\* Two lists without a common element, and one more between them.
Joined(v, s, x, u) ==
  /\ Len(v) = Len(s) + 1 + Len(u)
  /\ \A i \in DOMAIN s : v[i] = s[i]
  /\ v[Len(s) + 1] = x
  /\ \A i \in DOMAIN u : v[Len(s) + 1 + i] = u[i]
Disjoint(s, u) == \A b : ~(Has(s, b) /\ Has(u, b))

\* Two lists put together with an element between them have no buffer twice.
LEMMA JoinDistinct ==
  ASSUME NEW s \in Seq(Buffer), NEW x \in Buffer, NEW u \in Seq(Buffer), Distinct(s), Distinct(u),
         ~Has(s, x), ~Has(u, x), Disjoint(s, u), NEW v \in Seq(Buffer), Joined(v, s, x, u)
  PROVE  /\ Distinct(v)
         /\ \A b : Has(v, b) <=> Has(s, b) \/ b = x \/ Has(u, b)
<1>0. /\ \A i \in DOMAIN s : s[i] # x
      /\ \A i \in DOMAIN u : u[i] # x
      /\ \A i \in DOMAIN s, j \in DOMAIN u : s[i] # u[j]
  BY DEF Has, Disjoint
<1>1. /\ Len(v) = Len(s) + 1 + Len(u)
      /\ \A i \in DOMAIN s : v[i] = s[i]
      /\ v[Len(s) + 1] = x
      /\ \A i \in DOMAIN u : v[Len(s) + 1 + i] = u[i]
  BY DEF Joined
<1>2. /\ DOMAIN v = 1 .. Len(s) + 1 + Len(u) /\ DOMAIN s = 1 .. Len(s) /\ DOMAIN u = 1 .. Len(u)
      /\ Len(s) \in Nat /\ Len(u) \in Nat
  BY <1>1, LenProperties
<1>3. ASSUME NEW i \in DOMAIN v
      PROVE  \/ i \in DOMAIN s /\ v[i] = s[i]
             \/ i = Len(s) + 1 /\ v[i] = x
             \/ \E k \in DOMAIN u : i = Len(s) + 1 + k /\ v[i] = u[k]
  <2>1. CASE i <= Len(s) BY <2>1, <1>1, <1>2
  <2>2. CASE i = Len(s) + 1 BY <2>2, <1>1
  <2>3. CASE i > Len(s) + 1
    <3>1. i - Len(s) - 1 \in 1 .. Len(u) /\ Len(s) + 1 + (i - Len(s) - 1) = i
      <4>1. PICK m \in Nat, k \in Nat : m = Len(s) /\ k = Len(u) BY <1>2
      <4>2. i \in Nat /\ i <= m + 1 + k /\ i > m + 1 BY <4>1, <1>2, <2>3
      <4>3. i - m - 1 \in Int /\ i - m - 1 >= 1 /\ i - m - 1 <= k BY <4>2
      <4>4. m + 1 + (i - m - 1) = i BY <4>2, SMTT(30)
      <4> QED BY <4>1, <4>3, <4>4
    <3>2. i - Len(s) - 1 \in DOMAIN u BY <3>1, <1>2
    <3> QED BY <3>1, <3>2, <1>1
  <2> QED BY <2>1, <2>2, <2>3, <1>2
<1>4. Distinct(v)
  <2> SUFFICES ASSUME NEW i \in DOMAIN v, NEW j \in DOMAIN v, v[i] = v[j] PROVE i = j
    BY DEF Distinct
  <2>1. CASE i \in DOMAIN s /\ v[i] = s[i]
    <3>1. j \in DOMAIN s /\ v[j] = s[j] BY <1>0, <1>3, <2>1
    <3> QED BY <2>1, <3>1 DEF Distinct
  <2>2. CASE i = Len(s) + 1 /\ v[i] = x BY <1>0, <1>3, <2>2
  <2>3. CASE \E k \in DOMAIN u : i = Len(s) + 1 + k /\ v[i] = u[k]
    <3>1. PICK k \in DOMAIN u : i = Len(s) + 1 + k /\ v[i] = u[k] BY <2>3
    <3>2. PICK l \in DOMAIN u : j = Len(s) + 1 + l /\ v[j] = u[l] BY <1>0, <1>3, <3>1
    <3> QED BY <3>1, <3>2 DEF Distinct
  <2> QED BY <1>3, <2>1, <2>2, <2>3
<1>5. ASSUME NEW b
      PROVE  Has(v, b) <=> Has(s, b) \/ b = x \/ Has(u, b)
  <2>1. \A i \in DOMAIN s : i \in DOMAIN v BY <1>2
  <2>2. Len(s) + 1 \in DOMAIN v BY <1>2
  <2>3. \A i \in DOMAIN u : Len(s) + 1 + i \in DOMAIN v BY <1>2
  <2>4. ASSUME NEW i \in DOMAIN v, v[i] = b
        PROVE  (\E k \in DOMAIN s : s[k] = b) \/ b = x \/ (\E k \in DOMAIN u : u[k] = b)
    BY <1>3, <2>4
  <2>5. (\E i \in DOMAIN s : s[i] = b) => \E i \in DOMAIN v : v[i] = b BY <1>1, <2>1
  <2>6. b = x => \E i \in DOMAIN v : v[i] = b BY <1>1, <2>2
  <2>7. (\E i \in DOMAIN u : u[i] = b) => \E i \in DOMAIN v : v[i] = b BY <1>1, <2>3
  <2> QED BY <2>4, <2>5, <2>6, <2>7 DEF Has
<1> QED BY <1>4, <1>5

\* At the start no buffer is in two places.
LEMMA PlacedInit == Init => Placed
<1> SUFFICES ASSUME Init PROVE Placed OBVIOUS
<1>1. /\ \A t \in Thread : local[t] = 0
      /\ queue = <<>> /\ free = <<>> /\ aside = <<>> /\ taken = 0
  BY DEF Init
<1>2. \A b \in Buffer : b # 0 BY BuffersAssumption DEF Buffer
<1>3. \A b \in Buffer : ~WithThread(b) /\ ~InQueue(b) /\ ~InFree(b) /\ ~InAside(b) /\ taken # b
  BY <1>1, <1>2 DEF WithThread, InQueue, InFree, InAside, Has
<1> QED BY <1>1, <1>3, SomewhereIs DEF Placed, Apart, DistinctBuffers, Distinct

\* Steps that move no buffer.
LEMMA PlacedIdle ==
  ASSUME Placed, UNCHANGED <<local, queue, free, aside, taken, made>>
  PROVE  Placed'
BY DEF Placed, Apart, Somewhere, WithThread, InQueue, InFree, InAside, Has, DistinctBuffers, Distinct

\* A thread without a buffer takes the head of the free list.
LEMMA PlacedTake ==
  ASSUME AccountInv, NEW t \in Thread, free # <<>>, TakeHead(t), local[t] = 0,
         UNCHANGED <<queue, aside, taken>>
  PROVE  Placed'
<1> DEFINE h == Head(free)
<1>0. /\ free \in Seq(Buffer) /\ Distinct(free) /\ local \in [Thread -> Buffer \cup {0}]
  BY DEF AccountInv, PlaceInv, CountInv, TypeOK, Placed
<1>a. h \in Buffer BY <1>0
<1>1. /\ free \in Seq(Buffer) /\ Distinct(free) /\ local \in [Thread -> Buffer \cup {0}]
      /\ h \in Buffer /\ h # 0
  BY <1>0, <1>a, BuffersAssumption DEF Buffer
<1>2. /\ local' = [local EXCEPT ![t] = h] /\ free' = Tail(free) /\ made' = made
  BY DEF TakeHead
<1>3. /\ Distinct(free') /\ InFree(h)
      /\ \A b : InFree(b)' <=> InFree(b) /\ b # h
  BY <1>1, <1>2, TailDistinct DEF InFree
<1> HIDE DEF h
<1>4. \A b \in Buffer : WithThread(b)' <=> WithThread(b) \/ b = h
  <2>1. \A b \in Buffer : b # 0 BY BuffersAssumption DEF Buffer
  <2>2. local'[t] = h /\ \A u \in Thread \ {t} : local'[u] = local[u] BY <1>1, <1>2
  <2> QED BY <2>1, <2>2 DEF WithThread
<1>5. \A b : (InQueue(b)' <=> InQueue(b)) /\ (InAside(b)' <=> InAside(b))
  BY DEF InQueue, InAside
<1>6. \A b \in Buffer : Apart(b) /\ (Somewhere(b) => b <= made) BY DEF AccountInv, Placed
<1>7. \A b \in Buffer : Apart(b)' BY <1>1, <1>3, <1>4, <1>5, <1>6 DEF Apart
<1>8. \A b \in Buffer : Somewhere(b)' => Somewhere(b)
  <2>1. \A b \in Buffer : Somewhere(b)' <=> \/ WithThread(b)' \/ InQueue(b)' \/ InFree(b)'
                                          \/ InAside(b)' \/ taken' = b
    BY DEF Somewhere, WithThread, InQueue, InFree, InAside, Has
  <2> QED BY <2>1, <1>3, <1>4, <1>5, SomewhereIs
<1>9. \A u, v \in Thread : local'[u] # 0 /\ local'[u] = local'[v] => u = v
  <2>1. \A u \in Thread : local[u] # h BY <1>1, <1>3, <1>6 DEF Apart, WithThread
  <2> QED BY <1>1, <1>2, <2>1 DEF AccountInv, Placed
<1> QED BY <1>2, <1>3, <1>6, <1>7, <1>8, <1>9 DEF AccountInv, Placed

\* A thread without a buffer gets a new one.
LEMMA PlacedNew ==
  ASSUME AccountInv, NEW t \in Thread, AllocateNew(t), local[t] = 0
  PROVE  Placed'
<1>1. /\ local \in [Thread -> Buffer \cup {0}] /\ made \in Nat /\ made' = made + 1
      /\ made' \in Nat \ {0}
      /\ local' = [local EXCEPT ![t] = made']
      /\ UNCHANGED <<queue, free, aside, taken>>
  BY DEF AccountInv, PlaceInv, CountInv, TypeOK, Buffer, AllocateNew, writerVars
<1>2. local'[t] = made' /\ \A u \in Thread \ {t} : local'[u] = local[u] BY <1>1
<1>3. \A b \in Buffer : b # 0 /\ b \in Nat BY BuffersAssumption DEF Buffer
<1>4. \A b \in Buffer : WithThread(b)' <=> WithThread(b) \/ b = made'
  BY <1>2, <1>3 DEF WithThread
<1>5. \A b : /\ InQueue(b)' <=> InQueue(b)
             /\ InFree(b)' <=> InFree(b)
             /\ InAside(b)' <=> InAside(b)
  BY <1>1 DEF InQueue, InFree, InAside
<1>6. \A b \in Buffer : Apart(b) /\ (Somewhere(b) => b <= made) BY DEF AccountInv, Placed
<1>7. \A b \in Buffer : Somewhere(b) => b # made' /\ b <= made' BY <1>1, <1>3, <1>6
<1>8. \A b \in Buffer : Apart(b)'
  BY <1>1, <1>4, <1>5, <1>6, <1>7, SomewhereIs DEF Apart
<1>9. \A b \in Buffer : Somewhere(b)' => b <= made'
  <2>1. \A b \in Buffer : Somewhere(b)' <=> \/ WithThread(b)' \/ InQueue(b)' \/ InFree(b)'
                                          \/ InAside(b)' \/ taken' = b
    BY DEF Somewhere, WithThread, InQueue, InFree, InAside, Has
  <2>2. \A b \in Buffer : Somewhere(b)' => Somewhere(b) \/ b = made'
    BY <2>1, <1>1, <1>4, <1>5, SomewhereIs
  <2> QED BY <2>2, <1>1, <1>7
<1>10. \A u, v \in Thread : local'[u] # 0 /\ local'[u] = local'[v] => u = v
  <2>1. \A u \in Thread : local[u] # made'
    <3> SUFFICES ASSUME NEW u \in Thread, local[u] = made' PROVE FALSE OBVIOUS
    <3>1. local[u] \in Buffer BY <1>1
    <3> QED BY <3>1, <1>7 DEF Somewhere
  <2> QED BY <1>1, <1>2, <2>1 DEF AccountInv, Placed
<1> QED BY <1>1, <1>8, <1>9, <1>10 DEF AccountInv, Placed, DistinctBuffers, Distinct

\* A thread queues its buffer, which it has no more, or a copy.
LEMMA PlacedEnqueue ==
  ASSUME AccountInv, NEW t \in Thread, NEW c \in Buffer \cup {0}, Enqueue(t, c),
         \/ c = local[t] /\ local' = [local EXCEPT ![t] = 0]
         \/ c = 0 /\ local' = local,
         UNCHANGED <<free, aside, taken, made>>
  PROVE  Placed'
<1> DEFINE new == [id |-> t, n |-> flushed'[t], buf |-> c]
<1>1. /\ queue \in Seq(Queued) /\ DistinctBuffers(queue) /\ local \in [Thread -> Buffer \cup {0}]
      /\ queue' = Append(queue, new) /\ new \in Queued /\ new.buf = c
  BY DEF AccountInv, PlaceInv, CountInv, TypeOK, Placed, Enqueue, Queued
<1> HIDE DEF new
<1>2. \A b \in Buffer : b # 0 BY BuffersAssumption DEF Buffer
<1>3. \A b \in Buffer : Apart(b) /\ (Somewhere(b) => b <= made) BY DEF AccountInv, Placed
<1>4. c # 0 => c \in Buffer /\ WithThread(c) /\ ~InQueue(c)
  BY <1>3 DEF WithThread, Apart
<1>5. DistinctBuffers(queue') /\ \A b : InQueue(b)' <=> InQueue(b) \/ b = c
  BY <1>1, <1>4, QueueAppend DEF InQueue
<1>6. \A u, v \in Thread : local[u] # 0 /\ local[u] = local[v] => u = v
  BY DEF AccountInv, Placed
<1>7. \A b \in Buffer : WithThread(b)' <=> WithThread(b) /\ b # c
  <2> SUFFICES ASSUME NEW b \in Buffer PROVE WithThread(b)' <=> WithThread(b) /\ b # c
    OBVIOUS
  <2>1. CASE c = 0 /\ local' = local BY <2>1, <1>2 DEF WithThread
  <2>2. CASE c = local[t] /\ local' = [local EXCEPT ![t] = 0]
    <3>1. local'[t] = 0 /\ \A u \in Thread \ {t} : local'[u] = local[u] BY <2>2, <1>1
    <3>2. ASSUME NEW u \in Thread, local'[u] = b PROVE local[u] = b /\ b # c
      BY <3>1, <3>2, <2>2, <1>2, <1>6
    <3>3. ASSUME NEW u \in Thread, local[u] = b, b # c PROVE local'[u] = b
      BY <3>1, <3>3, <2>2
    <3> QED BY <3>2, <3>3 DEF WithThread
  <2> QED BY <2>1, <2>2
<1>8. \A b : (InFree(b)' <=> InFree(b)) /\ (InAside(b)' <=> InAside(b))
  BY DEF InFree, InAside
<1>9. \A b \in Buffer : Apart(b)' BY <1>2, <1>3, <1>4, <1>5, <1>7, <1>8 DEF Apart
<1>10. \A b \in Buffer : Somewhere(b)' => Somewhere(b)
  <2>1. \A b \in Buffer : Somewhere(b)' <=> \/ WithThread(b)' \/ InQueue(b)' \/ InFree(b)'
                                          \/ InAside(b)' \/ taken' = b
    BY DEF Somewhere, WithThread, InQueue, InFree, InAside, Has
  <2> QED BY <2>1, <1>2, <1>4, <1>5, <1>7, <1>8, SomewhereIs
<1>11. \A u, v \in Thread : local'[u] # 0 /\ local'[u] = local'[v] => u = v
  BY <1>1, <1>6
<1> QED BY <1>3, <1>5, <1>9, <1>10, <1>11 DEF AccountInv, Placed, Distinct

\* The writer takes the first buffer of the queue, or a copy.
LEMMA PlacedPop ==
  ASSUME AccountInv, PopBuffer
  PROVE  Placed'
<1> DEFINE c == Head(queue).buf
<1>1. /\ queue \in Seq(Queued) /\ queue # <<>> /\ taken = 0 /\ DistinctBuffers(queue)
      /\ queue' = Tail(queue) /\ taken' = c /\ UNCHANGED <<local, free, aside, made>>
  BY DEF AccountInv, PlaceInv, CountInv, TypeOK, AtLimit, Placed, PopBuffer, threadVars, poolVars
<1>2. \A b \in Buffer : b # 0 BY BuffersAssumption DEF Buffer
<1>3. /\ DistinctBuffers(queue') /\ InQueue(c)
      /\ \A b : b # 0 => (InQueue(b)' <=> InQueue(b) /\ b # c)
  BY <1>1, QueueTail DEF InQueue
<1> HIDE DEF c
<1>4. \A b : /\ WithThread(b)' <=> WithThread(b)
             /\ InFree(b)' <=> InFree(b)
             /\ InAside(b)' <=> InAside(b)
  BY <1>1 DEF WithThread, InFree, InAside
<1>5. \A b \in Buffer : Apart(b) /\ (Somewhere(b) => b <= made) BY DEF AccountInv, Placed
<1>6. \A b \in Buffer : Apart(b)' BY <1>1, <1>2, <1>3, <1>4, <1>5 DEF Apart
<1>7. \A b \in Buffer : Somewhere(b)' => Somewhere(b)
  <2>1. \A b \in Buffer : Somewhere(b)' <=> \/ WithThread(b)' \/ InQueue(b)' \/ InFree(b)'
                                          \/ InAside(b)' \/ taken' = b
    BY DEF Somewhere, WithThread, InQueue, InFree, InAside, Has
  <2> QED BY <2>1, <1>1, <1>2, <1>3, <1>4, SomewhereIs
<1> QED BY <1>1, <1>3, <1>5, <1>6, <1>7 DEF AccountInv, Placed, Distinct

\* The writer gives its buffer back or puts it aside, or ends the limit: the lists stay
\* distinct, and hold what they held and the writer's buffer.
LEMMA PlacedRelease ==
  ASSUME AccountInv, ReleaseToList \/ PutAside \/ (EndLimit /\ aside # <<>>)
  PROVE  Placed'
<1>1. /\ free \in Seq(Buffer) /\ aside \in Seq(Buffer) /\ taken \in Buffer /\ taken # 0
      /\ Distinct(free) /\ Distinct(aside)
  <2>1. writer = "release" BY DEF ReleaseToList, PutAside, EndLimit
  <2> QED BY <2>1 DEF AccountInv, PlaceInv, CountInv, TypeOK, AtLimit, Placed
<1>2. UNCHANGED <<local, queue, made>> /\ taken' = 0
  <2>1. CASE ReleaseToList \/ PutAside
    BY <2>1 DEF ReleaseToList, PutAside, threadVars, poolVars
  <2>2. CASE EndLimit /\ aside # <<>> BY <2>2 DEF EndLimit
  <2> QED BY <2>1, <2>2
<1>3. \A b \in Buffer : b # 0 BY BuffersAssumption DEF Buffer
<1>4. \A b \in Buffer : Apart(b) /\ (Somewhere(b) => b <= made) BY DEF AccountInv, Placed
<1>5. ~InFree(taken) /\ ~InAside(taken) BY <1>1, <1>4 DEF Apart
<1>6. \A b \in Buffer : ~(InFree(b) /\ InAside(b)) BY <1>4 DEF Apart
<1>7. Disjoint(aside, free)
  <2>1. \A i \in DOMAIN aside : aside[i] \in Buffer BY <1>1
  <2>2. \A b : Has(aside, b) => b \in Buffer BY <2>1 DEF Has
  <2> QED BY <2>2, <1>6 DEF InFree, InAside, Disjoint
<1>12. ~Has(free, taken) /\ ~Has(aside, taken) BY <1>5 DEF InFree, InAside
<1>13. /\ <<>> \in Seq(Buffer) /\ Distinct(<<>>) /\ \A b : ~Has(<<>>, b)
       /\ Disjoint(<<>>, free) /\ Disjoint(aside, <<>>)
  BY DEF Distinct, Has, Disjoint
<1>14. \A s, u \in Seq(Buffer) : /\ s \o <<taken>> \o u \in Seq(Buffer)
                                 /\ Joined(s \o <<taken>> \o u, s, taken, u)
  BY <1>1, JoinLists DEF Joined
<1>8. /\ Distinct(free') /\ Distinct(aside')
      /\ \A b \in Buffer : InFree(b)' \/ InAside(b)' <=> InFree(b) \/ InAside(b) \/ b = taken
      /\ \A b \in Buffer : ~(InFree(b)' /\ InAside(b)')
  <2>1. CASE ReleaseToList
    <3>1. free' = <<taken>> \o free /\ aside' = aside BY <2>1 DEF ReleaseToList
    <3>2. free' = <<>> \o <<taken>> \o free BY <3>1, <1>1
    <3>3. Distinct(free') /\ \A b : Has(free', b) <=> b = taken \/ Has(free, b)
      <4>1. free' \in Seq(Buffer) /\ Joined(free', <<>>, taken, free) BY <1>1, <1>13, <1>14, <3>2
      <4> QED BY <1>1, <1>12, <1>13, <4>1, JoinDistinct, ZenonT(30)
    <3> QED BY <1>1, <1>5, <1>6, <3>1, <3>3 DEF InFree, InAside
  <2>2. CASE PutAside
    <3>1. aside' = Append(aside, taken) /\ free' = free BY <2>2 DEF PutAside, poolVars
    <3>2. aside' = aside \o <<taken>> \o <<>> BY <3>1, <1>1
    <3>3. Distinct(aside') /\ \A b : Has(aside', b) <=> Has(aside, b) \/ b = taken
      <4>1. aside' \in Seq(Buffer) /\ Joined(aside', aside, taken, <<>>) BY <1>1, <1>13, <1>14, <3>2
      <4> QED BY <1>1, <1>12, <1>13, <4>1, JoinDistinct
    <3> QED BY <1>1, <1>5, <1>6, <3>1, <3>3 DEF InFree, InAside
  <2>3. CASE EndLimit /\ aside # <<>>
    <3>1. free' = aside \o <<taken>> \o free /\ aside' = <<>> BY <2>3 DEF EndLimit
    <3>2. Distinct(free') /\ \A b : Has(free', b) <=> Has(aside, b) \/ b = taken \/ Has(free, b)
      <4>1. free' \in Seq(Buffer) /\ Joined(free', aside, taken, free) BY <1>1, <1>14, <3>1
      <4> QED BY <1>1, <1>7, <1>12, <4>1, JoinDistinct
    <3> QED BY <1>13, <3>1, <3>2 DEF InFree, InAside
  <2> QED BY <2>1, <2>2, <2>3
<1>9. \A b : (WithThread(b)' <=> WithThread(b)) /\ (InQueue(b)' <=> InQueue(b))
  BY <1>2 DEF WithThread, InQueue
<1>10. \A b \in Buffer : Apart(b)' BY <1>1, <1>2, <1>3, <1>4, <1>8, <1>9 DEF Apart
<1>11. \A b \in Buffer : Somewhere(b)' => Somewhere(b)
  <2>1. \A b \in Buffer : Somewhere(b)' <=> \/ WithThread(b)' \/ InQueue(b)' \/ InFree(b)'
                                          \/ InAside(b)' \/ taken' = b
    BY DEF Somewhere, WithThread, InQueue, InFree, InAside, Has
  <2> QED BY <2>1, <1>2, <1>3, <1>8, <1>9, SomewhereIs
<1> QED BY <1>2, <1>4, <1>8, <1>10, <1>11 DEF AccountInv, Placed, DistinctBuffers

\* No step of a thread puts a buffer into two places, ...
LEMMA PlacedThread ==
  ASSUME AccountInv, NEW t \in Thread, ThreadStep(t) \/ WakesUnsignalled(t) \/ MainStep
  PROVE  Placed'
<1>0. /\ local \in [Thread -> Buffer \cup {0}] /\ Placed /\ Main \in Thread
      /\ \A u \in Thread : pc[u] \notin {"run", "leave"} => local[u] = 0
  BY BuffersAssumption DEF AccountInv, PlaceInv, CountInv, TypeOK, Covered
<1>9. local[t] \in Buffer \cup {0} /\ local[Main] \in Buffer \cup {0} BY <1>0
<1> USE DEF countVars, writerVars, poolVars
<1>1. CASE AllocateFromList(t) BY <1>0, <1>1, PlacedTake DEF AllocateFromList
<1>2. CASE AllocateNew(t) BY <1>0, <1>2, PlacedNew DEF AllocateNew
<1>3. CASE WokenTakes(t)
  <2>1. CASE free = <<>> BY <1>0, <1>3, <2>1, PlacedIdle DEF WokenTakes
  <2>2. CASE free # <<>> BY <1>0, <1>3, <2>2, PlacedTake DEF WokenTakes
  <2> QED BY <2>1, <2>2
<1>4. CASE FlushFull(t) BY <1>9, <1>4, PlacedEnqueue DEF FlushFull
<1>5. CASE FlushSmall(t) BY <1>5, PlacedEnqueue DEF FlushSmall
<1>6. CASE EndThread(t) BY <1>9, <1>6, PlacedEnqueue DEF EndThread, QueueLast
<1>7. CASE EndMain BY <1>0, <1>9, <1>7, PlacedEnqueue DEF EndMain, QueueLast
<1>8. CASE UNCHANGED <<local, queue, free, aside, taken, made>> BY <1>0, <1>8, PlacedIdle
<1> QED BY <1>1, <1>2, <1>3, <1>4, <1>5, <1>6, <1>7, <1>8
    DEF ThreadStep, MainStep, AllocateSleeps, WakesUnsignalled, WokenSleeps, CreateThread,
        CountExit, CountMain, JoinWriter

\* ... and none of the writer.
LEMMA PlacedWriter ==
  ASSUME AccountInv, WriterStep
  PROVE  Placed'
<1> USE DEF countVars, poolVars, threadVars
<1>1. CASE PopBuffer BY <1>1, PlacedPop
<1>2. CASE ReleaseToList \/ PutAside \/ (EndLimit /\ aside # <<>>) BY <1>2, PlacedRelease
<1>3. CASE UNCHANGED <<local, queue, free, aside, taken, made>>
  BY <1>3, PlacedIdle DEF AccountInv
<1>4. CASE EndLimit /\ aside = <<>>
  <2>1. UNCHANGED <<local, queue, free, aside, taken, made>> BY <1>4 DEF EndLimit
  <2> QED BY <2>1, <1>3
<1> QED BY <1>1, <1>2, <1>3, <1>4
    DEF WriterStep, WriterWakes, WriterTimesOut, WriteBuffer, LeaveLoop, CheckExit, writerVars

\* The writer's buffer is not on the free list: the free list is shorter than the buffers
\* are many.
LEMMA CountFollows ==
  ASSUME AccountInv
  PROVE  CountExact
<1>1. /\ MaxBuffers \in Nat /\ current \in Int /\ made \in Nat /\ made <= MaxBuffers
      /\ current + Len(free) = made /\ free \in Seq(Buffer) /\ Distinct(free)
      /\ writer = "release" => taken \in Buffer
  BY BuffersAssumption
  DEF AccountInv, PlaceInv, CountInv, TypeOK, AtLimit, Buffer, Placed
<1>2. Len(free) \in Nat /\ DOMAIN free = 1 .. Len(free) BY <1>1, LenProperties
<1>3. ASSUME writer = "release" PROVE current > 0
  <2> DEFINE Others == (1 .. made) \ {taken}
  <2>1. \A b \in Buffer : Apart(b) /\ (Somewhere(b) => b <= made) BY DEF AccountInv, Placed
  <2>2. taken \in 1 .. made /\ ~InFree(taken)
    <3>1. Somewhere(taken) BY DEF Somewhere
    <3> QED BY <1>1, <1>3, <2>1, <3>1 DEF Apart, Buffer
  <2>3. ASSUME NEW i \in DOMAIN free PROVE free[i] \in Others
    <3>1. free[i] \in Buffer BY <1>1
    <3>2. Somewhere(free[i]) BY DEF Somewhere
    <3>3. free[i] # taken BY <2>2 DEF InFree, Has
    <3> QED BY <1>1, <2>1, <3>1, <3>2, <3>3 DEF Buffer
  <2>4. PICK k \in Nat : k = Len(free) BY <1>2
  <2>5. free \in Injection(1 .. k, Others)
    <3>1. free \in [1 .. k -> Others] BY <1>1, <1>2, <2>3, <2>4
    <3>2. IsInjective(free) BY <1>1 DEF Distinct, IsInjective
    <3> HIDE DEF Others
    <3> QED BY <3>1, <3>2 DEF Injection
  <2>6. /\ IsFiniteSet(1 .. made) /\ Cardinality(1 .. made) = IF 1 > made THEN 0 ELSE made - 1 + 1
        /\ Cardinality(1 .. k) = IF 1 > k THEN 0 ELSE k - 1 + 1
    <3>1. PICK m \in Nat : m = made BY <1>1
    <3>2. IsFiniteSet(1 .. m) /\ Cardinality(1 .. m) = IF 1 > m THEN 0 ELSE m - 1 + 1
      BY FS_Interval
    <3>3. Cardinality(1 .. k) = IF 1 > k THEN 0 ELSE k - 1 + 1 BY FS_Interval
    <3> QED BY <3>1, <3>2, <3>3
  <2>7. IsFiniteSet(Others) /\ Cardinality(Others) = Cardinality(1 .. made) - 1
    BY <2>2, <2>6, FS_RemoveElement
  <2> HIDE DEF Others
  <2>8. Cardinality(1 .. k) <= Cardinality(Others) BY <2>5, <2>7, FS_Injection
  <2> QED BY <1>1, <2>2, <2>4, <2>6, <2>7, <2>8
<1> QED BY <1>1, <1>2, <1>3 DEF CountExact

\* A buffer that is somewhere, once, has one place.
LEMMA PlaceFollows ==
  ASSUME AccountInv
  PROVE  BufferInOnePlace
<1> SUFFICES ASSUME NEW b \in 1 .. made
             PROVE  \E p \in PlacesOf(b) : PlacesOf(b) = {p}
  BY DEF BufferInOnePlace
<1>1. b \in Buffer /\ b # 0
  BY BuffersAssumption DEF AccountInv, PlaceInv, CountInv, TypeOK, Buffer
<1>2. Somewhere(b) /\ Apart(b) BY <1>1 DEF AccountInv, PlaceInv, Covered, Placed
<1>3. /\ \A t, u \in Thread : local[t] # 0 /\ local[t] = local[u] => t = u
      /\ DistinctBuffers(queue) /\ Distinct(free) /\ Distinct(aside)
  BY DEF AccountInv, Placed
<1> DEFINE T == {u \in Thread : local[u] = b}
           Q == {j \in DOMAIN queue : queue[j].buf = b}
           F == {j \in DOMAIN free : free[j] = b}
           A == {j \in DOMAIN aside : aside[j] = b}
           W == {j \in {0} : taken = b}
<1>4. /\ WithThread(b) => \E x : T = {x}
      /\ InQueue(b) => \E x : Q = {x}
      /\ InFree(b) => \E x : F = {x}
      /\ InAside(b) => \E x : A = {x}
      /\ taken = b => \E x : W = {x}
  <2>1. ASSUME WithThread(b) PROVE \E x : T = {x}
    <3>1. PICK x \in Thread : local[x] = b BY <2>1 DEF WithThread
    <3>2. T = {x} BY <1>1, <1>3, <3>1
    <3> QED BY <3>2
  <2>2. ASSUME InQueue(b) PROVE \E x : Q = {x}
    <3>1. PICK x \in DOMAIN queue : queue[x].buf = b BY <2>2 DEF InQueue
    <3>2. Q = {x} BY <1>1, <1>3, <3>1 DEF DistinctBuffers
    <3> QED BY <3>2
  <2>3. ASSUME InFree(b) PROVE \E x : F = {x}
    <3>1. PICK x \in DOMAIN free : free[x] = b BY <2>3 DEF InFree, Has
    <3>2. F = {x} BY <1>3, <3>1 DEF Distinct
    <3> QED BY <3>2
  <2>4. ASSUME InAside(b) PROVE \E x : A = {x}
    <3>1. PICK x \in DOMAIN aside : aside[x] = b BY <2>4 DEF InAside, Has
    <3>2. A = {x} BY <1>3, <3>1 DEF Distinct
    <3> QED BY <3>2
  <2>5. ASSUME taken = b PROVE \E x : W = {x}
    <3>1. W = {0} BY <2>5
    <3> QED BY <3>1
  <2> QED BY <2>1, <2>2, <2>3, <2>4, <2>5
<1>5. /\ ~WithThread(b) => T = {}
      /\ ~InQueue(b) => Q = {}
      /\ ~InFree(b) => F = {}
      /\ ~InAside(b) => A = {}
      /\ taken # b => W = {}
  BY DEF WithThread, InQueue, InFree, InAside, Has
<1>6. PlacesOf(b) = {<<"thread", t>> : t \in T} \cup {<<"queue", i>> : i \in Q}
                      \cup {<<"free", i>> : i \in F} \cup {<<"aside", i>> : i \in A}
                      \cup {<<"writer", 0>> : i \in W}
  BY DEF PlacesOf
<1> HIDE DEF T, Q, F, A, W
<1>7. CASE WithThread(b)
  <2>1. Q = {} /\ F = {} /\ A = {} /\ W = {} BY <1>2, <1>5, <1>7 DEF Apart
  <2>2. PICK x : T = {x} BY <1>4, <1>7
  <2>3. PlacesOf(b) = {<<"thread", x>>} BY <1>6, <2>1, <2>2
  <2> QED BY <2>3
<1>8. CASE InQueue(b)
  <2>1. T = {} /\ F = {} /\ A = {} /\ W = {} BY <1>2, <1>5, <1>8 DEF Apart
  <2>2. PICK x : Q = {x} BY <1>4, <1>8
  <2>3. PlacesOf(b) = {<<"queue", x>>} BY <1>6, <2>1, <2>2
  <2> QED BY <2>3
<1>9. CASE InFree(b)
  <2>1. T = {} /\ Q = {} /\ A = {} /\ W = {} BY <1>2, <1>5, <1>9 DEF Apart
  <2>2. PICK x : F = {x} BY <1>4, <1>9
  <2>3. PlacesOf(b) = {<<"free", x>>} BY <1>6, <2>1, <2>2
  <2> QED BY <2>3
<1>10. CASE InAside(b)
  <2>1. T = {} /\ Q = {} /\ F = {} /\ W = {} BY <1>2, <1>5, <1>10 DEF Apart
  <2>2. PICK x : A = {x} BY <1>4, <1>10
  <2>3. PlacesOf(b) = {<<"aside", x>>} BY <1>6, <2>1, <2>2
  <2> QED BY <2>3
<1>11. CASE taken = b
  <2>1. T = {} /\ Q = {} /\ F = {} /\ A = {} BY <1>2, <1>5, <1>11 DEF Apart
  <2>2. PICK x : W = {x} BY <1>4, <1>11
  <2>3. PlacesOf(b) = {<<"writer", 0>>} BY <1>6, <2>1, <2>2
  <2> QED BY <2>3
<1> QED BY <1>2, <1>7, <1>8, <1>9, <1>10, <1>11, SomewhereIs

\* Every buffer that was made is in one place, whoever holds it, whatever the limit and
\* wherever a fault stopped a thread or the writer, and __ctCurrentBuffers is what is not on
\* the free list.
THEOREM BuffersCorrect == Spec => []BuffersAccounted
<1>1. Init => AccountInv
  BY CountInit, CoveredInit, PlacedInit DEF AccountInv, PlaceInv
<1>2. AccountInv /\ [Next]_vars => AccountInv'
  <2> SUFFICES ASSUME AccountInv, [Next]_vars PROVE AccountInv' OBVIOUS
  <2>1. PlaceInv' BY CoveredStep DEF AccountInv
  <2>2. ASSUME NEW t \in Thread, ThreadStep(t) \/ WakesUnsignalled(t) PROVE Placed'
    BY <2>2, PlacedThread
  <2>3. CASE MainStep BY <2>1, <2>3, PlacedThread, BuffersAssumption DEF AccountInv
  <2>4. CASE WriterStep BY <2>1, <2>4, PlacedWriter DEF AccountInv
  <2>5. CASE UNCHANGED vars
    <3>1. UNCHANGED <<local, queue, free, aside, taken, made>>
      BY <2>5 DEF vars, threadVars, poolVars, writerVars
    <3> QED BY <2>1, <3>1, PlacedIdle DEF AccountInv
  <2> QED BY <2>1, <2>2, <2>3, <2>4, <2>5 DEF Next, AccountInv
<1>3. AccountInv => BuffersAccounted
  BY CountFollows, PlaceFollows DEF BuffersAccounted
<1> QED BY <1>1, <1>2, <1>3, PTL DEF Spec

-----------------------------------------------------------------------------
(* The trace *)

Row == Thread \X Nat

\* The rows of a queue when the first is (or is not) in the file already.
RowsOf(q, written) ==
  LET r == IF written THEN Tail(q) ELSE q
  IN  [i \in DOMAIN r |-> <<r[i].id, r[i].n>>]

\* The rows a queue stands for, with or without the one that is being written.
LEMMA RowsAre ==
  ASSUME NEW q \in Seq(Queued), NEW written \in BOOLEAN, written => q # <<>>
  PROVE  /\ RowsOf(q, written) \in Seq(Row)
         /\ ~written => /\ Len(RowsOf(q, written)) = Len(q)
                        /\ \A i \in 1 .. Len(q) : RowsOf(q, written)[i] = <<q[i].id, q[i].n>>
         /\ written => /\ Len(q) >= 1
                       /\ Len(RowsOf(q, written)) = Len(q) - 1
                       /\ \A i \in 1 .. Len(q) - 1 :
                            RowsOf(q, written)[i] = <<q[i + 1].id, q[i + 1].n>>
<1> DEFINE r == IF written THEN Tail(q) ELSE q
           u == [i \in DOMAIN r |-> <<r[i].id, r[i].n>>]
<1>2. /\ r \in Seq(Queued) /\ Len(r) \in Nat /\ Len(q) \in Nat
      /\ ~written => r = q
      /\ written => /\ Len(q) >= 1 /\ Len(r) = Len(q) - 1
                    /\ \A i \in 1 .. Len(q) - 1 : r[i] = q[i + 1]
  OBVIOUS
<1>3. RowsOf(q, written) = u BY DEF RowsOf
<1> HIDE DEF r
<1>4. \A i \in 1 .. Len(r) : r[i] \in Queued BY <1>2
<1>5. u \in Seq(Row) /\ Len(u) = Len(r) /\ \A i \in 1 .. Len(r) : u[i] = <<r[i].id, r[i].n>>
  <2>1. DOMAIN r = 1 .. Len(r) BY <1>2
  <2>2. \A i \in 1 .. Len(r) : <<r[i].id, r[i].n>> \in Row BY <1>4 DEF Queued, Row
  <2>3. u \in [1 .. Len(r) -> Row] BY <2>1, <2>2
  <2>4. u \in Seq(Row) BY <2>3, <1>2, SeqDef
  <2>5. DOMAIN u = 1 .. Len(r) BY <2>1
  <2>6. Len(u) = Len(r) BY <2>4, <2>5, <1>2, LenProperties
  <2> QED BY <2>1, <2>4, <2>6
<1> HIDE DEF u
<1> QED BY <1>2, <1>3, <1>5

\* What is left to write is the rows of the queue.
LEMMA UnwrittenIsRows ==
  /\ Unwritten = RowsOf(queue, writer = "pop")
  /\ Unwritten' = RowsOf(queue', writer' = "pop")
BY DEF Unwritten, RowsOf

\* A queue that grows by a buffer grows by its row.
LEMMA RowsGrow ==
  ASSUME NEW q \in Seq(Queued), NEW written \in BOOLEAN, written => q # <<>>,
         NEW x \in Queued
  PROVE  RowsOf(Append(q, x), written) = Append(RowsOf(q, written), <<x.id, x.n>>)
<1> DEFINE p == Append(q, x)
           row == <<x.id, x.n>>
<1>1. /\ p \in Seq(Queued) /\ p # <<>> /\ Len(p) = Len(q) + 1 /\ Len(q) \in Nat
      /\ \A i \in 1 .. Len(q) : p[i] = q[i]
      /\ p[Len(q) + 1] = x
  BY AppendProperties, LenProperties
<1>2. row \in Row BY DEF Queued, Row
<1>r. row = <<x.id, x.n>> OBVIOUS
<1> HIDE DEF p, row
<1> DEFINE u == RowsOf(q, written)
           v == RowsOf(p, written)
<1>3. /\ u \in Seq(Row) /\ v \in Seq(Row) BY <1>1, RowsAre
<1>4. /\ Len(v) = Len(u) + 1
      /\ \A i \in 1 .. Len(u) : v[i] = u[i]
      /\ v[Len(u) + 1] = row
  <2>1. CASE written
    <3>1. /\ Len(q) >= 1 /\ Len(u) = Len(q) - 1
          /\ \A i \in 1 .. Len(q) - 1 : u[i] = <<q[i + 1].id, q[i + 1].n>>
      BY <2>1, RowsAre
    <3>2. /\ Len(v) = Len(p) - 1
          /\ \A i \in 1 .. Len(p) - 1 : v[i] = <<p[i + 1].id, p[i + 1].n>>
      BY <2>1, <1>1, RowsAre
    <3>3. \A i \in 1 .. Len(q) - 1 : p[i + 1] = q[i + 1] BY <1>1
    <3> HIDE DEF u, v
    <3>4. Len(v) = Len(u) + 1 BY <3>1, <3>2, <1>1
    <3>5. ASSUME NEW i \in 1 .. Len(u) PROVE v[i] = u[i]
      <4>1. i \in 1 .. Len(q) - 1 /\ i \in 1 .. Len(p) - 1 BY <3>1, <1>1
      <4> QED BY <4>1, <3>1, <3>2, <3>3
    <3>6. v[Len(u) + 1] = row
      <4>1. Len(q) \in 1 .. Len(p) - 1 /\ Len(u) + 1 = Len(q) BY <3>1, <1>1
      <4>2. v[Len(q)] = <<p[Len(q) + 1].id, p[Len(q) + 1].n>> BY <4>1, <3>2
      <4> QED BY <4>1, <4>2, <1>1, <1>r
    <3> QED BY <3>4, <3>5, <3>6
  <2>2. CASE ~written
    <3>1. /\ Len(u) = Len(q)
          /\ \A i \in 1 .. Len(q) : u[i] = <<q[i].id, q[i].n>>
      BY <2>2, RowsAre
    <3>2. /\ Len(v) = Len(p)
          /\ \A i \in 1 .. Len(p) : v[i] = <<p[i].id, p[i].n>>
      BY <2>2, <1>1, RowsAre
    <3> HIDE DEF u, v
    <3>4. Len(v) = Len(u) + 1 BY <3>1, <3>2, <1>1
    <3>5. ASSUME NEW i \in 1 .. Len(u) PROVE v[i] = u[i]
      <4>1. i \in 1 .. Len(q) /\ i \in 1 .. Len(p) BY <3>1, <1>1
      <4> QED BY <4>1, <3>1, <3>2, <1>1
    <3>6. v[Len(u) + 1] = row
      <4>1. Len(q) + 1 \in 1 .. Len(p) BY <1>1
      <4>2. v[Len(q) + 1] = <<p[Len(q) + 1].id, p[Len(q) + 1].n>> BY <4>1, <3>2
      <4> QED BY <4>2, <3>1, <1>1, <1>r
    <3> QED BY <3>4, <3>5, <3>6
  <2> QED BY <2>1, <2>2
<1> HIDE DEF u, v
<1>5. /\ Append(u, row) \in Seq(Row) /\ Len(Append(u, row)) = Len(u) + 1
      /\ \A i \in 1 .. Len(u) : Append(u, row)[i] = u[i]
      /\ Append(u, row)[Len(u) + 1] = row
  BY <1>2, <1>3, AppendProperties
<1>6. \A i \in 1 .. Len(v) : v[i] = Append(u, row)[i] BY <1>3, <1>4, <1>5, LenProperties
<1>7. v = Append(u, row) BY <1>3, <1>4, <1>5, <1>6, SeqEqual
<1> QED BY <1>7, <1>r DEF p, u, v

\* Taking the first buffer off the queue, when it has been written.
LEMMA RowsTail ==
  ASSUME NEW q \in Seq(Queued), q # <<>>
  PROVE  /\ RowsOf(q, TRUE) = RowsOf(Tail(q), FALSE)
         /\ RowsOf(q, FALSE) = <<<<q[1].id, q[1].n>>>> \o RowsOf(q, TRUE)
<1>1. RowsOf(q, TRUE) = RowsOf(Tail(q), FALSE) BY DEF RowsOf
<1> DEFINE row == <<q[1].id, q[1].n>>
           u == RowsOf(q, TRUE)
           v == RowsOf(q, FALSE)
<1>2. row \in Row /\ Len(q) \in Nat
  <2>1. Len(q) \in Nat /\ q[1] \in Queued OBVIOUS
  <2> QED BY <2>1 DEF Queued, Row
<1>3. /\ u \in Seq(Row) /\ Len(u) = Len(q) - 1 /\ Len(q) >= 1
      /\ \A i \in 1 .. Len(q) - 1 : u[i] = <<q[i + 1].id, q[i + 1].n>>
  BY RowsAre
<1>4. /\ v \in Seq(Row) /\ Len(v) = Len(q)
      /\ \A i \in 1 .. Len(q) : v[i] = <<q[i].id, q[i].n>>
  BY RowsAre
<1>5. v[1] = row
  <2>1. 1 \in 1 .. Len(q) BY <1>2, <1>3
  <2> HIDE DEF u, v
  <2> QED BY <2>1, <1>4
<1> HIDE DEF row, u, v
<1>6. /\ <<row>> \o u \in Seq(Row) /\ Len(<<row>> \o u) = Len(q)
      /\ (<<row>> \o u)[1] = row
      /\ \A i \in 2 .. Len(q) : (<<row>> \o u)[i] = u[i - 1]
  BY <1>2, <1>3
<1>7. ASSUME NEW i \in 2 .. Len(q) PROVE u[i - 1] = v[i]
  <2>1. i \in 1 .. Len(q) /\ i - 1 \in 1 .. Len(q) - 1 /\ (i - 1) + 1 = i BY <1>2
  <2>2. u[i - 1] = <<q[(i - 1) + 1].id, q[(i - 1) + 1].n>> BY <2>1, <1>3
  <2>3. v[i] = <<q[i].id, q[i].n>> BY <2>1, <1>4
  <2> QED BY <2>1, <2>2, <2>3
<1>8. \A i \in 1 .. Len(v) : v[i] = (<<row>> \o u)[i]
  <2> SUFFICES ASSUME NEW i \in 1 .. Len(q) PROVE v[i] = (<<row>> \o u)[i] BY <1>4
  <2>1. CASE i = 1 BY <2>1, <1>5, <1>6
  <2>2. CASE i # 1 BY <2>2, <1>2, <1>6, <1>7
  <2> QED BY <2>1, <2>2
<1>9. v = <<row>> \o u BY <1>4, <1>6, <1>8, SeqEqual
<1> QED BY <1>1, <1>9 DEF row, u, v

\* Steps that the trace does not see.
LEMMA TraceStutters ==
  ASSUME UNCHANGED <<flushed, file, queue>>,
         writer = "pop" <=> writer' = "pop", writer = "ended" <=> writer' = "ended"
  PROVE  UNCHANGED Trace!vars
<1>1. Unwritten' = Unwritten BY DEF Unwritten
<1> QED BY <1>1 DEF Trace!vars

\* Queueing a buffer hands it over.
LEMMA EnqueueHandsOver ==
  ASSUME CountInv, NEW t \in Thread, NEW b \in Buffer \cup {0}, Enqueue(t, b),
         UNCHANGED <<writer, file>>
  PROVE  Trace!HandOver(t)
<1> DEFINE row == <<t, flushed'[t]>>
           new == [id |-> t, n |-> flushed'[t], buf |-> b]
<1>1. /\ flushed' = [flushed EXCEPT ![t] = @ + 1] /\ flushed'[t] \in Nat
      /\ queue' = Append(queue, new)
  BY DEF Enqueue, CountInv, TypeOK
<1>2. new \in Queued /\ new.id = t /\ new.n = flushed'[t] /\ row \in Row
  BY <1>1 DEF Queued, Row
<1>3. queue \in Seq(Queued) /\ file \in Seq(Row) /\ (writer = "pop" => queue # <<>>)
  BY DEF CountInv, TypeOK, AtLimit, Row
<1>4. RowsOf(queue', writer' = "pop") = Append(RowsOf(queue, writer = "pop"), row)
  <2> HIDE DEF new, row
  <2>1. RowsOf(Append(queue, new), writer = "pop")
          = Append(RowsOf(queue, writer = "pop"), <<new.id, new.n>>)
    BY <1>2, <1>3, RowsGrow
  <2> QED BY <1>1, <1>2, <2>1 DEF row
<1>5. Unwritten' = Append(Unwritten, row) BY <1>4, UnwrittenIsRows
<1>6. Unwritten \in Seq(Row) BY <1>3, RowsAre, UnwrittenIsRows
<1>7. file \o Append(Unwritten, row) = Append(file \o Unwritten, row)
  <2> HIDE DEF row
  <2> QED BY <1>2, <1>3, <1>6
<1> QED BY <1>1, <1>5, <1>7 DEF Trace!HandOver

\* Writing the first buffer.
LEMMA WriteWrites ==
  ASSUME CountInv, WriteBuffer
  PROVE  Trace!Write
<1> DEFINE row == <<queue[1].id, queue[1].n>>
           rest == RowsOf(queue, TRUE)
<1>1. queue \in Seq(Queued) /\ queue # <<>> /\ file \in Seq(Row)
  BY DEF CountInv, TypeOK, WriteBuffer, Row
<1>2. row \in Row /\ rest \in Seq(Row) /\ Unwritten = <<row>> \o rest
  <2>1. Unwritten = RowsOf(queue, FALSE) BY UnwrittenIsRows DEF WriteBuffer
  <2>2. queue[1] \in Queued BY <1>1
  <2> QED BY <1>1, <2>1, <2>2, RowsAre, RowsTail DEF Queued, Row
<1>3. Unwritten' = rest BY UnwrittenIsRows DEF WriteBuffer
<1>4. file' = Append(file, row) BY <1>1 DEF WriteBuffer
<1> HIDE DEF row, rest
<1>5. /\ Append(file, row) \o rest = file \o (<<row>> \o rest)
      /\ Len(file) < Len(file \o (<<row>> \o rest))
      /\ (file \o (<<row>> \o rest))[Len(file) + 1] = row
  <2>1. Append(file, row) = file \o <<row>> BY <1>1, <1>2
  <2>2. <<row>> \in Seq(Row) BY <1>2
  <2>3. (file \o <<row>>) \o rest = file \o (<<row>> \o rest)
    BY <1>1, <1>2, <2>2, ConcatAssociative
  <2>4. <<row>> \o rest \in Seq(Row) /\ Len(<<row>> \o rest) >= 1 /\ (<<row>> \o rest)[1] = row
    BY <1>2
  <2> QED BY <1>1, <2>1, <2>3, <2>4
<1>6. UNCHANGED <<flushed, queue>> /\ writer = "scan" /\ writer' = "pop"
  BY DEF WriteBuffer, threadVars
<1>7. file' \o Unwritten' = file \o Unwritten BY <1>2, <1>3, <1>4, <1>5
<1> QED BY <1>2, <1>4, <1>5, <1>6, <1>7 DEF Trace!Write

\* The writer exits when everything is written.
LEMMA ExitCloses ==
  ASSUME CountInv, CheckExit, writer' = "ended"
  PROVE  Trace!Close
<1>1. queue = <<>> /\ writer = "check" /\ UNCHANGED <<flushed, file, queue>>
  BY DEF CheckExit, threadVars, writerVars
<1>2. Unwritten = <<>> /\ Unwritten' = <<>>
  <2>1. queue \in Seq(Queued) /\ Len(queue) = 0 BY <1>1 DEF CountInv, TypeOK
  <2>2. RowsOf(queue, FALSE) \in Seq(Row) /\ Len(RowsOf(queue, FALSE)) = 0 BY <2>1, RowsAre
  <2>3. RowsOf(queue, FALSE) = <<>> BY <2>2, EmptySeq
  <2> QED BY <1>1, <2>3, UnwrittenIsRows
<1>3. file \o <<>> = file
  <2>1. file \in Seq(Row) BY DEF CountInv, TypeOK, Row
  <2> QED BY <2>1, ConcatEmptySeq
<1> QED BY <1>1, <1>2, <1>3 DEF Trace!Close

\* The runtime implements TraceFile: every buffer that is queued is written once, in the order
\* of the queue, and the writer exits with nothing left, for every number of threads, limit
\* and number of buffers.
THEOREM TraceCorrect == Spec => ImplementsTraceFile
<1>1. Init => Trace!Init
  <2> SUFFICES ASSUME Init PROVE Trace!Init OBVIOUS
  <2>1. Unwritten = <<>> BY DEF Init, Unwritten
  <2> QED BY <2>1 DEF Init, Trace!Init
<1>2. CountInv /\ [Next]_vars => [Trace!Next]_(Trace!vars)
  <2> SUFFICES ASSUME CountInv, [Next]_vars PROVE Trace!Next \/ UNCHANGED Trace!vars OBVIOUS
  <2> USE DEF threadVars, poolVars, countVars, writerVars
  <2>0. Main \in Thread /\ \A t \in Thread : local[t] \in Buffer \cup {0}
    BY BuffersAssumption DEF CountInv, TypeOK
  <2>1. ASSUME NEW t \in Thread, ThreadStep(t) \/ WakesUnsignalled(t)
        PROVE  Trace!Next \/ UNCHANGED Trace!vars
    <3>1. CASE FlushFull(t) BY <2>0, <3>1, EnqueueHandsOver DEF FlushFull, Trace!Next
    <3>2. CASE FlushSmall(t) BY <3>2, EnqueueHandsOver DEF FlushSmall, Trace!Next
    <3>3. CASE EndThread(t)
      BY <2>0, <3>3, EnqueueHandsOver DEF EndThread, QueueLast, Trace!Next
    <3>4. CASE UNCHANGED <<flushed, queue, file, writer>> BY <3>4, TraceStutters
    <3> QED BY <2>1, <3>1, <3>2, <3>3, <3>4
        DEF ThreadStep, AllocateFromList, AllocateNew, AllocateSleeps, WakesUnsignalled,
            WokenSleeps, WokenTakes, CreateThread, CountExit
  <2>2. CASE MainStep
    <3>1. CASE EndMain BY <2>0, <3>1, EnqueueHandsOver DEF EndMain, QueueLast, Trace!Next
    <3>2. CASE CountMain \/ JoinWriter BY <3>2, TraceStutters DEF CountMain, JoinWriter
    <3> QED BY <2>2, <3>1, <3>2 DEF MainStep
  <2>3. CASE WriterStep
    <3>1. CASE WriteBuffer BY <3>1, WriteWrites DEF Trace!Next
    <3>2. CASE PopBuffer
      <4>1. queue \in Seq(Queued) /\ queue # <<>> /\ writer = "pop"
        BY <3>2 DEF CountInv, TypeOK, AtLimit, PopBuffer
      <4>2. queue' = Tail(queue) /\ writer' # "pop" /\ writer' # "ended"
            /\ UNCHANGED <<flushed, file>>
        BY <3>2 DEF PopBuffer
      <4>3. Unwritten' = Unwritten BY <4>1, <4>2, RowsTail, UnwrittenIsRows
      <4> QED BY <4>1, <4>2, <4>3 DEF Trace!vars
    <3>3. CASE CheckExit
      <4>1. CASE writer' = "ended" BY <3>3, <4>1, ExitCloses DEF Trace!Next
      <4>2. CASE writer' # "ended" BY <3>3, <4>2, TraceStutters DEF CheckExit
      <4> QED BY <4>1, <4>2
    <3>4. CASE WriterWakes \/ WriterTimesOut \/ LeaveLoop \/ ReleaseToList \/ PutAside \/ EndLimit
      BY <3>4, TraceStutters
      DEF WriterWakes, WriterTimesOut, LeaveLoop, ReleaseToList, PutAside, EndLimit
    <3> QED BY <2>3, <3>1, <3>2, <3>3, <3>4 DEF WriterStep
  <2>4. CASE UNCHANGED vars BY <2>4, TraceStutters DEF vars
  <2> QED BY <2>1, <2>2, <2>3, <2>4 DEF Next
<1> QED BY <1>1, <1>2, CountInvariant, PTL DEF Spec, Trace!Spec, ImplementsTraceFile
-----------------------------------------------------------------------------
(* The end of the trace *)

Created == {t \in Thread : pc[t] # "unborn"}
Exited == {t \in Thread : pc[t] \in {"failed", "leave", "join", "ended"}}

\* The two counts that the writer compares, and the lives of the threads: main outlives those
\* it joins, and nobody else creates a thread that is joined.
ExitsCounted == globalNumber = Cardinality(Created) /\ exitNumber = Cardinality(Exited)
MainLast ==
  /\ pc[Main] \notin {"unborn", "failed", "leave"}
  /\ pc[Main] \in {"count", "join", "ended"} =>
       \A t \in Thread \ (Detached \cup {Main}) : pc[t] \in {"unborn", "failed", "ended"}
  /\ writer = "ended" => pc[Main] \in {"join", "ended"}

\* A buffer that was queued is in the file or in the queue; the first is in the file already
\* when it is about to be taken off.
InFile(t, n) == \E i \in DOMAIN file : file[i] = <<t, n>>
StillQueued(t, n) == \E i \in DOMAIN queue : queue[i].id = t /\ queue[i].n = n
HandedOn ==
  /\ \A t \in Thread : \A n \in 1 .. flushed[t] : InFile(t, n) \/ StillQueued(t, n)
  /\ writer = "pop" => InFile(Head(queue).id, Head(queue).n)
  /\ writer = "ended" => \A t \in Thread \ Detached : \A n \in 1 .. flushed[t] : InFile(t, n)

EndInv == CountInv /\ ExitsCounted /\ MainLast /\ HandedOn

\* The threads that were created and those that have ended are counted.
LEMMA LivesFinite ==
  /\ IsFiniteSet(Created) /\ IsFiniteSet(Exited) /\ Exited \subseteq Created
  /\ Cardinality(Created) \in Nat /\ Cardinality(Exited) \in Nat
<1>1. IsFiniteSet(Created) /\ IsFiniteSet(Exited)
  BY BuffersAssumption, FS_Subset DEF Created, Exited
<1>2. Exited \subseteq Created BY DEF Created, Exited
<1> QED BY <1>1, <1>2, FS_CardinalityType

\* Before the program runs, main is the only thread.
LEMMA EndInit == Init => EndInv
<1> SUFFICES ASSUME Init PROVE EndInv OBVIOUS
<1>1. CountInv BY CountInit
<1>2. ExitsCounted
  <2>1. Created = {Main} /\ Exited = {} BY BuffersAssumption DEF Init, Created, Exited
  <2>2. Cardinality({Main}) = 1 /\ Cardinality({}) = 0 BY FS_Singleton, FS_EmptySet
  <2> QED BY <2>1, <2>2 DEF Init, ExitsCounted
<1>3. MainLast BY BuffersAssumption DEF Init, MainLast
<1>4. HandedOn
  <2>1. \A t \in Thread : 1 .. flushed[t] = {} BY DEF Init
  <2> QED BY <2>1 DEF Init, HandedOn
<1> QED BY <1>1, <1>2, <1>3, <1>4 DEF EndInv

\* Steps in which no thread begins or exits.
LEMMA LivesKept ==
  ASSUME ExitsCounted, UNCHANGED countVars,
         \A t \in Thread : /\ pc'[t] # "unborn" <=> pc[t] # "unborn"
                           /\ pc'[t] \in {"failed", "leave", "join", "ended"}
                                <=> pc[t] \in {"failed", "leave", "join", "ended"}
  PROVE  ExitsCounted'
<1>1. Created' = Created /\ Exited' = Exited BY DEF Created, Exited
<1> QED BY <1>1 DEF ExitsCounted, countVars

\* A thread exits.
LEMMA ExitCounted ==
  ASSUME EndInv, NEW t \in Thread, pc[t] \in {"run", "count"}, NEW to \in {"leave", "join"},
         pc' = [pc EXCEPT ![t] = to], exitNumber' = exitNumber + 1,
         globalNumber' = globalNumber
  PROVE  ExitsCounted'
<1>1. pc'[t] = to /\ \A u \in Thread \ {t} : pc'[u] = pc[u] BY DEF EndInv, CountInv, TypeOK
<1>2. Created' = Created /\ Exited' = Exited \cup {t} /\ t \notin Exited
  BY <1>1 DEF Created, Exited
<1>3. Cardinality(Exited \cup {t}) = Cardinality(Exited) + 1
  BY <1>2, LivesFinite, FS_AddElement
<1> QED BY <1>2, <1>3 DEF EndInv, ExitsCounted

\* A thread is created, or counted as created and as exited.
LEMMA CreateCounted ==
  ASSUME EndInv, NEW t \in Thread, NEW c \in Thread, CreateThread(t, c)
  PROVE  ExitsCounted'
<1>0. pc \in [Thread -> {"unborn", "failed", "allocate", "asleep", "woken", "run", "leave",
                         "count", "join", "ended", "fault"}]
  BY DEF EndInv, CountInv, TypeOK
<1>1. pc[c] = "unborn" /\ globalNumber' = globalNumber + 1 BY DEF CreateThread
<1>2. /\ \A u \in Thread \ {c} : pc'[u] = pc[u]
      /\ \/ pc'[c] = "allocate" /\ exitNumber' = exitNumber
         \/ pc'[c] = "failed" /\ exitNumber' = exitNumber + 1
  BY <1>0 DEF CreateThread
<1>3. Created' = Created \cup {c} /\ c \notin Created /\ c \notin Exited
  BY <1>1, <1>2 DEF Created, Exited
<1>4. Cardinality(Created \cup {c}) = Cardinality(Created) + 1
      /\ Cardinality(Exited \cup {c}) = Cardinality(Exited) + 1
  BY <1>3, LivesFinite, FS_AddElement
<1>5. CASE pc'[c] = "allocate" /\ exitNumber' = exitNumber
  <2>1. Exited' = Exited BY <1>1, <1>2, <1>5 DEF Exited
  <2> QED BY <1>1, <1>3, <1>4, <1>5, <2>1 DEF EndInv, ExitsCounted
<1>6. CASE pc'[c] = "failed" /\ exitNumber' = exitNumber + 1
  <2>1. Exited' = Exited \cup {c} BY <1>1, <1>2, <1>6 DEF Exited
  <2> QED BY <1>1, <1>3, <1>4, <1>6, <2>1 DEF EndInv, ExitsCounted
<1> QED BY <1>2, <1>5, <1>6

\* Steps that neither queue a buffer nor write one.
LEMMA HandedKept ==
  ASSUME HandedOn, UNCHANGED <<flushed, queue, file>>,
         writer' = "pop" => writer = "pop",
         writer' = "ended" => writer = "ended"
  PROVE  HandedOn'
BY DEF HandedOn, InFile, StillQueued

\* A buffer is queued.
LEMMA HandedEnqueue ==
  ASSUME EndInv, NEW t \in Thread, NEW b \in Buffer \cup {0}, Enqueue(t, b),
         UNCHANGED <<writer, file>>, writer = "ended" => t \in Detached
  PROVE  HandedOn'
<1> DEFINE new == [id |-> t, n |-> flushed'[t], buf |-> b]
<1>1. /\ queue \in Seq(Queued) /\ queue' = Append(queue, new)
      /\ new.id = t /\ new.n = flushed'[t]
      /\ flushed \in [Thread -> Nat] /\ flushed' = [flushed EXCEPT ![t] = @ + 1]
  BY DEF EndInv, CountInv, TypeOK, Enqueue
<1> HIDE DEF new
<1>2. /\ \A i \in DOMAIN queue : i \in DOMAIN queue' /\ queue'[i] = queue[i]
      /\ Len(queue) + 1 \in DOMAIN queue' /\ queue'[Len(queue) + 1] = new
  BY <1>1
<1>3. flushed'[t] = flushed[t] + 1 /\ flushed[t] \in Nat
      /\ \A u \in Thread \ {t} : flushed'[u] = flushed[u]
  BY <1>1
<1>4. \A u, n : InFile(u, n)' <=> InFile(u, n) BY DEF InFile
<1>5. \A u, n : StillQueued(u, n) => StillQueued(u, n)' BY <1>2 DEF StillQueued
<1>6. \A m : m = flushed'[t] => StillQueued(t, m)' BY <1>1, <1>2 DEF StillQueued
<1>7. HandedOn BY DEF EndInv
<1>8. ASSUME NEW u \in Thread, NEW n \in 1 .. flushed'[u]
      PROVE  InFile(u, n)' \/ StillQueued(u, n)'
  <2>1. CASE n \in 1 .. flushed[u] BY <1>4, <1>5, <1>7, <2>1 DEF HandedOn
  <2>2. CASE n \notin 1 .. flushed[u]
    <3>1. u = t /\ n = flushed'[t] BY <1>3, <1>8, <2>2
    <3> QED BY <1>6, <3>1
  <2> QED BY <2>1, <2>2
<1>9. ASSUME writer' = "pop"
      PROVE  \E i \in DOMAIN file' : file'[i] = <<Head(queue').id, Head(queue').n>>
  <2>1. writer = "pop" /\ queue # <<>> BY <1>9 DEF EndInv, CountInv, AtLimit
  <2>2. Head(queue') = Head(queue) BY <1>1, <2>1
  <2>3. \E i \in DOMAIN file : file[i] = <<Head(queue).id, Head(queue).n>>
    BY <1>7, <2>1 DEF HandedOn, InFile
  <2> QED BY <2>2, <2>3
<1>10. ASSUME writer' = "ended", NEW u \in Thread \ Detached, NEW n \in 1 .. flushed'[u]
       PROVE  InFile(u, n)'
  <2>1. writer = "ended" /\ flushed'[u] = flushed[u] BY <1>3, <1>10
  <2> QED BY <1>4, <1>7, <1>10, <2>1 DEF HandedOn
<1>11. (writer = "pop" => InFile(Head(queue).id, Head(queue).n))' BY <1>9 DEF InFile
<1> QED BY <1>8, <1>10, <1>11 DEF HandedOn

\* The first buffer of the queue is written.
LEMMA HandedWrite ==
  ASSUME EndInv, WriteBuffer
  PROVE  HandedOn'
<1> DEFINE row == <<Head(queue).id, Head(queue).n>>
<1>1. /\ file \in Seq(Thread \X Nat) /\ file' = Append(file, row)
      /\ UNCHANGED <<flushed, queue>> /\ writer' = "pop" /\ HandedOn
  BY DEF EndInv, CountInv, TypeOK, WriteBuffer, threadVars
<1>2. row = <<Head(queue).id, Head(queue).n>> OBVIOUS
<1> HIDE DEF row
<1>3. /\ \A i \in DOMAIN file : i \in DOMAIN file' /\ file'[i] = file[i]
      /\ Len(file) + 1 \in DOMAIN file' /\ file'[Len(file) + 1] = row
  BY <1>1
<1>4. \A u, n : InFile(u, n) => InFile(u, n)' BY <1>3 DEF InFile
<1>5. InFile(Head(queue).id, Head(queue).n)' BY <1>1, <1>2, <1>3 DEF InFile
<1>6. \A u, n : StillQueued(u, n)' <=> StillQueued(u, n) BY <1>1 DEF StillQueued
<1> QED BY <1>1, <1>4, <1>5, <1>6 DEF HandedOn

\* A buffer that was written is taken off the queue.
LEMMA HandedPop ==
  ASSUME EndInv, PopBuffer
  PROVE  HandedOn'
<1>1. /\ queue \in Seq(Queued) /\ queue # <<>> /\ queue' = Tail(queue) /\ writer = "pop"
      /\ UNCHANGED <<flushed, file>> /\ writer' # "pop" /\ writer' # "ended" /\ HandedOn
  BY DEF EndInv, CountInv, TypeOK, AtLimit, PopBuffer, threadVars
<1>2. \A i \in DOMAIN queue : i = 1 \/ (i - 1 \in DOMAIN queue' /\ queue'[i - 1] = queue[i])
  BY <1>1
<1>3. Head(queue) = queue[1] BY <1>1
<1>4. \A u, n : InFile(u, n)' <=> InFile(u, n) BY <1>1 DEF InFile
<1>5. ASSUME NEW u, NEW n, StillQueued(u, n) PROVE StillQueued(u, n)' \/ InFile(u, n)
  <2>1. PICK i \in DOMAIN queue : queue[i].id = u /\ queue[i].n = n BY <1>5 DEF StillQueued
  <2>2. CASE i = 1 BY <1>1, <1>3, <2>1, <2>2 DEF HandedOn
  <2>3. CASE i # 1 BY <1>2, <2>1, <2>3 DEF StillQueued
  <2> QED BY <2>2, <2>3
<1> QED BY <1>1, <1>4, <1>5 DEF HandedOn

\* The steps of threads.
LEMMA EndThreads ==
  ASSUME EndInv, NEW t \in Thread, ThreadStep(t) \/ WakesUnsignalled(t) \/ MainStep
  PROVE  ExitsCounted' /\ MainLast' /\ HandedOn'
<1>0. /\ pc \in [Thread -> {"unborn", "failed", "allocate", "asleep", "woken", "run", "leave",
                            "count", "join", "ended", "fault"}]
      /\ Main \in Thread \ Detached
      /\ local[t] \in Buffer \cup {0} /\ local[Main] \in Buffer \cup {0}
      /\ ExitsCounted /\ MainLast /\ HandedOn
  BY BuffersAssumption DEF EndInv, CountInv, TypeOK
<1> USE DEF countVars, writerVars, poolVars
<1>1. ASSUME NEW u \in Thread, pc[u] \in {"run", "leave"}, writer = "ended"
      PROVE  u \in Detached
  BY <1>0, <1>1 DEF MainLast
<1>2. CASE /\ pc[t] \in {"allocate", "asleep", "woken"}
           /\ \E to \in {"run", "asleep", "woken", "fault"} : pc' = [pc EXCEPT ![t] = to]
           /\ UNCHANGED <<countVars, writer, flushed, queue, file>>
  <2>1. ExitsCounted' BY <1>0, <1>2, LivesKept
  <2>2. MainLast' BY <1>0, <1>2 DEF MainLast
  <2> QED BY <1>0, <1>2, <2>1, <2>2, HandedKept
<1>3. CASE FlushFull(t)
  <2>1. ExitsCounted' BY <1>0, <1>3, LivesKept DEF FlushFull
  <2>2. MainLast' BY <1>0, <1>3 DEF FlushFull, MainLast
  <2>3. HandedOn' BY <1>0, <1>1, <1>3, HandedEnqueue DEF FlushFull
  <2> QED BY <2>1, <2>2, <2>3
<1>4. CASE FlushSmall(t)
  <2>1. ExitsCounted' BY <1>0, <1>4, LivesKept DEF FlushSmall
  <2>2. MainLast' BY <1>0, <1>4 DEF FlushSmall, MainLast
  <2>3. HandedOn' BY <1>0, <1>1, <1>4, HandedEnqueue DEF FlushSmall
  <2> QED BY <2>1, <2>2, <2>3
<1>5. CASE \E c \in Thread : CreateThread(t, c)
  <2>1. PICK c \in Thread : CreateThread(t, c) BY <1>5
  <2>2. ExitsCounted' BY <2>1, CreateCounted
  <2>3. /\ pc[t] = "run" /\ pc[c] = "unborn" /\ (t \in Detached => c \in Detached)
        /\ \A u \in Thread \ {c} : pc'[u] = pc[u]
        /\ UNCHANGED <<writer, flushed, queue, file>>
    BY <1>0, <2>1 DEF CreateThread
  <2>4. MainLast' BY <1>0, <2>3 DEF MainLast
  <2> QED BY <1>0, <2>2, <2>3, <2>4, HandedKept
<1>6. CASE CountExit(t)
  <2>1. ExitsCounted' BY <1>6, ExitCounted DEF CountExit
  <2>2. MainLast' BY <1>0, <1>6 DEF CountExit, MainLast
  <2> QED BY <1>0, <1>6, <2>1, <2>2, HandedKept DEF CountExit
<1>7. CASE EndThread(t)
  <2>1. ExitsCounted' BY <1>0, <1>7, LivesKept DEF EndThread, QueueLast
  <2>2. MainLast' BY <1>0, <1>7 DEF EndThread, QueueLast, MainLast
  <2>3. HandedOn' BY <1>0, <1>1, <1>7, HandedEnqueue DEF EndThread, QueueLast
  <2> QED BY <2>1, <2>2, <2>3
<1>8. CASE EndMain
  <2>1. ExitsCounted' BY <1>0, <1>8, LivesKept DEF EndMain, QueueLast
  <2>2. MainLast' BY <1>0, <1>8 DEF EndMain, QueueLast, MainLast
  <2>3. HandedOn' BY <1>0, <1>1, <1>8, HandedEnqueue DEF EndMain, QueueLast
  <2> QED BY <2>1, <2>2, <2>3
<1>9. CASE CountMain
  <2>1. ExitsCounted' BY <1>0, <1>9, ExitCounted DEF CountMain
  <2>2. MainLast' BY <1>0, <1>9 DEF CountMain, MainLast
  <2> QED BY <1>0, <1>9, <2>1, <2>2, HandedKept DEF CountMain
<1>10. CASE JoinWriter
  <2>1. ExitsCounted' BY <1>0, <1>10, LivesKept DEF JoinWriter
  <2>2. MainLast' BY <1>0, <1>10 DEF JoinWriter, MainLast
  <2> QED BY <1>0, <1>10, <2>1, <2>2, HandedKept DEF JoinWriter
<1>11. ASSUME AllocateFromList(t) \/ AllocateNew(t) \/ AllocateSleeps(t)
                \/ WakesUnsignalled(t) \/ WokenSleeps(t) \/ WokenTakes(t)
       PROVE  /\ pc[t] \in {"allocate", "asleep", "woken"}
              /\ \E to \in {"run", "asleep", "woken", "fault"} : pc' = [pc EXCEPT ![t] = to]
              /\ UNCHANGED <<countVars, writer, flushed, queue, file>>
  BY <1>11 DEF AllocateFromList, AllocateNew, AllocateSleeps, WakesUnsignalled, WokenSleeps,
               WokenTakes, TakeHead
<1> QED BY <1>2, <1>3, <1>4, <1>5, <1>6, <1>7, <1>8, <1>9, <1>10, <1>11 DEF ThreadStep, MainStep

\* The steps of the writer: when it exits, every thread has, main too, and main is the last of
\* those that are joined.
LEMMA EndWriter ==
  ASSUME EndInv, WriterStep
  PROVE  ExitsCounted' /\ MainLast' /\ HandedOn'
<1>0. /\ pc \in [Thread -> {"unborn", "failed", "allocate", "asleep", "woken", "run", "leave",
                            "count", "join", "ended", "fault"}]
      /\ Main \in Thread \ Detached
      /\ ExitsCounted /\ MainLast /\ HandedOn
  BY BuffersAssumption DEF EndInv, CountInv, TypeOK
<1> USE DEF countVars, poolVars, threadVars
<1>1. ASSUME UNCHANGED <<countVars, pc>>, writer' # "ended" PROVE ExitsCounted' /\ MainLast'
  BY <1>0, <1>1, LivesKept DEF MainLast
<1>2. CASE WriteBuffer BY <1>1, <1>2, HandedWrite DEF WriteBuffer
<1>3. CASE PopBuffer BY <1>1, <1>3, HandedPop DEF PopBuffer
<1>4. CASE WriterWakes \/ WriterTimesOut \/ LeaveLoop \/ ReleaseToList \/ PutAside
  <2>1. UNCHANGED <<countVars, pc, flushed, queue, file>> /\ writer' \notin {"pop", "ended"}
    BY <1>4 DEF WriterWakes, WriterTimesOut, LeaveLoop, ReleaseToList, PutAside, writerVars
  <2> QED BY <1>0, <1>1, <2>1, HandedKept
<1>5. CASE EndLimit
  <2>1. UNCHANGED <<countVars, flushed, queue, file>> /\ writer' \notin {"pop", "ended"}
    BY <1>5 DEF EndLimit
  <2>2. \A t \in Thread : pc'[t] = pc[t] \/ (pc[t] = "asleep" /\ pc'[t] = "woken")
    BY <1>5 DEF EndLimit
  <2>3. ExitsCounted' BY <1>0, <2>1, <2>2, LivesKept
  <2>4. MainLast' BY <1>0, <2>1, <2>2 DEF MainLast
  <2> QED BY <1>0, <2>1, <2>3, <2>4, HandedKept
<1>6. CASE CheckExit
  <2>1. UNCHANGED <<countVars, pc, flushed, queue, file>> /\ writer' # "pop"
    BY <1>6 DEF CheckExit, writerVars
  <2>2. ExitsCounted' BY <1>0, <2>1, LivesKept
  <2>3. CASE writer' # "ended" BY <1>0, <1>1, <2>1, <2>3, HandedKept
  <2>4. CASE writer' = "ended"
    <3>1. exitNumber = globalNumber /\ queue = <<>> BY <1>6, <2>4 DEF CheckExit
    <3>2. Exited = Created BY <1>0, <3>1, LivesFinite, FS_Subset DEF ExitsCounted
    <3>3. pc[Main] \in {"join", "ended"} BY <1>0, <3>2 DEF Created, Exited, MainLast
    <3>4. MainLast' BY <1>0, <2>1, <3>3 DEF MainLast
    <3>5. \A t, n : ~StillQueued(t, n) BY <3>1 DEF StillQueued
    <3>6. \A t, n : (InFile(t, n)' <=> InFile(t, n)) /\ ~StillQueued(t, n)'
      BY <2>1, <3>5 DEF InFile, StillQueued
    <3>7. \A t \in Thread : \A n \in 1 .. flushed'[t] : InFile(t, n)'
      BY <1>0, <2>1, <3>5, <3>6 DEF HandedOn
    <3>8. HandedOn' BY <2>1, <3>7 DEF HandedOn
    <3> QED BY <2>2, <3>4, <3>8
  <2> QED BY <2>3, <2>4
<1> QED BY <1>2, <1>3, <1>4, <1>5, <1>6 DEF WriterStep

\* When the writer has exited, the threads that are joined have ended, and every buffer they
\* ever queued is in the file: the two counts are compared with the queue empty, and main's
\* own exit is counted after its last buffer (ct_main.c:491).
THEOREM EndCorrect == Spec => []TraceComplete
<1>1. EndInv /\ [Next]_vars => EndInv'
  <2> SUFFICES ASSUME EndInv, [Next]_vars PROVE EndInv' OBVIOUS
  <2>1. CountInv' BY CountStep DEF EndInv
  <2>2. ASSUME NEW t \in Thread, ThreadStep(t) \/ WakesUnsignalled(t) PROVE EndInv'
    BY <2>1, <2>2, EndThreads DEF EndInv
  <2>3. CASE MainStep BY <2>1, <2>3, EndThreads, BuffersAssumption DEF EndInv
  <2>4. CASE WriterStep BY <2>1, <2>4, EndWriter DEF EndInv
  <2>5. CASE UNCHANGED vars
    <3>1. UNCHANGED <<countVars, pc, flushed, queue, file, writer>>
      BY <2>5 DEF vars, threadVars, poolVars, writerVars
    <3>2. ExitsCounted' BY <3>1, LivesKept DEF EndInv
    <3>3. MainLast' BY <3>1 DEF EndInv, MainLast
    <3>4. HandedOn' BY <3>1, HandedKept DEF EndInv
    <3> QED BY <2>1, <3>2, <3>3, <3>4 DEF EndInv
  <2> QED BY <2>2, <2>3, <2>4, <2>5 DEF Next
<1>2. EndInv => TraceComplete
  <2> SUFFICES ASSUME EndInv, writer = "ended", NEW t \in Thread \ Detached
               PROVE  /\ pc[t] \in {"unborn", "failed", "join", "ended"}
                      /\ \A n \in 1 .. flushed[t] : \E i \in DOMAIN file : file[i] = <<t, n>>
    BY DEF TraceComplete
  <2>1. pc[t] \in {"unborn", "failed", "join", "ended"} BY DEF EndInv, MainLast
  <2>2. \A n \in 1 .. flushed[t] : InFile(t, n) BY DEF EndInv, HandedOn
  <2> QED BY <2>1, <2>2 DEF InFile
<1> QED BY <1>1, <1>2, EndInit, PTL DEF Spec
=============================================================================
