----------------------------- MODULE RaceDetector -----------------------------
(***************************************************************************)
(* The back end Heltech (backend/Heltech/heltech.cpp): it reads the tasks  *)
(* in the order of the index, keeps a vector clock for each task that some *)
(* task to come may follow, and reports an access to a byte that is        *)
(* ordered with the access it remembers of that byte by no path.           *)
(*                                                                         *)
(* The loop over the bytes of a memory operation treats each byte alone,   *)
(* so an operation is one step.  Basic blocks are left out; memcpy, which  *)
(* the loop takes for three accesses of one byte, is not in Op.            *)
(***************************************************************************)
EXTENDS TaskFile

VARIABLES
  vecClock,       \* [tasks still needed -> [contexts that precede -> SeqId]]
  vecClockRef,    \* [tasks read -> edges to tasks not read yet]
  lastAccess,     \* [Byte -> access or NoAccess]
  raceAddresses,  \* bytes a race has been reported for
  allocSize,      \* [Byte -> size of the block that starts there, 0: none]
  inROI, stopped, \* in the region of interest; at its end the loop is left
  races           \* reportRace: what has been reported

raceVars == <<vecClock, vecClockRef, lastAccess, raceAddresses, allocSize, inROI,
              stopped, races>>

NoAccess == [tid |-> <<0, 0>>, type |-> "none"]

\* The bytes of an operation of "size" bytes at addr.
Bytes(addr, size) == {b \in Byte : addr <= b /\ b < addr + size}

RaceInit ==
  /\ vecClock = <<>> /\ vecClockRef = <<>>
  /\ lastAccess = [b \in Byte |-> NoAccess]
  /\ raceAddresses = {} /\ races = {}
  /\ allocSize = [b \in Byte |-> 0]
  /\ inROI = FALSE /\ stopped = FALSE

-------------------------------------------------------------------------------
(* updateVecClock. *)

\* predSet, first part: of the predecessors of one context the last in the list.
LastPred(i, c) ==
  LET pred == Tasks[i].pred
      k == CHOOSE k \in DOMAIN pred :
             /\ ContextOf(pred[k]) = c
             /\ \A m \in DOMAIN pred : ContextOf(pred[m]) = c => m <= k
  IN  SeqOf(pred[k])

\* vecClock[c][s] of a task that is not there is an empty map.
ClockOf(tid) == IF tid \in DOMAIN vecClock THEN vecClock[tid] ELSE <<>>

Largest(S) == CHOOSE x \in S : \A y \in S : y <= x

\* Mutant: a context that is in predSet already keeps its entry.
PredSetNotMerged(i) ==
  LET listed == {ContextOf(p) : p \in PredIds(i)}
      known == UNION {DOMAIN ClockOf(p) : p \in PredIds(i)}
  IN  [c \in listed \cup known \cup {ContextOf(Id(i))} |->
        IF c = ContextOf(Id(i)) THEN SeqOf(Id(i))
        ELSE IF c \in listed THEN LastPred(i, c)
        ELSE Largest({ClockOf(p)[c] : p \in {q \in PredIds(i) : c \in DOMAIN ClockOf(q)}})]

\* predSet of task i: itself, its predecessors, and what their clocks know, for each
\* context the largest.
PredSet(i) ==
  LET own == ContextOf(Id(i))
      listed == {ContextOf(p) : p \in PredIds(i)}
      known == UNION {DOMAIN ClockOf(p) : p \in PredIds(i)}
      Start(c) == IF c = own THEN {SeqOf(Id(i))}
                  ELSE IF c \in listed THEN {LastPred(i, c)} ELSE {}
      Merged(c) == {ClockOf(p)[c] : p \in {q \in PredIds(i) : c \in DOMAIN ClockOf(q)}}
  IN  [c \in listed \cup known \cup {own} |-> Largest(Start(c) \cup Merged(c))]

\* Edges from p to i: vecClockRef[p] goes down by one for each.
EdgesTo(i, p) == Cardinality({k \in DOMAIN Tasks[i].pred : Tasks[i].pred[k] = p})

\* The clock of a task goes when its last successor has been read.
Forgets(ref, p) == ref[p] = 0

UpdateVecClock(i) ==
  LET ref == [t \in DOMAIN vecClockRef |-> vecClockRef[t] - EdgesTo(i, t)]
      kept == DOMAIN vecClock \ {p \in PredIds(i) : Forgets(ref, p)}
  IN  /\ vecClockRef' = [t \in DOMAIN ref \cup {Id(i)} |->
                           IF t = Id(i) THEN SuccCount(t) ELSE ref[t]]
      /\ vecClock' = [t \in kept \cup {Id(i)} |->
                        IF t = Id(i) THEN PredSet(i) ELSE vecClock[t]]

\* hbPathCheck: is there a path from src to the task dst?
HbPathCheck(src, dst) ==
  /\ dst \in DOMAIN vecClock
  /\ ContextOf(src) \in DOMAIN vecClock[dst]
  /\ vecClock[dst][ContextOf(src)] >= SeqOf(src)

\* The loop takes task i up; at the end of the region of interest it is left.
RaceTask(i) ==
  /\ inROI' = (inROI \/ Id(i) = file.roiStart)
  /\ IF Id(i) = file.roiEnd
       THEN stopped' = TRUE /\ UNCHANGED <<vecClock, vecClockRef>>
       ELSE UpdateVecClock(i) /\ UNCHANGED stopped
  /\ UNCHANGED <<lastAccess, raceAddresses, allocSize, races>>

-------------------------------------------------------------------------------
(* One memory operation of the task tid. *)

\* The task looks at a byte it was the last to access: a write or a free replaces a
\* read, and nothing replaces a write.
OwnAccess(last, tid) == last.type # "none" /\ last.tid = tid
AfterOwn(last, tid, type) ==
  IF last.type = "write" \/ type = "read" THEN last ELSE [tid |-> tid, type |-> type]

\* Mutant: the last access is replaced by every other.
AfterOtherForgets(last, tid, type) ==
  IF type = "free" THEN NoAccess ELSE [tid |-> tid, type |-> type]

\* Another task's access is replaced by a write; a free leaves the byte without one.
AfterOther(last, tid, type) ==
  IF type = "free" THEN NoAccess
  ELSE IF last.type = "none" \/ type = "write" THEN [tid |-> tid, type |-> type]
  ELSE last

IsRace(b, tid, type) ==
  LET last == lastAccess[b]
  IN  /\ last.type # "none" /\ ~OwnAccess(last, tid)
      /\ type = "write" \/ last.type = "write"
      /\ b \notin raceAddresses /\ inROI
      /\ ~HbPathCheck(last.tid, tid)

\* Freed by a task that did not access the byte last, the byte may race again.
Reset(b, tid, type) == type = "free" /\ ~OwnAccess(lastAccess[b], tid)

\* "at" numbers the operations of the file.
RaceAccess(tid, type, bytes, at) ==
  LET racy == {b \in bytes : IsRace(b, tid, type)}
  IN  /\ races' = races \cup {[from |-> lastAccess[b].tid, to |-> tid, byte |-> b, at |-> at] :
                               b \in racy}
      /\ raceAddresses' = (raceAddresses \cup racy) \ {b \in bytes : Reset(b, tid, type)}
      /\ lastAccess' = [b \in Byte |->
           IF b \notin bytes THEN lastAccess[b]
           ELSE IF OwnAccess(lastAccess[b], tid) THEN AfterOwn(lastAccess[b], tid, type)
           ELSE AfterOther(lastAccess[b], tid, type)]

\* The size of an allocation is the operation behind it; its bytes are not accessed.
RaceOp(tid, op, at) ==
  /\ CASE op.type = "malloc" ->
            /\ allocSize' = [allocSize EXCEPT ![op.addr] = op.size]
            /\ UNCHANGED <<lastAccess, raceAddresses, races>>
       [] op.type = "free" ->
            /\ RaceAccess(tid, "free", Bytes(op.addr, allocSize[op.addr]), at)
            /\ allocSize' = [allocSize EXCEPT ![op.addr] = 0]
       [] OTHER ->
            /\ RaceAccess(tid, op.type, Bytes(op.addr, op.size), at)
            /\ UNCHANGED allocSize
  /\ UNCHANGED <<vecClock, vecClockRef, inROI, stopped>>
==============================================================================
