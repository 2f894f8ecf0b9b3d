--------------------------- MODULE TraceEncoding ---------------------------
(***************************************************************************)
(* The trace's bytes from end to end: the pass instruments a program       *)
(* (Instrument), threads run it and store events in their buffers, buffers *)
(* are appended to the file, and the event library reads the file back     *)
(* with the table of blocks that the pass wrote.  What happens to a buffer *)
(* between its queueing and the file is TraceBuffers' matter; here it      *)
(* reaches the file at once.                                               *)
(*                                                                         *)
(* A buffer is a partial function from offsets to cells, a cell being the  *)
(* bytes that one store wrote; a store removes the cells it overlaps.      *)
(***************************************************************************)
EXTENDS Instrument, EventCodec

CONSTANTS
  Threads,       \* those of them that a program names run its first function
  BufferSize,    \* SERIAL_BUFFER_SIZE
  SmallBuffer,   \* a buffer with fewer bytes is copied, not replaced: 64 KB
  MaxTurns       \* bound: how often a thread takes a conditional's first way

EncodingAssumption ==
  /\ BufferSize \in Nat /\ SmallBuffer \in Nat /\ MaxTurns \in Nat
  /\ Margin \in 1..BufferSize /\ OpBytes \in Nat /\ IdBytes \in Nat
ASSUME EncodingAssumption

VARIABLES
  frames,        \* thread -> its calls of functions: the block and step of each
  turns,         \* thread -> how often it may still take a first way
  data, pos,     \* thread -> the contents and the position of its buffer
  gen,           \* thread -> which buffer it is: 1 more with each replacement
  held,          \* thread -> the buffer and position its block read
  completed,     \* thread -> the position its last block event ended at
  file,          \* the cells of the trace file
  ran,           \* history: thread -> its blocks and events, as it ran them
  moved,         \* history: a large block's buffer was handed over under it
  rd, sum, bufSum, nextId, currentId, fault, out   \* the reader

threadVars == <<frames, turns, data, pos, gen, held, completed>>
readerVars == <<rd, sum, bufSum, nextId, currentId, fault, out>>
vars == <<passVars, threadVars, file, ran, moved, readerVars>>

NoId == -1
NotStarted == <<[block |-> 0, step |-> 0]>>

Init ==
  /\ PassInit
  /\ frames = [t \in Threads |-> IF t \in source.threads THEN NotStarted ELSE <<>>]
  /\ turns = [t \in Threads |-> MaxTurns]
  /\ data = [t \in Threads |-> <<>>]
  /\ pos = [t \in Threads |-> 0]
  /\ gen = [t \in Threads |-> 0]
  /\ held = [t \in Threads |-> [gen |-> 0, pos |-> 0]]
  /\ completed = [t \in Threads |-> 0]
  /\ file = <<>>
  /\ ran = [t \in Threads |-> <<>>]
  /\ moved = FALSE
  /\ rd = 1 /\ sum = 0 /\ bufSum = 0
  /\ nextId = NoId /\ currentId = NoId /\ fault = FALSE
  /\ out = [t \in Threads |-> <<>>]

----------------------------------------------------------------------------
(* Buffers.                                                                 *)
Put(d, offset, cell) ==
  [o \in {p \in DOMAIN d : p + d[p].size <= offset \/ offset + cell.size <= p}
           \cup {offset} |-> IF o = offset THEN cell ELSE d[o]]

(* The first n bytes of a buffer as cells; bytes of an earlier use, or half *)
(* a cell, are none that anything can be made of.                           *)
Contents(d, n) ==
  LET whole == {o \in DOMAIN d : o + d[o].size <= n}
      offsets == SelectSeq([k \in 1..n |-> k - 1], LAMBDA o : o \in whole)
      bytes == MapThenSumSet(LAMBDA o : d[o].size, ToSet(offsets))
  IN IF bytes = n THEN [i \in DOMAIN offsets |-> d[offsets[i]]]
     ELSE <<[kind |-> "garbage", size |-> n]>>

Marker(t) == [kind |-> "marker", size |-> MarkerSize, thread |-> t, bytes |-> pos[t]]

(* __ctQueueBuffer with a buffer to follow: an empty buffer stays; one that *)
(* is rather empty is copied out and used again; another is replaced.       *)
QueueBuffer(t) ==
  IF pos[t] = 0 THEN UNCHANGED <<data, pos, gen, file>>
  ELSE /\ file' = (file \o <<Marker(t)>>) \o Contents(data[t], pos[t])
       /\ pos' = [pos EXCEPT ![t] = 0]
       /\ IF pos[t] < SmallBuffer THEN UNCHANGED <<data, gen>>
          ELSE /\ data' = [data EXCEPT ![t] = <<>>]
               /\ gen' = [gen EXCEPT ![t] = @ + 1]

----------------------------------------------------------------------------
(* A thread's next step.                                                    *)
Running(t) == stage = "run" /\ frames[t] # <<>> /\ frames[t] # NotStarted
Top(t) == Last(frames[t])
AtStep(t) == Running(t) /\ Top(t).step <= Len(inserted[Top(t).block])
Step(t) == inserted[Top(t).block][Top(t).step]
Does(t, what) == AtStep(t) /\ Step(t).do = what
Further(t) == frames' = [frames EXCEPT ![t] = Front(@) \o
                                <<[Top(t) EXCEPT !.step = @ + 1]>>]
Frame(b) == [block |-> b, step |-> 1]

(* A block that runs does its operations, at the addresses they have.       *)
BlockRun(b) ==
  LET body == code[b].body
      ops == MemOps(body)
  IN [kind |-> "block", id |-> info[b].id,
      ops |-> [q \in DOMAIN ops |->
                 [addr |-> Address(body[ops[q]].addr), write |-> body[ops[q]].write,
                  pow |-> SimpleLog(body[ops[q]].bytes)]]]
Ran(t, event) == ran' = [ran EXCEPT ![t] = Append(@, event)]

(* A thread stores an event at its buffer's position.                       *)
Stores(t, kind) ==
  /\ data' = [data EXCEPT ![t] =
                Put(@, pos[t], [kind |-> kind, size |-> StoreSize[kind]])]
  /\ pos' = [pos EXCEPT ![t] = @ + StoreSize[kind]]
  /\ Ran(t, [kind |-> kind])

(* __ctInitThread: a buffer, the create event, then the function.           *)
StartThread(t) ==
  /\ stage = "run" /\ frames[t] = NotStarted
  /\ frames' = [frames EXCEPT ![t] = <<Frame(Entry(source.functions[1]))>>]
  /\ Stores(t, "create")
  /\ UNCHANGED <<passVars, turns, gen, held, completed, file, moved, readerVars>>

(* __ctGetBuffer and __ctGetBufferPos.                                      *)
GetBuffer(t) ==
  /\ Does(t, "get")
  /\ held' = [held EXCEPT ![t] = [gen |-> gen[t], pos |-> pos[t]]]
  /\ Ran(t, BlockRun(Top(t).block))
  /\ Further(t)
  /\ UNCHANGED <<passVars, turns, data, pos, gen, completed, file, moved, readerVars>>

(* What a block stores goes to the buffer it read, which may be gone.       *)
StoreHeld(t, offset, cell) ==
  data' = IF held[t].gen # gen[t] THEN data
          ELSE [data EXCEPT ![t] = Put(@, held[t].pos + offset, cell)]

StoreBasicBlock(t) ==
  /\ Does(t, "block")
  /\ IF Step(t).elide THEN UNCHANGED data
     ELSE StoreHeld(t, 0, [kind |-> "id", size |-> IdBytes, id |-> EncodeId(Step(t).id)])
  /\ Further(t)
  /\ UNCHANGED <<passVars, turns, pos, gen, held, completed, file, ran, moved, readerVars>>

IdRoom(elide) == IF elide THEN 0 ELSE IdBytes

StoreMemOp(t) ==
  /\ Does(t, "op")
  /\ StoreHeld(t, IdRoom(Step(t).elide) + Step(t).nth * OpBytes,
               [kind |-> "op", size |-> OpBytes, addr |-> Address(Step(t).addr)])
  /\ Further(t)
  /\ UNCHANGED <<passVars, turns, pos, gen, held, completed, file, ran, moved, readerVars>>

StoreBasicBlockComplete(t) ==
  /\ Does(t, "complete")
  /\ LET end == held[t].pos + IdRoom(Step(t).elide) + Step(t).count * OpBytes
     IN /\ completed' = [completed EXCEPT ![t] = end]
        /\ pos' = IF held[t].gen = gen[t] THEN [pos EXCEPT ![t] = end] ELSE pos
  /\ Further(t)
  /\ UNCHANGED <<passVars, turns, data, gen, held, file, ran, moved, readerVars>>

(* __ctCheckBufferSize, of the position that the block's event ended at.    *)
CheckBufferSize(t) ==
  /\ Does(t, "check")
  /\ IF BufferSize - Margin < completed[t] THEN QueueBuffer(t)
     ELSE UNCHANGED <<data, pos, gen, file>>
  /\ Further(t)
  /\ UNCHANGED <<passVars, turns, held, completed, ran, moved, readerVars>>

(* __ctCheckBufferBySize, before a block with very many operations.         *)
CheckBufferBySize(t) ==
  /\ Does(t, "by_size")
  /\ IF BufferSize - (Step(t).count + 1) * OpBytes < pos[t]
     THEN QueueBuffer(t) /\ moved' = TRUE
     ELSE UNCHANGED <<data, pos, gen, file, moved>>
  /\ Further(t)
  /\ UNCHANGED <<passVars, turns, held, completed, ran, readerVars>>

QueueStep(t) ==
  /\ Does(t, "queue")
  /\ QueueBuffer(t)
  /\ Further(t)
  /\ UNCHANGED <<passVars, turns, held, completed, ran, moved, readerVars>>

StoreEvent(t) ==
  /\ Does(t, "event")
  /\ Stores(t, Step(t).kind)
  /\ Further(t)
  /\ UNCHANGED <<passVars, turns, gen, held, completed, file, moved, readerVars>>

(* A lock that was only tried, or a call that failed, is not recorded.      *)
SkipEvent(t) ==
  /\ Does(t, "event") /\ Step(t).tried
  /\ Further(t)
  /\ UNCHANGED <<passVars, turns, data, pos, gen, held, completed, file, ran,
                 moved, readerVars>>

CallFunction(t) ==
  /\ Does(t, "call")
  /\ frames' = [frames EXCEPT ![t] =
                  (Front(@) \o <<[Top(t) EXCEPT !.step = @ + 1]>>)
                     \o <<Frame(Entry(Step(t).to))>>]
  /\ UNCHANGED <<passVars, turns, data, pos, gen, held, completed, file, ran,
                 moved, readerVars>>

(* The block is done: the next one, by a conditional's first way as long as *)
(* the bound lets it, or back to the caller.                                *)
Successors(t) == code[Top(t).block].succ
BlockEnds(t) == Running(t) /\ ~AtStep(t)

Branch(t) ==
  /\ BlockEnds(t)
  /\ \E i \in DOMAIN Successors(t) :
       /\ i = 1 /\ Len(Successors(t)) = 2 => turns[t] > 0
       /\ frames' = [frames EXCEPT ![t] = Front(@) \o <<Frame(Successors(t)[i])>>]
       /\ turns' = IF i = 1 /\ Len(Successors(t)) = 2
                   THEN [turns EXCEPT ![t] = @ - 1] ELSE turns
  /\ UNCHANGED <<passVars, data, pos, gen, held, completed, file, ran, moved, readerVars>>

ReturnToCaller(t) ==
  /\ BlockEnds(t) /\ Successors(t) = <<>> /\ Len(frames[t]) > 1
  /\ frames' = [frames EXCEPT ![t] = Front(@)]
  /\ UNCHANGED <<passVars, turns, data, pos, gen, held, completed, file, ran,
                 moved, readerVars>>

(* __ctCleanupThread: the join event, and the last buffer queued.           *)
ExitThread(t) ==
  /\ BlockEnds(t) /\ Successors(t) = <<>> /\ Len(frames[t]) = 1
  /\ frames' = [frames EXCEPT ![t] = <<>>]
  /\ LET end == pos[t] + StoreSize["join"]
         all == Put(data[t], pos[t], [kind |-> "join", size |-> StoreSize["join"]])
     IN file' = (file \o <<[Marker(t) EXCEPT !.bytes = end]>>) \o Contents(all, end)
  /\ Ran(t, [kind |-> "join"])
  /\ data' = [data EXCEPT ![t] = <<>>]
  /\ pos' = [pos EXCEPT ![t] = 0]
  /\ UNCHANGED <<passVars, turns, gen, held, completed, moved, readerVars>>

----------------------------------------------------------------------------
(* createContechEvent, called until the file is at its end.  nextId is the  *)
(* id that the last block's entry of the table gives for the next event.    *)
AllExited == stage = "run" /\ \A t \in Threads : frames[t] = <<>>
AtEof == rd > Len(file)
Reading == AllExited /\ ~fault
At(kind) == ~AtEof /\ file[rd].kind = kind

(* More bytes than the marker announced: "Missing buffer event".            *)
Overrun(s, b) == s > b /\ b > 0

ReadMarker ==
  /\ Reading /\ nextId = NoId /\ At("marker")
  /\ LET total == sum + MarkerRead
         expected == IF bufSum = 0 THEN total - MarkerRead ELSE bufSum
     IN /\ fault' = (bufSum # 0 /\ total - MarkerRead # bufSum)
        /\ bufSum' = expected + file[rd].bytes + MarkerRead
        /\ sum' = total
  /\ currentId' = file[rd].thread
  /\ rd' = rd + 1
  /\ UNCHANGED <<passVars, threadVars, file, ran, moved, nextId, out>>

ReadEvent ==
  /\ Reading /\ nextId = NoId /\ ~AtEof
  /\ file[rd].kind \in EventKinds
  /\ sum' = sum + ReadSize(file[rd].kind)
  /\ fault' = (file[rd].size # ReadSize(file[rd].kind) \/ Overrun(sum', bufSum))
  /\ out' = [out EXCEPT ![currentId] = Append(@, [kind |-> file[rd].kind])]
  /\ rd' = rd + 1
  /\ UNCHANGED <<passVars, threadVars, file, ran, moved, bufSum, nextId, currentId>>

Known(id) == \E b \in DOMAIN info : info[b].id = id
InfoOf(id) == info[CHOOSE b \in DOMAIN info : info[b].id = id]

(* The operations of a block whose stored addresses start at cell from: an  *)
(* operation has the next address, or that of an earlier one and a delta.   *)
ReadOps(ops, from) ==
  LET stored(q) == Cardinality({k \in 1..q : ~ops[k].dup})
      addr[q \in DOMAIN ops] ==
        IF ops[q].dup THEN [addr[ops[q].base] EXCEPT !.off = @ + ops[q].delta]
        ELSE file[from + stored(q) - 1].addr
  IN [q \in DOMAIN ops |->
        [addr |-> addr[q], write |-> ops[q].write, pow |-> ops[q].pow]]

(* A block event with this id, its operations from cell from on.            *)
ReadBlockOps(id, from, before) ==
  LET ops == InfoOf(id).ops
      n == Cardinality({q \in DOMAIN ops : ~ops[q].dup})
  IN IF \A k \in from..(from + n - 1) : k <= Len(file) /\ file[k].kind = "op"
     THEN /\ out' = [out EXCEPT ![currentId] =
                       Append(@, [kind |-> "block", id |-> id, ops |-> ReadOps(ops, from)])]
          /\ rd' = from + n
          /\ sum' = before + n * OpBytes
          /\ nextId' = InfoOf(id).next
          /\ fault' = Overrun(sum', bufSum)
     ELSE fault' = TRUE /\ UNCHANGED <<out, rd, sum, nextId>>

(* Bytes that are no id, or an id that is not in the table, end the reader. *)
ReadBlock ==
  /\ Reading /\ nextId = NoId /\ ~AtEof
  /\ file[rd].kind \notin EventKinds \cup {"marker"}
  /\ IF At("id") /\ Known(DecodeId(file[rd].id))
     THEN ReadBlockOps(DecodeId(file[rd].id), rd + 1, sum + IdBytes)
     ELSE fault' = TRUE /\ UNCHANGED <<out, rd, sum, nextId>>
  /\ UNCHANGED <<passVars, threadVars, file, ran, moved, bufSum, currentId>>

ReadElidedBlock ==
  /\ Reading /\ nextId # NoId
  /\ ReadBlockOps(nextId, rd, sum)
  /\ UNCHANGED <<passVars, threadVars, file, ran, moved, bufSum, currentId>>

----------------------------------------------------------------------------
ThreadStep(t) ==
  \/ StartThread(t) \/ GetBuffer(t) \/ StoreBasicBlock(t) \/ StoreMemOp(t)
  \/ StoreBasicBlockComplete(t) \/ CheckBufferSize(t) \/ CheckBufferBySize(t)
  \/ QueueStep(t) \/ StoreEvent(t) \/ SkipEvent(t) \/ CallFunction(t)
  \/ Branch(t) \/ ReturnToCaller(t) \/ ExitThread(t)

ReaderStep ==
  ReadMarker \/ ReadEvent \/ ReadBlock \/ ReadElidedBlock

Pass == PassStep /\ UNCHANGED <<threadVars, file, ran, moved, readerVars>>

(* Everything has been read, or the reader has given up.                    *)
Finished == AllExited /\ (fault \/ (AtEof /\ nextId = NoId)) /\ UNCHANGED vars

Next == Pass \/ (\E t \in Threads : ThreadStep(t)) \/ ReaderStep \/ Finished

Spec == Init /\ [][Next]_vars

----------------------------------------------------------------------------
(* No store moves a position to the end of its buffer or past it: "assert(  *)
(* __ctThreadLocalBuffer->pos < SERIAL_BUFFER_SIZE)" (ct_runtime.c:377),    *)
(* with checks only where a function starts and where it branches or        *)
(* returns.  A block so large that it makes room for itself leaves none to  *)
(* the next, and has no check at its end (Contech.cpp:1854).                *)
BufferHolds ==
  (\A b \in DOMAIN code : ~Large(code[b].body)) =>
    \A t \in Threads : pos[t] < BufferSize

(* Three ways in which the pass breaks what it relies on.  The check of an  *)
(* entry block is there also when the id of its only successor is left out, *)
(* and puts the two into different buffers (Contech.cpp:1871).  GEPs of     *)
(* different lengths are compared up to the shorter (Contech.cpp:941).  A   *)
(* large block has room made after it has read its buffer and position, so  *)
(* that it stores into the one handed over (Contech.cpp:1859).              *)
EntryElides(f) == OneSuccessor(Entry(f)) /\ info[Entry(f)].next # NoId
LengthsDiffer(b) ==
  \E i, j \in ToSet(MemOps(code[b].body)) :
    LET T == code[b].body[j].addr  A == code[b].body[i].addr IN
    Similar(code[b].body, i) = j /\ A.kind = "gep" /\ Len(T.idx) # Len(A.idx)
Sound ==
  /\ \A f \in ToSet(source.functions) : ~EntryElides(f)
  /\ \A b \in DOMAIN code : ~LengthsDiffer(b)
  /\ ~moved

(* What is read is what was run: no byte is taken for another, and at the   *)
(* end of the file every thread has, in its order, the blocks it ran, their *)
(* operations at the addresses they had, and its other events; with ids     *)
(* left out and addresses derived (ct_event.cpp:159), buffers queued in the *)
(* middle of anything, and the threads' buffers mixed in the file.          *)
DecodedAsStored ==
  stage = "run" /\ Sound =>
    /\ ~fault
    /\ AllExited /\ AtEof => nextId = NoId /\ out = ran
============================================================================
