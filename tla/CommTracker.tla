----------------------------- MODULE CommTracker ------------------------------
(***************************************************************************)
(* The tracker of communication (backend/CommTracker): for each byte the   *)
(* last task that wrote it and the contexts that have it, and a record for *)
(* each context that reads what another wrote.  The counts kept for each   *)
(* basic block are statistics and are left out, and so are memcpy, which   *)
(* reads and writes a byte at a time, and where in a block an access is.   *)
(***************************************************************************)
EXTENDS TaskFile

CONSTANT IntBits    \* the width of an int

VARIABLES
  addrTable,    \* [Byte -> addrEntry]
  allocation,   \* [Byte -> size of the block that starts there, 0: none]
  records       \* Seq of CommRecord

commVars == <<addrTable, allocation, records>>

\* A map makes an entry when it is asked for one: its owner is TaskId(), 0:0.
NewEntry == [ownerTask |-> <<0, 0>>, sharers |-> {}]

CommInit ==
  /\ addrTable = [b \in Byte |-> NewEntry]
  /\ allocation = [b \in Byte |-> 0]
  /\ records = <<>>

\* getSharersMask: 1 << context, an int whose sign fills the upper half of the mask.
SharersMask(tid) ==
  LET bit == ContextOf(tid) % IntBits
  IN  IF bit = IntBits - 1 THEN bit..(2 * IntBits - 1) ELSE {bit}

\* The bytes of a set upwards, as the loops over the bytes of an operation come to them.
Upwards(S) ==
  [k \in 1..Cardinality(S) |-> CHOOSE b \in S : Cardinality({a \in S : a < b}) = k - 1]

\* Mutant: what a context wrote goes on being shared by those that read it before.
OwnedStillShared(entry, tid) ==
  [ownerTask |-> tid, sharers |-> entry.sharers \cup SharersMask(tid)]

\* addWrite of one byte: the writer owns it and alone has it.
Owned(entry, tid) == [ownerTask |-> tid, sharers |-> SharersMask(tid)]

\* addRead of one byte records the first read of a context, unless it owns the byte.
Communicates(entry, tid) ==
  /\ ContextOf(entry.ownerTask) # ContextOf(tid)
  /\ entry.sharers \cap SharersMask(tid) = {}

Update(tid, bytes) ==
  addrTable' = [b \in Byte |-> IF b \in bytes THEN Owned(addrTable[b], tid) ELSE addrTable[b]]

AddWrite(tid, addr, size) ==
  /\ Update(tid, {b \in Byte : addr <= b /\ b < addr + size})
  /\ UNCHANGED <<allocation, records>>

AddRead(tid, addr, size) ==
  LET news == {b \in Byte : addr <= b /\ b < addr + size /\ Communicates(addrTable[b], tid)}
      read == Upwards(news)
  IN  /\ records' = records \o
           [k \in DOMAIN read |-> [sender |-> addrTable[read[k]].ownerTask,
                                   address |-> read[k], receiver |-> tid]]
      /\ addrTable' = [b \in Byte |->
           IF b \in news
             THEN [addrTable[b] EXCEPT !.sharers = @ \cup SharersMask(tid)]
             ELSE addrTable[b]]
      /\ UNCHANGED allocation

\* An allocation is a write of all its bytes.
AddAllocate(tid, addr, size) ==
  /\ Update(tid, {b \in Byte : addr <= b /\ b < addr + size})
  /\ allocation' = [allocation EXCEPT ![addr] = size]
  /\ UNCHANGED records

AddFree(tid, addr) ==
  /\ addrTable' = [b \in Byte |->
       IF addr <= b /\ b < addr + allocation[addr] THEN NewEntry ELSE addrTable[b]]
  /\ allocation' = [allocation EXCEPT ![addr] = 0]
  /\ UNCHANGED records

\* fromFile, one memory operation of the task tid.
CommOp(tid, op) ==
  \/ op.type = "write" /\ AddWrite(tid, op.addr, op.size)
  \/ op.type = "read" /\ AddRead(tid, op.addr, op.size)
  \/ op.type = "malloc" /\ AddAllocate(tid, op.addr, op.size)
  \/ op.type = "free" /\ AddFree(tid, op.addr)
==============================================================================
