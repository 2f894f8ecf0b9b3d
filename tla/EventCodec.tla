---------------------------- MODULE EventCodec ----------------------------
(***************************************************************************)
(* The bytes of an event, as the runtime stores them                       *)
(* (src/common/runtime/ct_runtime.c) and as the event library reads them   *)
(* back (src/common/eventLib/ct_event.cpp), each from its own text: an     *)
(* event is a type of four bytes (one byte that the reader looks at, three *)
(* it skips) and fields.                                                   *)
(***************************************************************************)
EXTENDS Integers

CONSTANTS
  IdLow,     \* values of the first byte that stand for a block: 128
  IdHigh     \* values of the two bytes after it: 65536

CodecAssumption == IdLow \in Nat \ {0} /\ IdHigh \in Nat \ {0}
ASSUME CodecAssumption

TypeBytes == 4
TickBytes == 8
AddrBytes == 8
IntBytes == 4
LongBytes == 8
BoolBytes == 1

(* What each store of the runtime adds to the position.                     *)
StoreSize ==
  [sync |-> TypeBytes + TickBytes + TickBytes + IntBytes + AddrBytes + LongBytes,
   create |-> 2 * IntBytes + 2 * TickBytes + LongBytes,
   memory |-> TypeBytes + AddrBytes + LongBytes + BoolBytes,
   bulk |-> TypeBytes + 2 * AddrBytes + LongBytes,
   barrier |-> TypeBytes + 2 * TickBytes + AddrBytes + BoolBytes + LongBytes,
   join |-> 2 * IntBytes + BoolBytes + 2 * TickBytes,
   delay |-> TypeBytes + 2 * TickBytes,
   mpi_transfer |-> 3 * IntBytes + 2 * BoolBytes + 2 * AddrBytes + LongBytes + 2 * TickBytes,
   mpi_wait |-> AddrBytes + TypeBytes + 2 * TickBytes]

EventKinds == DOMAIN StoreSize

(* The fields that the reader takes after the byte of the type, and the     *)
(* bytes of the type that it skips.                                         *)
FieldsRead ==
  [sync |-> TickBytes + TickBytes + IntBytes + AddrBytes + LongBytes,
   create |-> TickBytes + TickBytes + IntBytes + LongBytes,
   memory |-> BoolBytes + LongBytes + AddrBytes,
   bulk |-> LongBytes + AddrBytes + AddrBytes,
   barrier |-> BoolBytes + TickBytes + TickBytes + AddrBytes + LongBytes,
   join |-> BoolBytes + TickBytes + TickBytes + IntBytes,
   delay |-> TickBytes + TickBytes,
   mpi_transfer |-> BoolBytes + BoolBytes + IntBytes + IntBytes + AddrBytes + LongBytes + TickBytes + TickBytes + AddrBytes,
   mpi_wait |-> AddrBytes + TickBytes + TickBytes]
ReadSize(kind) == 1 + 3 + FieldsRead[kind]

(* The marker that the background writer puts before a buffer: its type,    *)
(* the thread's id and the number of bytes; and the reader's four parts.    *)
MarkerSize == 3 * IntBytes
MarkerRead == 1 + 3 + IntBytes + IntBytes

(* A block id: its low part is the byte that would be a type, the rest      *)
(* follows; a type below IdLow is a block.                                  *)
EncodeId(id) == [low |-> id % IdLow, high |-> (id \div IdLow) % IdHigh]
DecodeId(c) == c.low + c.high * IdLow
============================================================================
