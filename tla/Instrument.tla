---------------------------- MODULE Instrument ----------------------------
(***************************************************************************)
(* The instrumentation pass (src/llvm-contech/Contech.cpp, Contech.h) on   *)
(* the control-flow graph of one program: every function is first cut so   *)
(* that a block ends at its first call, then blocks are duplicated into    *)
(* their predecessors, then every block receives the calls of the runtime  *)
(* that will record it, and an entry of the table with which its events    *)
(* are read back.                                                          *)
(*                                                                         *)
(* A block is its instructions, its successors (none: a return, one: an    *)
(* unconditional branch, two: a conditional one) and the mark of the       *)
(* branches that the pass made or claimed.  Of the instructions there are  *)
(* the loads and stores, the atomic ones and the calls, each with the      *)
(* place it had in the program (at), which no pass changes.                *)
(***************************************************************************)
EXTENDS Integers, Sequences, FiniteSets, TLC, SequencesExt, FiniteSetsExt

CONSTANTS
  Programs,      \* the programs: [functions, layout, code], see PassInit
  OpBytes,       \* bytes of a recorded address: 6
  IdBytes,       \* bytes of a block id: 3
  Margin,        \* bytes that a check leaves free: 1024
  ElideLimit     \* a block with as many operations keeps its id: 160

(* A block whose id may be left out is never so large that it makes room    *)
(* for itself.                                                              *)
PassAssumption ==
  /\ OpBytes \in Nat \ {0} /\ IdBytes \in Nat \ {0} /\ Margin \in Nat
  /\ ElideLimit \in 0..((Margin - 4) \div OpBytes + 1)
ASSUME PassAssumption

VARIABLES
  source,        \* the program as the compiler hands it over
  code,          \* block -> [body, succ, mark], as it stands
  layout,        \* function -> its blocks, in order
  stage,         \* what is being done: "split", "duplicate", "instrument", "run"
  fn, at,        \* to which function, and to which block of its layout
  info,          \* cfgInfoMap: block -> its entry of the table
  inserted       \* block -> the steps it takes when it runs

passVars == <<source, code, layout, stage, fn, at, info, inserted>>

PassInit ==
  /\ source \in Programs
  /\ code = source.code
  /\ layout = source.layout
  /\ stage = "split" /\ fn = 1 /\ at = 1
  /\ info = <<>>
  /\ inserted = <<>>

Function == source.functions[fn]
Block == layout[Function][at]
AtEnd == at > Len(layout[Function])
Entry(f) == layout[f][1]
Preds(b) == {p \in DOMAIN code : b \in ToSet(code[p].succ)}
OneSuccessor(b) == Len(code[b].succ) = 1

----------------------------------------------------------------------------
(* One call to a block.  Debug annotations are calls too, but none that a   *)
(* block is cut for.                                                        *)
Calls(b) == {i \in DOMAIN code[b].body :
               code[b].body[i].op = "call" /\ code[b].body[i].class # "note"}
FirstCall(b) == Min(Calls(b))
CallLast(b) == Calls(b) # {} /\ FirstCall(b) = Len(code[b].body)

(* No call, or a call that the return follows.                              *)
KeepBlock ==
  /\ stage = "split" /\ ~AtEnd
  /\ Calls(Block) = {} \/ (CallLast(Block) /\ code[Block].succ = <<>>)
  /\ at' = at + 1
  /\ UNCHANGED <<source, code, layout, stage, fn, info, inserted>>

(* The branch after the call is there already: it is claimed.               *)
ClaimBranch ==
  /\ stage = "split" /\ ~AtEnd
  /\ CallLast(Block) /\ OneSuccessor(Block)
  /\ code' = [code EXCEPT ![Block].mark = TRUE]
  /\ at' = at + 1
  /\ UNCHANGED <<source, layout, stage, fn, info, inserted>>

(* What follows the call becomes a block of its own, and the branch to it   *)
(* is marked.  The block is looked at again: its call is the last now.      *)
SplitOnCall ==
  /\ stage = "split" /\ ~AtEnd
  /\ Calls(Block) # {}
  /\ ~(CallLast(Block) /\ Len(code[Block].succ) \in {0, 1})
  /\ LET i == FirstCall(Block)
         body == code[Block].body
         new == Max(DOMAIN code) + 1
         tail == [code[Block] EXCEPT !.body = SubSeq(body, i + 1, Len(body))]
         head == [body |-> SubSeq(body, 1, i), succ |-> <<new>>, mark |-> TRUE]
     IN /\ code' = [b \in DOMAIN code \cup {new} |->
                      CASE b = new -> tail [] b = Block -> head [] OTHER -> code[b]]
        /\ layout' = [layout EXCEPT ![Function] = InsertAt(@, at + 1, new)]
  /\ UNCHANGED <<source, stage, fn, at, info, inserted>>

SplitDone ==
  /\ stage = "split" /\ AtEnd
  /\ stage' = "duplicate"
  /\ UNCHANGED <<source, code, layout, fn, at, info, inserted>>

----------------------------------------------------------------------------
(* Tail duplication: a block with one successor, of which it is the only    *)
(* predecessor, goes into each of its own predecessors when they are        *)
(* several and each does nothing but branch to it by a branch of the        *)
(* program's own.                                                           *)
BranchesTo(p) == OneSuccessor(p) /\ ~code[p].mark

\* Mutant: a predecessor may have another successor.
CanDuplicateAnyBranch(b) ==
  /\ OneSuccessor(b)
  /\ Preds(code[b].succ[1]) = {b}
  /\ \A p \in Preds(b) : p # b /\ ~code[p].mark
  /\ Cardinality(Preds(b)) > 1

CanDuplicate(b) ==
  /\ OneSuccessor(b)
  /\ Preds(code[b].succ[1]) = {b}
  /\ \A p \in Preds(b) : p # b /\ BranchesTo(p)
  /\ Cardinality(Preds(b)) > 1

Duplicated(tail) ==
  [p \in DOMAIN code \ {tail} |->
     IF p \in Preds(tail)
     THEN [body |-> code[p].body \o code[tail].body,
           succ |-> code[tail].succ, mark |-> code[tail].mark]
     ELSE code[p]]

TailDuplicate ==
  /\ stage = "duplicate"
  /\ \E i \in DOMAIN layout[Function] :
       LET tail == layout[Function][i] IN
       /\ CanDuplicate(tail)
       /\ \A j \in 1..(i - 1) : ~CanDuplicate(layout[Function][j])
       /\ code' = Duplicated(tail)
       /\ layout' = [layout EXCEPT ![Function] = RemoveAt(@, i)]
  /\ UNCHANGED <<source, stage, fn, at, info, inserted>>

DuplicateDone ==
  /\ stage = "duplicate"
  /\ \A b \in ToSet(layout[Function]) : ~CanDuplicate(b)
  /\ stage' = "instrument" /\ at' = 1
  /\ UNCHANGED <<source, code, layout, fn, info, inserted>>

----------------------------------------------------------------------------
(* findSimilarMemoryInst.  An address is a value (a global, an argument, a  *)
(* cast: known again by being the same value), one that is never known      *)
(* again ("other"), or a GEP: a base and its indices, each a constant       *)
(* number of bytes or a variable times a number of bytes.                   *)
IsConst(c) == c.var = ""

(* The bytes of the constants after the last variable of idx.               *)
ConstantTail(idx) ==
  MapThenSumSet(LAMBDA k : idx[k].off,
                {k \in DOMAIN idx : \A j \in k..Len(idx) : IsConst(idx[j])})

(* A constant that differs was met before the j-th index.                   *)
Varied(T, A, j) ==
  \E k \in 1..(j - 1) : /\ k <= Len(A) /\ IsConst(T[k]) /\ IsConst(A[k])
                        /\ T[k] # A[k]

(* Where the comparison of T, the earlier GEP's indices, with A stops.      *)
Breaks(T, A, j) ==
  IF IsConst(T[j]) THEN j <= Len(A) /\ ~IsConst(A[j])
  ELSE Varied(T, A, j) \/ j > Len(A) \/ T[j] # A[j]
FirstBreak(T, A) == Min({j \in DOMAIN T : Breaks(T, A, j)} \cup {Len(T) + 1})

IndicesMatch(T, A) ==
  LET j == FirstBreak(T, A) IN
  j > Len(T) \/ (j - 1 = Len(A) /\ Len(T) # Len(A))

(* tOffset when the comparison ends: a variable resets it, except one at    *)
(* which the comparison stops for a constant before it.                     *)
EarlierTail(T, A) ==
  LET j == FirstBreak(T, A) IN
  IF j > Len(T) \/ Varied(T, A, j) THEN ConstantTail(SubSeq(T, 1, j - 1)) ELSE 0

SameAddress(earlier, addr) ==
  CASE addr.kind = "value" -> earlier = addr
    [] addr.kind = "gep" ->
         /\ earlier.kind = "gep"
         /\ earlier.base = addr.base
         /\ earlier = addr \/ IndicesMatch(earlier.idx, addr.idx)
    [] OTHER -> FALSE

Delta(earlier, addr) ==
  IF addr.kind # "gep" \/ earlier = addr THEN 0
  ELSE ConstantTail(addr.idx) - EarlierTail(earlier.idx, addr.idx)

(* The instructions of a body that access memory, the first before the i-th *)
(* whose address is taken to be its own up to a constant (0: none), and the *)
(* ones whose address is stored when the block runs.                        *)
MemOps(body) == SelectSeq([i \in DOMAIN body |-> i], LAMBDA i : body[i].op = "mem")
Similar(body, i) ==
  LET same == {j \in 1..(i - 1) : /\ body[j].op = "mem"
                                  /\ SameAddress(body[j].addr, body[i].addr)}
  IN IF same = {} THEN 0 ELSE Min(same)
Stored(body) == SelectSeq(MemOps(body), LAMBDA i : Similar(body, i) = 0)

(* The base-2 logarithm that stands for a size, in the three bits it has in *)
(* a memory operation.                                                      *)
SimpleLog(bytes) == Min({k \in 0..7 : bytes <= 2^k} \cup {8})
PowSize(bytes) == SimpleLog(bytes) % 8

(* The entries of the table for a body's operations.                        *)
OpInfo(body) ==
  LET ops == MemOps(body)
      Entry1(i) ==
        LET s == Similar(body, i) IN
        [write |-> body[i].write, pow |-> PowSize(body[i].bytes), dup |-> s # 0,
         base |-> IF s = 0 THEN 0 ELSE CHOOSE q \in DOMAIN ops : ops[q] = s,
         delta |-> IF s = 0 THEN 0 ELSE Delta(body[s].addr, body[i].addr)]
  IN [q \in DOMAIN ops |-> Entry1(ops[q])]

----------------------------------------------------------------------------
\* Mutant: a predecessor may store the events of atomics behind its block.
CanElideAfterAtomic(b) ==
  /\ Len(Stored(code[b].body)) < ElideLimit
  /\ Preds(b) # {}
  /\ \A p \in Preds(b) : p # b /\ BranchesTo(p) /\ p \in DOMAIN info /\ ~info[p].containCall

(* checkAndApplyElideId: the id of b need not be recorded when each of its  *)
(* predecessors is in the table by now, branches to b by a branch of the    *)
(* program's own, and records nothing after its block event.                *)
CanElide(b) ==
  /\ Len(Stored(code[b].body)) < ElideLimit
  /\ Preds(b) # {}
  /\ \A p \in Preds(b) : /\ p # b
                         /\ BranchesTo(p)
                         /\ p \in DOMAIN info
                         /\ ~info[p].containCall
                         /\ ~info[p].containAtomic

(* What InstrumentFunctionCall puts around a call, in the order in which it *)
(* runs; "here" is where the check of the block would go (iPt).             *)
Event(kind) == [do |-> "event", kind |-> kind, tried |-> FALSE]
Tried(kind) == [Event(kind) EXCEPT !.tried = TRUE]   \* stored when the call succeeds
Here == [do |-> "here"]
Queue == [do |-> "queue"]
LockSteps ==
  [acquire |-> <<Tried("sync"), Here>>,
   release |-> <<Tried("sync"), Here>>,
   condsignal |-> <<Tried("sync"), Here>>,
   condwait |-> <<Event("sync"), Queue, Tried("sync"), Event("sync"), Here>>]
ThreadSteps ==
  [barrier |-> <<Here, Event("barrier"), Event("barrier")>>,
   join |-> <<Queue, Here, Event("join")>>,
   create |-> <<Event("create")>>]
AllocationSteps ==
  [malloc |-> <<Event("memory")>>,
   realloc |-> <<Event("memory"), Event("bulk"), Event("memory")>>,
   free |-> <<Event("memory")>>]
TransferSteps ==
  [bulk |-> <<Event("bulk")>>,
   transfer |-> <<Event("mpi_transfer")>>,
   wait |-> <<Event("mpi_wait")>>]
RecordedSteps == LockSteps @@ ThreadSteps @@ AllocationSteps @@ TransferSteps

(* A call of a function of the program is followed into it; another leaves  *)
(* nothing.                                                                 *)
CallSteps(call) ==
  CASE call.class \in DOMAIN RecordedSteps -> RecordedSteps[call.class]
    [] call.class = "function" -> <<[do |-> "call", to |-> call.to]>>
    [] OTHER -> <<>>

(* Whether the last call of a body is one that the pass counts as a call:   *)
(* an annotation or a builtin takes an earlier one back.                    *)
HasCall(body) ==
  LET calls == {i \in DOMAIN body : body[i].op = "call"}
  IN calls # {} /\ body[Max(calls)].class \notin {"note", "builtin"}

(* The steps of a block: it reads the buffer and its position, makes room   *)
(* when its operations are very many, stores its id and its operations,     *)
(* completes its event after the last of them, stores the atomics before    *)
(* that point there and the later ones at their place.                      *)
LastStored(body) == Max(ToSet(Stored(body)) \cup {0})
Atomics(body, from, to) ==
  FlattenSeq([i \in 1..Cardinality({j \in from..to : body[j].op = "atomic"}) |->
                <<Event("sync")>>])
Large(body) == Len(Stored(body)) > (Margin - 4) \div OpBytes

Close(body, elide) ==
  <<[do |-> "complete", count |-> Len(Stored(body)), elide |-> elide]>>
    \o Atomics(body, 1, LastStored(body)) \o <<Here>>

InstructionSteps(body, i, elide) ==
  LET q == {k \in DOMAIN Stored(body) : Stored(body)[k] = i} IN
  CASE q # {} ->
         <<[do |-> "op", addr |-> body[i].addr, nth |-> Max(q) - 1, elide |-> elide]>>
           \o IF i = LastStored(body) THEN Close(body, elide) ELSE <<>>
    [] body[i].op = "atomic" /\ i > LastStored(body) -> <<Here, Event("sync")>>
    [] body[i].op = "call" -> CallSteps(body[i])
    [] OTHER -> <<>>

StepsOf(body, id, elide) ==
  <<[do |-> "get"]>>
    \o (IF Large(body) THEN <<[do |-> "by_size", count |-> Len(Stored(body))]>> ELSE <<>>)
    \o <<[do |-> "block", id |-> id, elide |-> elide]>>
    \o (IF LastStored(body) = 0 THEN Close(body, elide) ELSE <<>>)
    \o FlattenSeq([i \in DOMAIN body |-> InstructionSteps(body, i, elide)])

\* Mutant: only where the function starts.
NeedsCheckAtEntry(b) == ~Large(code[b].body) /\ b = Entry(Function)

(* One check, at the last "here", in a block that has not one successor or  *)
(* is the function's entry; none in a block that made room before.          *)
NeedsCheck(b) ==
  ~Large(code[b].body) /\ (~OneSuccessor(b) \/ b = Entry(Function))
WithCheck(steps, check) ==
  LET last == Max({k \in DOMAIN steps : steps[k] = Here})
      placed == [k \in DOMAIN steps |->
                   IF k = last /\ check THEN [do |-> "check"] ELSE steps[k]]
  IN SelectSeq(placed, LAMBDA s : s # Here)

(* internalRunOnBasicBlock.  containCall is read before it is ever set: it  *)
(* is what the block's calls say, or TRUE.                                  *)
InstrumentBlock ==
  /\ stage = "instrument" /\ ~AtEnd
  /\ LET b == Block
         id == Cardinality(DOMAIN info)
         elide == CanElide(b)
     IN \E garbage \in BOOLEAN :
        /\ info' =
             [p \in DOMAIN info \cup {b} |->
                IF p = b
                THEN [id |-> id, next |-> -1, ops |-> OpInfo(code[b].body),
                      containCall |-> garbage \/ HasCall(code[b].body),
                      containAtomic |->
                        \E i \in DOMAIN code[b].body : code[b].body[i].op = "atomic"]
                ELSE IF elide /\ p \in Preds(b) THEN [info[p] EXCEPT !.next = id]
                ELSE info[p]]
        /\ inserted' =
             [p \in DOMAIN inserted \cup {b} |->
                IF p = b
                THEN WithCheck(StepsOf(code[b].body, id, elide), NeedsCheck(b))
                ELSE inserted[p]]
  /\ at' = at + 1
  /\ UNCHANGED <<source, code, layout, stage, fn>>

(* The next function, or the end of the pass.                               *)
FunctionDone ==
  /\ stage = "instrument" /\ AtEnd
  /\ IF fn < Len(source.functions)
     THEN stage' = "split" /\ fn' = fn + 1 /\ at' = 1
     ELSE stage' = "run" /\ UNCHANGED <<fn, at>>
  /\ UNCHANGED <<source, code, layout, info, inserted>>

PassStep ==
  \/ KeepBlock \/ ClaimBranch \/ SplitOnCall \/ SplitDone
  \/ TailDuplicate \/ DuplicateDone
  \/ InstrumentBlock \/ FunctionDone

----------------------------------------------------------------------------
(* What can come next in a program c after the last instruction of block b: *)
(* the places of instructions, or the return.  Blocks without instructions  *)
(* are passed through.                                                      *)
FirstOf(c, b) ==
  LET first[d \in 0..Cardinality(DOMAIN c)] ==
        [x \in DOMAIN c |->
           IF c[x].body # <<>> THEN {c[x].body[1].at}
           ELSE IF c[x].succ = <<>> THEN {"return"}
           ELSE IF d = 0 THEN {}
           ELSE UNION {first[d - 1][y] : y \in ToSet(c[x].succ)}]
  IN first[Cardinality(DOMAIN c)][b]
AfterLast(c, b) ==
  IF c[b].succ = <<>> THEN {"return"}
  ELSE UNION {FirstOf(c, y) : y \in ToSet(c[b].succ)}
After(c, b, i) ==
  IF i < Len(c[b].body) THEN {c[b].body[i + 1].at} ELSE AfterLast(c, b)

(* The pass moves and copies blocks and changes no path: after every copy   *)
(* of an instruction comes exactly what came after the instruction in the   *)
(* program it was given, and every function starts as it did (the split at  *)
(* Contech.cpp:1235 and the tail duplication at Contech.cpp:508).           *)
PathsKept ==
  /\ \A b \in DOMAIN code : \A i \in DOMAIN code[b].body :
       \E p \in DOMAIN source.code : \E k \in DOMAIN source.code[p].body :
          /\ source.code[p].body[k] = code[b].body[i]
          /\ After(code, b, i) = After(source.code, p, k)
  /\ \A f \in ToSet(source.functions) :
       FirstOf(code, Entry(f)) = FirstOf(source.code, source.layout[f][1])

(* The sum that a GEP's address is of its base: all its constants, and its  *)
(* variables, each times its bytes.                                         *)
Address(addr) ==
  [base |-> addr.base,
   off |-> MapThenSumSet(LAMBDA k : addr.idx[k].off,
                         {k \in DOMAIN addr.idx : IsConst(addr.idx[k])}),
   terms |-> SelectSeq(addr.idx, LAMBDA c : ~IsConst(c))]
============================================================================
