------------------------------- MODULE Recorder -------------------------------
(***************************************************************************)
(* How the Contech runtime records a program: what each thread stores into *)
(* its buffer, when it draws the numbers that order events, and when it    *)
(* queues the buffer.  Queued buffers are in the trace in the order in     *)
(* which they were queued (module TraceBuffers), so queueing appends here. *)
(*                                                                         *)
(* A program is what its threads do, as the instrumentation sees it:       *)
(* ops[c] is a sequence of [op, on] with op one of "block", "lock",        *)
(* "unlock", "create", "join" and "barrier".  A semaphore is a lock in     *)
(* held, the locks that are held at first.  At a barrier all threads that  *)
(* use it meet.  flushes bounds how often a buffer becomes full.           *)
(***************************************************************************)
EXTENDS Events

CONSTANT Programs   \* set of [ops : [Context -> Seq(Operation)], held : SUBSET Address, flushes : Nat]

Operation == [op : {"block", "lock", "unlock", "create", "join", "barrier"},
              on : Context \cup Address]

Creates(p, c, i) == p.ops[c][i].op = "create"

\* __ctAllocateCTid gives each thread that is created a number of its own, and none main's.
ASSUME ProgramsAssumption ==
  \A p \in Programs :
    /\ p.ops \in [Context -> Seq(Operation)]
    /\ p.held \subseteq Address
    /\ p.flushes \in Nat
    /\ \A c \in Context : \A i \in DOMAIN p.ops[c] :
         Creates(p, c, i) =>
           /\ p.ops[c][i].on \in Context \ {0}
           /\ \A d \in Context : \A j \in DOMAIN p.ops[d] :
                Creates(p, d, j) /\ p.ops[d][j].on = p.ops[c][i].on => d = c /\ j = i

VARIABLES
  program,   \* the member of Programs that runs, or Finished
  at,        \* what each thread is doing
  done,      \* how many of its operations a thread has finished
  buffer,    \* the events in the buffer of each thread
  flushes,   \* how many more buffers become full
  held,      \* locks that are held
  inside,    \* threads that are at a barrier and have not left it, by barrier
  numbers    \* __ctGlobalOrderNumber, __ctGlobalBarrierNumber, and the tickets drawn ahead

recorderVars == <<trace, program, at, done, buffer, flushes, held, inside, numbers>>

\* Nothing is left of a program that has run but its trace.
Finished == [ops |-> [c \in Context |-> <<>>], held |-> {}, flushes |-> 0]

RecorderInit(p) ==
  /\ program = p
  /\ at = [c \in Context |-> IF c = 0 THEN "run" ELSE "unborn"]
  /\ done = [c \in Context |-> 0]
  /\ buffer = [c \in Context |-> <<>>]
  /\ flushes = p.flushes
  /\ held = p.held
  /\ inside = [a \in Address |-> {}]
  /\ numbers = [ticket |-> 0, barrier |-> 0, drawn |-> [c \in Context |-> 0]]

\* The operation thread c is to do, if it is op.
Does(c, op) ==
  /\ at[c] = "run"
  /\ done[c] < Len(program.ops[c])
  /\ program.ops[c][done[c] + 1].op = op

On(c) == program.ops[c][done[c] + 1].on

Record(c, type, n, on) ==
  buffer' = [buffer EXCEPT ![c] = Append(@, [ctx |-> c, type |-> type, n |-> n, on |-> on])]

Completes(c) == done' = [done EXCEPT ![c] = @ + 1]

\* __ctQueueBuffer: the events in the buffer go to the trace.
Queue(c) ==
  /\ trace' = trace \o buffer[c]
  /\ buffer' = [buffer EXCEPT ![c] = <<>>]
-----------------------------------------------------------------------------
RecordBlock(c) ==
  /\ Does(c, "block")
  /\ Record(c, "block", 0, c)
  /\ Completes(c)
  /\ UNCHANGED <<trace, program, at, flushes, held, inside, numbers>>

\* An acquire draws its ticket when it has the lock.
Acquire(c) ==
  /\ Does(c, "lock")
  /\ On(c) \notin held
  /\ held' = held \cup {On(c)}
  /\ Record(c, "acquire", numbers.ticket, On(c))
  /\ numbers' = [numbers EXCEPT !.ticket = @ + 1]
  /\ Completes(c)
  /\ UNCHANGED <<trace, program, at, flushes, inside>>

\* A release draws its ticket before the call, while it has the lock, and stores the event
\* after the call.
DrawTicket(c) ==
  /\ Does(c, "unlock")
  /\ numbers' = [numbers EXCEPT !.ticket = @ + 1, !.drawn[c] = numbers.ticket]
  /\ at' = [at EXCEPT ![c] = "unlock"]
  /\ UNCHANGED <<trace, program, done, buffer, flushes, held, inside>>

Unlock(c) ==
  /\ at[c] = "unlock"
  /\ held' = held \ {On(c)}
  /\ at' = [at EXCEPT ![c] = "store"]
  /\ UNCHANGED <<trace, program, done, buffer, flushes, inside, numbers>>

\* Mutant: the ticket of a release is drawn when its event is stored.
StoreReleaseDraws(c) ==
  /\ at[c] = "store"
  /\ Record(c, "release", numbers.ticket, On(c))
  /\ numbers' = [numbers EXCEPT !.ticket = @ + 1, !.drawn[c] = 0]
  /\ at' = [at EXCEPT ![c] = "run"]
  /\ Completes(c)
  /\ UNCHANGED <<trace, program, flushes, held, inside>>

\* __ctStoreSync takes a ticket of 0 for none, and draws another.
StoreRelease(c) ==
  /\ at[c] = "store"
  /\ IF numbers.drawn[c] = 0
       THEN /\ Record(c, "release", numbers.ticket, On(c))
            /\ numbers' = [numbers EXCEPT !.ticket = @ + 1]
       ELSE /\ Record(c, "release", numbers.drawn[c], On(c))
            /\ numbers' = [numbers EXCEPT !.drawn[c] = 0]
  /\ at' = [at EXCEPT ![c] = "run"]
  /\ Completes(c)
  /\ UNCHANGED <<trace, program, flushes, held, inside>>

\* The parent stores the create before pthread_create, the child that it was created.
CreateContext(c) ==
  /\ Does(c, "create")
  /\ buffer' = [buffer EXCEPT
       ![c] = Append(@, [ctx |-> c, type |-> "create", n |-> 0, on |-> On(c)]),
       ![On(c)] = <<[ctx |-> On(c), type |-> "created", n |-> 0, on |-> c]>>]
  /\ at' = [at EXCEPT ![On(c)] = "run"]
  /\ Completes(c)
  /\ UNCHANGED <<trace, program, flushes, held, inside, numbers>>

\* The buffer is queued before the thread waits in pthread_join.
QueueBeforeJoin(c) ==
  /\ Does(c, "join")
  /\ Queue(c)
  /\ at' = [at EXCEPT ![c] = "join"]
  /\ UNCHANGED <<program, done, flushes, held, inside, numbers>>

Join(c) ==
  /\ at[c] = "join"
  /\ at[On(c)] = "ended"
  /\ Record(c, "join", 0, On(c))
  /\ at' = [at EXCEPT ![c] = "run"]
  /\ Completes(c)
  /\ UNCHANGED <<trace, program, flushes, held, inside, numbers>>

\* The threads that meet at barrier a.
Parties(a) == {c \in Context : \E i \in DOMAIN program.ops[c] : program.ops[c][i].on = a}

Enter(c) ==
  /\ Does(c, "barrier")
  /\ Record(c, "enter", numbers.barrier, On(c))
  /\ numbers' = [numbers EXCEPT !.barrier = @ + 1]
  /\ inside' = [inside EXCEPT ![On(c)] = @ \cup {c}]
  /\ at' = [at EXCEPT ![c] = "barrier"]
  /\ UNCHANGED <<trace, program, done, flushes, held>>

\* The last to enter lets the others go.
Meet(a) ==
  /\ inside[a] # {}
  /\ inside[a] = Parties(a)
  /\ inside' = [inside EXCEPT ![a] = {}]
  /\ at' = [c \in Context |-> IF c \in inside[a] THEN "leave" ELSE at[c]]
  /\ UNCHANGED <<trace, program, done, buffer, flushes, held, numbers>>

Leave(c) ==
  /\ at[c] = "leave"
  /\ Record(c, "leave", numbers.barrier, On(c))
  /\ numbers' = [numbers EXCEPT !.barrier = @ + 1]
  /\ at' = [at EXCEPT ![c] = "run"]
  /\ Completes(c)
  /\ UNCHANGED <<trace, program, flushes, held, inside>>

\* Whether the buffer is full is tested when a basic block has been stored.
BufferFull(c) ==
  /\ flushes > 0
  /\ at[c] = "run"
  /\ buffer[c] # <<>> /\ buffer[c][Len(buffer[c])].type = "block"
  /\ Queue(c)
  /\ flushes' = flushes - 1
  /\ UNCHANGED <<program, at, done, held, inside, numbers>>

\* The context whose create is of c; main is its own.
Parent(c) ==
  IF c = 0 THEN 0
  ELSE CHOOSE p \in Context : \E i \in DOMAIN program.ops[p] :
         program.ops[p][i].op = "create" /\ program.ops[p][i].on = c

\* The exit is stored, with the parent, and the last buffer queued.
ExitContext(c) ==
  /\ at[c] = "run"
  /\ done[c] = Len(program.ops[c])
  /\ trace' = Append(trace \o buffer[c], [ctx |-> c, type |-> "exit", n |-> 0,
                                         on |-> Parent(c)])
  /\ buffer' = [buffer EXCEPT ![c] = <<>>]
  /\ at' = [at EXCEPT ![c] = "ended"]
  /\ UNCHANGED <<program, done, flushes, held, inside, numbers>>

\* The process ends with its main thread; the trace stays.
EndProgram ==
  /\ \A c \in Context : at[c] \in {"unborn", "ended"}
  /\ program' = Finished
  /\ at' = [c \in Context |-> "unborn"]
  /\ done' = [c \in Context |-> 0]
  /\ flushes' = 0
  /\ held' = {}
  /\ numbers' = [ticket |-> 0, barrier |-> 0, drawn |-> [c \in Context |-> 0]]
  /\ UNCHANGED <<trace, buffer, inside>>

ContextStep(c) ==
  \/ RecordBlock(c) \/ Acquire(c) \/ DrawTicket(c) \/ Unlock(c) \/ StoreRelease(c)
  \/ CreateContext(c) \/ QueueBeforeJoin(c) \/ Join(c)
  \/ Enter(c) \/ Leave(c) \/ BufferFull(c) \/ ExitContext(c)

RecorderStep ==
  \/ \E c \in Context : ContextStep(c)
  \/ \E a \in Address : Meet(a)
  \/ EndProgram
=============================================================================
