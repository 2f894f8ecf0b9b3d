------------------------------- MODULE MCMiddle -------------------------------
(* Small programs for Middle: locks 100 and 101, barrier 200. *)
EXTENDS Middle

Do(op, on) == [op |-> op, on |-> on]
Block == Do("block", 0)

Program(main, one, two, h, n) ==
  [ops |-> [c \in Context |-> CASE c = 0 -> main [] c = 1 -> one [] c = 2 -> two],
   held |-> h, flushes |-> n]

CreateAndJoin == <<Do("create", 1), Block, Do("create", 2), Do("join", 1), Do("join", 2)>>

\* Two threads that take turns with a lock.
Locks == Program(CreateAndJoin,
                 <<Do("lock", 100), Do("unlock", 100)>>,
                 <<Do("lock", 100), Block, Do("unlock", 100)>>, {}, 1)

\* A thread that lets another go on, which has used a lock of its own.
Semaphore == Program(<<Do("create", 1), Do("create", 2), Do("join", 2), Do("join", 1), Block>>,
                     <<Do("unlock", 100)>>,
                     <<Do("lock", 101), Do("unlock", 101), Do("lock", 100)>>, {100}, 1)

\* Main and a thread that meet twice.
Barriers == Program(<<Do("create", 1), Do("barrier", 200), Do("barrier", 200), Do("join", 1)>>,
                    <<Do("barrier", 200), Block, Do("barrier", 200), Block, Block>>, <<>>, {}, 0)

LocksOnly == {Locks}
AllPrograms == {Locks, Semaphore, Barriers}
=============================================================================
