------------------------------ MODULE TaskGraph ------------------------------
(***************************************************************************)
(* How the middle layer builds the task graph from the events it is given  *)
(* (the main loop of middle.cpp, Context.cpp, BarrierWrapper.cpp).  An     *)
(* operator takes the graph before an event and gives the graph after it.  *)
(*                                                                         *)
(* A task is <<context, number>>.  Times, memory operations and MPI are    *)
(* left out.  A graph g is a record of                                     *)
(*   task       the tasks created: their type, predecessors, successors    *)
(*              and number of basic blocks                                 *)
(*   live       Context::tasks of each context                             *)
(*   creator    creatorMap: which task created a context                   *)
(*   join       joinMap: the join task that waits for <<joiner, child>>    *)
(*   joinCount  joinCountMap                                               *)
(*   exited     the contexts whose endTime is set                          *)
(*   owner      ownerList: the last sync task of a lock                    *)
(*   entry      entryBarrierTask of a barrier, if it is not NULL           *)
(*   exits      exitBarrierTasks                                           *)
(*   sent       what the handler gave to backgroundQueueTask               *)
(*   final      everything given to backgroundQueueTask so far             *)
(*   late       tasks that were changed after that                         *)
(*   failed     whether an assert failed                                   *)
(***************************************************************************)
EXTENDS Events, SequencesExt

CONSTANT
  MaxBlocks   \* MAX_BLOCK_THRESHOLD

ASSUME MaxBlocksAssumption == MaxBlocks \in Nat \ {0}

NewTask(type) == [type |-> type, pred |-> <<>>, succ |-> <<>>, blocks |-> 0]
FirstOf(c) == <<c, 0>>
NextOf(t) == <<t[1], t[2] + 1>>

Update(f, k, v) == [x \in DOMAIN f \cup {k} |-> IF x = k THEN v ELSE f[x]]
Drop(f, k) == [x \in DOMAIN f \ {k} |-> f[x]]

EmptyGraph ==
  [task |-> [t \in {FirstOf(0)} |-> NewTask("block")],
   live |-> [c \in Context |-> IF c = 0 THEN {FirstOf(0)} ELSE {}],
   creator |-> [c \in {} |-> FirstOf(0)],
   join |-> [c \in {} |-> FirstOf(0)],
   joinCount |-> [t \in {} |-> 0],
   exited |-> {},
   owner |-> [a \in {} |-> FirstOf(0)],
   entry |-> [a \in {} |-> FirstOf(0)],
   exits |-> [a \in Address |-> <<>>],
   sent |-> <<>>, final |-> {}, late |-> {}, failed |-> FALSE]

Fail(g, condition) == [g EXCEPT !.failed = @ \/ condition]

\* Context::activeTask: the task with the highest number.
ActiveTask(g, c) == CHOOSE t \in g.live[c] : \A u \in g.live[c] : u[2] <= t[2]
TypeOf(g, t) == g.task[t].type

\* A task is changed, which it must not be once it has been queued for the writer.
Touch(g, t) == [g EXCEPT !.late = IF t \in g.final THEN @ \cup {t} ELSE @]

AddSuccessor(g, t, u) == Touch([g EXCEPT !.task[t].succ = Append(@, u)], t)
AddPredecessor(g, t, u) == Touch([g EXCEPT !.task[t].pred = Append(@, u)], t)
AddEdge(g, t, u) == AddPredecessor(AddSuccessor(g, t, u), u, t)

AddTask(g, t, type) == [g EXCEPT !.task = Update(@, t, NewTask(type))]
AddLive(g, t) == [g EXCEPT !.live[t[1]] = @ \cup {t}]

\* A new task follows the active task of c, and becomes the active one.
Continue(g, c, type) ==
  LET t == ActiveTask(g, c)
  IN  AddLive(AddEdge(AddTask(g, NextOf(t), type), t, NextOf(t)), NextOf(t))

JoinPending(g, t) == t \in DOMAIN g.joinCount /\ g.joinCount[t] # 0

\* Context::removeTask, and the asserts about it.
RemoveTask(g, c, t) ==
  [Fail(g, t \notin g.live[c] \/ (TypeOf(g, t) = "join" /\ JoinPending(g, t)))
     EXCEPT !.live[c] = @ \ {t}]

BackgroundQueueTask(g, t) == [g EXCEPT !.sent = Append(@, t), !.final = @ \cup {t}]

Release(g, c, t) == BackgroundQueueTask(RemoveTask(g, c, t), t)

\* Context::isCompleteJoin: whether, and what it leaves.
CompleteJoin(g, t) == t \notin DOMAIN g.joinCount \/ g.joinCount[t] <= 0
ForgetJoin(g, t) == [g EXCEPT !.joinCount = Drop(@, t)]

AttemptBackgroundQueueTask(g, c, t) ==
  CASE TypeOf(g, t) \in {"block", "create"} -> Release(g, c, t)
    [] TypeOf(g, t) = "join" /\ CompleteJoin(g, t) -> Release(ForgetJoin(g, t), c, t)
    [] OTHER -> g

\* Context::createContinuation: behind a task that is no basic block task, one that is empty
\* comes first, and is complete at once.
CreateContinuation(g, c, type) ==
  LET block == Continue(g, c, "block")
  IN  IF TypeOf(g, ActiveTask(g, c)) = "block"
        THEN Fail(Continue(g, c, type), c \in g.exited)
        ELSE Release(Fail(Continue(block, c, type), c \in g.exited), c, ActiveTask(block, c))

\* The active task of c ends, and one of the type follows.
Transition(g, c, type) ==
  AttemptBackgroundQueueTask(CreateContinuation(g, c, type), c, ActiveTask(g, c))

\* It is reused if it has the type already.
Merge(g, c, type) == IF TypeOf(g, ActiveTask(g, c)) = type THEN g ELSE Transition(g, c, type)
-----------------------------------------------------------------------------
(* The events *)

\* The active task becomes a basic block task that is not full.
InBlock(g, c) ==
  LET t == ActiveTask(g, c)
  IN  IF TypeOf(g, t) # "block"
        THEN AttemptBackgroundQueueTask(Continue(g, c, "block"), c, t)
        ELSE IF g.task[t].blocks >= MaxBlocks
        THEN Release(Continue(g, c, "block"), c, t)
        ELSE g

OnBlock(g, c) ==
  LET h == InBlock(g, c)
      t == ActiveTask(h, c)
  IN  Touch([h EXCEPT !.task[t].blocks = @ + 1], t)

OnCreate(g, c, child) ==
  LET h == Merge(g, c, "create")
      t == ActiveTask(h, c)
  IN  [AddSuccessor(h, t, FirstOf(child)) EXCEPT !.creator = Update(@, child, t)]

OnCreated(g, c) ==
  LET h == AddLive(AddTask(g, FirstOf(c), "block"), FirstOf(c))
  IN  IF c \notin DOMAIN g.creator THEN Fail(h, TRUE)
      ELSE [AddPredecessor(h, FirstOf(c), g.creator[c]) EXCEPT !.creator = Drop(@, c)]

\* Mutant: only the last sync task of the lock learns of the edge.
OnSyncOneEnd(g, c, lock) ==
  LET h == Transition(g, c, "sync")
      sync == ActiveTask(h, c)
      k == Continue(h, c, "block")
      owner == g.owner[lock]
  IN  [(IF lock \in DOMAIN g.owner THEN Release(AddSuccessor(k, owner, sync), owner[1], owner)
                                   ELSE k)
         EXCEPT !.owner = Update(@, lock, sync)]

\* Mutant: a sync task is queued at once.
OnSyncReleases(g, c, lock) ==
  LET h == Transition(g, c, "sync")
      sync == ActiveTask(h, c)
      k == Continue(h, c, "block")
      owner == g.owner[lock]
  IN  Release([(IF lock \in DOMAIN g.owner THEN AddEdge(k, owner, sync) ELSE k)
                 EXCEPT !.owner = Update(@, lock, sync)], c, sync)

\* The sync task, an empty basic block task behind it, and the edge from the last sync task
\* of the lock, which nothing changes any more.
OnSync(g, c, lock) ==
  LET h == Transition(g, c, "sync")
      sync == ActiveTask(h, c)
      k == Continue(h, c, "block")
      owner == g.owner[lock]
  IN  [(IF lock \in DOMAIN g.owner THEN Release(AddEdge(k, owner, sync), owner[1], owner)
                                   ELSE k)
         EXCEPT !.owner = Update(@, lock, sync)]

OnJoin(g, c, child) ==
  LET h == Merge(g, c, "join")
      t == ActiveTask(h, c)
      last == ActiveTask(h, child)
  IN  IF child \in g.exited
        THEN Release(AddEdge(h, last, t), child, last)
        ELSE [h EXCEPT !.join = Update(@, <<c, child>>, t),
                       !.joinCount = Update(@, t, IF t \in DOMAIN @ THEN @[t] + 1 ELSE 1)]

\* Without a join that waits for it, the last task stays for the join to find.
OnExit(g, c, parent) ==
  LET t == ActiveTask(g, c)
      h == [g EXCEPT !.exited = @ \cup {c}]
      join == g.join[<<parent, c>>]
      k == AddEdge([Fail(h, join \notin h.live[parent]) EXCEPT
                      !.join = Drop(@, <<parent, c>>),
                      !.joinCount = Update(@, join, IF join \in DOMAIN @ THEN @[join] - 1 ELSE -1)],
                   t, join)
      l == IF ActiveTask(k, parent) # join /\ CompleteJoin(k, join)
             THEN Release(ForgetJoin(k, join), parent, join) ELSE k
  IN  IF <<parent, c>> \in DOMAIN g.join THEN Release(l, c, t) ELSE h

\* Context c is among the contexts of these tasks.
From(c, tasks) == \E i \in DOMAIN tasks : tasks[i][1] = c

\* Mutant: a thread enters any episode that is being left.
OnEnterAny(g, c, a) ==
  LET h == IF TypeOf(g, ActiveTask(g, c)) # "block" THEN InBlock(g, c) ELSE g
      arriving == ActiveTask(h, c)
      first == AddTask([h EXCEPT !.entry = Update(@, a, NextOf(arriving))],
                       NextOf(arriving), "barrier")
      k == IF g.exits[a] = <<>> /\ a \notin DOMAIN g.entry THEN first ELSE h
  IN  AddEdge(k, arriving, IF g.exits[a] # <<>> THEN Head(g.exits[a]) ELSE k.entry[a])

\* BarrierWrapper::onEnter: an episode that is being left and that c has not entered, or the
\* one that is being entered.
OnEnter(g, c, a) ==
  LET h == IF TypeOf(g, ActiveTask(g, c)) # "block" THEN InBlock(g, c) ELSE g
      arriving == ActiveTask(h, c)
      missed == SelectSeq(g.exits[a], LAMBDA t : ~From(c, g.task[t].pred))
      first == AddTask([h EXCEPT !.entry = Update(@, a, NextOf(arriving))],
                       NextOf(arriving), "barrier")
      k == IF missed = <<>> /\ a \notin DOMAIN g.entry THEN first ELSE h
  IN  AddEdge(k, arriving, IF missed # <<>> THEN Head(missed) ELSE k.entry[a])

\* BarrierWrapper::onExit: the oldest episode that c has entered and not left.
Entered(g, c, a) ==
  SelectSeq(g.exits[a], LAMBDA t : From(c, g.task[t].pred) /\ ~From(c, g.task[t].succ))

\* Mutant: the wrapper and its caller both add the edge behind the barrier.
DepartsTwice(g, c, bar) ==
  LET departing == ActiveTask(g, c)
      own == AddEdge(AddTask(g, NextOf(bar), "block"), departing, NextOf(bar))
      h == AttemptBackgroundQueueTask(
             IF bar[1] = c THEN AddLive(AddLive(own, bar), NextOf(bar)) ELSE Continue(g, c, "block"),
             c, departing)
  IN  AddEdge(AddEdge(h, bar, ActiveTask(h, c)), bar, ActiveTask(h, c))

\* The context goes on behind the barrier task, that of the barrier task takes it in.
Departs(g, c, bar) ==
  LET departing == ActiveTask(g, c)
      own == AddEdge(AddTask(g, NextOf(bar), "block"), departing, NextOf(bar))
      h == AttemptBackgroundQueueTask(
             IF bar[1] = c THEN AddLive(AddLive(own, bar), NextOf(bar)) ELSE Continue(g, c, "block"),
             c, departing)
  IN  AddEdge(h, bar, ActiveTask(h, c))

OnLeave(g, c, a) ==
  LET older == Entered(g, c, a)
      bar == IF older # <<>> THEN Head(older) ELSE g.entry[a]
      h == IF older # <<>> THEN g
           ELSE [Fail(g, ~From(c, g.task[bar].pred)) EXCEPT
                   !.exits[a] = Append(@, bar), !.entry = Drop(@, a)]
      last == Len(h.task[bar].pred) = 1 + Len(h.task[bar].succ)
  IN  IF older = <<>> /\ a \notin DOMAIN g.entry THEN Fail(g, TRUE)
      ELSE IF last
        THEN Release(Departs([h EXCEPT !.exits[a] = Remove(@, bar)], c, bar), bar[1], bar)
        ELSE Departs(h, c, bar)

\* The main loop: the handler of event e.
Handle(g, e) ==
  LET h == [g EXCEPT !.sent = <<>>]
  IN  CASE e.type # "created" /\ h.live[e.ctx] = {} -> Fail(h, TRUE)
        [] e.type = "block" -> OnBlock(h, e.ctx)
        [] e.type = "create" -> OnCreate(h, e.ctx, e.on)
        [] e.type = "created" -> OnCreated(h, e.ctx)
        [] IsSync(e) -> OnSync(h, e.ctx, e.on)
        [] e.type = "join" -> OnJoin(h, e.ctx, e.on)
        [] e.type = "exit" -> OnExit(h, e.ctx, e.on)
        [] e.type = "enter" -> OnEnter(h, e.ctx, e.on)
        [] e.type = "leave" -> OnLeave(h, e.ctx, e.on)

\* When there are no more events, what the contexts still have is queued, in order.
Before(t, u) == t[1] < u[1] \/ (t[1] = u[1] /\ t[2] < u[2])
HandleRest(g) ==
  LET rest == UNION {g.live[c] : c \in Context}
  IN  [g EXCEPT !.sent = SetToSortSeq(rest, Before), !.final = @ \cup rest,
                !.live = [c \in Context |-> {}]]
=============================================================================
