------------------------- MODULE TaskSchedulerProofs -------------------------
(***************************************************************************)
(* Proofs about TaskScheduler, for every task graph and number of          *)
(* contexts.                                                               *)
(***************************************************************************)
EXTENDS TaskScheduler, FiniteSetTheorems, SequenceTheorems, TLAPS

\* A task has finitely many predecessors.
LEMMA PredFinite ==
  ASSUME NEW s \in Task
  PROVE  /\ Pred(s) \subseteq Task /\ IsFiniteSet(Pred(s))
         /\ Cardinality(Pred(s)) \in Nat
  <1>1. Pred(s) \subseteq Task BY DEF Pred
  <1>2. IsFiniteSet(Pred(s)) BY <1>1, TaskGraphAssumption, FS_Subset
  <1> QED BY <1>1, <1>2, FS_CardinalityType

\* Modulo the number of contexts every number is a context.
LEMMA ModuloContexts ==
  ASSUME NEW k \in Nat
  PROVE  k % NumContexts \in Context
  BY TaskGraphAssumption, SMT DEF Context

\* The types of the initial values.
LEMMA TypeInit == Init => TypeOK
<1> SUFFICES ASSUME Init PROVE TypeOK OBVIOUS
<1>1. Cardinality(Task) \in Nat BY TaskGraphAssumption, FS_CardinalityType
<1>2. 0 \in Context BY TaskGraphAssumption DEF Context
<1> QED BY <1>1, <1>2, TaskGraphAssumption DEF Init, TypeOK

\* No step of the simulator's loop, of a processor or of the successor bookkeeping
\* leaves the types.
LEMMA TypeStep == TypeOK /\ [Next]_vars => TypeOK'
<1> SUFFICES ASSUME TypeOK, [Next]_vars PROVE TypeOK' OBVIOUS
<1> USE DEF TypeOK, queueVars, graphVars
<1>1. ASSUME NEW n \in Context, StartTask(n) PROVE TypeOK'
  <2>1. taskQueue[n] \in Seq(Task) /\ taskQueue[n] # <<>> BY <1>1 DEF StartTask
  <2>2. Head(taskQueue[n]) \in Task /\ Tail(taskQueue[n]) \in Seq(Task)
    BY <2>1, HeadTailProperties
  <2> QED BY <1>1, <2>2 DEF StartTask, Running
<1>2. ASSUME NEW n \in Context, CompleteTask(n) PROVE TypeOK'
  <2>1. Append(completedTasks[n], currTask[n]) \in Seq(Task)
    BY <1>2, AppendProperties DEF CompleteTask
  <2> QED BY <1>2, <2>1 DEF CompleteTask, Running
<1>3. ASSUME NEW n \in Context, ProcessorReturns(n) PROVE TypeOK'
  BY <1>3 DEF ProcessorReturns, Running
<1>4. ASSUME NEW n \in Context, Collect(n) PROVE TypeOK'
  <2> DEFINE t == Head(completedTasks[n])
  <2>1. completedTasks[n] \in Seq(Task) /\ completedTasks[n] # <<>> BY <1>4 DEF Collect
  <2>2. t \in Task /\ Tail(completedTasks[n]) \in Seq(Task) BY <2>1, HeadTailProperties
  <2>3. Succ[t] \in Seq(Task) /\ Len(Succ[t]) \in Int BY <2>2, TaskGraphAssumption, LenProperties
  <2> QED BY <1>4, <2>2, <2>3 DEF Collect, Collecting
<1>5. ASSUME NEW n \in Context, Signal(n)
      PROVE  /\ Head(successors) \in Task /\ successors' \in Seq(Task)
             /\ pendingSuccessors' \in [Task -> Int]
  <2>1. Head(successors) \in Task /\ Tail(successors) \in Seq(Task)
    BY <1>5, HeadTailProperties DEF Signal
  <2>2. \A s \in Task : CountAfter(s) \in Int
    <3> SUFFICES ASSUME NEW s \in Task PROVE CountAfter(s) \in Int OBVIOUS
    <3> QED BY PredFinite DEF CountAfter
  <2> QED BY <1>5, <2>1, <2>2 DEF Signal
<1>6. ASSUME NEW n \in Context, SuccessorWaits(n) PROVE TypeOK'
  BY <1>5, <1>6 DEF SuccessorWaits, Signal, Collecting
<1>7. ASSUME NEW n \in Context, SuccessorReady(n) PROVE TypeOK'
  <2>1. Signal(n) BY <1>7 DEF SuccessorReady
  <2>2. PICK s \in Task : s = Head(successors) BY <1>5, <2>1
  <2>3. PICK m \in Context : m = ContextId[s] % NumContexts
    BY TaskGraphAssumption, ModuloContexts
  <2>4. taskQueue' = [taskQueue EXCEPT ![m] = Append(taskQueue[m], s)]
    BY <1>7, <2>2, <2>3 DEF SuccessorReady, AddToTaskQueue
  <2>5. taskQueue' \in [Context -> Seq(Task)] BY <2>4, AppendProperties
  <2>6. dispatches' \in [Task -> Nat]
    <3>1. dispatches' = [dispatches EXCEPT ![s] = @ + 1] BY <1>7, <2>2 DEF SuccessorReady
    <3> QED BY <3>1
  <2>7. completedPredecessors' \in [Task -> Int] BY <1>7, SMTT(30) DEF SuccessorReady
  <2> QED BY <1>5, <2>1, <2>5, <2>6, <2>7 DEF Signal, Collecting
<1>8. ASSUME NEW n \in Context, NextContext(n) PROVE TypeOK'
  <2>1. turn' \in Context
    <3>1. n + 1 \in Nat BY TaskGraphAssumption DEF Context
    <3> QED BY <1>8, <3>1, ModuloContexts DEF NextContext
  <2> QED BY <1>8, <2>1 DEF NextContext, Collecting
<1>9. CASE UNCHANGED vars BY <1>9 DEF vars
<1> QED BY <1>1, <1>2, <1>3, <1>4, <1>6, <1>7, <1>8, <1>9 DEF Next

\* The variables keep their types.
THEOREM TypeCorrect == Spec => []TypeOK
  BY TypeInit, TypeStep, PTL DEF Spec

-------------------------------------------------------------------------------
(* The task queues and the completed tasks of the contexts. *)

\* Equal entries are the same entry.
LEMMA OnceAt ==
  ASSUME NEW q, Once(q), NEW m1 \in Context, NEW m2 \in Context,
         NEW k1 \in 1..Len(q[m1]), NEW k2 \in 1..Len(q[m2]), q[m1][k1] = q[m2][k2]
  PROVE  m1 = m2 /\ k1 = k2
  BY Zenon DEF Once

\* Taking the head of the queue of one context takes that task out of the queues.
LEMMA TakeHead ==
  ASSUME NEW q \in [Context -> Seq(Task)], Once(q), NEW n \in Context, q[n] # <<>>
  PROVE  LET q2 == [q EXCEPT ![n] = Tail(@)]
         IN  /\ Once(q2)
             /\ Head(q[n]) \in Task /\ Contains(q, Head(q[n]))
             /\ \A t : Contains(q2, t) <=> Contains(q, t) /\ t # Head(q[n])
<1> DEFINE q2 == [q EXCEPT ![n] = Tail(@)]
<1>1. /\ q[n] \in Seq(Task) /\ Head(q[n]) \in Task
      /\ Tail(q[n]) \in Seq(Task) /\ Len(Tail(q[n])) = Len(q[n]) - 1
      /\ \A i \in 1..Len(Tail(q[n])) : Tail(q[n])[i] = q[n][i + 1]
  BY HeadTailProperties
<1>2. Len(q[n]) \in Nat \ {0} /\ Head(q[n]) = q[n][1]
  BY <1>1, EmptySeq
<1>3. q2[n] = Tail(q[n]) /\ \A m \in Context \ {n} : q2[m] = q[m]
  OBVIOUS
<1>4. \A m \in Context : Len(q[m]) \in Nat
  BY LenProperties
<1> HIDE DEF q2
<1>5. ASSUME NEW m \in Context, NEW i \in 1..Len(q2[m])
      PROVE  \E k \in 1..Len(q[m]) : /\ q2[m][i] = q[m][k]
                                     /\ k = IF m = n THEN i + 1 ELSE i
  <2>1. CASE m # n BY <1>3, <2>1
  <2>2. CASE m = n
    <3>1. i \in 1..Len(Tail(q[n])) /\ q2[m][i] = Tail(q[n])[i] BY <1>3, <2>2
    <3>2. i + 1 \in 1..Len(q[n]) /\ q2[m][i] = q[n][i + 1] BY <1>1, <1>2, <3>1
    <3> QED BY <2>2, <3>2
  <2> QED BY <2>1, <2>2
<1>6. Once(q2)
  <2> SUFFICES ASSUME NEW m1 \in Context, NEW m2 \in Context,
                      NEW i1 \in 1..Len(q2[m1]), NEW i2 \in 1..Len(q2[m2]),
                      q2[m1][i1] = q2[m2][i2]
               PROVE  m1 = m2 /\ i1 = i2
    BY DEF Once
  <2>1. PICK k1 \in 1..Len(q[m1]) : q2[m1][i1] = q[m1][k1] /\ k1 = IF m1 = n THEN i1 + 1 ELSE i1
    BY <1>5
  <2>2. PICK k2 \in 1..Len(q[m2]) : q2[m2][i2] = q[m2][k2] /\ k2 = IF m2 = n THEN i2 + 1 ELSE i2
    BY <1>5
  <2>3. q[m1][k1] = q[m2][k2] BY <2>1, <2>2
  <2>4. m1 = m2 /\ k1 = k2 BY <2>3, OnceAt
  <2> QED BY <2>1, <2>2, <2>4
<1>7. Contains(q, Head(q[n]))
  BY <1>2 DEF Contains
<1>8. ASSUME NEW t, Contains(q2, t) PROVE Contains(q, t) /\ t # Head(q[n])
  <2>0. PICK m \in Context : \E i \in 1..Len(q2[m]) : q2[m][i] = t BY <1>8 DEF Contains
  <2>1. PICK i \in 1..Len(q2[m]) : q2[m][i] = t BY <2>0
  <2>2. PICK k \in 1..Len(q[m]) : q[m][k] = t /\ k = IF m = n THEN i + 1 ELSE i
    BY <1>5, <2>1
  <2>3. t # q[n][1]
    BY <1>2, <1>4, <2>2 DEF Once
  <2> QED BY <1>2, <2>2, <2>3 DEF Contains
<1>9. ASSUME NEW t, Contains(q, t), t # Head(q[n]) PROVE Contains(q2, t)
  <2>0. PICK m \in Context : \E k \in 1..Len(q[m]) : q[m][k] = t BY <1>9 DEF Contains
  <2>1. PICK k \in 1..Len(q[m]) : q[m][k] = t BY <2>0
  <2>2. CASE m # n BY <1>3, <2>1, <2>2 DEF Contains
  <2>3. CASE m = n
    <3>1. k # 1 BY <1>2, <1>9, <2>1, <2>3
    <3>2. k - 1 \in 1..Len(Tail(q[n])) BY <1>1, <1>2, <2>1, <2>3, <3>1
    <3>3. Tail(q[n])[k - 1] = t BY <1>1, <2>1, <2>3, <3>2
    <3>4. q2[n] = Tail(q[n]) BY <1>3
    <3> QED BY <3>2, <3>3, <3>4 DEF Contains
  <2> QED BY <2>2, <2>3
<1> QED BY <1>1, <1>6, <1>7, <1>8, <1>9 DEF q2

\* Appending a task that is in no queue.
LEMMA AppendNew ==
  ASSUME NEW q \in [Context -> Seq(Task)], Once(q), NEW n \in Context,
         NEW t \in Task, ~Contains(q, t)
  PROVE  LET q2 == [q EXCEPT ![n] = Append(@, t)]
         IN  /\ Once(q2)
             /\ \A x : Contains(q2, x) <=> Contains(q, x) \/ x = t
<1> DEFINE q2 == [q EXCEPT ![n] = Append(@, t)]
<1>1. /\ Len(Append(q[n], t)) = Len(q[n]) + 1
      /\ \A i \in 1..Len(q[n]) : Append(q[n], t)[i] = q[n][i]
      /\ Append(q[n], t)[Len(q[n]) + 1] = t
  BY AppendProperties
<1>2. q2[n] = Append(q[n], t) /\ \A m \in Context \ {n} : q2[m] = q[m]
  OBVIOUS
<1>3. \A m \in Context : Len(q[m]) \in Nat
  BY LenProperties
<1> HIDE DEF q2
<1>4. ASSUME NEW m \in Context, NEW i \in 1..Len(q2[m])
      PROVE  \/ i \in 1..Len(q[m]) /\ q2[m][i] = q[m][i]
             \/ m = n /\ i = Len(q[n]) + 1 /\ q2[m][i] = t
  <2>1. CASE m # n BY <1>2, <2>1
  <2>2. CASE m = n
    <3>1. i \in 1..(Len(q[n]) + 1) BY <1>1, <1>2, <2>2
    <3>2. i \in 1..Len(q[n]) \/ i = Len(q[n]) + 1 BY <1>3, <3>1
    <3> QED BY <1>1, <1>2, <2>2, <3>2
  <2> QED BY <2>1, <2>2
<1>5. ASSUME NEW m \in Context, NEW i \in 1..Len(q[m])
      PROVE  i \in 1..Len(q2[m]) /\ q2[m][i] = q[m][i]
  <2>1. CASE m # n BY <1>2, <2>1
  <2>2. CASE m = n
    <3>1. i \in 1..(Len(q[n]) + 1) BY <1>3, <2>2
    <3> QED BY <1>1, <1>2, <2>2, <3>1
  <2> QED BY <2>1, <2>2
<1>6. Len(q[n]) + 1 \in 1..Len(q2[n]) /\ q2[n][Len(q[n]) + 1] = t
  <2>1. Len(q[n]) + 1 \in 1..(Len(q[n]) + 1) BY <1>3
  <2> QED BY <1>1, <1>2, <2>1
<1>7. Once(q2)
  <2> SUFFICES ASSUME NEW m1 \in Context, NEW m2 \in Context,
                      NEW i1 \in 1..Len(q2[m1]), NEW i2 \in 1..Len(q2[m2]),
                      q2[m1][i1] = q2[m2][i2]
               PROVE  m1 = m2 /\ i1 = i2
    BY DEF Once
  <2>1. CASE i1 \in 1..Len(q[m1]) /\ q2[m1][i1] = q[m1][i1]
    <3>1. q[m1][i1] # t BY <2>1 DEF Contains
    <3>2. i2 \in 1..Len(q[m2]) /\ q2[m2][i2] = q[m2][i2] BY <1>4, <2>1, <3>1
    <3>3. PICK k1 \in 1..Len(q[m1]) : k1 = i1 /\ q[m1][k1] = q2[m1][i1] BY <2>1
    <3>4. PICK k2 \in 1..Len(q[m2]) : k2 = i2 /\ q[m2][k2] = q2[m2][i2] BY <3>2
    <3>5. q[m1][k1] = q[m2][k2] BY <3>3, <3>4
    <3>6. m1 = m2 /\ k1 = k2 BY <3>5, OnceAt
    <3> QED BY <3>3, <3>4, <3>6
  <2>2. CASE m1 = n /\ i1 = Len(q[n]) + 1 /\ q2[m1][i1] = t
    <3>1. ~(i2 \in 1..Len(q[m2]) /\ q2[m2][i2] = q[m2][i2]) BY <2>2 DEF Contains
    <3>2. m2 = n /\ i2 = Len(q[n]) + 1 BY <1>4, <3>1
    <3> QED BY <2>2, <3>2
  <2> QED BY <1>4, <2>1, <2>2
<1>8. \A x : Contains(q2, x) => Contains(q, x) \/ x = t
  BY <1>4 DEF Contains
<1>9. \A x : Contains(q, x) \/ x = t => Contains(q2, x)
  BY <1>5, <1>6 DEF Contains
<1> QED BY <1>7, <1>8, <1>9 DEF q2

-------------------------------------------------------------------------------
(* The tasks of the processors, and the places of a task. *)

\* A processor takes its next task: the task moves from its queue to the processor.
LEMMA StartTaskPlaces ==
  ASSUME IInv, NEW n \in Context, StartTask(n)
  PROVE  InOnePlace'
<1> DEFINE t == Head(taskQueue[n])
<1>1. /\ taskQueue \in [Context -> Seq(Task)] /\ taskQueue[n] # <<>>
      /\ currTask \in [Context -> Task \cup {NoTask}] /\ currTask[n] = NoTask
  BY DEF IInv, TypeOK, StartTask
<1>2. /\ Once(taskQueue) /\ Once(completedTasks)
      /\ \A k, m \in Context : currTask[k] # NoTask /\ currTask[k] = currTask[m] => k = m
      /\ \A x \in Task :
           /\ Contains(taskQueue, x) => InFlight(x) /\ ~AtProcessor(x)
           /\ Contains(completedTasks, x) => InFlight(x) /\ ~AtProcessor(x) /\ ~Contains(taskQueue, x)
           /\ AtProcessor(x) => InFlight(x)
  BY DEF IInv, InOnePlace
<1>3. /\ taskQueue' = [taskQueue EXCEPT ![n] = Tail(@)]
      /\ currTask' = [currTask EXCEPT ![n] = t]
      /\ completedTasks' = completedTasks /\ dispatches' = dispatches /\ collected' = collected
  BY DEF StartTask, graphVars
<1>4. /\ Once(taskQueue') /\ t \in Task /\ Contains(taskQueue, t)
      /\ \A x : Contains(taskQueue', x) <=> Contains(taskQueue, x) /\ x # t
  BY <1>1, <1>2, <1>3, TakeHead
<1> HIDE DEF t
<1>5. t # NoTask BY <1>4, TaskGraphAssumption
<1>6. currTask'[n] = t /\ \A m \in Context \ {n} : currTask'[m] = currTask[m]
  BY <1>1, <1>3
<1>7. \A m \in Context : currTask[m] # t BY <1>2, <1>4 DEF AtProcessor
<1>8. \A k, m \in Context : currTask'[k] # NoTask /\ currTask'[k] = currTask'[m] => k = m
  BY <1>2, <1>6, <1>7
<1>9. \A x \in Task : AtProcessor(x)' <=> AtProcessor(x) \/ x = t
  BY <1>1, <1>6, TaskGraphAssumption DEF AtProcessor
<1>10. \A x \in Task : InFlight(x)' <=> InFlight(x) BY <1>3 DEF InFlight
<1> QED BY <1>2, <1>3, <1>4, <1>8, <1>9, <1>10 DEF InOnePlace

\* A processor is done with its task: the task moves to the completed tasks.
LEMMA CompleteTaskPlaces ==
  ASSUME IInv, NEW n \in Context, CompleteTask(n)
  PROVE  InOnePlace'
<1> DEFINE t == currTask[n]
<1>1. /\ completedTasks \in [Context -> Seq(Task)]
      /\ currTask \in [Context -> Task \cup {NoTask}] /\ t \in Task
  BY DEF IInv, TypeOK, CompleteTask
<1>2. /\ Once(taskQueue) /\ Once(completedTasks)
      /\ \A k, m \in Context : currTask[k] # NoTask /\ currTask[k] = currTask[m] => k = m
      /\ \A x \in Task :
           /\ Contains(taskQueue, x) => InFlight(x) /\ ~AtProcessor(x)
           /\ Contains(completedTasks, x) => InFlight(x) /\ ~AtProcessor(x) /\ ~Contains(taskQueue, x)
           /\ AtProcessor(x) => InFlight(x)
  BY DEF IInv, InOnePlace
<1>3. /\ completedTasks' = [completedTasks EXCEPT ![n] = Append(@, t)]
      /\ currTask' = [currTask EXCEPT ![n] = NoTask]
      /\ taskQueue' = taskQueue /\ dispatches' = dispatches /\ collected' = collected
  BY DEF CompleteTask, graphVars
<1>4. AtProcessor(t) /\ ~Contains(completedTasks, t) BY <1>1, <1>2 DEF AtProcessor
<1>5. /\ Once(completedTasks')
      /\ \A x : Contains(completedTasks', x) <=> Contains(completedTasks, x) \/ x = t
  BY <1>1, <1>2, <1>3, <1>4, AppendNew
<1>6. /\ currTask'[n] = NoTask /\ \A m \in Context \ {n} : currTask'[m] = currTask[m]
  BY <1>1, <1>3
<1>7. \A m \in Context \ {n} : currTask[m] # t BY <1>1, <1>2, TaskGraphAssumption
<1>8. \A k, m \in Context : currTask'[k] # NoTask /\ currTask'[k] = currTask'[m] => k = m
  BY <1>2, <1>6
<1>9. \A x \in Task : AtProcessor(x)' <=> AtProcessor(x) /\ x # t
  <2> SUFFICES ASSUME NEW x \in Task PROVE AtProcessor(x)' <=> AtProcessor(x) /\ x # t
    OBVIOUS
  <2>1. x # NoTask BY TaskGraphAssumption
  <2> QED BY <1>6, <1>7, <2>1 DEF AtProcessor
<1>10. \A x \in Task : InFlight(x)' <=> InFlight(x) BY <1>3 DEF InFlight
<1> HIDE DEF t
<1> QED BY <1>2, <1>3, <1>4, <1>5, <1>8, <1>9, <1>10 DEF InOnePlace

-------------------------------------------------------------------------------
(* The simulator's loop: collecting a completed task. *)

\* Steps that touch neither the successors in hand nor the records of the graph.
LEMMA RecordsKept ==
  ASSUME IInv, UNCHANGED <<current, successors, graphVars>>
  PROVE  /\ DispatchedOnceReady' /\ CountsExact' /\ SuccessorsInHand'
         /\ \A t \in collected' : dispatches'[t] = 1
<1>1. \A s : Told(s)' = Told(s) BY DEF Told, graphVars
<1>2. DispatchedOnceReady' BY <1>1 DEF IInv, DispatchedOnceReady, graphVars
<1>3. CountsExact' BY <1>1 DEF IInv, CountsExact, graphVars
<1>4. SuccessorsInHand' BY DEF IInv, SuccessorsInHand, graphVars
<1> QED BY <1>2, <1>3, <1>4 DEF IInv, graphVars

\* Collecting a completed task: no successor has been told of it yet.
LEMMA CollectInv ==
  ASSUME IInv, NEW n \in Context, Collect(n)
  PROVE  /\ DispatchedOnceReady' /\ CountsExact' /\ SuccessorsInHand' /\ InOnePlace'
         /\ \A x \in collected' : dispatches'[x] = 1
<1> DEFINE t == Head(completedTasks[n])
<1>1. /\ completedTasks \in [Context -> Seq(Task)] /\ completedTasks[n] # <<>>
      /\ collected \subseteq Task /\ successors = <<>>
  BY DEF IInv, TypeOK, Collect
<1>2. /\ completedTasks' = [completedTasks EXCEPT ![n] = Tail(@)]
      /\ current' = t /\ successors' = Succ[t] /\ collected' = collected \cup {t}
      /\ UNCHANGED <<taskQueue, currTask, pendingSuccessors, dispatches>>
  BY DEF Collect
<1>3. /\ Once(taskQueue) /\ Once(completedTasks)
      /\ \A k, m \in Context : currTask[k] # NoTask /\ currTask[k] = currTask[m] => k = m
      /\ \A x \in Task :
           /\ Contains(taskQueue, x) => InFlight(x) /\ ~AtProcessor(x)
           /\ Contains(completedTasks, x) => InFlight(x) /\ ~AtProcessor(x) /\ ~Contains(taskQueue, x)
           /\ AtProcessor(x) => InFlight(x)
  BY DEF IInv, InOnePlace
<1>4. /\ Once(completedTasks') /\ t \in Task /\ Contains(completedTasks, t)
      /\ \A x : Contains(completedTasks', x) <=> Contains(completedTasks, x) /\ x # t
  BY <1>1, <1>2, <1>3, TakeHead
<1>5. Succ[t] \in Seq(Task) /\ \A i, j \in 1..Len(Succ[t]) : Succ[t][i] = Succ[t][j] => i = j
  BY <1>4, TaskGraphAssumption
<1> HIDE DEF t
<1>6. dispatches[t] = 1 /\ t \notin collected BY <1>3, <1>4 DEF InFlight
<1>7. InOnePlace'
  <2>1. \A x \in Task : InFlight(x)' <=> InFlight(x) /\ x # t
    BY <1>2 DEF InFlight
  <2>2. \A x \in Task : AtProcessor(x)' <=> AtProcessor(x) BY <1>2 DEF AtProcessor
  <2> QED BY <1>2, <1>3, <1>4, <2>1, <2>2 DEF InOnePlace
<1>8. ASSUME NEW s \in Task PROVE Told(s)' = Told(s)
  <2>1. Told(s) = {p \in Pred(s) : p \in collected}
    BY <1>1 DEF Told
  <2>2. Told(s)' = {p \in Pred(s) : /\ p \in collected \/ p = t
                                    /\ p = t => \A i \in 1..Len(Succ[t]) : Succ[t][i] # s}
    BY <1>2 DEF Told
  <2>3. t \in Pred(s) => \E i \in 1..Len(Succ[t]) : Succ[t][i] = s BY DEF Pred
  <2> QED BY <1>6, <2>1, <2>2, <2>3
<1>9. DispatchedOnceReady' BY <1>2, <1>8 DEF IInv, DispatchedOnceReady
<1>10. CountsExact' BY <1>2, <1>8 DEF IInv, CountsExact
<1>11. SuccessorsInHand'
  <2>1. ASSUME NEW i \in 1..Len(Succ[t])
        PROVE  Succ[t][i] \in Task /\ t \in Pred(Succ[t][i])
    BY <1>4, <1>5, <2>1, ElementOfSeq DEF Pred
  <2> QED BY <1>2, <1>5, <2>1 DEF SuccessorsInHand
<1> QED BY <1>2, <1>6, <1>7, <1>9, <1>10, <1>11 DEF IInv

-------------------------------------------------------------------------------
(* The simulator's loop: telling a successor. *)

\* What a step of the loop over the successors does: the first successor in hand is
\* told of the task in hand, no other task is told anything, and its count is exact.
LEMMA SignalTells ==
  ASSUME IInv, NEW n \in Context, Signal(n), NEW s \in Task, s = Head(successors)
  PROVE  /\ SuccessorsInHand'
         /\ \A x \in Task \ {s} : Told(x)' = Told(x)
         /\ Told(s)' # {} /\ Told(s) # Pred(s) /\ Pred(s) # {} /\ s # Root
         /\ CountAfter(s) = Cardinality(Pred(s) \ Told(s)')
         /\ CountAfter(s) = 0 <=> Told(s)' = Pred(s)
<1>1. successors \in Seq(Task) /\ successors # <<>> /\ current \in Task
  BY DEF IInv, TypeOK, Signal
<1>2. /\ successors' = Tail(successors)
      /\ current' = current /\ collected' = collected
  BY DEF Signal
<1>3. /\ Tail(successors) \in Seq(Task) /\ Len(Tail(successors)) = Len(successors) - 1
      /\ \A i \in 1..Len(Tail(successors)) : Tail(successors)[i] = successors[i + 1]
  BY <1>1, HeadTailProperties
<1>4. Len(successors) \in Nat \ {0} /\ s = successors[1]
  BY <1>1, EmptySeq, LenProperties
<1>5. ASSUME NEW i \in 1..Len(successors')
      PROVE  i + 1 \in 1..Len(successors) /\ i + 1 # 1 /\ successors'[i] = successors[i + 1]
  BY <1>2, <1>3, <1>4
<1>6. ASSUME NEW i \in 1..Len(successors), i # 1
      PROVE  \E j \in 1..Len(successors') : successors'[j] = successors[i] /\ j + 1 = i
  <2>1. i - 1 \in 1..Len(successors') BY <1>2, <1>3, <1>4, <1>6
  <2>2. successors'[i - 1] = successors[i] BY <1>5, <2>1
  <2> QED BY <2>1, <2>2
<1>7. /\ \A i \in 1..Len(successors) :
           successors[i] \in Task /\ current \in Pred(successors[i]) /\ current \in collected
      /\ \A i, j \in 1..Len(successors) : successors[i] = successors[j] => i = j
  BY DEF IInv, SuccessorsInHand
<1>8. 1 \in 1..Len(successors) BY <1>4
<1>9. current \in Pred(s) /\ current \in collected BY <1>4, <1>7, <1>8
<1>10. SuccessorsInHand'
  <2>1. ASSUME NEW i \in 1..Len(successors')
        PROVE  successors'[i] \in Task /\ current' \in Pred(successors'[i]) /\ current' \in collected'
    BY <1>2, <1>5, <1>7
  <2>2. ASSUME NEW i \in 1..Len(successors'), NEW j \in 1..Len(successors'),
               successors'[i] = successors'[j]
        PROVE  i = j
    <3>1. i + 1 = j + 1 BY <1>5, <1>7, <2>2
    <3> QED BY <3>1
  <2> QED BY <2>1, <2>2 DEF SuccessorsInHand
<1>11. ASSUME NEW x \in Task \ {s}
       PROVE  (\A i \in 1..Len(successors') : successors'[i] # x)
                <=> (\A i \in 1..Len(successors) : successors[i] # x)
  BY <1>4, <1>5, <1>6
<1>12. ASSUME NEW x \in Task \ {s} PROVE Told(x)' = Told(x)
  BY <1>2, <1>11 DEF Told
<1>13. Told(s) = {p \in Pred(s) : p \in collected /\ p # current}
  BY <1>4, <1>8 DEF Told
<1>14. Told(s)' = {p \in Pred(s) : p \in collected}
  <2>1. \A i \in 1..Len(successors') : successors'[i] # s
    BY <1>4, <1>5, <1>7, <1>8
  <2> QED BY <1>2, <2>1 DEF Told
<1>15. /\ Told(s)' # {} /\ Told(s) # Pred(s) /\ Pred(s) # {} /\ s # Root
  BY <1>9, <1>13, <1>14, TaskGraphAssumption
<1>16. CountAfter(s) = Cardinality(Pred(s) \ Told(s)')
  <2>1. IsFiniteSet(Pred(s) \ Told(s)) BY PredFinite, FS_Subset
  <2>2. current \in Pred(s) \ Told(s) BY <1>9, <1>13
  <2>3. (Pred(s) \ Told(s)) \ {current} = Pred(s) \ Told(s)' BY <1>9, <1>13, <1>14
  <2>4. Cardinality(Pred(s) \ Told(s)') = Cardinality(Pred(s) \ Told(s)) - 1
    BY <2>1, <2>2, <2>3, FS_RemoveElement
  <2>5. pendingSuccessors[s] = IF Told(s) = {} THEN 0 ELSE Cardinality(Pred(s) \ Told(s))
    BY DEF IInv, CountsExact
  <2>6. CASE Told(s) = {}
    <3>1. Pred(s) \ Told(s) = Pred(s) BY <2>6
    <3> QED BY <2>4, <2>5, <2>6, <3>1 DEF CountAfter
  <2>7. CASE Told(s) # {}
    <3>1. Cardinality(Pred(s) \ Told(s)) # 0 BY <2>1, <2>2, FS_EmptySet
    <3> QED BY <2>4, <2>5, <2>7, <3>1 DEF CountAfter
  <2> QED BY <2>6, <2>7
<1>17. CountAfter(s) = 0 <=> Told(s)' = Pred(s)
  <2>1. IsFiniteSet(Pred(s) \ Told(s)') BY PredFinite, FS_Subset
  <2>2. Cardinality(Pred(s) \ Told(s)') = 0 <=> Pred(s) \ Told(s)' = {} BY <2>1, FS_EmptySet
  <2>3. Pred(s) \ Told(s)' = {} <=> Told(s)' = Pred(s) BY <1>14
  <2> QED BY <1>16, <2>2, <2>3
<1> QED BY <1>10, <1>12, <1>15, <1>16, <1>17

\* A successor that waits, or is dispatched: the counts and the dispatches are right.
LEMMA SignalRecords ==
  ASSUME IInv, NEW n \in Context, Signal(n), NEW s \in Task, s = Head(successors),
         dispatches' = IF CountAfter(s) = 0 THEN [dispatches EXCEPT ![s] = @ + 1]
                                            ELSE dispatches
  PROVE  DispatchedOnceReady' /\ CountsExact' /\ dispatches[s] = 0
<1>1. /\ \A x \in Task \ {s} : Told(x)' = Told(x)
      /\ Told(s)' # {} /\ Told(s) # Pred(s) /\ Pred(s) # {} /\ s # Root
      /\ CountAfter(s) = Cardinality(Pred(s) \ Told(s)')
      /\ CountAfter(s) = 0 <=> Told(s)' = Pred(s)
  BY SignalTells
<1>2. /\ pendingSuccessors \in [Task -> Int] /\ dispatches \in [Task -> Nat]
      /\ \A x \in Task :
           dispatches[x] = IF x = Root \/ (Pred(x) # {} /\ Told(x) = Pred(x)) THEN 1 ELSE 0
      /\ \A x \in Task :
           pendingSuccessors[x] = IF Told(x) = {} THEN 0 ELSE Cardinality(Pred(x) \ Told(x))
  BY DEF IInv, TypeOK, DispatchedOnceReady, CountsExact
<1>3. pendingSuccessors' = [pendingSuccessors EXCEPT ![s] = CountAfter(s)]
  BY DEF Signal
<1>4. dispatches[s] = 0 BY <1>1, <1>2
<1>5. dispatches'[s] = (IF CountAfter(s) = 0 THEN 1 ELSE 0)
      /\ \A x \in Task \ {s} : dispatches'[x] = dispatches[x]
  <2>1. CASE CountAfter(s) = 0
    <3>1. dispatches' = [dispatches EXCEPT ![s] = @ + 1] BY <2>1
    <3>2. dispatches'[s] = 1 BY <1>2, <1>4, <3>1
    <3> QED BY <1>2, <2>1, <3>1, <3>2
  <2>2. CASE CountAfter(s) # 0 BY <1>4, <2>2
  <2> QED BY <2>1, <2>2
<1>6. DispatchedOnceReady'
  <2> SUFFICES ASSUME NEW x \in Task
               PROVE  dispatches'[x] = IF x = Root \/ (Pred(x) # {} /\ Told(x)' = Pred(x))
                                       THEN 1 ELSE 0
    BY DEF DispatchedOnceReady
  <2>1. CASE x = s BY <1>1, <1>5, <2>1
  <2>2. CASE x # s BY <1>1, <1>2, <1>5, <2>2
  <2> QED BY <2>1, <2>2
<1>7. CountsExact'
  <2> SUFFICES ASSUME NEW x \in Task
               PROVE  pendingSuccessors'[x] =
                        IF Told(x)' = {} THEN 0 ELSE Cardinality(Pred(x) \ Told(x)')
    BY DEF CountsExact
  <2>1. CASE x = s BY <1>1, <1>2, <1>3, <2>1
  <2>2. CASE x # s BY <1>1, <1>2, <1>3, <2>2
  <2> QED BY <2>1, <2>2
<1> QED BY <1>4, <1>6, <1>7

\* The last predecessor of a successor has completed: the successor was in no place,
\* and is now in the task queue of its context.
LEMMA ReadyPlaces ==
  ASSUME IInv, NEW n \in Context, SuccessorReady(n)
  PROVE  InOnePlace' /\ \A x \in collected' : dispatches'[x] = 1
<1>1. /\ taskQueue \in [Context -> Seq(Task)] /\ dispatches \in [Task -> Nat]
      /\ successors \in Seq(Task) /\ successors # <<>>
  BY DEF IInv, TypeOK, SuccessorReady, Signal
<1>2. PICK s \in Task : s = Head(successors) BY <1>1, HeadTailProperties
<1>3. PICK m \in Context : m = ContextId[s] % NumContexts
  BY TaskGraphAssumption, ModuloContexts
<1>4. /\ taskQueue' = [taskQueue EXCEPT ![m] = Append(@, s)]
      /\ dispatches' = [dispatches EXCEPT ![s] = @ + 1]
      /\ UNCHANGED <<currTask, completedTasks, collected>>
  BY <1>2, <1>3 DEF SuccessorReady, AddToTaskQueue, Signal
<1>5. dispatches[s] = 0
  <2>1. Signal(n) /\ CountAfter(s) = 0 BY <1>2 DEF SuccessorReady
  <2> QED BY <1>2, <1>4, <2>1, SignalRecords
<1>6. /\ Once(taskQueue) /\ Once(completedTasks)
      /\ \A k, l \in Context : currTask[k] # NoTask /\ currTask[k] = currTask[l] => k = l
      /\ \A x \in Task :
           /\ Contains(taskQueue, x) => InFlight(x) /\ ~AtProcessor(x)
           /\ Contains(completedTasks, x) => InFlight(x) /\ ~AtProcessor(x) /\ ~Contains(taskQueue, x)
           /\ AtProcessor(x) => InFlight(x)
      /\ \A x \in collected : dispatches[x] = 1 /\ x \in Task
  BY DEF IInv, InOnePlace, TypeOK
<1>7. ~InFlight(s) /\ s \notin collected BY <1>5, <1>6 DEF InFlight
<1>8. ~Contains(taskQueue, s) /\ ~Contains(completedTasks, s) /\ ~AtProcessor(s)
  BY <1>6, <1>7
<1>9. /\ Once(taskQueue')
      /\ \A x : Contains(taskQueue', x) <=> Contains(taskQueue, x) \/ x = s
  BY <1>1, <1>4, <1>6, <1>8, AppendNew
<1>10. dispatches'[s] = 1 /\ \A x \in Task \ {s} : dispatches'[x] = dispatches[x]
  BY <1>1, <1>4, <1>5
<1>11. \A x \in Task : InFlight(x)' <=> InFlight(x) \/ x = s
  BY <1>4, <1>7, <1>10 DEF InFlight
<1>12. \A x \in Task : AtProcessor(x)' <=> AtProcessor(x) BY <1>4 DEF AtProcessor
<1>13. InOnePlace' BY <1>4, <1>6, <1>8, <1>9, <1>11, <1>12 DEF InOnePlace
<1>14. \A x \in collected' : dispatches'[x] = 1 BY <1>4, <1>6, <1>7, <1>10
<1> QED BY <1>13, <1>14

-------------------------------------------------------------------------------
(* The theorems. *)

\* Steps that leave every task where it is.
LEMMA PlacesKept ==
  ASSUME IInv, UNCHANGED <<queueVars, dispatches, collected>>
  PROVE  InOnePlace'
<1>1. /\ \A x : InFlight(x)' <=> InFlight(x)
      /\ \A x : AtProcessor(x)' <=> AtProcessor(x)
  BY DEF InFlight, AtProcessor, queueVars
<1> QED BY <1>1 DEF IInv, InOnePlace, queueVars

\* The first task is in its queue, and nothing else has happened.
LEMMA InvInit == Init => IInv
<1> SUFFICES ASSUME Init PROVE IInv OBVIOUS
<1>1. TypeOK BY TypeInit
<1>2. /\ collected = {} /\ successors = <<>> /\ Len(successors) = 0
      /\ dispatches = [t \in Task |-> IF t = Root THEN 1 ELSE 0]
      /\ pendingSuccessors = [t \in Task |-> 0]
      /\ currTask = [k \in Context |-> NoTask] /\ completedTasks = [k \in Context |-> <<>>]
      /\ taskQueue = [k \in Context |->
                        IF k = ContextId[Root] % NumContexts THEN <<Root>> ELSE <<>>]
  BY DEF Init
<1>3. \A t : Told(t) = {} BY <1>2 DEF Told
<1>4. DispatchedOnceReady BY <1>2, <1>3 DEF DispatchedOnceReady
<1>5. CountsExact BY <1>2, <1>3 DEF CountsExact
<1>6. SuccessorsInHand BY <1>2 DEF SuccessorsInHand
<1>7. InOnePlace
  <2>1. \A k \in Context : \A i \in 1..Len(taskQueue[k]) :
          i = 1 /\ k = ContextId[Root] % NumContexts /\ taskQueue[k][i] = Root
    BY <1>2
  <2>2. \A k \in Context : Len(completedTasks[k]) = 0 BY <1>2
  <2>3. Once(taskQueue) BY <2>1 DEF Once
  <2>4. Once(completedTasks) BY <2>2 DEF Once
  <2>5. \A t : Contains(taskQueue, t) => t = Root BY <2>1 DEF Contains
  <2>6. \A t : ~Contains(completedTasks, t) BY <2>2 DEF Contains
  <2>7. \A t \in Task : ~AtProcessor(t) BY <1>2, TaskGraphAssumption DEF AtProcessor
  <2>8. InFlight(Root) BY <1>2, TaskGraphAssumption DEF InFlight
  <2>9. \A k \in Context : currTask[k] = NoTask BY <1>2
  <2> QED BY <2>3, <2>4, <2>5, <2>6, <2>7, <2>8, <2>9 DEF InOnePlace
<1> QED BY <1>1, <1>2, <1>4, <1>5, <1>6, <1>7 DEF IInv

\* Every step keeps the inductive invariant.
LEMMA InvStep == IInv /\ [Next]_vars => IInv'
<1> SUFFICES ASSUME IInv, [Next]_vars PROVE IInv' OBVIOUS
<1>1. TypeOK' BY TypeStep DEF IInv
<1>2. ASSUME NEW n \in Context, StartTask(n) PROVE IInv'
  <2>1. UNCHANGED <<current, successors, graphVars>> BY <1>2 DEF StartTask
  <2> QED BY <1>1, <1>2, <2>1, RecordsKept, StartTaskPlaces DEF IInv
<1>3. ASSUME NEW n \in Context, CompleteTask(n) PROVE IInv'
  <2>1. UNCHANGED <<current, successors, graphVars>> BY <1>3 DEF CompleteTask
  <2> QED BY <1>1, <1>3, <2>1, RecordsKept, CompleteTaskPlaces DEF IInv
<1>4. ASSUME UNCHANGED <<queueVars, current, successors, graphVars>> PROVE IInv'
  BY <1>1, <1>4, RecordsKept, PlacesKept DEF IInv, graphVars
<1>5. ASSUME NEW n \in Context, ProcessorReturns(n) PROVE IInv'
  BY <1>4, <1>5 DEF ProcessorReturns
<1>6. ASSUME NEW n \in Context, Collect(n) PROVE IInv'
  BY <1>1, <1>6, CollectInv DEF IInv
<1>7. ASSUME NEW n \in Context, Signal(n) PROVE Head(successors) \in Task
  BY <1>7, HeadTailProperties DEF IInv, TypeOK, Signal
<1>8. ASSUME NEW n \in Context, SuccessorWaits(n) PROVE IInv'
  <2>1. Signal(n) /\ CountAfter(Head(successors)) # 0 BY <1>8 DEF SuccessorWaits
  <2>2. UNCHANGED <<queueVars, dispatches, collected>>
    BY <1>8, <2>1 DEF SuccessorWaits, Signal, queueVars
  <2>3. PICK s \in Task : s = Head(successors) BY <1>7, <2>1
  <2>4. SuccessorsInHand' BY <2>1, <2>3, SignalTells
  <2>5. DispatchedOnceReady' /\ CountsExact' BY <2>1, <2>2, <2>3, SignalRecords
  <2>6. InOnePlace' BY <2>2, PlacesKept
  <2> QED BY <1>1, <2>2, <2>4, <2>5, <2>6 DEF IInv
<1>9. ASSUME NEW n \in Context, SuccessorReady(n) PROVE IInv'
  <2>1. Signal(n) BY <1>9 DEF SuccessorReady
  <2>2. PICK s \in Task : s = Head(successors) BY <1>7, <2>1
  <2>3. CountAfter(s) = 0 /\ dispatches' = [dispatches EXCEPT ![s] = @ + 1]
    BY <1>9, <2>2 DEF SuccessorReady
  <2>4. SuccessorsInHand' BY <2>1, <2>2, SignalTells
  <2>5. DispatchedOnceReady' /\ CountsExact' BY <2>1, <2>2, <2>3, SignalRecords
  <2> QED BY <1>1, <1>9, <2>4, <2>5, ReadyPlaces DEF IInv
<1>10. ASSUME NEW n \in Context, NextContext(n) PROVE IInv'
  BY <1>4, <1>10 DEF NextContext
<1>11. CASE UNCHANGED vars BY <1>4, <1>11 DEF vars
<1> QED BY <1>2, <1>3, <1>5, <1>6, <1>8, <1>9, <1>10, <1>11 DEF Next

\* A task graph of any shape, on any number of contexts: the places of a task, the
\* counts of the predecessors still waited for and the dispatches stay in step.
THEOREM InvariantHolds == Spec => []IInv
  BY InvInit, InvStep, PTL DEF Spec

\* Simulator::run gives a task to a context exactly once, and only after all its
\* predecessors have completed.
THEOREM DispatchCorrect == Spec => []DispatchedOnceReady
<1>1. IInv => DispatchedOnceReady BY DEF IInv
<1> QED BY <1>1, InvariantHolds, PTL

-------------------------------------------------------------------------------
(* Completed tasks are remembered as long as a successor waits. *)

\* The successors of p that no context has been given.
LEMMA UndispatchedFinite ==
  ASSUME NEW p \in Task
  PROVE  IsFiniteSet({s \in Task : p \in Pred(s) /\ dispatches[s] = 0})
  BY TaskGraphAssumption, FS_Subset

\* Every successor is listed once: a task has as many as its list is long.
LEMMA SuccessorsListed ==
  ASSUME NEW p \in Task
  PROVE  Cardinality({s \in Task : p \in Pred(s)}) = Len(Succ[p])
<1> DEFINE S == {s \in Task : p \in Pred(s)}
           q == Succ[p]
<1>1. q \in Seq(Task) /\ Len(q) \in Nat /\ \A i, j \in 1..Len(q) : q[i] = q[j] => i = j
  BY TaskGraphAssumption, LenProperties
<1>2. S = {s \in Task : \E i \in 1..Len(q) : q[i] = s} BY DEF Pred
<1> HIDE DEF S, q
<1>3. q \in [1..Len(q) -> S]
  <2>1. q \in [1..Len(q) -> Task] BY <1>1, LenProperties
  <2> QED BY <1>2, <2>1
<1>4. q \in Injection(1..Len(q), S)
  <2>1. DOMAIN q = 1..Len(q) BY <1>3
  <2>2. IsInjective(q) BY <1>1, <2>1 DEF IsInjective
  <2> QED BY <1>3, <2>2 DEF Injection
<1>5. q \in Surjection(1..Len(q), S) BY <1>2, <1>3 DEF Surjection
<1>6. IsFiniteSet(1..Len(q)) /\ Cardinality(1..Len(q)) = Len(q)
  <2>1. PICK k \in Nat : k = Len(q) BY <1>1
  <2>2. IsFiniteSet(1..k) /\ Cardinality(1..k) = IF 1 > k THEN 0 ELSE k - 1 + 1 BY FS_Interval
  <2> QED BY <2>1, <2>2
<1>7. Cardinality(S) = Cardinality(1..Len(q)) BY <1>4, <1>5, <1>6, FS_Surjection
<1> QED BY <1>6, <1>7 DEF S, q

\* A task that is collected is remembered for all its successors: none of them can have
\* been dispatched before.
LEMMA CollectRemembers ==
  ASSUME CompletionInv, NEW n \in Context, Collect(n)
  PROVE  PredecessorsReleased'
<1> DEFINE t == Head(completedTasks[n])
           Waiting(p) == {s \in Task : p \in Pred(s) /\ dispatches[s] = 0}
<1>1. /\ completedTasks \in [Context -> Seq(Task)] /\ completedTasks[n] # <<>>
      /\ completedPredecessors \in [Task -> Int]
  BY DEF CompletionInv, IInv, TypeOK, Collect
<1>2. /\ completedPredecessors' =
           [completedPredecessors EXCEPT ![t] = IF @ = 0 THEN Len(Succ[t]) ELSE @]
      /\ collected' = collected \cup {t} /\ dispatches' = dispatches
  BY DEF Collect
<1>3. t \in Task /\ Contains(completedTasks, t)
  BY <1>1, TakeHead DEF CompletionInv, IInv, InOnePlace
<1> HIDE DEF t
<1>4. t \notin collected BY <1>3 DEF CompletionInv, IInv, InOnePlace, InFlight
<1>5. \A s \in Task : t \in Pred(s) => dispatches[s] = 0
  <2> SUFFICES ASSUME NEW s \in Task, t \in Pred(s) PROVE dispatches[s] = 0
    OBVIOUS
  <2>1. t \notin Told(s) BY <1>4 DEF Told
  <2>2. s # Root BY TaskGraphAssumption
  <2> QED BY <2>1, <2>2 DEF CompletionInv, IInv, DispatchedOnceReady
<1>6. Waiting(t) = {s \in Task : t \in Pred(s)} BY <1>5
<1>7. \A p \in Task :
        completedPredecessors[p] = IF p \in collected THEN Cardinality(Waiting(p)) ELSE 0
  BY DEF CompletionInv, PredecessorsReleased
<1>8. Cardinality(Waiting(t)) = Len(Succ[t]) BY <1>3, <1>6, SuccessorsListed
<1> HIDE DEF Waiting
<1>9. \A p \in Task :
        completedPredecessors'[p] = IF p \in collected' THEN Cardinality(Waiting(p)) ELSE 0
  BY <1>1, <1>2, <1>3, <1>4, <1>7, <1>8
<1> QED BY <1>2, <1>9 DEF PredecessorsReleased, Waiting

\* A successor that is dispatched releases each of its predecessors, and no other task.
LEMMA ReadyReleases ==
  ASSUME CompletionInv, NEW n \in Context, SuccessorReady(n)
  PROVE  PredecessorsReleased'
<1> DEFINE Waiting(p) == {x \in Task : p \in Pred(x) /\ dispatches[x] = 0}
           Later(p) == {x \in Task : p \in Pred(x) /\ dispatches'[x] = 0}
<1>1. /\ dispatches \in [Task -> Nat] /\ completedPredecessors \in [Task -> Int]
      /\ successors \in Seq(Task) /\ successors # <<>>
      /\ Signal(n) /\ CountAfter(Head(successors)) = 0 /\ collected' = collected
  BY DEF CompletionInv, IInv, TypeOK, SuccessorReady, Signal
<1>2. PICK s \in Task : s = Head(successors) BY <1>1, HeadTailProperties
<1>3. /\ dispatches' = [dispatches EXCEPT ![s] = @ + 1]
      /\ completedPredecessors' =
           [p \in Task |-> completedPredecessors[p] - (IF p \in Pred(s) THEN 1 ELSE 0)]
  BY <1>2 DEF SuccessorReady
<1>4. dispatches[s] = 0 /\ Pred(s) \subseteq collected
  <2>1. dispatches[s] = 0 BY <1>1, <1>2, <1>3, SignalRecords DEF CompletionInv
  <2>2. Told(s)' = Pred(s) BY <1>1, <1>2, SignalTells DEF CompletionInv
  <2> QED BY <1>1, <2>1, <2>2 DEF Told
<1>5. dispatches'[s] = 1 /\ \A x \in Task \ {s} : dispatches'[x] = dispatches[x]
  BY <1>1, <1>3, <1>4
<1>6. \A p \in Task :
        completedPredecessors[p] = IF p \in collected THEN Cardinality(Waiting(p)) ELSE 0
  BY DEF CompletionInv, PredecessorsReleased
<1>7. ASSUME NEW p \in Task
      PROVE  completedPredecessors'[p] = IF p \in collected' THEN Cardinality(Later(p)) ELSE 0
  <2>1. Later(p) = Waiting(p) \ {s} BY <1>4, <1>5
  <2>2. s \in Waiting(p) <=> p \in Pred(s) BY <1>4
  <2>3. IsFiniteSet(Waiting(p)) BY UndispatchedFinite
  <2>4. Cardinality(Waiting(p)) \in Nat BY <2>3, FS_CardinalityType
  <2>5. Cardinality(Later(p)) =
          IF p \in Pred(s) THEN Cardinality(Waiting(p)) - 1 ELSE Cardinality(Waiting(p))
    BY <2>1, <2>2, <2>3, FS_RemoveElement
  <2> HIDE DEF Waiting, Later
  <2>6. completedPredecessors'[p] = completedPredecessors[p] - (IF p \in Pred(s) THEN 1 ELSE 0)
    BY <1>3
  <2>7. CASE p \in Pred(s) BY <1>1, <1>4, <1>6, <2>4, <2>5, <2>6, <2>7
  <2>8. CASE p \notin Pred(s) BY <1>1, <1>6, <2>4, <2>5, <2>6, <2>8
  <2> QED BY <2>7, <2>8
<1> QED BY <1>7 DEF PredecessorsReleased

\* The count of the unfinished tasks goes down with the tasks collected.
LEMMA CollectCounts ==
  ASSUME IInv, TasksCounted, NEW n \in Context, Collect(n)
  PROVE  TasksCounted'
<1> DEFINE t == Head(completedTasks[n])
<1>1. /\ completedTasks \in [Context -> Seq(Task)] /\ completedTasks[n] # <<>>
      /\ numUnfinishedTasks \in Int /\ collected \subseteq Task
  BY DEF IInv, TypeOK, Collect
<1>2. /\ numUnfinishedTasks' = numUnfinishedTasks - 1 /\ collected' = collected \cup {t}
      /\ phase = "collect" /\ phase' = phase
  BY DEF Collect, Collecting
<1>3. t \in Task /\ Contains(completedTasks, t) BY <1>1, TakeHead DEF IInv, InOnePlace
<1> HIDE DEF t
<1>4. t \notin collected BY <1>3 DEF IInv, InOnePlace, InFlight
<1>5. IsFiniteSet(collected) /\ Cardinality(collected) \in Nat
  BY <1>1, TaskGraphAssumption, FS_Subset, FS_CardinalityType
<1>6. Cardinality(collected') = Cardinality(collected) + 1
  BY <1>2, <1>4, <1>5, FS_AddElement
<1> QED BY <1>1, <1>2, <1>5, <1>6 DEF TasksCounted

\* Nothing is remembered and nothing counted before the first task runs.
LEMMA CompletionInit == Init => CompletionInv
<1> SUFFICES ASSUME Init PROVE CompletionInv OBVIOUS
<1>1. PredecessorsReleased BY DEF Init, PredecessorsReleased
<1>2. TasksCounted
  <2>1. Cardinality(Task) \in Nat BY TaskGraphAssumption, FS_CardinalityType
  <2> QED BY <2>1, FS_EmptySet, TaskGraphAssumption DEF Init, TasksCounted
<1> QED BY <1>1, <1>2, InvInit DEF CompletionInv

\* Every step keeps what is remembered in step with what is waited for.
LEMMA CompletionStep == CompletionInv /\ [Next]_vars => CompletionInv'
<1> SUFFICES ASSUME CompletionInv, [Next]_vars PROVE CompletionInv' OBVIOUS
<1>1. IInv' BY InvStep DEF CompletionInv
<1>2. ASSUME UNCHANGED graphVars PROVE PredecessorsReleased'
  BY <1>2 DEF CompletionInv, PredecessorsReleased, graphVars
<1>3. ASSUME UNCHANGED <<collected, numUnfinishedTasks>>, phase' # "done" PROVE TasksCounted'
  BY <1>3 DEF CompletionInv, TasksCounted
<1>4. ASSUME NEW n \in Context, StartTask(n) PROVE CompletionInv'
  BY <1>1, <1>2, <1>3, <1>4 DEF StartTask, graphVars, CompletionInv
<1>5. ASSUME NEW n \in Context, CompleteTask(n) PROVE CompletionInv'
  BY <1>1, <1>2, <1>3, <1>5 DEF CompleteTask, Running, graphVars, CompletionInv
<1>6. ASSUME NEW n \in Context, ProcessorReturns(n) PROVE CompletionInv'
  BY <1>1, <1>2, <1>3, <1>6 DEF ProcessorReturns, graphVars, CompletionInv
<1>7. ASSUME NEW n \in Context, Collect(n) PROVE CompletionInv'
  BY <1>1, <1>7, CollectRemembers, CollectCounts DEF CompletionInv
<1>8. ASSUME NEW n \in Context, SuccessorWaits(n) PROVE CompletionInv'
  <2>1. UNCHANGED <<dispatches, collected, completedPredecessors, numUnfinishedTasks>>
        /\ phase' = "collect"
    BY <1>8 DEF SuccessorWaits, Signal, Collecting
  <2>2. PredecessorsReleased' BY <2>1 DEF CompletionInv, PredecessorsReleased
  <2> QED BY <1>1, <1>3, <2>1, <2>2 DEF CompletionInv
<1>9. ASSUME NEW n \in Context, SuccessorReady(n) PROVE CompletionInv'
  <2>1. UNCHANGED <<collected, numUnfinishedTasks>> /\ phase' = "collect"
    BY <1>9 DEF SuccessorReady, Signal, Collecting
  <2> QED BY <1>1, <1>3, <1>9, <2>1, ReadyReleases DEF CompletionInv
<1>10. ASSUME NEW n \in Context, NextContext(n) PROVE CompletionInv'
  <2>1. UNCHANGED graphVars BY <1>10 DEF NextContext
  <2>2. TasksCounted'
    BY <1>10 DEF NextContext, graphVars, CompletionInv, TasksCounted
  <2> QED BY <1>1, <1>2, <2>1, <2>2 DEF CompletionInv
<1>11. CASE UNCHANGED vars
  BY <1>1, <1>2, <1>11 DEF vars, graphVars, CompletionInv, TasksCounted
<1> QED BY <1>4, <1>5, <1>6, <1>7, <1>8, <1>9, <1>10, <1>11 DEF Next

\* When every task is collected, and no successor is in hand, nothing is left over.
LEMMA AllCollected ==
  ASSUME CompletionInv, phase = "done", Cardinality(Task) <= UnfinishedTaskCap
  PROVE  /\ collected = Task
         /\ \A t \in Task : pendingSuccessors[t] = 0 /\ completedPredecessors[t] = 0
         /\ \A n \in Context : taskQueue[n] = <<>> /\ currTask[n] = NoTask
<1>1. /\ collected \subseteq Task /\ numUnfinishedTasks \in Int
      /\ taskQueue \in [Context -> Seq(Task)] /\ currTask \in [Context -> Task \cup {NoTask}]
  BY DEF CompletionInv, IInv, TypeOK
<1>2. /\ IsFiniteSet(Task) /\ Cardinality(Task) \in Nat /\ Cardinality(collected) \in Nat
      /\ Cardinality(collected) <= Cardinality(Task)
  BY <1>1, TaskGraphAssumption, FS_CardinalityType, FS_Subset
<1>3. Cardinality(Task) = Cardinality(collected)
  BY <1>1, <1>2, TaskGraphAssumption DEF CompletionInv, TasksCounted
<1>4. collected = Task BY <1>1, <1>2, <1>3, FS_Subset
<1>5. Len(successors) = 0 BY DEF CompletionInv, TasksCounted
<1>6. \A s \in Task : Told(s) = Pred(s) BY <1>4, <1>5 DEF Told, Pred
<1>7. ASSUME NEW t \in Task PROVE pendingSuccessors[t] = 0 /\ completedPredecessors[t] = 0
  <2>1. Pred(t) \ Told(t) = {} BY <1>6
  <2>2. pendingSuccessors[t] = 0
    BY <2>1, FS_EmptySet DEF CompletionInv, IInv, CountsExact
  <2>3. {s \in Task : t \in Pred(s) /\ dispatches[s] = 0} = {}
    BY <1>6 DEF CompletionInv, IInv, DispatchedOnceReady
  <2>4. completedPredecessors[t] = 0
    BY <1>4, <2>3, FS_EmptySet DEF CompletionInv, PredecessorsReleased
  <2> QED BY <2>2, <2>4
<1>8. \A t \in Task : ~Contains(taskQueue, t) /\ ~AtProcessor(t)
  BY <1>4 DEF CompletionInv, IInv, InOnePlace, InFlight
<1>9. ASSUME NEW n \in Context PROVE taskQueue[n] = <<>> /\ currTask[n] = NoTask
  <2>1. currTask[n] = NoTask BY <1>1, <1>8 DEF AtProcessor
  <2>2. ASSUME taskQueue[n] # <<>> PROVE FALSE
    <3>1. taskQueue[n] \in Seq(Task) BY <1>1
    <3>2. Len(taskQueue[n]) \in Nat \ {0} BY <2>2, <3>1, EmptySeq, LenProperties
    <3>3. taskQueue[n][1] \in Task BY <3>1, <3>2, ElementOfSeq
    <3> QED BY <1>8, <3>2, <3>3 DEF Contains
  <2> QED BY <2>1, <2>2
<1> QED BY <1>4, <1>7, <1>9

\* A completed task is forgotten with the last of its successors, no sooner and no later,
\* and the loop of Simulator::run that ends below the cap leaves no task behind.
THEOREM CompletionsCorrect == Spec => []CompletionsReleased
<1>1. CompletionInv => CompletionsReleased
  BY AllCollected DEF CompletionInv, CompletionsReleased, NothingLeft
<1> QED BY <1>1, CompletionInit, CompletionStep, PTL DEF Spec

==============================================================================
