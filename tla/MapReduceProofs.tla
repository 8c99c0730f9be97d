-------------------------- MODULE MapReduceProofs --------------------------
(***************************************************************************)
(* When Done() is true the job is done: for any number of input files,     *)
(* reduce tasks and workers, however many of them die or are slow.         *)
(***************************************************************************)
EXTENDS MapReduce, FiniteSetTheorems, WellFoundedInduction, TLAPS

Bucket == 0 .. N - 1
active(w) == pc[w] \in {"map", "reduce", "report"}

\* What is known of worker w.  At most one worker has the execution that the
\* coordinator waits for, and while a worker has it its task is not completed.  The
\* worker has written the files of the buckets it has been through.
WorkerInv(w) ==
    active(w) =>
        /\ job[w].id \in TaskId /\ job[w].idx \in 1 .. index
        /\ tasks[job[w].id].expectedId = job[w].idx => tasks[job[w].id].state = "PROCESSING"
        /\ \A v \in Worker : v # w /\ active(v) => job[v].idx # job[w].idx
        /\ pc[w] = "map" => job[w].id \in MapTask /\ \A j \in 0 .. step[w] - 1 : <<job[w].id, j>> \in files
        /\ pc[w] = "reduce" => job[w].id \in ReduceTask
        /\ pc[w] = "report" /\ job[w].id \in MapTask => \A j \in Bucket : <<job[w].id, j>> \in files
        /\ pc[w] = "report" /\ job[w].id \in ReduceTask => outputs[reduceID(job[w].id)] = MapTask
        /\ job[w].id \in ReduceTask => mapCompleted

\* What is known of task t.
TaskInv(t) ==
    /\ tasks[t].expectedId <= index
    /\ tasks[t].state = "SUCCESS" /\ t \in MapTask => \A j \in Bucket : <<t, j>> \in files
    /\ tasks[t].state = "SUCCESS" /\ t \in ReduceTask => outputs[reduceID(t)] = MapTask

JobInv ==
    /\ TypeOK
    /\ CountersExact
    /\ mapCompleted <=> leftMapTask = 0
    /\ reduceCompleted => leftReduceTask = 0
    /\ \A w \in Worker : WorkerInv(w)
    /\ \A t \in TaskId : TaskInv(t)

----------------------------------------------------------------------------
(* Facts about numbers and sets *)

\* TaskAlloc's loop finds the first task that it can hand out.
LEMMA MinMember ==
    ASSUME NEW S \in SUBSET Nat, S # {}
    PROVE  Min(S) \in S
<1>1. PICK x \in S : \A y \in S : <<y, x>> \notin OpToRel(<, Nat)
  BY NatLessThanWellFounded, WFMin, Zenon
<1>2. ASSUME NEW y \in S PROVE x <= y
  <2>1. y \in Nat /\ x \in Nat /\ <<y, x>> \notin OpToRel(<, Nat)
    BY <1>1
  <2> QED
    BY <2>1 DEF OpToRel
<1> QED
  BY <1>2 DEF Min

\* Division with remainder is unique.
LEMMA Remainder ==
    ASSUME NEW n \in Nat \ {0}, NEW q \in Int, NEW r \in 0 .. n - 1
    PROVE  ((n * q) + r) % n = r
<1> DEFINE x == (n * q) + r
           e == x \div n
           s == x % n
<1>1. e \in Int /\ s \in 0 .. n - 1 /\ (n * q) + r = (n * e) + s
  OBVIOUS
<1> HIDE DEF e, s
<1>2. CASE e >= q + 1
  <2>1. n * e >= n * (q + 1) /\ n * (q + 1) = (n * q) + n
    BY <1>1, <1>2
  <2> QED
    BY <1>1, <2>1
<1>3. CASE q >= e + 1
  <2>1. n * q >= n * (e + 1) /\ n * (e + 1) = (n * e) + n
    BY <1>1, <1>3
  <2> QED
    BY <1>1, <2>1
<1>4. CASE e = q
  BY <1>1, <1>4 DEF s
<1> QED
  BY <1>1, <1>2, <1>3, <1>4

\* The N reduce tasks, whose numbers follow those of the map tasks, have the N
\* buckets between them.
LEMMA EveryBucket ==
    ASSUME NEW r \in Bucket
    PROVE  \E t \in ReduceTask : reduceID(t) = r
<1> USE JobAssumption DEF Bucket, ReduceTask, reduceID
<1> DEFINE k == M \div N
           m == M % N
<1>1. M = (N * k) + m /\ m \in 0 .. N - 1 /\ k \in Int
  OBVIOUS
<1> HIDE DEF k, m
<1>2. CASE r >= m
  <2>1. (N * k) + r \in M .. M + N - 1
    BY <1>1, <1>2
  <2>2. ((N * k) + r) % N = r
    BY <1>1, Remainder
  <2> QED
    BY <2>1, <2>2
<1>3. CASE r < m
  <2>1. N * (k + 1) = (N * k) + N
    BY <1>1
  <2>2. (N * (k + 1)) + r \in M .. M + N - 1
    BY <1>1, <1>3, <2>1
  <2>3. ((N * (k + 1)) + r) % N = r
    BY <1>1, Remainder
  <2> QED
    BY <2>2, <2>3
<1> QED
  BY <1>1, <1>2, <1>3

LEMMA TaskSets ==
    /\ MapTask \subseteq Nat /\ ReduceTask \subseteq Nat /\ TaskId \subseteq Nat
    /\ MapTask \cap ReduceTask = {}
    /\ IsFiniteSet(MapTask) /\ Cardinality(MapTask) = M
    /\ IsFiniteSet(ReduceTask) /\ Cardinality(ReduceTask) = N
    /\ \A t \in ReduceTask : reduceID(t) \in Bucket
<1>1. M \in Nat /\ N \in Nat /\ N # 0
  BY JobAssumption
<1>2. IsFiniteSet(MapTask) /\ Cardinality(MapTask) = M
  BY <1>1, FS_Interval DEF MapTask
<1>3. IsFiniteSet(ReduceTask) /\ Cardinality(ReduceTask) = N
  BY <1>1, FS_Interval DEF ReduceTask
<1>4. \A t \in ReduceTask : reduceID(t) \in Bucket
  BY <1>1 DEF ReduceTask, reduceID, Bucket
<1> QED
  BY <1>1, <1>2, <1>3, <1>4 DEF MapTask, ReduceTask, TaskId

\* Completing a task that was not completed takes it from those that are left.
LEMMA Counted ==
    ASSUME TypeOK, NEW T \in SUBSET TaskId, IsFiniteSet(T), NEW t \in TaskId,
           tasks[t].state # "SUCCESS", complete(t)
    PROVE  /\ t \in T => Cardinality(unfinished(T)') = Cardinality(unfinished(T)) - 1
           /\ t \in T => Cardinality(unfinished(T)) \in Nat \ {0}
           /\ t \notin T => unfinished(T)' = unfinished(T)
<1>1. IsFiniteSet(unfinished(T))
  BY FS_Subset DEF unfinished
<1>2. unfinished(T)' = unfinished(T) \ {t}
  BY DEF TypeOK, unfinished, complete
<1>3. t \in T => t \in unfinished(T)
  BY DEF unfinished
<1>4. t \notin T => t \notin unfinished(T)
  BY DEF unfinished
<1>5. CASE t \in T
  <2>1. Cardinality(unfinished(T) \ {t}) = Cardinality(unfinished(T)) - 1
    BY <1>1, <1>3, <1>5, FS_RemoveElement
  <2>2. Cardinality(unfinished(T)) \in Nat /\ Cardinality(unfinished(T) \ {t}) \in Nat
    BY <1>1, FS_CardinalityType, FS_RemoveElement
  <2> QED
    BY <1>2, <1>5, <2>1, <2>2
<1> QED
  BY <1>2, <1>4, <1>5

\* When a counter is zero, every task it counts is completed.
LEMMA NoneLeft ==
    ASSUME CountersExact
    PROVE  /\ leftMapTask = 0 => \A t \in MapTask : tasks[t].state = "SUCCESS"
           /\ leftReduceTask = 0 => \A t \in ReduceTask : tasks[t].state = "SUCCESS"
<1>1. IsFiniteSet(unfinished(MapTask)) /\ IsFiniteSet(unfinished(ReduceTask))
  BY TaskSets, FS_Subset DEF unfinished
<1>2. leftMapTask = 0 => unfinished(MapTask) = {}
  BY <1>1, FS_EmptySet DEF CountersExact
<1>3. leftReduceTask = 0 => unfinished(ReduceTask) = {}
  BY <1>1, FS_EmptySet DEF CountersExact
<1> QED
  BY <1>2, <1>3 DEF unfinished

----------------------------------------------------------------------------
(* Steps of a worker *)

\* A step of w that leaves the coordinator alone, gives w no new task and destroys
\* no file.
Alone(w) ==
    /\ UNCHANGED coordinator
    /\ files \subseteq files'
    /\ \A r \in Bucket : outputs[r] = MapTask => outputs'[r] = MapTask
    /\ job' = job
    /\ active(w)' => active(w)
    /\ \A v \in Worker \ {w} : pc'[v] = pc[v] /\ step'[v] = step[v]

\* Such a step keeps what is known of the tasks and the other workers.
LEMMA AloneKeeps ==
    ASSUME JobInv, NEW w \in Worker, Alone(w), TypeOK', WorkerInv(w)'
    PROVE  JobInv'
<1>1. UNCHANGED <<tasks, leftMapTask, leftReduceTask, mapCompleted, reduceCompleted, index>>
  BY DEF Alone, coordinator
<1>2. CountersExact'
  BY <1>1 DEF JobInv, CountersExact, unfinished
<1>3. \A t \in ReduceTask : outputs[reduceID(t)] = MapTask => outputs'[reduceID(t)] = MapTask
  BY TaskSets DEF Alone
<1>4. ASSUME NEW t \in TaskId PROVE TaskInv(t)'
  BY <1>1, <1>3 DEF JobInv, TaskInv, Alone
<1>5. ASSUME NEW v \in Worker, v # w PROVE WorkerInv(v)'
  <2>1. WorkerInv(v)
    BY DEF JobInv
  <2>2. pc'[v] = pc[v] /\ step'[v] = step[v] /\ job' = job /\ files \subseteq files'
    BY <1>5 DEF Alone
  <2>3. \A u \in Worker : active(u)' => active(u)
    BY DEF Alone, active
  <2> QED
    BY <1>1, <1>3, <2>1, <2>2, <2>3 DEF WorkerInv, active
<1> QED
  BY <1>1, <1>2, <1>4, <1>5 DEF JobInv

\* A worker that waits, returns, dies or makes a call in vain is not active after.
LEMMA IdleKeeps ==
    ASSUME JobInv, NEW w \in Worker, UNCHANGED <<coordinator, job, disk>>,
           exited' \in BOOLEAN, deaths' \in Nat, step' = step,
           pc' = [pc EXCEPT ![w] = pc'[w]], pc'[w] \in {"ask", "sleep", "gone"}
    PROVE  JobInv'
<1>1. TypeOK'
  BY DEF JobInv, TypeOK, coordinator, disk
<1>2. ~active(w)'
  BY DEF active
<1>3. Alone(w)
  BY <1>2 DEF JobInv, TypeOK, Alone, disk
<1> QED
  BY <1>1, <1>2, <1>3, AloneKeeps DEF WorkerInv

\* The steps of executeMap and executeReduce.
LEMMA ExecuteMapKeeps ==
    ASSUME JobInv, NEW w \in Worker, executeMap(w)
    PROVE  JobInv'
<1>1. WorkerInv(w) /\ active(w) /\ pc[w] = "map" /\ job[w].id \in MapTask
  BY DEF JobInv, WorkerInv, active, executeMap
<1>2. step[w] \in Nat /\ step'[w] = step[w] + 1 /\ step[w] \in Bucket
  BY JobAssumption DEF JobInv, TypeOK, executeMap, mapSteps, Bucket
<1>3. files' = files \cup {<<job[w].id, step[w]>>} /\ pc' = pc /\ job' = job
  BY DEF executeMap
<1>4. TypeOK'
  <2>1. files' \subseteq MapTask \X (0 .. N - 1)
    BY <1>1, <1>2, <1>3 DEF JobInv, TypeOK, Bucket
  <2>2. step' \in [Worker -> Nat]
    BY DEF JobInv, TypeOK, executeMap
  <2> QED
    BY <1>3, <2>1, <2>2 DEF JobInv, TypeOK, executeMap, coordinator
<1>5. Alone(w)
  BY <1>3 DEF JobInv, TypeOK, Alone, executeMap, active
<1>6. \A j \in 0 .. step'[w] - 1 : <<job[w].id, j>> \in files'
  BY <1>1, <1>2, <1>3 DEF WorkerInv
<1>7. UNCHANGED <<tasks, index, mapCompleted>>
  BY <1>5 DEF Alone, coordinator
<1>8. WorkerInv(w)'
  BY <1>1, <1>3, <1>6, <1>7, TaskSets DEF WorkerInv, active
<1> QED
  BY <1>4, <1>5, <1>8, AloneKeeps

LEMMA MapDoneKeeps ==
    ASSUME JobInv, NEW w \in Worker, mapDone(w)
    PROVE  JobInv'
<1>1. WorkerInv(w) /\ active(w) /\ pc[w] = "map" /\ job[w].id \in MapTask /\ step[w] = N
  BY DEF JobInv, WorkerInv, active, mapDone, mapSteps
<1>2. TypeOK'
  BY DEF JobInv, TypeOK, mapDone, coordinator, disk
<1>3. pc' = [pc EXCEPT ![w] = "report"] /\ pc'[w] = "report"
  BY DEF JobInv, TypeOK, mapDone
<1>4. Alone(w)
  BY <1>1, <1>3 DEF JobInv, TypeOK, Alone, mapDone, active, disk
<1>5. UNCHANGED <<tasks, index, mapCompleted, files, outputs, job>>
  BY DEF mapDone, coordinator, disk
<1>6. \A v \in Worker : active(v)' => active(v)
  BY <1>1, <1>4 DEF Alone, active
<1>7. WorkerInv(w)'
  BY <1>1, <1>3, <1>5, <1>6, TaskSets DEF WorkerInv, active, Bucket
<1> QED
  BY <1>2, <1>4, <1>7, AloneKeeps

LEMMA ExecuteReduceKeeps ==
    ASSUME JobInv, NEW w \in Worker, executeReduce(w)
    PROVE  JobInv'
<1>1. WorkerInv(w) /\ active(w) /\ pc[w] = "reduce"
  BY DEF JobInv, WorkerInv, active, executeReduce
<1>2. CASE UNCHANGED step
  <2>1. pc'[w] = "gone" /\ pc' = [pc EXCEPT ![w] = "gone"]
    BY <1>2 DEF JobInv, TypeOK, executeReduce
  <2> QED
    BY <1>2, <2>1, IdleKeeps DEF executeReduce, JobInv, TypeOK
<1>3. CASE UNCHANGED pc
  <2>1. TypeOK'
    BY <1>3 DEF JobInv, TypeOK, executeReduce, coordinator, disk
  <2>2. Alone(w)
    BY <1>3 DEF JobInv, TypeOK, Alone, executeReduce, active, disk
  <2>3. UNCHANGED <<tasks, index, mapCompleted, files, outputs, job, pc>>
    BY <1>3 DEF executeReduce, coordinator, disk
  <2>4. WorkerInv(w)'
    BY <1>1, <2>3 DEF WorkerInv, active
  <2> QED
    BY <2>1, <2>2, <2>4, AloneKeeps
<1> QED
  BY <1>2, <1>3 DEF executeReduce

LEMMA ReduceDoneKeeps ==
    ASSUME JobInv, NEW w \in Worker, reduceDone(w)
    PROVE  JobInv'
<1> DEFINE b == reduceID(job[w].id)
<1>1. WorkerInv(w) /\ active(w) /\ pc[w] = "reduce" /\ job[w].id \in ReduceTask
  BY DEF JobInv, WorkerInv, active, reduceDone
<1>2. b \in Bucket
  BY <1>1, TaskSets
<1>3. outputs' = [outputs EXCEPT ![b] = MapTask]
  BY DEF reduceDone, MapTask
<1>4. TypeOK'
  <2>1. outputs' \in [0 .. N - 1 -> SUBSET MapTask]
    BY <1>3 DEF JobInv, TypeOK
  <2> QED
    BY <2>1 DEF JobInv, TypeOK, reduceDone, coordinator
<1>5. pc' = [pc EXCEPT ![w] = "report"] /\ pc'[w] = "report"
  BY DEF JobInv, TypeOK, reduceDone
<1>6. Alone(w)
  BY <1>1, <1>3, <1>5 DEF JobInv, TypeOK, Alone, reduceDone, active, Bucket
<1>7. UNCHANGED <<tasks, index, mapCompleted, files, job>>
  BY DEF reduceDone, coordinator
<1>8. \A v \in Worker : active(v)' => active(v)
  BY <1>1, <1>6 DEF Alone, active
<1>9. outputs'[b] = MapTask
  BY <1>2, <1>3 DEF JobInv, TypeOK, Bucket
<1>10. WorkerInv(w)'
  BY <1>1, <1>5, <1>7, <1>8, <1>9, TaskSets DEF WorkerInv, active
<1> QED
  BY <1>4, <1>6, <1>10, AloneKeeps

----------------------------------------------------------------------------
(* Steps of the coordinator *)

\* TaskAlloc hands out a task under a number that no execution has had before: what
\* other workers do with the same task no longer counts.
LEMMA HandOutKeeps ==
    ASSUME JobInv, NEW w \in Worker, TaskAlloc(w), ~reduceCompleted, assignable # {}
    PROVE  JobInv'
<1> DEFINE t == Min(assignable)
<1>1. pc[w] = "ask"
  BY DEF TaskAlloc
<1>2. t \in assignable /\ t \in curRole /\ t \in TaskId
  <2>1. assignable \in SUBSET Nat
    BY TaskSets DEF assignable, curRole
  <2>2. t \in assignable
    BY <2>1, MinMember
  <2> QED
    BY <2>2 DEF assignable, curRole, TaskId
<1> HIDE DEF t
<1>3. /\ tasks' = [tasks EXCEPT ![t] =
             [state |-> "PROCESSING", expectedId |-> index + 1, late |-> FALSE]]
      /\ job' = [job EXCEPT ![w] = [id |-> t, idx |-> index + 1]]
      /\ index' = index + 1
      /\ pc' = [pc EXCEPT ![w] = IF mapCompleted THEN "reduce" ELSE "map"]
      /\ step' = [step EXCEPT ![w] = 0]
      /\ UNCHANGED <<leftMapTask, leftReduceTask, mapCompleted, reduceCompleted, slow>>
      /\ UNCHANGED <<exited, deaths, files, outputs>>
  BY DEF TaskAlloc, coordinator, disk, t
<1>4. TypeOK
  BY DEF JobInv
<1>5. index \in Nat /\ t \in Int
  BY <1>2, <1>4, TaskSets DEF TypeOK
<1>6. TypeOK'
  <2>1. tasks' \in [TaskId -> [state : {"IDLE", "PROCESSING", "SUCCESS"}, expectedId : Nat, late : BOOLEAN]]
    <3>1. [state |-> "PROCESSING", expectedId |-> index + 1, late |-> FALSE]
              \in [state : {"IDLE", "PROCESSING", "SUCCESS"}, expectedId : Nat, late : BOOLEAN]
      BY <1>5
    <3>2. tasks \in [TaskId -> [state : {"IDLE", "PROCESSING", "SUCCESS"}, expectedId : Nat, late : BOOLEAN]]
      BY <1>4 DEF TypeOK
    <3> QED
      BY Zenon, <1>3, <3>1, <3>2
  <2>2. job' \in [Worker -> [id : Int, idx : Int]] /\ index' \in Nat
    BY <1>3, <1>4, <1>5 DEF TypeOK
  <2>3. pc' \in [Worker -> {"ask", "sleep", "map", "reduce", "report", "gone"}] /\ step' \in [Worker -> Nat]
    BY <1>3, <1>4 DEF TypeOK
  <2> QED
    BY <1>3, <1>4, <2>1, <2>2, <2>3 DEF TypeOK
<1>7. tasks[t].state # "SUCCESS"
  BY <1>2 DEF assignable
<1>8. CountersExact'
  <2>1. \A u \in TaskId : tasks'[u].state = "SUCCESS" <=> tasks[u].state = "SUCCESS"
    BY <1>3, <1>4, <1>7 DEF TypeOK
  <2>2. unfinished(MapTask)' = unfinished(MapTask) /\ unfinished(ReduceTask)' = unfinished(ReduceTask)
    BY <2>1 DEF unfinished, TaskId
  <2> QED
    BY <1>3, <2>2 DEF JobInv, CountersExact
<1>9. ASSUME NEW u \in TaskId PROVE TaskInv(u)'
  <2>1. TaskInv(u)
    BY DEF JobInv
  <2>2. CASE u = t
    BY <1>3, <1>4, <1>5, <2>2 DEF TypeOK, TaskInv
  <2>3. CASE u # t
    <3>1. tasks'[u] = tasks[u] /\ tasks[u].expectedId \in Nat
      BY <1>3, <1>4, <2>3 DEF TypeOK
    <3> QED
      BY <1>3, <1>5, <2>1, <3>1 DEF TaskInv
  <2> QED
    BY <2>2, <2>3
<1>10. ASSUME NEW v \in Worker, v # w PROVE WorkerInv(v)'
  <2>1. WorkerInv(v)
    BY DEF JobInv
  <2>2. pc'[v] = pc[v] /\ job'[v] = job[v] /\ step'[v] = step[v]
    BY <1>3, <1>4, <1>10 DEF TypeOK
  <2> SUFFICES ASSUME active(v) PROVE WorkerInv(v)'
    BY <2>2 DEF WorkerInv, active
  <2>3. job[v].id \in TaskId /\ job[v].idx \in 1 .. index
    BY <2>1 DEF WorkerInv
  <2>4. tasks'[job[v].id].expectedId = job[v].idx => tasks'[job[v].id].state = "PROCESSING"
    BY <1>3, <1>4, <2>1, <2>3 DEF TypeOK, WorkerInv
  <2>5. \A u \in Worker : u # v /\ active(u)' => job'[u].idx # job'[v].idx
    <3>1. job'[w].idx = index + 1
      BY <1>3, <1>4 DEF TypeOK
    <3>2. \A u \in Worker : u # w => job'[u] = job[u] /\ active(u)' = active(u)
      BY <1>3, <1>4 DEF TypeOK, active
    <3> QED
      BY <1>5, <2>1, <2>2, <2>3, <3>1, <3>2 DEF WorkerInv
  <2>6. job[v].idx \in 1 .. index'
    BY <1>3, <1>5, <2>3
  <2> QED
    BY <1>3, <2>1, <2>2, <2>3, <2>4, <2>5, <2>6 DEF WorkerInv, active
<1>11. WorkerInv(w)'
  <2>1. job'[w].id = t /\ job'[w].idx = index + 1 /\ step'[w] = 0
    BY <1>3, <1>4 DEF TypeOK
  <2>2. pc'[w] = IF mapCompleted THEN "reduce" ELSE "map"
    BY <1>3, <1>4 DEF TypeOK
  <2>3. tasks'[t].state = "PROCESSING"
    BY <1>2, <1>3, <1>4 DEF TypeOK
  <2>4. \A v \in Worker : v # w /\ active(v)' => job'[v].idx # index + 1
    <3>1. ASSUME NEW v \in Worker, v # w, active(v)' PROVE job'[v].idx # index + 1
      <4>1. job'[v] = job[v] /\ active(v)
        BY <1>3, <1>4, <3>1 DEF TypeOK, active
      <4>2. job[v].idx \in 1 .. index
        BY <4>1 DEF JobInv, WorkerInv
      <4> QED
        BY <1>5, <4>1, <4>2
    <3> QED
      BY <3>1
  <2>5. IF mapCompleted THEN t \in ReduceTask ELSE t \in MapTask /\ t \notin ReduceTask
    BY <1>2, TaskSets DEF curRole
  <2>6. index + 1 \in 1 .. index' /\ 0 .. step'[w] - 1 = {}
    BY <1>3, <1>5, <2>1
  <2> QED
    BY <1>2, <1>3, <2>1, <2>2, <2>3, <2>4, <2>5, <2>6 DEF WorkerInv
<1> QED
  BY <1>3, <1>6, <1>8, <1>9, <1>10, <1>11 DEF JobInv

LEMMA TaskAllocKeeps ==
    ASSUME JobInv, NEW w \in Worker, TaskAlloc(w)
    PROVE  JobInv'
<1>1. CASE ~reduceCompleted /\ assignable # {}
  BY <1>1, HandOutKeeps
<1>2. CASE reduceCompleted \/ assignable = {}
  <2>1. UNCHANGED <<coordinator, job, disk, exited, deaths, step>>
    BY <1>2 DEF TaskAlloc
  <2>2. pc' = [pc EXCEPT ![w] = "gone"] \/ pc' = [pc EXCEPT ![w] = "sleep"]
    BY <1>2 DEF TaskAlloc
  <2> QED
    BY <2>1, <2>2, IdleKeeps DEF JobInv, TypeOK
<1> QED
  BY <1>1, <1>2

\* TaskComplete completes a task for the one execution that it waits for.
LEMMA CompleteKeeps ==
    ASSUME JobInv, NEW w \in Worker, TaskComplete(w), accepted(job[w].id, job[w].idx)
    PROVE  JobInv'
<1> DEFINE t == job[w].id
<1>1. /\ pc[w] = "report" /\ complete(t)
      /\ pc' = [pc EXCEPT ![w] = "ask"]
      /\ UNCHANGED <<index, slow, exited, job, step, deaths, files, outputs>>
  BY DEF TaskComplete, disk
<1>2. TypeOK
  BY DEF JobInv, TypeOK
<1>3. WorkerInv(w) /\ t \in TaskId /\ t \in Nat
  BY <1>1, TaskSets DEF JobInv, WorkerInv, active
<1>4. tasks[t].state = "PROCESSING" /\ (mapCompleted <=> t \in ReduceTask)
  BY <1>1, <1>3 DEF WorkerInv, active, accepted, TaskId
<1> HIDE DEF t
<1>5. /\ t \in MapTask /\ t \notin ReduceTask /\ ~mapCompleted =>
             /\ leftMapTask' = leftMapTask - 1
             /\ mapCompleted' = (leftMapTask' = 0)
             /\ UNCHANGED <<leftReduceTask, reduceCompleted>>
      /\ mapCompleted =>
             /\ leftReduceTask' = leftReduceTask - 1
             /\ reduceCompleted' = (reduceCompleted \/ leftReduceTask' = 0)
             /\ UNCHANGED <<leftMapTask, mapCompleted>>
  BY DEF TaskComplete
<1>6. CountersExact' /\ leftMapTask' \in Nat /\ leftReduceTask' \in Nat
  <2>1. MapTask \in SUBSET TaskId /\ ReduceTask \in SUBSET TaskId
    BY DEF TaskId
  <2>2. /\ t \in MapTask =>
               /\ Cardinality(unfinished(MapTask)') = Cardinality(unfinished(MapTask)) - 1
               /\ Cardinality(unfinished(MapTask)) \in Nat \ {0}
        /\ t \notin MapTask => unfinished(MapTask)' = unfinished(MapTask)
    BY <1>1, <1>2, <1>3, <1>4, <2>1, TaskSets, Counted
  <2>3. /\ t \in ReduceTask =>
               /\ Cardinality(unfinished(ReduceTask)') = Cardinality(unfinished(ReduceTask)) - 1
               /\ Cardinality(unfinished(ReduceTask)) \in Nat \ {0}
        /\ t \notin ReduceTask => unfinished(ReduceTask)' = unfinished(ReduceTask)
    BY <1>1, <1>2, <1>3, <1>4, <2>1, TaskSets, Counted
  <2>4. t \in MapTask <=> t \notin ReduceTask
    BY <1>3, TaskSets DEF TaskId
  <2>5. leftMapTask \in Nat /\ leftReduceTask \in Nat /\ CountersExact
    BY <1>2 DEF JobInv, TypeOK
  <2> QED
    BY <1>4, <1>5, <2>2, <2>3, <2>4, <2>5 DEF CountersExact
<1>7. mapCompleted' \in BOOLEAN /\ reduceCompleted' \in BOOLEAN
  BY <1>2, <1>3, <1>4, <1>5, TaskSets DEF TypeOK, TaskId
<1>8. (mapCompleted' <=> leftMapTask' = 0) /\ (reduceCompleted' => leftReduceTask' = 0)
  <2>1. (mapCompleted <=> leftMapTask = 0) /\ (reduceCompleted => leftReduceTask = 0)
    BY DEF JobInv
  <2>2. CASE t \in ReduceTask
    <3>1. ~reduceCompleted
      BY <1>4, <2>1, <2>2, NoneLeft DEF JobInv
    <3>2. mapCompleted' = mapCompleted /\ leftMapTask' = leftMapTask
      BY <1>4, <1>5, <2>2
    <3>3. reduceCompleted' = (reduceCompleted \/ leftReduceTask' = 0)
      BY <1>4, <1>5, <2>2
    <3> QED
      BY <2>1, <3>1, <3>2, <3>3
  <2>3. CASE t \notin ReduceTask
    <3>1. t \in MapTask /\ ~mapCompleted
      BY <1>3, <1>4, <2>3 DEF TaskId
    <3>2. mapCompleted' = (leftMapTask' = 0)
      BY <1>5, <2>3, <3>1
    <3>3. reduceCompleted' = reduceCompleted /\ leftReduceTask' = leftReduceTask
      BY <1>5, <2>3, <3>1
    <3> QED
      BY <2>1, <3>2, <3>3
  <2> QED
    BY <2>2, <2>3
<1>9. TypeOK'
  <2>1. tasks' \in [TaskId -> [state : {"IDLE", "PROCESSING", "SUCCESS"}, expectedId : Nat, late : BOOLEAN]]
    BY <1>1, <1>2 DEF TypeOK, complete
  <2>2. pc' \in [Worker -> {"ask", "sleep", "map", "reduce", "report", "gone"}]
    BY <1>1, <1>2 DEF TypeOK
  <2> QED
    BY <1>1, <1>2, <1>6, <1>7, <2>1, <2>2 DEF TypeOK
<1>10. \A u \in TaskId : tasks'[u].expectedId = tasks[u].expectedId
                         /\ (u # t => tasks'[u].state = tasks[u].state)
  BY <1>1, <1>2 DEF TypeOK, complete
<1>11. ASSUME NEW u \in TaskId PROVE TaskInv(u)'
  <2>1. TaskInv(u)
    BY DEF JobInv
  <2>2. CASE u # t
    BY <1>1, <1>10, <2>1, <2>2 DEF TaskInv
  <2>3. CASE u = t
    BY <1>1, <1>3, <1>10, <2>1, <2>3 DEF TaskInv, WorkerInv, active, t
  <2> QED
    BY <2>2, <2>3
<1>12. ASSUME NEW v \in Worker PROVE WorkerInv(v)'
  <2>1. \A u \in Worker : active(u)' => u # w /\ active(u) /\ pc'[u] = pc[u]
    BY <1>1, <1>2 DEF TypeOK, active
  <2> SUFFICES ASSUME active(v)' PROVE WorkerInv(v)'
    BY DEF WorkerInv
  <2>2. v # w /\ active(v) /\ pc'[v] = pc[v] /\ WorkerInv(v)
    BY <2>1 DEF JobInv
  <2>3. job[v].idx # job[w].idx /\ job[v].id \in TaskId
    BY <1>1, <2>2 DEF WorkerInv, active
  <2>4. job[v].id = t => tasks[t].expectedId # job[v].idx
    BY <2>3 DEF accepted, t
  <2>5. mapCompleted => mapCompleted'
    BY <1>5
  <2> QED
    BY <1>1, <1>10, <2>1, <2>2, <2>3, <2>4, <2>5 DEF WorkerInv
<1> QED
  BY <1>6, <1>8, <1>9, <1>11, <1>12 DEF JobInv

LEMMA TaskCompleteKeeps ==
    ASSUME JobInv, NEW w \in Worker, TaskComplete(w)
    PROVE  JobInv'
<1>1. CASE accepted(job[w].id, job[w].idx)
  BY <1>1, CompleteKeeps
<1>2. CASE ~accepted(job[w].id, job[w].idx)
  <2>1. UNCHANGED <<coordinator, job, disk, exited, deaths, step>> /\ pc' = [pc EXCEPT ![w] = "ask"]
    BY <1>2 DEF TaskComplete, coordinator
  <2> QED
    BY <2>1, IdleKeeps DEF JobInv, TypeOK
<1> QED
  BY <1>1, <1>2

\* Time passes for a task.
LEMMA ExpiresKeeps ==
    ASSUME JobInv, NEW t \in TaskId, expires(t)
    PROVE  JobInv'
<1>1. /\ UNCHANGED <<leftMapTask, leftReduceTask, mapCompleted, reduceCompleted, index, exited>>
      /\ UNCHANGED <<pc, job, step, deaths, files, outputs>>
      /\ tasks' = [tasks EXCEPT ![t].late = TRUE]
  BY DEF expires, worker, disk
<1>2. TypeOK
  BY DEF JobInv
<1>3. TypeOK'
  <2>1. tasks' \in [TaskId -> [state : {"IDLE", "PROCESSING", "SUCCESS"}, expectedId : Nat, late : BOOLEAN]]
    BY <1>1, <1>2 DEF TypeOK
  <2>2. slow' \in Nat
    BY <1>2 DEF TypeOK, expires
  <2> QED
    BY <1>1, <1>2, <2>1, <2>2 DEF TypeOK
<1>4. \A u \in TaskId : tasks'[u].state = tasks[u].state /\ tasks'[u].expectedId = tasks[u].expectedId
  BY <1>1, <1>2 DEF TypeOK
<1>5. unfinished(MapTask)' = unfinished(MapTask) /\ unfinished(ReduceTask)' = unfinished(ReduceTask)
  BY <1>4 DEF unfinished, TaskId
<1>6. CountersExact'
  BY <1>1, <1>5 DEF JobInv, CountersExact
<1>7. ASSUME NEW w \in Worker PROVE WorkerInv(w)'
  <2>1. WorkerInv(w)
    BY DEF JobInv
  <2> QED
    BY <1>1, <1>4, <2>1 DEF WorkerInv, active
<1>8. ASSUME NEW u \in TaskId PROVE TaskInv(u)'
  BY <1>1, <1>4 DEF JobInv, TaskInv
<1> QED
  BY <1>1, <1>3, <1>6, <1>7, <1>8 DEF JobInv

----------------------------------------------------------------------------

LEMMA InitJob == Init => JobInv
<1> SUFFICES ASSUME Init PROVE JobInv
  OBVIOUS
<1>1. TypeOK
  <2>1. tasks \in [TaskId -> [state : {"IDLE", "PROCESSING", "SUCCESS"}, expectedId : Nat, late : BOOLEAN]]
    BY DEF Init
  <2>2. leftMapTask \in Nat /\ leftReduceTask \in Nat /\ index \in Nat /\ deaths \in Nat /\ slow \in Nat
    BY JobAssumption DEF Init
  <2>3. mapCompleted \in BOOLEAN /\ reduceCompleted \in BOOLEAN /\ exited \in BOOLEAN
    BY DEF Init
  <2>4. /\ pc \in [Worker -> {"ask", "sleep", "map", "reduce", "report", "gone"}]
        /\ job \in [Worker -> [id : Int, idx : Int]] /\ step \in [Worker -> Nat]
    BY DEF Init
  <2>5. files \subseteq MapTask \X (0 .. N - 1) /\ outputs \in [0 .. N - 1 -> SUBSET MapTask]
    BY DEF Init
  <2> QED
    BY <2>1, <2>2, <2>3, <2>4, <2>5 DEF TypeOK
<1>2. CountersExact
  <2>1. unfinished(MapTask) = MapTask /\ unfinished(ReduceTask) = ReduceTask
    BY DEF Init, unfinished, TaskId
  <2> QED
    BY <2>1, TaskSets DEF Init, CountersExact
<1>3. ASSUME NEW w \in Worker PROVE WorkerInv(w)
  BY DEF Init, WorkerInv, active
<1>4. ASSUME NEW t \in TaskId PROVE TaskInv(t)
  BY DEF Init, TaskInv
<1> QED
  BY <1>1, <1>2, <1>3, <1>4, JobAssumption DEF JobInv, Init

LEMMA StepJob == JobInv /\ [Next]_vars => JobInv'
<1> SUFFICES ASSUME JobInv, [Next]_vars PROVE JobInv'
  OBVIOUS
<1>1. CASE UNCHANGED vars \/ Done
  <2>1. UNCHANGED <<coordinator, worker, disk>> /\ exited' \in BOOLEAN
    BY <1>1 DEF vars, Done, JobInv, TypeOK
  <2> QED
    BY <2>1 DEF coordinator, worker, disk, JobInv, TypeOK, CountersExact, unfinished, WorkerInv,
                TaskInv, active
<1>2. ASSUME NEW w \in Worker, work(w) \/ die(w) PROVE JobInv'
  <2>1. CASE wake(w) \/ callFails(w) \/ die(w)
    <3>1. UNCHANGED <<coordinator, job, disk, exited, step>> /\ deaths' \in Nat
      BY <2>1 DEF wake, callFails, die, JobInv, TypeOK
    <3>2. pc' = [pc EXCEPT ![w] = "ask"] \/ pc' = [pc EXCEPT ![w] = "gone"]
      BY <2>1 DEF wake, callFails, die
    <3> QED
      BY <3>1, <3>2, IdleKeeps DEF JobInv, TypeOK
  <2> QED
    BY <1>2, <2>1, TaskAllocKeeps, ExecuteMapKeeps, MapDoneKeeps, ExecuteReduceKeeps,
       ReduceDoneKeeps, TaskCompleteKeeps DEF work
<1>3. CASE Next
  BY <1>1, <1>2, <1>3, ExpiresKeeps DEF Next
<1> QED
  BY <1>1, <1>3

----------------------------------------------------------------------------

\* TaskComplete takes every task from its counter once, however often TaskAlloc has
\* handed it out: the phases end when their last task is completed.
THEOREM CountersCorrect == Spec => []CountersExact
<1>1. JobInv => CountersExact
  BY DEF JobInv
<1> QED
  BY InitJob, StepJob, <1>1, PTL DEF Spec

\* The reduce phase begins with every intermediate file in place.
THEOREM MapPhaseComplete == Spec => []MapOutputsReady
<1>1. JobInv => MapOutputsReady
  <2> SUFFICES ASSUME JobInv, mapCompleted PROVE files = MapTask \X (0 .. N - 1)
    BY DEF MapOutputsReady
  <2>1. ASSUME NEW t \in MapTask, NEW j \in Bucket PROVE <<t, j>> \in files
    BY NoneLeft DEF JobInv, TaskInv, TaskId
  <2> QED
    BY <2>1 DEF JobInv, TypeOK, Bucket
<1> QED
  BY InitJob, StepJob, <1>1, PTL DEF Spec

\* When Done() is true, every mr-out-r has the pairs of every input file.
THEOREM JobComplete == Spec => []OutputsComplete
<1>1. JobInv => OutputsComplete
  <2> SUFFICES ASSUME JobInv, reduceCompleted, NEW r \in 0 .. N - 1 PROVE outputs[r] = MapTask
    BY DEF OutputsComplete
  <2>1. PICK t \in ReduceTask : reduceID(t) = r
    BY EveryBucket DEF Bucket
  <2>2. tasks[t].state = "SUCCESS" /\ TaskInv(t)
    BY NoneLeft DEF JobInv, TaskId
  <2> QED
    BY <2>1, <2>2 DEF TaskInv
<1> QED
  BY InitJob, StepJob, <1>1, PTL DEF Spec
=============================================================================
