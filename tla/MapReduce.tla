----------------------------- MODULE MapReduce -----------------------------
(***************************************************************************)
(* The MapReduce job of mr/: the coordinator (mr/coordinator.go) hands out *)
(* map tasks, then reduce tasks, to workers (mr/worker.go) that may die or *)
(* be so slow that their task is handed out again.                         *)
(*                                                                         *)
(* Grain.  A handler of the coordinator runs under c.mu and its caller     *)
(* waits for it: one action.  A worker writes a temporary file and renames *)
(* it: one action, its effect is the rename.  It opens and reads one       *)
(* intermediate file: one action.  What a file contains is fixed by its    *)
(* name, since mapf is a function; an output is the set of map tasks whose *)
(* pairs went into it.                                                     *)
(***************************************************************************)
EXTENDS Integers, FiniteSets, FiniteSetsExt

CONSTANTS
    M,                \* number of input files, thus of map tasks
    N,                \* number of reduce tasks
    Worker,
    MaxDeaths,        \* bound of the model: workers that die
    MaxSlow           \* bound of the model: tasks whose worker is too slow

\* main/mrcoordinator.go refuses to run without input files and asks for 10
\* reduce tasks.
ASSUME JobAssumption ==
    /\ M \in Nat \ {0} /\ N \in Nat \ {0}
    /\ MaxDeaths \in Nat /\ MaxSlow \in Nat

VARIABLES
    tasks,            \* Coordinator.tasks; late: startAt is more than expire ago
    leftMapTask, leftReduceTask,
    mapCompleted, reduceCompleted,
    index,            \* Coordinator.index: how often a task was handed out
    exited,           \* main of the coordinator has seen Done() and has returned
    pc,               \* where a worker is in its loop; "gone": returned or dead
    job,              \* the TaskId and TaskIdx a worker works on
    step,             \* files that executeMap has written or executeReduce has read
    files,            \* the intermediate files mr-m-r that exist, as <<m, r>>
    outputs,          \* outputs[r]: the map tasks whose pairs are in mr-out-r
    deaths, slow      \* counters for the bounds

coordinator == <<tasks, leftMapTask, leftReduceTask, mapCompleted, reduceCompleted, index, slow>>
worker == <<pc, job, step, deaths>>
disk == <<files, outputs>>
vars == <<coordinator, exited, worker, disk>>

MapTask == 0 .. M - 1
ReduceTask == M .. M + N - 1
TaskId == MapTask \cup ReduceTask

Init ==
    /\ tasks = [t \in TaskId |-> [state |-> "IDLE", expectedId |-> 0, late |-> FALSE]]
    /\ leftMapTask = M
    /\ leftReduceTask = N
    /\ mapCompleted = FALSE
    /\ reduceCompleted = FALSE
    /\ index = 0
    /\ exited = FALSE
    /\ pc = [w \in Worker |-> "ask"]
    /\ job = [w \in Worker |-> [id |-> -1, idx |-> -1]]
    /\ step = [w \in Worker |-> 0]
    /\ files = {}
    /\ outputs = [r \in 0 .. N - 1 |-> {}]
    /\ deaths = 0
    /\ slow = 0

----------------------------------------------------------------------------
(* Coordinator *)

curRole == IF mapCompleted THEN ReduceTask ELSE MapTask

\* Mutant: a task stays with its worker however long it takes.
notHandedOut ==
    {t \in curRole : tasks[t].state = "IDLE"}

\* The tasks that TaskAlloc's loop would hand out; it takes the first.
assignable ==
    {t \in curRole : \/ tasks[t].state = "IDLE"
                     \/ tasks[t].state = "PROCESSING" /\ tasks[t].late}

\* TaskAlloc, for worker w: a task, TaskWait or TaskExit.
TaskAlloc(w) ==
    /\ pc[w] = "ask"
    /\ ~exited
    /\ \/ /\ reduceCompleted
          /\ pc' = [pc EXCEPT ![w] = "gone"]
          /\ UNCHANGED <<coordinator, job, step>>
       \/ /\ ~reduceCompleted
          /\ assignable = {}
          /\ pc' = [pc EXCEPT ![w] = "sleep"]
          /\ UNCHANGED <<coordinator, job, step>>
       \/ /\ ~reduceCompleted
          /\ assignable # {}
          /\ LET t == Min(assignable)
             IN  /\ tasks' = [tasks EXCEPT ![t] =
                        [state |-> "PROCESSING", expectedId |-> index + 1, late |-> FALSE]]
                 /\ job' = [job EXCEPT ![w] = [id |-> t, idx |-> index + 1]]
          /\ index' = index + 1
          /\ pc' = [pc EXCEPT ![w] = IF mapCompleted THEN "reduce" ELSE "map"]
          /\ step' = [step EXCEPT ![w] = 0]
          /\ UNCHANGED <<leftMapTask, leftReduceTask, mapCompleted, reduceCompleted, slow>>
    /\ UNCHANGED <<exited, deaths, disk>>

\* Mutant: whoever reports a task completes it.
accepted1(t, idx) == t \in curRole

\* TaskComplete's early returns: a map task after the map phase, and an
\* execution other than the one it waits for.
accepted(t, idx) ==
    /\ mapCompleted => t \in ReduceTask
    /\ tasks[t].expectedId = idx

complete(t) == tasks' = [tasks EXCEPT ![t].state = "SUCCESS"]

\* TaskComplete, for the execution that worker w reports.
TaskComplete(w) ==
    /\ pc[w] = "report"
    /\ ~exited
    /\ LET t == job[w].id
       IN  \/ /\ accepted(t, job[w].idx)
              /\ ~mapCompleted
              /\ complete(t)
              /\ leftMapTask' = leftMapTask - 1
              /\ mapCompleted' = (leftMapTask' = 0)
              /\ UNCHANGED <<leftReduceTask, reduceCompleted>>
           \/ /\ accepted(t, job[w].idx)
              /\ mapCompleted
              /\ complete(t)
              /\ leftReduceTask' = leftReduceTask - 1
              /\ reduceCompleted' = (reduceCompleted \/ leftReduceTask' = 0)
              /\ UNCHANGED <<leftMapTask, mapCompleted>>
           \/ /\ ~accepted(t, job[w].idx)
              /\ UNCHANGED <<tasks, leftMapTask, leftReduceTask, mapCompleted, reduceCompleted>>
    /\ pc' = [pc EXCEPT ![w] = "ask"]
    /\ UNCHANGED <<index, slow, exited, job, step, deaths, disk>>

\* More than expire passes since a task was handed out: its worker is gone or
\* has been told otherwise, or is slow.
abandoned(t) ==
    \A w \in Worker : pc[w] \in {"map", "reduce", "report"} => job[w].idx # tasks[t].expectedId

expires(t) ==
    /\ tasks[t].state = "PROCESSING"
    /\ ~tasks[t].late
    /\ abandoned(t) \/ slow < MaxSlow
    /\ tasks' = [tasks EXCEPT ![t].late = TRUE]
    /\ slow' = IF abandoned(t) THEN slow ELSE slow + 1
    /\ UNCHANGED <<leftMapTask, leftReduceTask, mapCompleted, reduceCompleted, index, exited, worker, disk>>

\* The main program finds Done() and exits.
Done ==
    /\ reduceCompleted
    /\ ~exited
    /\ exited' = TRUE
    /\ UNCHANGED <<coordinator, worker, disk>>

----------------------------------------------------------------------------
(* Worker *)

\* Mutant: the last bucket is left out.
mapSteps1 == N - 1

\* executeMap writes one file per bucket.
mapSteps == N

\* executeMap renames the file of the next bucket to its final name.
executeMap(w) ==
    /\ pc[w] = "map"
    /\ step[w] < mapSteps
    /\ files' = files \cup {<<job[w].id, step[w]>>}
    /\ step' = [step EXCEPT ![w] = @ + 1]
    /\ UNCHANGED <<coordinator, exited, pc, job, deaths, outputs>>

\* Mutant: the wrong number of tasks.
reduceID1(t) == t % M

reduceID(t) == t % N

\* executeReduce reads the next intermediate file, or fails without it, and
\* Worker returns.
executeReduce(w) ==
    /\ pc[w] = "reduce"
    /\ step[w] < M
    /\ IF <<step[w], reduceID(job[w].id)>> \in files
       THEN step' = [step EXCEPT ![w] = @ + 1] /\ UNCHANGED pc
       ELSE pc' = [pc EXCEPT ![w] = "gone"] /\ UNCHANGED step
    /\ UNCHANGED <<coordinator, exited, job, deaths, disk>>

\* The task is done (executeReduce renames its output to mr-out-r), and Worker
\* calls TaskComplete.
mapDone(w) ==
    /\ pc[w] = "map"
    /\ step[w] = mapSteps
    /\ pc' = [pc EXCEPT ![w] = "report"]
    /\ UNCHANGED <<coordinator, exited, job, step, deaths, disk>>

reduceDone(w) ==
    /\ pc[w] = "reduce"
    /\ step[w] = M
    /\ outputs' = [outputs EXCEPT ![reduceID(job[w].id)] = 0 .. step[w] - 1]
    /\ pc' = [pc EXCEPT ![w] = "report"]
    /\ UNCHANGED <<coordinator, exited, job, step, deaths, files>>

wake(w) ==
    /\ pc[w] = "sleep"
    /\ pc' = [pc EXCEPT ![w] = "ask"]
    /\ UNCHANGED <<coordinator, exited, job, step, deaths, disk>>

\* call() cannot reach the coordinator any more: log.Fatal.
callFails(w) ==
    /\ pc[w] \in {"ask", "report"}
    /\ exited
    /\ pc' = [pc EXCEPT ![w] = "gone"]
    /\ UNCHANGED <<coordinator, exited, job, step, deaths, disk>>

\* The process is killed, or executeMap or executeReduce fails.
die(w) ==
    /\ pc[w] # "gone"
    /\ deaths < MaxDeaths
    /\ deaths' = deaths + 1
    /\ pc' = [pc EXCEPT ![w] = "gone"]
    /\ UNCHANGED <<coordinator, exited, job, step, disk>>

----------------------------------------------------------------------------

work(w) ==
    \/ TaskAlloc(w) \/ executeMap(w) \/ mapDone(w) \/ executeReduce(w) \/ reduceDone(w)
    \/ TaskComplete(w) \/ wake(w) \/ callFails(w)

Next ==
    \/ \E w \in Worker : work(w) \/ die(w)
    \/ \E t \in TaskId : expires(t)
    \/ Done

Spec == Init /\ [][Next]_vars

\* Processes that have not died keep running, time passes, and the main program
\* of the coordinator polls Done().
Fairness ==
    /\ \A w \in Worker : WF_vars(work(w))
    /\ \A t \in TaskId : WF_vars(expires(t) /\ abandoned(t))
    /\ WF_vars(Done)

FairSpec == Spec /\ Fairness

----------------------------------------------------------------------------
(* Correctness *)

\* Every variable has its type.
TypeOK ==
    /\ tasks \in [TaskId -> [state : {"IDLE", "PROCESSING", "SUCCESS"}, expectedId : Nat, late : BOOLEAN]]
    /\ leftMapTask \in Nat /\ leftReduceTask \in Nat
    /\ mapCompleted \in BOOLEAN /\ reduceCompleted \in BOOLEAN
    /\ index \in Nat
    /\ exited \in BOOLEAN
    /\ pc \in [Worker -> {"ask", "sleep", "map", "reduce", "report", "gone"}]
    /\ job \in [Worker -> [id : Int, idx : Int]]
    /\ step \in [Worker -> Nat]
    /\ files \subseteq MapTask \X (0 .. N - 1)
    /\ outputs \in [0 .. N - 1 -> SUBSET MapTask]
    /\ deaths \in Nat /\ slow \in Nat

unfinished(T) == {t \in T : tasks[t].state # "SUCCESS"}

\* The counters that end the two phases count the tasks that are not completed:
\* TaskComplete counts every task once, however often it was handed out and
\* however late an execution is reported.
CountersExact ==
    /\ leftMapTask = Cardinality(unfinished(MapTask))
    /\ leftReduceTask = Cardinality(unfinished(ReduceTask))

\* When the reduce phase begins, every intermediate file exists: no reduce task
\* fails for want of one, and none works on a part of the input.
MapOutputsReady ==
    mapCompleted => files = MapTask \X (0 .. N - 1)

\* When Done() is true, every mr-out-r contains the pairs of every input file.
OutputsComplete ==
    reduceCompleted => \A r \in 0 .. N - 1 : outputs[r] = MapTask

\* The job is done in the end and the workers return, if one worker stays alive.
JobFinishes == <>(exited /\ \A w \in Worker : pc[w] = "gone")

=============================================================================
