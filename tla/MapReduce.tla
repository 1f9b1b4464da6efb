----------------------------- MODULE MapReduce -----------------------------
(***************************************************************************)
(* The coordinator of src/src/mr and the workers that call it.             *)
(*                                                                         *)
(* Coordinator.lck guards Phase and taskTraceMap, but the channel          *)
(* taskQueue is used outside of it: AssignTask takes a task off the queue  *)
(* with the lock released and records it in taskTraceMap after locking     *)
(* again, and generateReduceTasks fills the queue from a goroutine that    *)
(* takes no lock at all.  retriveTimeoutTasks, on the other hand, sends on *)
(* the channel while it holds the lock.                                    *)
(*                                                                         *)
(* What the tasks compute is left out: the output of a task is either not  *)
(* there, in its temporary files, or in its final files.                   *)
(***************************************************************************)
EXTENDS Integers, Sequences, FiniteSets, FiniteSetsExt

CONSTANTS
  Worker,
  nMap, nReduce,
  MAP, REDUCE, DONE,  \* phases; MAP and REDUCE are task types too
  NoTask,             \* an entry that taskTraceMap does not have
  MaxSlow,            \* bound: deadlines missed by workers that are still at work
  MaxCrashes          \* bound: workers that die with a task

ASSUME MapReduceAssumption ==
  /\ nMap \in Nat \ {0} /\ nReduce \in Nat \ {0}
  /\ MAP # REDUCE /\ MAP # DONE /\ REDUCE # DONE
  /\ MaxSlow \in Nat /\ MaxCrashes \in Nat

Capacity == Max({nMap, nReduce})

Task(type, id) == [TaskType |-> type, Id |-> id]

MapTasks    == {Task(MAP, i) : i \in 0 .. nMap - 1}
ReduceTasks == {Task(REDUCE, i) : i \in 0 .. nReduce - 1}
Tasks       == MapTasks \cup ReduceTasks

(* the keys Type_Id of taskTraceMap *)
Keys == {Task(type, i) : type \in {MAP, REDUCE}, i \in 0 .. Capacity - 1}

ASSUME NoTaskAssumption == NoTask \notin [task : Tasks, expired : BOOLEAN]

VARIABLES
  Phase,
  taskQueue,     \* the buffered channel
  taskTraceMap,  \* per key, the task handed out and whether its deadline is over
  generated,     \* how many tasks generateReduceTasks has queued
  retrieving,    \* keys that retriveTimeoutTasks has still to treat in its loop
  at, task,      \* per worker, where it or the handler of its call is, and its task
  tmpFiles,      \* tasks whose output is in temporary files
  finalFiles,    \* tasks whose output has been renamed to its final name
  fatal,         \* the coordinator died of a rename
  exited,        \* main has seen Done() and returned
  slow, crashes,
  early          \* history: a phase was ended with a task of it in neither place

coordinator == <<Phase, taskTraceMap, generated, retrieving, fatal, exited>>
workers == <<at, task>>
files   == <<tmpFiles, finalFiles>>
budgets == <<slow, crashes>>

vars == <<coordinator, taskQueue, workers, files, budgets, early>>

(* retriveTimeoutTasks holds lck from the first task it treats to the last *)
Unlocked == retrieving = {} /\ ~fatal /\ ~exited

(* MakeCoordinator *)
Init ==
  /\ Phase = MAP
  /\ taskQueue = [i \in 1 .. nMap |-> Task(MAP, i - 1)]
  /\ taskTraceMap = [k \in Keys |-> NoTask]
  /\ generated = 0
  /\ retrieving = {}
  /\ at = [w \in Worker |-> "idle"] /\ task = [w \in Worker |-> NoTask]
  /\ tmpFiles = {} /\ finalFiles = {}
  /\ fatal = FALSE /\ exited = FALSE
  /\ slow = 0 /\ crashes = 0
  /\ early = FALSE

-----------------------------------------------------------------------------
(* AssignTask: the phase is read under the lock, the queue without it *)

AskTask(w) ==
  /\ at[w] = "idle" /\ Unlocked
  /\ at' = [at EXCEPT ![w] = IF Phase = DONE THEN "quit" ELSE "waiting"]
  /\ UNCHANGED <<coordinator, taskQueue, task, files, budgets, early>>

TakeTask(w) ==
  /\ at[w] = "waiting" /\ taskQueue # <<>> /\ ~fatal /\ ~exited
  /\ at' = [at EXCEPT ![w] = "taken"]
  /\ task' = [task EXCEPT ![w] = Head(taskQueue)]
  /\ taskQueue' = Tail(taskQueue)
  /\ UNCHANGED <<coordinator, files, budgets, early>>

TracedNever(w) == taskTraceMap   \* mutant: the task is not recorded

(* the key is made of the phase, not of the type of the task *)
Traced(w) ==
  IF Phase = DONE THEN taskTraceMap
  ELSE [taskTraceMap EXCEPT ![Task(Phase, task[w].Id)] = [task |-> task[w], expired |-> FALSE]]

RecordTask(w) ==
  /\ at[w] = "taken" /\ Unlocked
  /\ taskTraceMap' = Traced(w)
  /\ at' = [at EXCEPT ![w] = "working"]
  /\ UNCHANGED <<Phase, taskQueue, generated, retrieving, task, files, fatal, exited, budgets, early>>

-----------------------------------------------------------------------------
(* The worker at work *)

(* doMapTask and doReduceTask, up to the report.  readIntermediate dies of a file that
   is not there, and another worker is started. *)
DoTask(w) ==
  /\ at[w] = "working"
  /\ IF task[w] \in ReduceTasks /\ ~(MapTasks \subseteq finalFiles)
     THEN /\ at' = [at EXCEPT ![w] = "idle"]
          /\ task' = [task EXCEPT ![w] = NoTask]
          /\ UNCHANGED tmpFiles
     ELSE /\ at' = [at EXCEPT ![w] = "reporting"]
          /\ tmpFiles' = tmpFiles \cup {task[w]}
          /\ UNCHANGED task
  /\ UNCHANGED <<coordinator, taskQueue, finalFiles, budgets, early>>

(* A worker dies with its task and another one is started.  One that dies while the
   handler of its call waits for a task is one that dies when it gets the task. *)
Crash(w) ==
  /\ crashes < MaxCrashes
  /\ crashes' = crashes + 1
  /\ at[w] \in {"working", "reporting"}
  /\ at' = [at EXCEPT ![w] = "idle"]
  /\ task' = [task EXCEPT ![w] = NoTask]
  /\ UNCHANGED <<coordinator, taskQueue, files, slow, early>>

-----------------------------------------------------------------------------
(* ReportTask *)

OnTimeUnlessExpired(key) ==   \* mutant: a task that is not traced is accepted
  taskTraceMap[key] # NoTask => ~taskTraceMap[key].expired

(* a key that is not in the map has the zero Deadline, which is long over *)
OnTime(key) == taskTraceMap[key] # NoTask /\ ~taskTraceMap[key].expired

PhaseOver(queue, trace) == queue = <<>> /\ \A k \in Keys : trace[k] = NoTask

NextPhase(trace) ==
  CASE ~PhaseOver(taskQueue, trace) -> Phase
    [] PhaseOver(taskQueue, trace) /\ Phase = MAP -> REDUCE
    [] OTHER -> DONE

(* A task is in neither place, and ReportTask cannot see it, between the two halves of
   an AssignTask and before generateReduceTasks has queued the last one *)
Unseen ==
  \/ \E w \in Worker : at[w] = "taken"
  \/ Phase = REDUCE /\ generated < nReduce

ReportTask(w) ==
  /\ at[w] = "reporting" /\ Unlocked
  /\ at' = [at EXCEPT ![w] = "idle"]
  /\ task' = [task EXCEPT ![w] = NoTask]
  /\ IF OnTime(task[w])
     THEN IF task[w] \in tmpFiles
          THEN /\ tmpFiles' = tmpFiles \ {task[w]}
               /\ finalFiles' = finalFiles \cup {task[w]}
               /\ taskTraceMap' = [taskTraceMap EXCEPT ![task[w]] = NoTask]
               /\ Phase' = NextPhase(taskTraceMap')
               /\ UNCHANGED fatal
          ELSE fatal' = TRUE /\ UNCHANGED <<files, taskTraceMap, Phase>>
     ELSE Phase' = NextPhase(taskTraceMap) /\ UNCHANGED <<files, taskTraceMap, fatal>>
  /\ early' = (early \/ (Phase' # Phase /\ Unseen))
  /\ UNCHANGED <<taskQueue, generated, retrieving, exited, budgets>>

-----------------------------------------------------------------------------
(* The goroutines of the coordinator *)

MoreToGeneratePastEnd == generated <= nReduce   \* mutant: off by one

MoreToGenerate == generated < nReduce

(* generateReduceTasks, one task: started when the phase becomes REDUCE *)
GenerateReduceTask ==
  /\ Phase # MAP /\ MoreToGenerate /\ ~fatal /\ ~exited
  /\ Len(taskQueue) < Capacity
  /\ taskQueue' = Append(taskQueue, Task(REDUCE, generated))
  /\ generated' = generated + 1
  /\ UNCHANGED <<Phase, taskTraceMap, retrieving, fatal, exited, workers, files, budgets, early>>

(* a deadline passes; its task is lost, or the worker at it is slow *)
Expire(key) ==
  /\ taskTraceMap[key] # NoTask /\ ~taskTraceMap[key].expired
  /\ IF \E w \in Worker : at[w] \in {"working", "reporting"} /\ task[w] = taskTraceMap[key].task
     THEN slow < MaxSlow /\ slow' = slow + 1
     ELSE UNCHANGED slow
  /\ taskTraceMap' = [taskTraceMap EXCEPT ![key].expired = TRUE]
  /\ UNCHANGED <<Phase, generated, retrieving, fatal, exited, taskQueue, workers, files, crashes, early>>

Expired == {k \in Keys : taskTraceMap[k] # NoTask /\ taskTraceMap[k].expired}

(* retriveTimeoutTasks takes the lock and finds tasks that are overdue *)
StartRetrieving ==
  /\ Unlocked /\ Expired # {}
  /\ retrieving' = Expired
  /\ UNCHANGED <<Phase, taskTraceMap, generated, fatal, exited, taskQueue, workers, files, budgets, early>>

(* what is deleted is the key of the task, whatever the key it was found under *)
WithoutTask(t) == [taskTraceMap EXCEPT ![t] = NoTask]

RequeuedNever(t) == taskQueue   \* mutant: the task is dropped

Requeued(t) == Append(taskQueue, t)

(* ... and queues them one by one; the lock is released after the last *)
RetrieveTask(key) ==
  LET t == taskTraceMap[key].task
  IN  /\ key \in retrieving
      /\ Len(taskQueue) < Capacity
      /\ taskTraceMap' = WithoutTask(t)
      /\ taskQueue' = Requeued(t)
      /\ retrieving' = retrieving \ {key}
      /\ UNCHANGED <<Phase, generated, fatal, exited, workers, files, budgets, early>>

(* main polls Done(), and with the coordinator everything comes to its end *)
Exit ==
  /\ Phase = DONE /\ Unlocked
  /\ exited' = TRUE
  /\ UNCHANGED <<Phase, taskTraceMap, generated, retrieving, fatal, taskQueue, workers, files,
                 budgets, early>>

-----------------------------------------------------------------------------
WorkerStep(w) ==
  \/ AskTask(w) \/ TakeTask(w) \/ RecordTask(w)
  \/ DoTask(w) \/ ReportTask(w)

Next ==
  \/ \E w \in Worker : WorkerStep(w) \/ Crash(w)
  \/ \E k \in Keys : Expire(k) \/ RetrieveTask(k)
  \/ GenerateReduceTask \/ StartRetrieving \/ Exit

Spec == Init /\ [][Next]_vars

(* Handlers and goroutines are scheduled, time passes, and the workers work *)
Fairness ==
  /\ \A w \in Worker : WF_vars(WorkerStep(w))
  /\ \A k \in Keys : WF_vars(Expire(k)) /\ WF_vars(RetrieveTask(k))
  /\ WF_vars(GenerateReduceTask) /\ WF_vars(StartRetrieving) /\ WF_vars(Exit)

FairSpec == Spec /\ Fairness

-----------------------------------------------------------------------------
TypeOK ==
  /\ Phase \in {MAP, REDUCE, DONE}
  /\ taskQueue \in Seq(Tasks) /\ Len(taskQueue) <= Capacity
  /\ taskTraceMap \in [Keys -> {NoTask} \cup [task : Tasks, expired : BOOLEAN]]
  /\ generated \in 0 .. nReduce
  /\ retrieving \subseteq Keys
  /\ at \in [Worker -> {"idle", "waiting", "taken", "working", "reporting", "quit"}]
  /\ task \in [Worker -> Tasks \cup {NoTask}]
  /\ tmpFiles \subseteq Tasks /\ finalFiles \subseteq Tasks
  /\ fatal \in BOOLEAN /\ exited \in BOOLEAN
  /\ slow \in 0 .. MaxSlow /\ crashes \in 0 .. MaxCrashes
  /\ early \in BOOLEAN

(* A phase is over only when all of its tasks have been done: every map output is in
   place when the phase is REDUCE, and every mr-out file when it is DONE.  ReportTask
   concludes it from an empty queue and an empty trace, as mr/README.md has it. *)
PhasesComplete ==
  /\ Phase # MAP => MapTasks \subseteq finalFiles
  /\ Phase = DONE => ReduceTasks \subseteq finalFiles

(* where task t is on its way to being done *)
Places(t) ==
  {<<"queued", i>> : i \in {j \in DOMAIN taskQueue : taskQueue[j] = t}}
  \cup {<<"taken", w>> : w \in {v \in Worker : at[v] = "taken" /\ task[v] = t}}
  \cup {<<"traced", k>> : k \in {j \in Keys : taskTraceMap[j] # NoTask /\ taskTraceMap[j].task = t}}
  \cup (IF t \in ReduceTasks /\ t.Id >= generated THEN {<<"to be generated", t.Id>>} ELSE {})

(* Through time-outs, crashes and reports that come late, a task that is not done is in
   exactly one place, so that it is neither lost nor given out twice before its deadline,
   and one that is done is never given out again (AssignTask, ReportTask,
   retriveTimeoutTasks, generateReduceTasks).  Only a report that ends a phase early puts
   an end to it: the task that was overlooked is then traced under the key of another. *)
OnePlace ==
  ~early => \A t \in Tasks : Cardinality(Places(t)) = IF t \in finalFiles THEN 0 ELSE 1

(* A report that is accepted finds the temporary files it is about, although several
   workers may write and report the same task: os.Rename does not kill the coordinator *)
RenameSucceeds == ~fatal

(* retriveTimeoutTasks never waits for room in the queue while it holds the lock that
   every handler needs, the handlers that would make room included *)
LockHolderProceeds == retrieving # {} => Len(taskQueue) < Capacity

(* The job ends, whatever workers die or are slow a finite number of times, unless a
   report ends a phase early *)
JobEnds == <>(exited \/ early)

=============================================================================
