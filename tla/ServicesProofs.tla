-------------------------- MODULE ServicesProofs --------------------------
(*************************************************************************)
(* The theorems of the parts beside the control plane: the model tasks,  *)
(* the contract ledger, the development backend, the runner and artifact *)
(* workers, the web page, the specialists and their thresholds, the GPU  *)
(* bakeoff, and the stem contract.  A section for each: its inductive    *)
(* invariant, one lemma per action, and what follows.                    *)
(*************************************************************************)
EXTENDS ModelTasks, ContractLedger, LocalBackend, RunnerWorkers, WorkerArtifacts, WebSession,
        SpecialistWorkers, SynthCalibration, GpuBakeoff, StemContract, Counting,
        FiniteSetTheorems, SequenceTheorems, TLAPS

-----------------------------------------------------------------------------
(*************************************************************************)
(* OwnOutputs for any number of tasks and threads.  Whose outputs end up *)
(* in a run directory is decided by the separator's output directory when*)
(* it separates, so the argument follows that setting: a task that       *)
(* separates has its own directory set (Directed), because nobody else   *)
(* holds its separator, or nobody else runs (Alone).                     *)
(*************************************************************************)

ModelTasksSpec == ModelTasksInit /\ [][ModelTasksNext]_modelTasksVars

\* The configurations the property is claimed for.
Apart == pool.MAX_WORKERS = 1 \/ ~pool.MODEL_CACHE

\* With one thread, one task is anywhere between its start and its end.
Alone ==
    pool.MAX_WORKERS = 1 =>
        \A t, u \in Tasks : task[t] \in Occupying /\ task[u] \in Occupying => t = u

\* A task holds the cached separator, or one of its own.
Holds ==
    \A t \in Tasks : task[t] \in {"directing", "separating"} =>
        separator[t] = IF pool.MODEL_CACHE THEN Cached ELSE t

\* A task separates into its own directory.
Directed == Apart => \A t \in Tasks : task[t] = "separating" => outputDir[separator[t]] = t

\* A run directory has nothing of other tasks, and what its own separated.
OwnRunDir ==
    Apart => \A t \in Tasks : /\ runDir[t] \subseteq {t}
                              /\ task[t] = "collecting" => runDir[t] = {t}

TasksInv == ModelTasksTypeOK /\ Alone /\ Holds /\ Directed /\ OwnRunDir /\ OwnOutputs

----------------------------------------------------------------------------

\* A step of a task keeps the types (_execute_model_task).
LEMMA TaskTypes == ASSUME ModelTasksTypeOK, NEW t \in Tasks, ModelTask(t) PROVE ModelTasksTypeOK'
  <1> USE TasksAssumption
  <1>1. ASSUME NEW from, NEW to \in TaskPcs, TaskStep(t, from, to) PROVE task' \in [Tasks -> TaskPcs]
    BY <1>1 DEF TaskStep, ModelTasksTypeOK
  <1>2. CASE StartTask(t) \/ CollectOutputs(t) \/ TaskRaises(t) \/ RemoveRunDir(t)
    <2>1. task' \in [Tasks -> TaskPcs]
      BY <1>1, <1>2 DEF StartTask, CollectOutputs, TaskRaises, RemoveRunDir, TaskPcs
    <2> QED BY <1>2, <2>1 DEF StartTask, CollectOutputs, TaskRaises, RemoveRunDir, ModelTasksTypeOK
  <1>3. CASE GetPythonSeparator(t)
    <2>1. task' \in [Tasks -> TaskPcs]
      BY <1>1, <1>3 DEF GetPythonSeparator, TaskPcs
    <2> QED BY <1>3, <2>1 DEF GetPythonSeparator, LoadPythonSeparator, ModelTasksTypeOK
  <1>4. CASE SetSeparatorOutputDir(t)
    <2>1. task' \in [Tasks -> TaskPcs]
      BY <1>1, <1>4 DEF SetSeparatorOutputDir, TaskPcs
    <2> QED BY <1>4, <2>1 DEF SetSeparatorOutputDir, ModelTasksTypeOK
  <1>5. CASE Separate(t)
    <2>1. task' \in [Tasks -> TaskPcs]
      BY <1>1, <1>5 DEF Separate, TaskPcs
    <2>2. runDir' \in [Tasks -> SUBSET Tasks]
      BY <1>5 DEF Separate, ModelTasksTypeOK
    <2> QED BY <1>5, <2>1, <2>2 DEF Separate, ModelTasksTypeOK
  <1> QED BY <1>2, <1>3, <1>4, <1>5 DEF ModelTask

\* A thread that is free finds no task under way if it is the only one.
LEMMA KeepsAlone == ASSUME TasksInv, NEW t \in Tasks, ModelTask(t) PROVE Alone'
  <1> SUFFICES ASSUME pool.MAX_WORKERS = 1 PROVE Alone'
    BY DEF ModelTask, StartTask, GetPythonSeparator, SetSeparatorOutputDir, Separate, CollectOutputs,
           TaskRaises, RemoveRunDir, Alone
  <1>1. CASE StartTask(t)
    <2> DEFINE running == {x \in Tasks : task[x] \in Occupying}
    <2>1. IsFiniteSet(running)
      BY TasksAssumption, FS_Subset
    <2>2. Cardinality(running) = 0
      BY <1>1, <2>1, FS_CardinalityType DEF StartTask
    <2>3. running = {}
      BY <2>1, <2>2, FS_EmptySet
    <2>4. \A u \in Tasks : u # t => task'[u] = task[u]
      BY <1>1 DEF StartTask, TaskStep, TasksInv, ModelTasksTypeOK
    <2> QED BY <2>3, <2>4 DEF Alone
  <1>2. CASE ~StartTask(t)
    <2>1. task[t] \in Occupying /\ \A u \in Tasks : u # t => task'[u] = task[u]
      BY <1>2 DEF ModelTask, GetPythonSeparator, SetSeparatorOutputDir, Separate, CollectOutputs, TaskRaises,
                  RemoveRunDir, TaskStep, Occupying, TasksInv, ModelTasksTypeOK
    <2> QED BY <2>1 DEF Alone, TasksInv
  <1> QED BY <1>1, <1>2

\* A step of a task keeps who holds which separator, and whose outputs are where.
LEMMA KeepsOutputs ==
  ASSUME TasksInv, NEW t \in Tasks, ModelTask(t)
  PROVE  Holds' /\ Directed' /\ OwnRunDir' /\ OwnOutputs'
  <1> USE TasksAssumption
  <1>0. pool' = pool
    BY DEF ModelTask, StartTask, GetPythonSeparator, SetSeparatorOutputDir, Separate, CollectOutputs,
           TaskRaises, RemoveRunDir
  <1>1. CASE StartTask(t) \/ TaskRaises(t) \/ RemoveRunDir(t)
    <2>1. /\ task'[t] \in {"loading", "failed", "cleaned"} /\ runDir'[t] \in {{}, runDir[t]}
          /\ \A u \in Tasks : u # t => task'[u] = task[u] /\ runDir'[u] = runDir[u]
          /\ UNCHANGED <<separator, outputDir, collected>>
      BY <1>1 DEF StartTask, TaskRaises, RemoveRunDir, TaskStep, TasksInv, ModelTasksTypeOK
    <2>2. Apart' = Apart
      BY <1>0 DEF Apart
    <2>3. Holds'
      BY <1>0, <2>1 DEF TasksInv, Holds
    <2>4. Directed'
      BY <2>1, <2>2 DEF TasksInv, Directed
    <2>5. OwnRunDir'
      BY <2>1, <2>2 DEF TasksInv, OwnRunDir
    <2>6. OwnOutputs'
      BY <1>0, <2>1 DEF TasksInv, OwnOutputs
    <2> QED BY <2>3, <2>4, <2>5, <2>6
  <1>2. CASE CollectOutputs(t)
    <2>1. /\ task[t] = "collecting" /\ task'[t] = "completed" /\ collected'[t] = runDir[t]
          /\ \A u \in Tasks : u # t => task'[u] = task[u] /\ collected'[u] = collected[u]
          /\ UNCHANGED <<separator, outputDir, runDir>>
      BY <1>2 DEF CollectOutputs, TaskStep, TasksInv, ModelTasksTypeOK
    <2>2. Apart' = Apart
      BY <1>0 DEF Apart
    <2>3. Holds'
      BY <1>0, <2>1 DEF TasksInv, Holds
    <2>4. Directed'
      BY <2>1, <2>2 DEF TasksInv, Directed
    <2>5. OwnRunDir'
      BY <2>1, <2>2 DEF TasksInv, OwnRunDir
    <2>6. Apart => runDir[t] = {t}
      BY <2>1 DEF TasksInv, OwnRunDir
    <2>7. OwnOutputs'
      BY <1>0, <2>1, <2>6 DEF TasksInv, OwnOutputs, Apart
    <2> QED BY <2>3, <2>4, <2>5, <2>7
  <1>3. CASE GetPythonSeparator(t)
    <2>1. /\ task[t] = "loading" /\ task'[t] = "directing"
          /\ separator'[t] = IF pool.MODEL_CACHE THEN Cached ELSE t
          /\ \A x \in Tasks \cup {Cached} : x # separator'[t] => outputDir'[x] = outputDir[x]
          /\ \A u \in Tasks : u # t => task'[u] = task[u] /\ separator'[u] = separator[u]
          /\ UNCHANGED <<runDir, collected>>
      BY <1>3 DEF GetPythonSeparator, LoadPythonSeparator, TaskStep, TasksInv, ModelTasksTypeOK
    <2>2. ASSUME Apart, NEW u \in Tasks, task'[u] = "separating" PROVE outputDir'[separator'[u]] = u
      <3>1. u # t /\ task[u] = "separating" /\ separator'[u] = separator[u]
        BY <2>1, <2>2
      <3>2. pool.MAX_WORKERS # 1 /\ ~pool.MODEL_CACHE
        BY <2>1, <2>2, <3>1 DEF TasksInv, Alone, Occupying, Apart
      <3>3. separator[u] = u /\ separator'[t] = t
        BY <2>1, <3>1, <3>2 DEF TasksInv, Holds
      <3> QED BY <2>1, <2>2, <3>1, <3>3 DEF TasksInv, Directed
    <2> QED BY <1>0, <2>1, <2>2 DEF TasksInv, Holds, Directed, OwnRunDir, OwnOutputs, Apart
  <1>4. CASE SetSeparatorOutputDir(t)
    <2>1. /\ task[t] = "directing" /\ task'[t] = "separating"
          /\ separator[t] \in Tasks \cup {Cached} /\ outputDir'[separator[t]] = t
          /\ \A x \in Tasks \cup {Cached} : x # separator[t] => outputDir'[x] = outputDir[x]
          /\ \A u \in Tasks : u # t => task'[u] = task[u]
          /\ UNCHANGED <<separator, runDir, collected>>
      BY <1>4 DEF SetSeparatorOutputDir, TaskStep, TasksInv, ModelTasksTypeOK, Holds
    <2>2. ASSUME Apart, NEW u \in Tasks, task'[u] = "separating", u # t PROVE outputDir'[separator'[u]] = u
      <3>1. task[u] = "separating"
        BY <2>1, <2>2
      <3>2. pool.MAX_WORKERS # 1 /\ ~pool.MODEL_CACHE
        BY <2>1, <2>2, <3>1 DEF TasksInv, Alone, Occupying, Apart
      <3>3. separator[u] = u /\ separator[t] = t
        BY <2>1, <3>1, <3>2 DEF TasksInv, Holds
      <3> QED BY <2>1, <2>2, <3>1, <3>3 DEF TasksInv, Directed
    <2> QED BY <1>0, <2>1, <2>2 DEF TasksInv, Holds, Directed, OwnRunDir, OwnOutputs, Apart
  <1>5. CASE Separate(t)
    <2>1. /\ task[t] = "separating" /\ task'[t] = "collecting"
          /\ runDir' = [runDir EXCEPT ![outputDir[separator[t]]] = @ \cup {t}]
          /\ \A u \in Tasks : u # t => task'[u] = task[u]
          /\ UNCHANGED <<separator, outputDir, collected>>
      BY <1>5 DEF Separate, TaskStep, TasksInv, ModelTasksTypeOK
    <2>2. Apart => /\ runDir'[t] = runDir[t] \cup {t}
                   /\ \A u \in Tasks : u # t => runDir'[u] = runDir[u]
      BY <2>1 DEF TasksInv, Directed, ModelTasksTypeOK
    <2> QED BY <1>0, <2>1, <2>2 DEF TasksInv, Holds, Directed, OwnRunDir, OwnOutputs, Apart
  <1> QED BY <1>1, <1>2, <1>3, <1>4, <1>5 DEF ModelTask

\* No task has begun (the pool starts empty).
LEMMA TasksBegin == ModelTasksInit => TasksInv
  BY TasksAssumption
  DEF ModelTasksInit, TasksInv, ModelTasksTypeOK, TaskPcs, Alone, Occupying, Holds, Directed,
     OwnRunDir, OwnOutputs

\* Every step keeps the invariant of the tasks.
LEMMA TasksKeep == TasksInv /\ [ModelTasksNext]_modelTasksVars => TasksInv'
  <1> SUFFICES ASSUME TasksInv, [ModelTasksNext]_modelTasksVars PROVE TasksInv'
    OBVIOUS
  <1>1. ASSUME NEW t \in Tasks, ModelTask(t) PROVE TasksInv'
    BY <1>1, TaskTypes, KeepsAlone, KeepsOutputs DEF TasksInv
  <1>2. CASE UNCHANGED modelTasksVars
    BY <1>2
    DEF modelTasksVars, TasksInv, ModelTasksTypeOK, Alone, Holds, Directed, OwnRunDir, OwnOutputs, Apart
  <1> QED BY <1>1, <1>2 DEF ModelTasksNext

\* Each task collects the outputs it separated and no others, for any number of tasks, if they
\* run one at a time or load a separator each (_execute_model_task, _set_separator_output_dir).
THEOREM OutputsAreOwn == ModelTasksSpec => []OwnOutputs
  <1>1. TasksInv => OwnOutputs
    BY DEF TasksInv
  <1> QED BY <1>1, TasksBegin, TasksKeep, PTL DEF ModelTasksSpec

-----------------------------------------------------------------------------
(*************************************************************************)
(* The ledger's theorems, for any jobs, attempts, runs and number of     *)
(* retries.  Whatever the dispatchers, the tasks and the callbacks do, a *)
(* step leaves what the ledger decided alone, notes a cancellation, or   *)
(* decides one job (Steps); the rest follows from these three.           *)
(*************************************************************************)

\* An effect belongs to the job of its attempt.
EffectsOwned == \A e \in effects : e.job = JobOf(e.attempt)

LedgerInv == LedgerTypeOK /\ EffectsOwned /\ OneTerminalEffect /\ PaidForCompleted

\* Nothing of what the abstract ledger shows changes.
SameDecisions ==
    /\ \A j \in Jobs : /\ jobs'[j].terminal_event_id = jobs[j].terminal_event_id
                       /\ jobs'[j].status = jobs[j].status
                       /\ jobs'[j].cancel_requested = jobs[j].cancel_requested
    /\ UNCHANGED <<effects, usage, artifacts>>

\* A callback decides its job.
Decides(c) ==
    /\ jobs[JobOf(c[1])].terminal_event_id = None
    /\ Settle(c)

----------------------------------------------------------------------------

\* Every statement of the ledger and of its tasks keeps the types.
LEMMA LedgerTypes == LedgerTypeOK /\ [LedgerNext]_ledgerVars => LedgerTypeOK'
  <1> SUFFICES ASSUME LedgerTypeOK, [LedgerNext]_ledgerVars PROVE LedgerTypeOK'
    OBVIOUS
  <1> USE LedgerAssumption
  <1>1. ASSUME NEW a \in Attempts, NEW proposed \in ExternalRuns, ReserveDispatch(a, proposed)
        PROVE  LedgerTypeOK'
    <2>1. JobOf(a) \in Jobs
      BY DEF Attempts, JobOf
    <2>2. jobs' \in [Jobs -> JobRows]
      BY <1>1, <2>1 DEF ReserveDispatch, LedgerTypeOK, JobRows
    <2> DEFINE settled == IF attempts[a].dispatched = None THEN proposed ELSE attempts[a].dispatched
    <2>3. settled \in ExternalRuns
      BY DEF LedgerTypeOK, AttemptRows
    <2>4. attempts' = [attempts EXCEPT ![a].known = TRUE, ![a].dispatched = settled,
                                       ![a].external_run_id = settled]
      BY <1>1 DEF ReserveDispatch
    <2> HIDE DEF settled
    <2>5. [attempts[a] EXCEPT !.known = TRUE, !.dispatched = settled, !.external_run_id = settled] \in AttemptRows
      BY <2>3 DEF LedgerTypeOK, AttemptRows
    <2>6. attempts' \in [Attempts -> AttemptRows]
      BY <2>4, <2>5 DEF LedgerTypeOK
    <2> QED BY <1>1, <2>2, <2>6 DEF ReserveDispatch, LedgerTypeOK
  <1>2. ASSUME NEW j \in Jobs, RequestLedgerCancel(j) PROVE LedgerTypeOK'
    <2>1. jobs' \in [Jobs -> JobRows]
      BY <1>2, ZenonT(30) DEF RequestLedgerCancel, LedgerTypeOK, JobRows
    <2> QED BY <1>2, <2>1 DEF RequestLedgerCancel, LedgerTypeOK
  <1>3. ASSUME NEW c \in Callbacks, ApplyCallback(c)
        PROVE  /\ jobs' \in [Jobs -> JobRows] /\ attempts' \in [Attempts -> AttemptRows]
               /\ callbacks' \subseteq Callbacks /\ effects' \subseteq Effects
               /\ usage' \subseteq Attempts /\ artifacts' \subseteq Attempts
    <2>1. c[1] \in Attempts /\ JobOf(c[1]) \in Jobs /\ c[2] \in TERMINAL_STATUSES
      BY DEF Callbacks, Attempts, JobOf
    <2>2. CASE Settle(c) /\ callbacks' = callbacks \cup {c}
      <3>1. EffectiveStatus(c) \in TERMINAL_STATUSES
        BY <2>1 DEF EffectiveStatus, TERMINAL_STATUSES
      <3>2. jobs' \in [Jobs -> JobRows]
        <4>1. [jobs[JobOf(c[1])] EXCEPT !.status = EffectiveStatus(c), !.terminal_event_id = c] \in JobRows
          BY <2>1, <3>1 DEF LedgerTypeOK, JobRows
        <4> QED BY <2>1, <2>2, <4>1 DEF Settle, LedgerTypeOK
      <3>3. attempts' \in [Attempts -> AttemptRows]
        BY <2>1, <2>2, <3>1 DEF Settle, LedgerTypeOK, AttemptRows
      <3>4. effects' \subseteq Effects /\ usage' \subseteq Attempts /\ artifacts' \subseteq Attempts
        BY <2>1, <2>2, <3>1 DEF Settle, LedgerTypeOK, Effects
      <3> QED BY <2>2, <3>2, <3>3, <3>4 DEF LedgerTypeOK
    <2>3. CASE UNCHANGED <<jobs, attempts, effects, usage, artifacts>> /\ callbacks' \in {callbacks, callbacks \cup {c}}
      BY <2>3 DEF LedgerTypeOK
    <2> QED BY <1>3, <2>2, <2>3 DEF ApplyCallback
  <1>4. ASSUME NEW c \in Callbacks, DeliverCallback(c) PROVE LedgerTypeOK'
    BY <1>3, <1>4 DEF DeliverCallback, LedgerTypeOK
  <1>5. ASSUME NEW i \in Invocations, NEW from, NEW to \in InvocationPcs, Reach(i, from, to)
        PROVE  invocation' \in [Invocations -> InvocationPcs]
    BY <1>5 DEF Reach, LedgerTypeOK
  <1>6. ASSUME NEW i \in Invocations, Invocation(i) PROVE LedgerTypeOK'
    <2>1. /\ AttemptOf(i) \in Attempts /\ i[2] \in 0 .. RETRIES
          /\ <<AttemptOf(i), "failed">> \in Callbacks /\ <<AttemptOf(i), "completed">> \in Callbacks
      BY DEF Invocations, AttemptOf, Callbacks, TERMINAL_STATUSES
    <2>2. CASE RecordExecutionStart(i)
      <3> DEFINE a == AttemptOf(i)
                 tries == Max2(attempts[a].retry_count, i[2])
                 started == [attempts[a] EXCEPT !.state = "running", !.retry_count = tries]
      <3>a. attempts \in [Attempts -> AttemptRows] /\ attempts[a] \in AttemptRows
        BY <2>1 DEF LedgerTypeOK
      <3>b. tries \in 0 .. RETRIES
        BY <2>1, <3>a DEF AttemptRows, Max2
      <3>c. attempts' = [attempts EXCEPT ![a] = started]
        BY <2>2, <3>a DEF RecordExecutionStart
      <3> HIDE DEF a, tries
      <3>d. started \in AttemptRows
        BY <3>a, <3>b DEF AttemptRows
      <3> HIDE DEF started
      <3>1. attempts' \in [Attempts -> AttemptRows]
        BY <3>a, <3>c, <3>d
      <3>2. invocation' \in [Invocations -> InvocationPcs]
        BY <1>5, <2>2 DEF RecordExecutionStart, InvocationPcs
      <3> QED BY <2>2, <3>1, <3>2 DEF RecordExecutionStart, LedgerTypeOK
    <2>3. CASE ClaimFault(i)
      <3>1. invocation' \in [Invocations -> InvocationPcs]
        BY <1>5, <2>3 DEF ClaimFault, InvocationPcs
      <3> QED BY <2>1, <2>3, <3>1 DEF ClaimFault, LedgerTypeOK
    <2>4. CASE Raise(i) \/ WorkerDies(i)
      <3>1. invocation' \in [Invocations -> InvocationPcs]
        BY <1>5, <2>4 DEF Raise, WorkerDies, InvocationPcs
      <3> QED BY <2>4, <3>1 DEF Raise, WorkerDies, LedgerTypeOK
    <2>5. CASE RetriesExhausted(i) \/ ReportCompleted(i)
      <3>1. invocation' \in [Invocations -> InvocationPcs]
        BY <1>5, <2>5 DEF RetriesExhausted, ReportCompleted, InvocationPcs
      <3> QED BY <1>3, <2>1, <2>5, <3>1 DEF RetriesExhausted, ReportCompleted, LedgerTypeOK
    <2> QED BY <1>6, <2>2, <2>3, <2>4, <2>5 DEF Invocation
  <1>7. CASE UNCHANGED ledgerVars
    BY <1>7 DEF ledgerVars, LedgerTypeOK
  <1> QED BY <1>1, <1>2, <1>4, <1>6, <1>7 DEF LedgerNext

\* Every step of the ledger is one of three.
LEMMA Steps ==
  LedgerTypeOK /\ [LedgerNext]_ledgerVars =>
    \/ SameDecisions
    \/ \E j \in Jobs : RequestLedgerCancel(j)
    \/ \E c \in Callbacks : Decides(c)
  <1> SUFFICES ASSUME LedgerTypeOK, [LedgerNext]_ledgerVars
               PROVE  \/ SameDecisions
                      \/ \E j \in Jobs : RequestLedgerCancel(j)
                      \/ \E c \in Callbacks : Decides(c)
    OBVIOUS
  <1>1. ASSUME NEW a \in Attempts, NEW proposed \in ExternalRuns, ReserveDispatch(a, proposed)
        PROVE  SameDecisions
    BY <1>1 DEF ReserveDispatch, SameDecisions, LedgerTypeOK, JobRows, Attempts, JobOf
  <1>2. ASSUME NEW c \in Callbacks, ApplyCallback(c) PROVE SameDecisions \/ Decides(c)
    BY <1>2 DEF ApplyCallback, SameDecisions, Decides
  <1>3. ASSUME NEW i \in Invocations, Invocation(i)
        PROVE  SameDecisions \/ \E c \in Callbacks : Decides(c)
    <2>1. <<AttemptOf(i), "failed">> \in Callbacks /\ <<AttemptOf(i), "completed">> \in Callbacks
      BY DEF Invocations, AttemptOf, Callbacks, TERMINAL_STATUSES
    <2>2. CASE RecordExecutionStart(i) \/ ClaimFault(i) \/ Raise(i) \/ WorkerDies(i)
      BY <2>2 DEF RecordExecutionStart, ClaimFault, Raise, WorkerDies, SameDecisions
    <2>3. CASE RetriesExhausted(i) \/ ReportCompleted(i)
      BY <1>2, <2>1, <2>3 DEF RetriesExhausted, ReportCompleted
    <2> QED BY <1>3, <2>2, <2>3 DEF Invocation
  <1>4. CASE UNCHANGED ledgerVars
    BY <1>4 DEF ledgerVars, SameDecisions
  <1> QED BY <1>1, <1>2, <1>3, <1>4 DEF LedgerNext, DeliverCallback

\* What a deciding callback writes.
LEMMA Decision ==
  ASSUME NEW c \in Callbacks, LedgerInv, LedgerTypeOK', Decides(c)
  PROVE  LET j == JobOf(c[1])
             e == [job |-> j, attempt |-> c[1], callback |-> c, status |-> EffectiveStatus(c)]
         IN  /\ j \in Jobs /\ c[1] \in Attempts /\ EffectiveStatus(c) \in TERMINAL_STATUSES
             /\ \A k \in Jobs : k # j => jobs'[k] = jobs[k]
             /\ jobs'[j].terminal_event_id = c /\ jobs'[j].status = EffectiveStatus(c)
             /\ jobs'[j].cancel_requested = jobs[j].cancel_requested
             /\ effects' = effects \cup {e} /\ EffectsOf(j) = {}
             /\ usage' = IF EffectiveStatus(c) = "completed" THEN usage \cup {c[1]} ELSE usage
             /\ artifacts' = usage'
  <1> DEFINE j == JobOf(c[1])
  <1>1. j \in Jobs /\ c[1] \in Attempts /\ c[2] \in TERMINAL_STATUSES
    BY DEF Callbacks, Attempts, JobOf
  <1>2. EffectiveStatus(c) \in TERMINAL_STATUSES
    BY <1>1 DEF EffectiveStatus, TERMINAL_STATUSES
  <1>3. /\ \A k \in Jobs : k # j => jobs'[k] = jobs[k]
        /\ jobs'[j].terminal_event_id = c /\ jobs'[j].status = EffectiveStatus(c)
        /\ jobs'[j].cancel_requested = jobs[j].cancel_requested
    BY <1>1 DEF Decides, Settle, LedgerInv, LedgerTypeOK, JobRows
  <1>4. EffectsOf(j) = {}
    <2> SUFFICES ASSUME NEW e \in EffectsOf(j) PROVE FALSE
      OBVIOUS
    <2>1. jobs[j].terminal_event_id = e.callback /\ e.callback \in Callbacks
      BY <1>1 DEF LedgerInv, OneTerminalEffect, EffectsOf, LedgerTypeOK, Effects
    <2> QED BY <2>1, LedgerAssumption DEF Decides
  <1>5. \A other \in artifacts : JobOf(other) # j
    <2> SUFFICES ASSUME NEW other \in artifacts, JobOf(other) = j PROVE FALSE
      OBVIOUS
    <2>1. PICK e \in effects : e.attempt = other
      BY DEF LedgerInv, PaidForCompleted
    <2> QED BY <1>4, <2>1 DEF LedgerInv, EffectsOwned, EffectsOf
  <1>6. artifacts' = usage'
    BY <1>5 DEF Decides, Settle, LedgerInv, PaidForCompleted
  <1> QED BY <1>1, <1>2, <1>3, <1>4, <1>6 DEF Decides, Settle

\* A statement of each kind keeps effects and payments together (_insert_terminal_effect).
LEMMA KeepsEffects == LedgerInv /\ [LedgerNext]_ledgerVars => LedgerInv'
  <1> SUFFICES ASSUME LedgerInv, [LedgerNext]_ledgerVars PROVE LedgerInv'
    OBVIOUS
  <1>1. LedgerTypeOK'
    BY LedgerTypes DEF LedgerInv
  <1>2. CASE SameDecisions
    BY <1>1, <1>2 DEF SameDecisions, LedgerInv, EffectsOwned, OneTerminalEffect, EffectsOf, PaidForCompleted
  <1>3. ASSUME NEW j \in Jobs, RequestLedgerCancel(j) PROVE LedgerInv'
    <2>1. \A k \in Jobs : /\ jobs'[k].terminal_event_id = jobs[k].terminal_event_id
                          /\ jobs[k].status \in TERMINAL_STATUSES => jobs'[k].status = jobs[k].status
                          /\ jobs'[k].status \in TERMINAL_STATUSES => jobs[k].status \in TERMINAL_STATUSES
      BY <1>3 DEF RequestLedgerCancel, LedgerInv, LedgerTypeOK, JobRows, TERMINAL_STATUSES
    <2>2. \A e \in effects : e.status \in TERMINAL_STATUSES
      BY DEF LedgerInv, LedgerTypeOK, Effects
    <2>3. UNCHANGED <<effects, usage, artifacts>>
      BY <1>3 DEF RequestLedgerCancel
    <2> QED BY <1>1, <2>1, <2>2, <2>3
            DEF LedgerInv, EffectsOwned, OneTerminalEffect, EffectsOf, PaidForCompleted
  <1>4. ASSUME NEW c \in Callbacks, Decides(c) PROVE LedgerInv'
    <2> DEFINE j == JobOf(c[1])
               e == [job |-> j, attempt |-> c[1], callback |-> c, status |-> EffectiveStatus(c)]
    <2>1. /\ j \in Jobs /\ EffectiveStatus(c) \in TERMINAL_STATUSES
          /\ \A k \in Jobs : k # j => jobs'[k] = jobs[k]
          /\ jobs'[j].terminal_event_id = c /\ jobs'[j].status = EffectiveStatus(c)
          /\ effects' = effects \cup {e} /\ EffectsOf(j) = {}
          /\ usage' = IF EffectiveStatus(c) = "completed" THEN usage \cup {c[1]} ELSE usage
          /\ artifacts' = usage'
      BY <1>1, <1>4, Decision
    <2>2. /\ e.job = j /\ e.attempt = c[1] /\ e.callback = c /\ e.status = EffectiveStatus(c)
      OBVIOUS
    <2> HIDE DEF e
    <2>3. EffectsOwned'
      BY <2>1, <2>2 DEF LedgerInv, EffectsOwned
    <2>4. /\ EffectsOf(j)' = {e}
          /\ \A k \in Jobs : k # j => EffectsOf(k)' = EffectsOf(k)
      BY <2>1, <2>2 DEF EffectsOf
    <2>5. OneTerminalEffect'
      <3>1. c # None
        BY LedgerAssumption
      <3> QED BY <2>1, <2>2, <2>4, <3>1 DEF LedgerInv, OneTerminalEffect
    <2>6. PaidForCompleted'
      BY <2>1, <2>2 DEF LedgerInv, PaidForCompleted
    <2> QED BY <1>1, <2>3, <2>5, <2>6 DEF LedgerInv
  <1> QED BY <1>2, <1>3, <1>4, Steps DEF LedgerInv

\* An empty ledger has decided nothing.
LEMMA LedgerBegins == LedgerInit => LedgerInv
  BY LedgerAssumption DEF LedgerInit, LedgerInv, LedgerTypeOK, JobRows, AttemptRows, TERMINAL_STATUSES,
     InvocationPcs, EffectsOwned, OneTerminalEffect, EffectsOf, PaidForCompleted

\* So the invariant of the ledger always holds.
LEMMA InvHolds == LedgerSpec => []LedgerInv
  BY LedgerBegins, KeepsEffects, PTL DEF LedgerSpec

----------------------------------------------------------------------------
(* The refinement of LedgerPromise: the mapped variables are those of Kept. *)

Outcome == [j \in Jobs |-> IF jobs[j].terminal_event_id = None THEN "undecided" ELSE jobs[j].status]
Withdrawn == {j \in Jobs : jobs[j].cancel_requested}
Paid == {JobOf(a) : a \in usage}

\* An empty ledger is the empty abstract one.
LEMMA BeginsAsPromised == LedgerInit => Kept!PromiseInit
  BY DEF LedgerInit, Kept!PromiseInit

\* A step that leaves the decisions alone is a stutter.
LEMMA SameIsStutter == ASSUME SameDecisions PROVE UNCHANGED <<Outcome, Withdrawn, Paid>>
  BY DEF SameDecisions, Outcome, Withdrawn, Paid

\* A cancellation withdraws its job and, if that was decided, shows nothing else.
LEMMA CancelWithdraws ==
  ASSUME LedgerInv, NEW j \in Jobs, RequestLedgerCancel(j)
  PROVE  Withdrawn' = Withdrawn \cup {j} /\ UNCHANGED <<Outcome, Paid>>
  <1>1. /\ jobs'[j].cancel_requested /\ jobs'[j].terminal_event_id = jobs[j].terminal_event_id
        /\ jobs[j].status \in TERMINAL_STATUSES => jobs'[j].status = jobs[j].status
        /\ \A k \in Jobs : k # j => jobs'[k] = jobs[k]
        /\ UNCHANGED usage
    BY DEF RequestLedgerCancel, LedgerInv, LedgerTypeOK, JobRows
  <1>2. jobs[j].terminal_event_id # None => jobs[j].status \in TERMINAL_STATUSES
    <2> SUFFICES ASSUME jobs[j].terminal_event_id # None PROVE jobs[j].status \in TERMINAL_STATUSES
      OBVIOUS
    <2>1. PICK e \in EffectsOf(j) : TRUE
      BY DEF LedgerInv, OneTerminalEffect
    <2>2. jobs[j].status = e.status /\ e \in Effects
      BY <2>1 DEF LedgerInv, OneTerminalEffect, LedgerTypeOK, EffectsOf
    <2> QED BY <2>2 DEF Effects
  <1> QED BY <1>1, <1>2 DEF Outcome, Withdrawn, Paid

\* A deciding callback decides its job, to completed only if nobody had cancelled it.
LEMMA DecidesOnce ==
  ASSUME LedgerInv, LedgerTypeOK', NEW c \in Callbacks, Decides(c)
  PROVE  /\ JobOf(c[1]) \in Jobs /\ EffectiveStatus(c) \in TERMINAL_STATUSES
         /\ Outcome[JobOf(c[1])] = "undecided"
         /\ EffectiveStatus(c) = "completed" => JobOf(c[1]) \notin Withdrawn
         /\ Outcome' = [Outcome EXCEPT ![JobOf(c[1])] = EffectiveStatus(c)]
         /\ Paid' = IF EffectiveStatus(c) = "completed" THEN Paid \cup {JobOf(c[1])} ELSE Paid
         /\ Withdrawn' = Withdrawn
  <1> DEFINE j == JobOf(c[1])
  <1>1. /\ j \in Jobs /\ EffectiveStatus(c) \in TERMINAL_STATUSES
        /\ \A k \in Jobs : k # j => jobs'[k] = jobs[k]
        /\ jobs'[j].terminal_event_id = c /\ jobs'[j].status = EffectiveStatus(c)
        /\ jobs'[j].cancel_requested = jobs[j].cancel_requested
        /\ usage' = IF EffectiveStatus(c) = "completed" THEN usage \cup {c[1]} ELSE usage
    BY Decision
  <1>2. c # None /\ jobs[j].terminal_event_id = None
    BY LedgerAssumption DEF Decides
  <1>3. EffectiveStatus(c) = "completed" => ~jobs[j].cancel_requested
    BY DEF EffectiveStatus
  <1>4. Outcome' = [Outcome EXCEPT ![j] = EffectiveStatus(c)]
    BY <1>1, <1>2 DEF Outcome
  <1>5. Withdrawn' = Withdrawn
    BY <1>1 DEF Withdrawn
  <1>6. Paid' = IF EffectiveStatus(c) = "completed" THEN Paid \cup {j} ELSE Paid
    BY <1>1 DEF Paid
  <1> QED BY <1>1, <1>2, <1>3, <1>4, <1>5, <1>6 DEF Outcome, Withdrawn

\* A statement decides or withdraws as the abstract ledger may, or changes nothing of it.
LEMMA StepsAsPromised ==
  LedgerInv /\ [LedgerNext]_ledgerVars => [Kept!PromiseNext]_(Kept!promiseVars)
  <1> SUFFICES ASSUME LedgerInv, [LedgerNext]_ledgerVars PROVE [Kept!PromiseNext]_(Kept!promiseVars)
    OBVIOUS
  <1>1. LedgerTypeOK'
    BY LedgerTypes DEF LedgerInv
  <1>2. CASE SameDecisions
    BY <1>2, SameIsStutter DEF Kept!promiseVars, Outcome, Withdrawn, Paid
  <1>3. ASSUME NEW j \in Jobs, RequestLedgerCancel(j) PROVE Kept!PromiseNext
    <2>1. Kept!Withdraw(j)
      BY <1>3, CancelWithdraws DEF Kept!Withdraw, Outcome, Withdrawn, Paid
    <2> QED BY <2>1 DEF Kept!PromiseNext
  <1>4. ASSUME NEW c \in Callbacks, Decides(c) PROVE Kept!PromiseNext
    <2>1. PICK status \in TERMINAL_STATUSES : status = EffectiveStatus(c)
      BY <1>1, <1>4, DecidesOnce
    <2>2. PICK j \in Jobs : j = JobOf(c[1])
      BY <1>1, <1>4, DecidesOnce
    <2>3. Kept!Decide(j, status)
      BY <1>1, <1>4, <2>1, <2>2, DecidesOnce DEF Kept!Decide, Outcome, Withdrawn, Paid
    <2> QED BY <2>3 DEF Kept!PromiseNext, TERMINAL_STATUSES, Kept!TERMINAL_STATUSES
  <1> QED BY <1>2, <1>3, <1>4, Steps DEF LedgerInv

----------------------------------------------------------------------------
(* The theorems.                                                            *)

\* Every table of the ledger keeps its type, and an attempt never counts more retries than
\* the task has.
THEOREM LedgerTyping == LedgerSpec => []LedgerTypeOK
  BY InvHolds, PTL DEF LedgerInv

\* A job has at most one terminal effect, which its row shows, for any number of attempts,
\* callbacks, repetitions and overlapping executions (apply_callback).
THEOREM OneEnd == LedgerSpec => []OneTerminalEffect
  BY InvHolds, PTL DEF LedgerInv

\* Usage and artifacts are those of the attempts that completed a job (apply_callback).
THEOREM CompletionsArePaid == LedgerSpec => []PaidForCompleted
  BY InvHolds, PTL DEF LedgerInv

\* A job cancelled before its end does not complete (apply_callback, request_cancel).
THEOREM CancelsStand == LedgerSpec => CancelBeatsCompletion
  <1>1. LedgerInv /\ [LedgerNext]_ledgerVars =>
          [\A j \in Jobs : jobs[j].cancel_requested /\ jobs[j].terminal_event_id = None
              => jobs'[j].status # "completed"]_ledgerVars
    <2> SUFFICES ASSUME LedgerInv, [LedgerNext]_ledgerVars,
                        NEW j \in Jobs, jobs[j].cancel_requested, jobs[j].terminal_event_id = None
                 PROVE  jobs'[j].status # "completed"
      OBVIOUS
    <2>1. jobs[j].status \notin TERMINAL_STATUSES
      BY DEF LedgerInv, OneTerminalEffect
    <2>2. CASE SameDecisions
      BY <2>1, <2>2 DEF SameDecisions, TERMINAL_STATUSES
    <2>3. ASSUME NEW k \in Jobs, RequestLedgerCancel(k) PROVE jobs'[j].status # "completed"
      BY <2>1, <2>3 DEF RequestLedgerCancel, LedgerInv, LedgerTypeOK, JobRows, TERMINAL_STATUSES
    <2>4. ASSUME NEW c \in Callbacks, Decides(c) PROVE jobs'[j].status # "completed"
      <3>1. LedgerTypeOK'
        BY LedgerTypes DEF LedgerInv
      <3> QED BY <2>1, <2>4, <3>1, Decision DEF EffectiveStatus, TERMINAL_STATUSES
    <2> QED BY <2>2, <2>3, <2>4, Steps DEF LedgerInv
  <1> QED BY <1>1, InvHolds, PTL DEF LedgerSpec, CancelBeatsCompletion

\* The tables of the ledger, with all the tasks and callbacks that write to them, implement
\* the promise: one decision per job with all its effects at once (ContractLedger).
THEOREM LedgerKeepsPromise == LedgerSpec => LedgerKept
  BY InvHolds, BeginsAsPromised, StepsAsPromised, PTL DEF LedgerSpec, LedgerKept, Kept!PromiseSpec

-----------------------------------------------------------------------------
(*************************************************************************)
(* The development backend: what is deleted stays deleted.  Nothing of a *)
(* job writes its file without reading it, and what is read is not there.*)
(*************************************************************************)

FilesTypeOK == file \in [LocalJobs -> JobStatuses \cup {"none", "torn"}]

\* A file that is not there stays away, unless the job is a new one.
NoReturn == \A i \in LocalJobs : i \in created /\ file[i] = "none" => file'[i] = "none"

\* No file is not a status.
LEMMA NotAStatus == "none" \notin JobStatuses
  BY DEF JobStatuses, ACTIVE_JOB_STATES, TERMINAL_JOB_STATES

\* An update writes over what was read only (JsonJobStore.update).
LEMMA UpdatesKeep ==
    ASSUME FilesTypeOK, NEW j \in LocalJobs, NEW status \in JobStatuses, Updates(j, status)
    PROVE  FilesTypeOK' /\ NoReturn
  BY NotAStatus DEF Updates, Accepts, FilesTypeOK, NoReturn

\* A statement of an execution brings no file back (run_job).
LEMMA RunKeeps ==
    ASSUME FilesTypeOK, NEW j \in LocalJobs, RunLocally(j) PROVE FilesTypeOK' /\ NoReturn
  <1>1. {"cancelled", "error", "running", "completed"} \subseteq JobStatuses
    BY DEF JobStatuses, ACTIVE_JOB_STATES, TERMINAL_JOB_STATES
  <1>2. CASE UNCHANGED file
    BY <1>2 DEF FilesTypeOK, NoReturn
  <1>3. CASE \E status \in {"cancelled", "error", "running", "completed"} : Updates(j, status)
    BY <1>1, <1>3, UpdatesKeep
  <1>4. UNCHANGED file \/ \E status \in {"cancelled", "error", "running", "completed"} : Updates(j, status)
    BY DEF RunLocally, Acquire, ReadJob, ReadLatest, SaveFailure, Saves
  <1>5. QED
    BY <1>2, <1>3, <1>4

\* Nor does a call of the API, whatever it had read before (create_job, submit_job, cancel_job,
\* resume_remote_job, delete_job).
LEMMA CallKeeps ==
    ASSUME FilesTypeOK, NEW j \in LocalJobs, LocalCall(j) PROVE FilesTypeOK' /\ NoReturn
  <1>1. {"cancelled", "queued", "cancelling"} \subseteq JobStatuses /\ ACTIVE_JOB_STATES \subseteq JobStatuses
    BY DEF JobStatuses, ACTIVE_JOB_STATES, TERMINAL_JOB_STATES
  <1>2. CASE UNCHANGED file
    BY <1>2 DEF FilesTypeOK, NoReturn
  <1>3. CASE CreateJob(j)
    BY <1>1, <1>3 DEF CreateJob, FilesTypeOK, NoReturn
  <1>4. CASE RequestCancel(j)
    BY <1>1, <1>2, <1>4, NotAStatus DEF RequestCancel, FilesTypeOK, NoReturn
  <1>5. CASE CancelRemote(j)
    BY <1>1, <1>2, <1>5, UpdatesKeep DEF CancelRemote
  <1>6. CASE Requeue(j)
    BY <1>1, <1>6, UpdatesKeep DEF Requeue
  <1>7. CASE DeleteJob(j)
    BY <1>2, <1>7 DEF DeleteJob, FilesTypeOK, NoReturn
  <1>8. QED
    BY <1>2, <1>3, <1>4, <1>5, <1>6, <1>7
       DEF LocalCall, Dispatch, RecordDispatchId, CancelFuture, ReadFailed, ReadEnded

\* Nor does any other step of the process.
LEMMA FilesKept ==
    ASSUME FilesTypeOK, [LocalNext]_localVars PROVE (FilesTypeOK' /\ NoReturn)
  <1>1. CASE ProcessEnds
    BY <1>1 DEF ProcessEnds, FilesTypeOK, NoReturn
  <1>2. ASSUME NEW j \in LocalJobs, PickUp(j) PROVE (FilesTypeOK' /\ NoReturn)
    BY <1>2 DEF PickUp, FilesTypeOK, NoReturn
  <1>3. CASE UNCHANGED localVars
    BY <1>3 DEF localVars, FilesTypeOK, NoReturn
  <1>4. QED
    BY <1>1, <1>2, <1>3, RunKeeps, CallKeeps DEF LocalNext, LocalThread

\* A job that was deleted stays deleted, however many jobs, threads and calls there are: neither
\* a run in its pipeline or handlers nor a submission, cancellation or resumption that had read
\* the job brings its file back (JsonJobStore.update, delete_job).
THEOREM DeletedStaysDeleted == LocalSpec => DeletedStays
  <1>1. LocalInit => FilesTypeOK
    BY DEF LocalInit, FilesTypeOK
  <1>2. FilesTypeOK /\ [LocalNext]_localVars => FilesTypeOK' /\ NoReturn
    BY FilesKept
  <1>3. NoReturn => [\A j \in LocalJobs : (j \in created /\ file[j] = "none") => file'[j] = "none"]_file
    BY DEF NoReturn
  <1>4. QED
    BY <1>1, <1>2, <1>3, PTL DEF LocalSpec, DeletedStays

-----------------------------------------------------------------------------
(*************************************************************************)
(* The runner workers: a completed answer serves the stems of its own    *)
(* excerpt, whichever calls died on the same disk before it.             *)
(*************************************************************************)

RunStatuses == {"none", "running", "completed", "error", "skipped"}
RunReports == [status : RunStatuses, excerpt : Nat, artifacts : SUBSET Stems, omitted : SUBSET Stems]
RunResults == [status : RunStatuses, artifacts : SUBSET Stems, omitted : SUBSET Stems]
SeparateCalls == [pc : {"idle", "received", "running", "copying", "reporting", "answered", "lost"},
                  excerpt : Nat, result : RunResults]

ToolPlaces == [pc : {"idle", "calling", "waiting", "downloading", "scoring"}, excerpt : Nat, reuse : BOOLEAN,
               status : RunReports, todo : SUBSET Stems]

RunnerTypeOK ==
    /\ runner \in {"bandit", "tuss", "cocktail_fork"}
    /\ separateCall \in SeparateCalls
    /\ raw \in [Stems -> Nat] /\ substems \in [Stems -> Nat]
    /\ runnerStatus \in RunReports
    /\ tool \in ToolPlaces
    /\ fetched \in [Stems -> [excerpt : Nat, whole : BOOLEAN]]

\* What the worker has made so far of the excerpt it was sent.
RunSoFar ==
    /\ separateCall.pc \in {"running", "copying", "reporting"} => runnerStatus.status = "running"
    /\ separateCall.result.status = "completed" =>
         /\ separateCall.result.artifacts = Stems
         /\ \A s \in Stems \ separateCall.result.omitted :
              /\ separateCall.pc = "copying" => raw[s] = separateCall.excerpt
              /\ separateCall.pc = "reporting" => substems[s] = separateCall.excerpt
    /\ runnerStatus.status = "completed" =>
         /\ runnerStatus.artifacts = Stems
         /\ \A s \in Stems \ runnerStatus.omitted : substems[s] = runnerStatus.excerpt

\* The tool waits for the answer to its own excerpt, and nobody sends another while it does.
AnswerOfTool ==
    /\ tool.pc = "waiting" =>
         /\ separateCall.pc # "idle"
         /\ separateCall.pc \in {"received", "running", "copying", "reporting"} => separateCall.excerpt = tool.excerpt
         /\ separateCall.pc = "answered" => runnerStatus.excerpt = tool.excerpt
    /\ tool.pc = "downloading" =>
         separateCall.pc = "idle" /\ tool.status = runnerStatus /\ runnerStatus.excerpt = tool.excerpt

\* What the tool has fetched is whole and the worker's.
FetchedSoFar ==
    /\ tool.pc = "downloading" =>
         \A s \in tool.status.artifacts \ tool.todo : fetched[s] = [excerpt |-> substems[s], whole |-> TRUE]
    /\ tool.pc = "scoring" /\ tool.status.status = "completed" =>
         tool.reuse \/ \A s \in Stems \ tool.status.omitted :
                         fetched[s] = [excerpt |-> tool.excerpt, whole |-> TRUE]
    /\ scored.worker_status = "completed" => scored.own

RunnerInv == RunnerTypeOK /\ RunSoFar /\ AnswerOfTool /\ FetchedSoFar

\* What a program leaves, however it exits: nothing else moves, and a completed run wrote
\* every stem but those it omitted.
RunEnded ==
    /\ separateCall.pc = "running" /\ separateCall'.pc = "copying"
    /\ separateCall'.excerpt = separateCall.excerpt /\ separateCall' \in SeparateCalls
    /\ raw' \in [Stems -> Nat]
    /\ separateCall'.result.status = "completed" =>
         /\ separateCall'.result.artifacts = Stems
         /\ \A s \in Stems \ separateCall'.result.omitted : raw'[s] = separateCall.excerpt
    /\ UNCHANGED <<runner, substems, runnerStatus, tool, fetched, scored>>

\* The result of a run is recorded and nothing else changes.
LEMMA RunResult ==
    ASSUME RunnerTypeOK, NEW status \in RunStatuses, NEW copied \in SUBSET Stems,
           NEW omitted \in SUBSET Stems, Results(status, copied, omitted)
    PROVE  /\ separateCall'.result = [status |-> status, artifacts |-> copied, omitted |-> omitted]
           /\ separateCall'.pc = "copying" /\ separateCall'.excerpt = separateCall.excerpt
           /\ separateCall' \in SeparateCalls
           /\ UNCHANGED <<runner, substems, runnerStatus, tool, fetched, scored>>
  BY DEF Results, WorkerOnly, RunnerTypeOK, SeparateCalls, RunResults

\* A program leaves numbers of excerpts.
LEMMA WritesTyped == ASSUME RunnerTypeOK, NEW written, Writes(written) PROVE raw' \in [Stems -> Nat]
  <1>1. separateCall.excerpt \in Nat /\ raw \in [Stems -> Nat]
    BY DEF RunnerTypeOK, SeparateCalls
  <1>2. QED
    BY <1>1 DEF Writes

\* A run without a result ends in an error or skipped, with no stem.
LEMMA RunFails ==
    ASSUME RunnerTypeOK, separateCall.pc = "running", raw' \in [Stems -> Nat],
           NEW status \in {"error", "skipped"}, Results(status, {}, {})
    PROVE  RunEnded
  <1>1. status \in RunStatuses /\ {} \in SUBSET Stems
    BY DEF RunStatuses
  <1>2. /\ separateCall'.result = [status |-> status, artifacts |-> {}, omitted |-> {}]
        /\ separateCall'.pc = "copying" /\ separateCall'.excerpt = separateCall.excerpt
        /\ separateCall' \in SeparateCalls
        /\ UNCHANGED <<runner, substems, runnerStatus, tool, fetched, scored>>
    BY <1>1, RunResult
  <1>3. separateCall'.result.status # "completed"
    BY <1>2
  <1>4. QED
    BY <1>2, <1>3 DEF RunEnded

\* A program that exits leaves what its worker makes of its exit code.
LEMMA ProgramEnds ==
    ASSUME RunnerTypeOK, separateCall.pc = "running", ProgramExits PROVE RunEnded
  <1>1. PICK written \in SUBSET Stems :
          /\ Writes(written)
          /\ Results("error", {}, {}) \/ ResultsOfFiles(written)
    BY DEF ProgramExits
  <1>2. CASE Results("error", {}, {})
    BY <1>1, <1>2, WritesTyped, RunFails
  <1>3. CASE ResultsOfFiles(written)
    <2> DEFINE copied == {s \in Stems : raw'[s] # 0}
               status == IF copied = Stems THEN "completed" ELSE "error"
    <2>1. /\ Results(status, copied, Stems \ written) /\ status \in RunStatuses
          /\ copied \in SUBSET Stems /\ Stems \ written \in SUBSET Stems
      BY <1>3 DEF ResultsOfFiles, RunStatuses
    <2>2. ASSUME NEW s \in Stems \ (Stems \ written) PROVE raw'[s] = separateCall.excerpt
      BY <1>1, <2>2 DEF Writes
    <2> HIDE DEF copied
    <2>3. /\ separateCall'.result = [status |-> status, artifacts |-> copied, omitted |-> Stems \ written]
          /\ separateCall'.pc = "copying" /\ separateCall'.excerpt = separateCall.excerpt
          /\ separateCall' \in SeparateCalls
          /\ UNCHANGED <<runner, substems, runnerStatus, tool, fetched, scored>>
      BY <2>1, RunResult
    <2>4. separateCall'.result.status = "completed" => separateCall'.result.artifacts = Stems /\ copied = Stems
      BY <2>3
    <2>5. raw' \in [Stems -> Nat]
      BY <1>1, WritesTyped
    <2>6. QED
      BY <2>2, <2>3, <2>4, <2>5 DEF RunEnded
  <1>4. QED
    BY <1>1, <1>2, <1>3

\* Whichever program a worker runs, it ends one of these ways.
LEMMA RunEnds == ASSUME RunnerTypeOK, RunCocktailFork \/ RunBandit \/ RunTuss PROVE RunEnded
  <1>1. CASE Results("skipped", {}, {}) /\ separateCall.pc = "running" /\ UNCHANGED raw
    <2>1. raw' \in [Stems -> Nat]
      BY <1>1 DEF RunnerTypeOK
    <2>2. QED
      BY <1>1, <2>1, RunFails
  <1>2. CASE Results("error", {}, {}) /\ separateCall.pc = "running" /\ UNCHANGED raw
    <2>1. raw' \in [Stems -> Nat]
      BY <1>2 DEF RunnerTypeOK
    <2>2. QED
      BY <1>2, <2>1, RunFails
  <1>3. CASE Writes(Stems) /\ Results("completed", Stems, {}) /\ separateCall.pc = "running"
    <2>1. \A s \in Stems : raw'[s] = separateCall.excerpt
      BY <1>3 DEF Writes
    <2>2. raw' \in [Stems -> Nat] /\ "completed" \in RunStatuses /\ Stems \in SUBSET Stems /\ {} \in SUBSET Stems
      BY <1>3, WritesTyped DEF RunStatuses
    <2>3. /\ separateCall'.result = [status |-> "completed", artifacts |-> Stems, omitted |-> {}]
          /\ separateCall'.pc = "copying" /\ separateCall'.excerpt = separateCall.excerpt
          /\ separateCall' \in SeparateCalls
          /\ UNCHANGED <<runner, substems, runnerStatus, tool, fetched, scored>>
      BY <1>3, <2>2, RunResult
    <2>4. QED
      BY <1>3, <2>1, <2>2, <2>3 DEF RunEnded
  <1>4. QED
    BY <1>1, <1>2, <1>3, ProgramEnds DEF RunCocktailFork, RunBandit, RunTuss

\* A tool that ends keeps its type and goes on looking idle, with nothing left to fetch.
LEMMA ToolEnded ==
    ASSUME RunnerTypeOK, ToolEnds
    PROVE  tool' \in ToolPlaces /\ tool'.pc = "idle" /\ tool'.reuse = FALSE
  <1> DEFINE kept == [NoStatusYet EXCEPT !.status = tool.status.status]
  <1>1. tool \in ToolPlaces /\ tool.status \in RunReports
    BY DEF RunnerTypeOK, ToolPlaces
  <1>2. kept \in RunReports
    BY <1>1 DEF NoStatusYet, RunReports, RunStatuses
  <1> HIDE DEF kept
  <1>3. tool' = [tool EXCEPT !.pc = "idle", !.reuse = FALSE, !.todo = {}, !.status = kept]
    BY DEF ToolEnds, kept
  <1>4. QED
    BY <1>1, <1>2, <1>3 DEF ToolPlaces

\* Every step keeps the types of worker and tool.
LEMMA RunnerTypes ==
    ASSUME RunnerTypeOK, [RunnerNext]_runnerVars PROVE RunnerTypeOK'
  <1> USE DEF RunnerTypeOK, ToolPlaces, SeparateCalls, RunReports, RunResults, RunStatuses
  <1>1. ASSUME ReceiveExcerpt PROVE RunnerTypeOK'
    BY <1>1 DEF ReceiveExcerpt, WorkerOnly, NoStatusYet
  <1>2. ASSUME RunCocktailFork PROVE RunnerTypeOK'
    BY <1>2, RunEnds DEF RunEnded
  <1>3. ASSUME RunBandit PROVE RunnerTypeOK'
    BY <1>3, RunEnds DEF RunEnded
  <1>4. ASSUME RunTuss PROVE RunnerTypeOK'
    BY <1>4, RunEnds DEF RunEnded
  <1>5. ASSUME CopyStems PROVE RunnerTypeOK'
    BY <1>5 DEF CopyStems, WorkerOnly
  <1>6. ASSUME ReportRun PROVE RunnerTypeOK'
    BY <1>6 DEF ReportRun, WorkerOnly, NoResult
  <1>7. ASSUME RunnerDies PROVE RunnerTypeOK'
    BY <1>7 DEF RunnerDies, WorkerOnly, NoResult
  <1>8. ASSUME CallTool PROVE RunnerTypeOK'
    <2>1. PICK e \in Nat, reuse \in BOOLEAN : tool' = [tool EXCEPT !.pc = "calling", !.excerpt = e, !.reuse = reuse]
      <3>1. PICK e \in {tool.excerpt, tool.excerpt + 1}, reuse \in BOOLEAN :
              tool' = [tool EXCEPT !.pc = "calling", !.excerpt = e, !.reuse = reuse /\ runner = "cocktail_fork"]
        BY <1>8 DEF CallTool
      <3>2. e \in Nat /\ (reuse /\ runner = "cocktail_fork") \in BOOLEAN
        OBVIOUS
      <3>3. QED
        BY <3>1, <3>2
    <2>2. QED
      BY <1>8, <2>1 DEF CallTool, ToolOnly
  <1>9. ASSUME ReuseStems PROVE RunnerTypeOK'
    BY <1>9 DEF ReuseStems, ToolOnly, Reusable
  <1>10. ASSUME PostExcerpt PROVE RunnerTypeOK'
    BY <1>10 DEF PostExcerpt, ToolOnly, NoResult
  <1>11. ASSUME ReadAnswer PROVE RunnerTypeOK'
    <2>1. CASE tool' = [tool EXCEPT !.status = runnerStatus, !.pc = "downloading", !.todo = runnerStatus.artifacts]
      BY <1>11, <2>1 DEF ReadAnswer, ToolOnly
    <2>2. CASE ToolEnds
      BY <1>11, <2>2, ToolEnded DEF ReadAnswer, ToolOnly
    <2>3. QED
      BY <1>11, <2>1, <2>2 DEF ReadAnswer
  <1>12. ASSUME FetchStem PROVE RunnerTypeOK'
    <2>1. CASE tool.todo = {} /\ tool' = [tool EXCEPT !.pc = "scoring"] /\ UNCHANGED fetched
      BY <1>12, <2>1 DEF FetchStem, ToolOnly
    <2>2. CASE \E s \in tool.todo : fetched' = [fetched EXCEPT ![s] = [excerpt |-> substems[s], whole |-> FALSE]] /\ UNCHANGED tool
      BY <1>12, <2>2 DEF FetchStem, ToolOnly
    <2>3. CASE \E s \in tool.todo : fetched' = [fetched EXCEPT ![s].whole = TRUE] /\ tool' = [tool EXCEPT !.todo = @ \ {s}]
      <3>1. PICK s \in tool.todo : fetched' = [fetched EXCEPT ![s].whole = TRUE] /\ tool' = [tool EXCEPT !.todo = @ \ {s}]
        BY <2>3
      <3>2. fetched' \in [Stems -> [excerpt : Nat, whole : BOOLEAN]]
        BY <3>1
      <3>3. /\ tool.todo \ {s} \in SUBSET Stems
            /\ UNCHANGED <<runner, raw, substems, runnerStatus, separateCall>>
        BY <1>12 DEF FetchStem, ToolOnly
      <3>4. QED
        BY <3>1, <3>2, <3>3
    <2>4. QED
      BY <1>12, <2>1, <2>2, <2>3 DEF FetchStem
  <1>13. ASSUME ScoreStems PROVE RunnerTypeOK'
    BY <1>13, ToolEnded DEF ScoreStems, ToolOnly
  <1>14. ASSUME ToolDies PROVE RunnerTypeOK'
    BY <1>14, ToolEnded DEF ToolDies, ToolOnly
  <1>15. CASE UNCHANGED runnerVars
    BY <1>15 DEF runnerVars
  <1>16. QED
    BY <1>1, <1>2, <1>3, <1>4, <1>5, <1>6, <1>7, <1>8, <1>9, <1>10, <1>11, <1>12, <1>13, <1>14,
       <1>15 DEF RunnerNext

\* What the worker has made stays that of its excerpt.
LEMMA RunSteps ==
    ASSUME RunnerTypeOK, RunSoFar, [RunnerNext]_runnerVars PROVE RunSoFar'
  <1> USE DEF RunnerTypeOK, ToolPlaces, SeparateCalls, RunReports, RunResults, RunStatuses, RunSoFar, AllStems
  <1>1. ASSUME ReceiveExcerpt PROVE RunSoFar'
    BY <1>1 DEF ReceiveExcerpt, WorkerOnly, NoStatusYet
  <1>2. ASSUME RunCocktailFork PROVE RunSoFar'
    BY <1>2, RunEnds DEF RunEnded
  <1>3. ASSUME RunBandit PROVE RunSoFar'
    BY <1>3, RunEnds DEF RunEnded
  <1>4. ASSUME RunTuss PROVE RunSoFar'
    BY <1>4, RunEnds DEF RunEnded
  <1>5. ASSUME CopyStems PROVE RunSoFar'
    BY <1>5 DEF CopyStems, WorkerOnly
  <1>6. ASSUME ReportRun PROVE RunSoFar'
    BY <1>6 DEF ReportRun, WorkerOnly, NoResult
  <1>7. ASSUME RunnerDies PROVE RunSoFar'
    BY <1>7 DEF RunnerDies, WorkerOnly, NoResult
  <1>8. ASSUME CallTool PROVE RunSoFar'
    BY <1>8 DEF CallTool, ToolOnly
  <1>9. ASSUME ReuseStems PROVE RunSoFar'
    BY <1>9 DEF ReuseStems, ToolOnly, Reusable
  <1>10. ASSUME PostExcerpt PROVE RunSoFar'
    BY <1>10 DEF PostExcerpt, ToolOnly, NoResult
  <1>11. ASSUME ReadAnswer PROVE RunSoFar'
    BY <1>11 DEF ReadAnswer, ToolOnly, ToolEnds
  <1>12. ASSUME FetchStem PROVE RunSoFar'
    BY <1>12 DEF FetchStem, ToolOnly
  <1>13. ASSUME ScoreStems PROVE RunSoFar'
    BY <1>13 DEF ScoreStems, ToolOnly, ToolEnds
  <1>14. ASSUME ToolDies PROVE RunSoFar'
    BY <1>14 DEF ToolDies, ToolOnly, ToolEnds
  <1>15. CASE UNCHANGED runnerVars
    BY <1>15 DEF runnerVars
  <1>16. QED
    BY <1>1, <1>2, <1>3, <1>4, <1>5, <1>6, <1>7, <1>8, <1>9, <1>10, <1>11, <1>12, <1>13, <1>14,
       <1>15 DEF RunnerNext

\* The tool is answered of its own excerpt.
LEMMA AnswerSteps ==
    ASSUME RunnerTypeOK, RunSoFar, AnswerOfTool, [RunnerNext]_runnerVars PROVE AnswerOfTool'
  <1> USE DEF RunnerTypeOK, ToolPlaces, SeparateCalls, RunReports, RunResults, AnswerOfTool
  <1>1. ASSUME ReceiveExcerpt PROVE AnswerOfTool'
    BY <1>1 DEF ReceiveExcerpt, WorkerOnly, NoStatusYet
  <1>2. ASSUME RunCocktailFork PROVE AnswerOfTool'
    BY <1>2, RunEnds DEF RunEnded
  <1>3. ASSUME RunBandit PROVE AnswerOfTool'
    BY <1>3, RunEnds DEF RunEnded
  <1>4. ASSUME RunTuss PROVE AnswerOfTool'
    BY <1>4 DEF RunTuss, Results, Writes, WorkerOnly
  <1>5. ASSUME CopyStems PROVE AnswerOfTool'
    BY <1>5 DEF CopyStems, WorkerOnly
  <1>6. ASSUME ReportRun PROVE AnswerOfTool'
    BY <1>6 DEF ReportRun, WorkerOnly, NoResult
  <1>7. ASSUME RunnerDies PROVE AnswerOfTool'
    BY <1>7 DEF RunnerDies, WorkerOnly, NoResult
  <1>8. ASSUME CallTool PROVE AnswerOfTool'
    BY <1>8 DEF CallTool, ToolOnly
  <1>9. ASSUME ReuseStems PROVE AnswerOfTool'
    BY <1>9 DEF ReuseStems, ToolOnly, Reusable
  <1>10. ASSUME PostExcerpt PROVE AnswerOfTool'
    BY <1>10 DEF PostExcerpt, ToolOnly, NoResult
  <1>11. ASSUME ReadAnswer PROVE AnswerOfTool'
    BY <1>11 DEF ReadAnswer, ToolOnly, ToolEnds
  <1>12. ASSUME FetchStem PROVE AnswerOfTool'
    BY <1>12 DEF FetchStem, ToolOnly
  <1>13. ASSUME ScoreStems PROVE AnswerOfTool'
    BY <1>13 DEF ScoreStems, ToolOnly, ToolEnds
  <1>14. ASSUME ToolDies PROVE AnswerOfTool'
    BY <1>14 DEF ToolDies, ToolOnly, ToolEnds
  <1>15. CASE UNCHANGED runnerVars
    BY <1>15 DEF runnerVars
  <1>16. QED
    BY <1>1, <1>2, <1>3, <1>4, <1>5, <1>6, <1>7, <1>8, <1>9, <1>10, <1>11, <1>12, <1>13, <1>14,
       <1>15 DEF RunnerNext

\* A whole copy is one of the stem it was made from.
LEMMA WholeCopy ==
    ASSUME NEW excerpt \in Nat, NEW part \in [excerpt : Nat, whole : BOOLEAN],
           part = [excerpt |-> excerpt, whole |-> FALSE]
    PROVE  [part EXCEPT !.whole = TRUE] = [excerpt |-> excerpt, whole |-> TRUE]
  <1> DEFINE copy == [part EXCEPT !.whole = TRUE]
  <1>1. copy \in [excerpt : Nat, whole : BOOLEAN]
    OBVIOUS
  <1>2. copy.excerpt = excerpt /\ copy.whole = TRUE
    OBVIOUS
  <1> HIDE DEF copy
  <1>3. copy = [excerpt |-> excerpt, whole |-> TRUE]
    BY <1>1, <1>2
  <1>4. QED
    BY <1>3 DEF copy

\* What the tool fetches is whole and of the worker (_download).
LEMMA FetchSteps ==
    ASSUME RunnerTypeOK, RunSoFar, AnswerOfTool, FetchedSoFar, [RunnerNext]_runnerVars PROVE FetchedSoFar'
  <1> USE
       DEF RunnerTypeOK, ToolPlaces, SeparateCalls, RunReports, RunResults, RunSoFar, AnswerOfTool, FetchedSoFar, AllStems
  <1>1. ASSUME ReceiveExcerpt PROVE FetchedSoFar'
    BY <1>1 DEF ReceiveExcerpt, WorkerOnly
  <1>2. ASSUME RunCocktailFork PROVE FetchedSoFar'
    BY <1>2, RunEnds DEF RunEnded
  <1>3. ASSUME RunBandit PROVE FetchedSoFar'
    BY <1>3, RunEnds DEF RunEnded
  <1>4. ASSUME RunTuss PROVE FetchedSoFar'
    BY <1>4, RunEnds DEF RunEnded
  <1>5. ASSUME CopyStems PROVE FetchedSoFar'
    BY <1>5 DEF CopyStems, WorkerOnly
  <1>6. ASSUME ReportRun PROVE FetchedSoFar'
    BY <1>6 DEF ReportRun, WorkerOnly, NoResult
  <1>7. ASSUME RunnerDies PROVE FetchedSoFar'
    BY <1>7 DEF RunnerDies, WorkerOnly, NoResult
  <1>8. ASSUME CallTool PROVE FetchedSoFar'
    BY <1>8 DEF CallTool, ToolOnly
  <1>9. ASSUME ReuseStems PROVE FetchedSoFar'
    BY <1>9 DEF ReuseStems, ToolOnly, Reusable
  <1>10. ASSUME PostExcerpt PROVE FetchedSoFar'
    BY <1>10 DEF PostExcerpt, ToolOnly, NoResult
  <1>11. ASSUME ReadAnswer PROVE FetchedSoFar'
    <2>1. /\ tool'.pc \in {"idle", "downloading"}
          /\ (tool'.pc = "downloading" => tool'.todo = tool'.status.artifacts)
      <3>1. CASE tool' = [tool EXCEPT !.status = runnerStatus, !.pc = "downloading", !.todo = runnerStatus.artifacts]
        BY <3>1
      <3>2. CASE ToolEnds
        BY <3>2 DEF ToolEnds
      <3>3. QED
        BY <1>11, <3>1, <3>2 DEF ReadAnswer
    <2>2. UNCHANGED scored
      BY <1>11 DEF ReadAnswer
    <2>3. QED
      BY <2>1, <2>2
  <1>12. ASSUME FetchStem PROVE FetchedSoFar'
    <2>1. CASE tool.todo = {} /\ tool' = [tool EXCEPT !.pc = "scoring"] /\ UNCHANGED fetched
      <3>1. tool.pc = "downloading" /\ UNCHANGED <<substems, runnerStatus, scored>>
        BY <1>12 DEF FetchStem, ToolOnly
      <3>2. tool'.pc = "scoring" /\ tool'.status = tool.status /\ tool'.excerpt = tool.excerpt
        BY <2>1
      <3>3. ASSUME tool.status.status = "completed", NEW s \in Stems \ tool.status.omitted
            PROVE  fetched'[s] = [excerpt |-> tool.excerpt, whole |-> TRUE]
        <4>1. substems[s] = tool.excerpt /\ tool.status.artifacts = Stems
          BY <3>1, <3>3
        <4>2. fetched'[s] = [excerpt |-> substems[s], whole |-> TRUE]
          BY <2>1, <3>1, <3>3, <4>1
        <4>3. QED
          BY <4>1, <4>2
      <3>4. tool'.reuse = tool.reuse /\ tool'.status = tool.status
        BY <2>1
      <3>5. QED
        BY <2>1, <3>1, <3>2, <3>3, <3>4
    <2>2. CASE \E s \in tool.todo : fetched' = [fetched EXCEPT ![s] = [excerpt |-> substems[s], whole |-> FALSE]] /\ UNCHANGED tool
      BY <1>12, <2>2 DEF FetchStem, ToolOnly
    <2>3. CASE \E s \in tool.todo : /\ fetched[s] = [excerpt |-> substems[s], whole |-> FALSE]
                                    /\ fetched' = [fetched EXCEPT ![s].whole = TRUE]
                                    /\ tool' = [tool EXCEPT !.todo = @ \ {s}]
      <3>1. PICK s \in tool.todo : /\ fetched[s] = [excerpt |-> substems[s], whole |-> FALSE]
                                  /\ fetched' = [fetched EXCEPT ![s].whole = TRUE]
                                  /\ tool' = [tool EXCEPT !.todo = @ \ {s}]
        BY <2>3
      <3>2. /\ fetched'[s] = [excerpt |-> substems[s], whole |-> TRUE]
            /\ \A t \in Stems \ {s} : fetched'[t] = fetched[t]
        <4>1. s \in Stems /\ fetched'[s] = [fetched[s] EXCEPT !.whole = TRUE]
          BY <3>1
        <4>2. [fetched[s] EXCEPT !.whole = TRUE] = [excerpt |-> substems[s], whole |-> TRUE]
          <5>1. substems[s] \in Nat /\ fetched[s] \in [excerpt : Nat, whole : BOOLEAN]
            BY <3>1
          <5>2. QED
            BY <3>1, <5>1, WholeCopy
        <4>3. QED
          BY <3>1, <4>1, <4>2
      <3>3. tool'.todo = tool.todo \ {s} /\ tool'.status = tool.status /\ tool'.pc = tool.pc
        BY <3>1
      <3>4. tool.pc = "downloading" /\ UNCHANGED <<substems, scored>>
        BY <1>12 DEF FetchStem, ToolOnly
      <3>5. ASSUME NEW t \in tool'.status.artifacts \ tool'.todo
            PROVE  fetched'[t] = [excerpt |-> substems'[t], whole |-> TRUE]
        <4>1. t = s \/ (t # s /\ t \in Stems /\ t \in tool.status.artifacts \ tool.todo)
          BY <3>3, <3>5
        <4>2. ASSUME t # s PROVE fetched[t] = [excerpt |-> substems[t], whole |-> TRUE]
          BY <3>4, <4>1, <4>2
        <4>3. substems' = substems
          BY <3>4
        <4>4. QED
          BY <3>2, <4>1, <4>2, <4>3, Zenon
      <3>6. QED
        BY <3>3, <3>4, <3>5
    <2>4. QED
      BY <1>12, <2>1, <2>2, <2>3 DEF FetchStem
  <1>13. ASSUME ScoreStems PROVE FetchedSoFar'
    BY <1>13 DEF ScoreStems, ToolOnly, ToolEnds
  <1>14. ASSUME ToolDies PROVE FetchedSoFar'
    BY <1>14 DEF ToolDies, ToolOnly, ToolEnds
  <1>15. CASE UNCHANGED runnerVars
    BY <1>15 DEF runnerVars
  <1>16. QED
    BY <1>1, <1>2, <1>3, <1>4, <1>5, <1>6, <1>7, <1>8, <1>9, <1>10, <1>11, <1>12, <1>13, <1>14,
       <1>15 DEF RunnerNext

\* So the invariant of the runner workers always holds.
LEMMA RunnerInvariant == RunnerSpec => []RunnerInv
  <1>1. RunnerInit => RunnerInv
    <2> SUFFICES ASSUME RunnerInit PROVE RunnerInv
      OBVIOUS
    <2>1. RunnerTypeOK
      BY DEF RunnerInit, RunnerTypeOK, ToolPlaces, RunReports, RunResults, RunStatuses, SeparateCalls, AllStems,
             NoResult, NoStatusYet
    <2>2. RunSoFar /\ AnswerOfTool /\ FetchedSoFar
      BY DEF RunnerInit, RunSoFar, AnswerOfTool, FetchedSoFar, NoResult, NoStatusYet, NoScore
    <2>3. QED
      BY <2>1, <2>2 DEF RunnerInv
  <1>2. RunnerInv /\ [RunnerNext]_runnerVars => RunnerInv'
    BY RunnerTypes, RunSteps, AnswerSteps, FetchSteps DEF RunnerInv
  <1>3. QED
    BY <1>1, <1>2, PTL DEF RunnerSpec

\* For any stems and excerpts: a completed status serves the stems of its own excerpt, and a
\* call of the tool that does not ask for reuse scores them, all but those that a program left
\* unwritten and yet exited 0; no files that an earlier run of the job id left pass for those
\* of a run that failed (run_bandit, run_tuss, run_cocktail_fork, separate).
THEOREM CompletedServesItsOwn == RunnerSpec => []CompletedIsOwn
  <1>1. RunnerInv => CompletedIsOwn
    BY DEF RunnerInv, RunSoFar, FetchedSoFar, CompletedIsOwn
  <1>2. QED
    BY <1>1, RunnerInvariant, PTL

-----------------------------------------------------------------------------
(*************************************************************************)
(* The import of the artifacts of a remote job: completed means that all *)
(* the artifacts the worker announced last are copied or referenced.     *)
(*************************************************************************)

Places == {"polling", "importing", "merging", "downloads", "bundle", "extracting", "copying",
           "artifacts", "completed", "failed"}
Futures == {"none", "running", "done", "failed", "collected"}
Executions ==
    [pc : Places, number : Nat, status : {"running", "completed", "error"}, payload : SUBSET Artifacts,
     objects : BOOLEAN, seen : SUBSET Artifacts, referenced : SUBSET Artifacts, bundle_downloaded : BOOLEAN,
     futures : [Artifacts -> Futures]]
Remotes == [status : {"running", "completed", "error"}, published : SUBSET Artifacts, objects : BOOLEAN]

ImportTypeOK ==
    /\ execution \in Executions
    /\ remote \in Remotes
    /\ folder \in [Artifacts -> {"none", "torn", "whole"}]

\* A terminal payload is the worker's last word, and it is the last one that is polled.
LastPayload ==
    /\ execution.status # "running" =>
         /\ remote.status = execution.status /\ remote.published = execution.payload
         /\ remote.objects = execution.objects
    /\ remote.objects => remote.status = "completed"
    /\ execution.objects => execution.status = "completed"
    /\ execution.pc = "polling" => execution.status = "running"
    /\ execution.seen \subseteq execution.payload /\ execution.payload \subseteq remote.published
    /\ \A a \in Artifacts : execution.futures[a] # "none" => a \in execution.payload

\* What counts as imported is whole, except while a bundle or a copy is written over it.
ImportedSoFar ==
    /\ execution.pc \notin {"extracting", "copying", "failed"} => \A a \in execution.seen : folder[a] = "whole"
    /\ execution.pc = "downloads" =>
         \A a \in Artifacts : execution.futures[a] \in {"done", "collected"} => folder[a] = "whole"
    /\ execution.bundle_downloaded =>
         /\ execution.pc \in {"artifacts", "polling", "completed", "failed"}
         /\ execution.pc = "artifacts" => \A a \in execution.payload : folder[a] = "whole"

\* No allowed entry is left aside: each is imported, has its download or is referenced.
NothingLeftOut ==
    /\ execution.pc \in {"downloads", "bundle", "extracting", "copying", "artifacts"} => ~execution.objects
    /\ execution.pc = "merging" =>
         IF execution.objects THEN execution.payload \cap Allowed \subseteq execution.referenced
         ELSE execution.status # "completed"
    /\ execution.pc = "downloads" =>
         \A a \in execution.payload \cap Allowed : execution.futures[a] \in {"none", "collected"} => a \in execution.seen
    /\ execution.pc = "completed" =>
         /\ execution.status = "completed"
         /\ execution.payload \cap Allowed \subseteq IF execution.objects THEN execution.referenced ELSE execution.seen

ImportInv == ImportTypeOK /\ LastPayload /\ ImportedSoFar /\ NothingLeftOut

\* Where an import goes from its choice.
LEMMA Chosen ==
    ASSUME ChooseImport
    PROVE  \/ /\ ~execution.objects
              /\ \/ Becomes([pc |-> "downloads", futures |-> [a \in Artifacts |-> IF a \in Entries THEN "running" ELSE "none"]])
                 \/ Becomes([pc |-> "copying"])
                 \/ Becomes([pc |-> "artifacts"])
                 \/ Becomes([pc |-> "bundle"])
           \/ Becomes([pc |-> "merging"]) /\ execution.status # "completed"
           \/ Becomes([pc |-> "merging", referenced |-> execution.payload \cap Allowed]) /\ execution.objects
  BY DEF ChooseImport

\* Every step of an import keeps the types.
LEMMA ImportTypes ==
    ASSUME ImportTypeOK, [ArtifactsNext]_artifactVars PROVE ImportTypeOK'
  <1> USE DEF ImportTypeOK, Executions, Remotes, Places, Futures
  <1>1. ASSUME PublishArtifacts PROVE ImportTypeOK'
    BY <1>1 DEF PublishArtifacts
  <1>2. ASSUME PollWorker PROVE ImportTypeOK'
    <2>1. /\ UNCHANGED <<remote, folder>>
          /\ remote.published \in SUBSET Artifacts /\ remote.status \in {"running", "completed", "error"}
          /\ NoFutures \in [Artifacts -> Futures]
      BY <1>2 DEF PollWorker, NoFutures
    <2>2. CASE ImportRaises
      BY <2>1, <2>2 DEF ImportRaises, Becomes
    <2>3. CASE Becomes([pc |-> "importing", payload |-> remote.published, status |-> remote.status,
                        objects |-> remote.objects, bundle_downloaded |-> FALSE, futures |-> NoFutures])
      <3> HIDE DEF NoFutures
      <3>1. QED
        BY <2>1, <2>3 DEF Becomes
    <2>4. QED
      BY <1>2, <2>2, <2>3 DEF PollWorker
  <1>3. ASSUME ChooseImport PROVE ImportTypeOK'
    <2> DEFINE running == [a \in Artifacts |-> IF a \in Entries THEN "running" ELSE "none"]
    <2>1. execution.pc = "importing" /\ UNCHANGED <<remote, folder>>
      BY <1>3 DEF ChooseImport
    <2>2. CASE Becomes([pc |-> "downloads", futures |-> running])
      <3>1. /\ running \in [Artifacts -> Futures]
            /\ \A a \in Artifacts : running[a] = IF a \in Entries THEN "running" ELSE "none"
        BY DEF Futures
      <3> HIDE DEF running
      <3>2. QED
        BY <2>1, <2>2, <3>1 DEF Becomes, Entries
    <2>3. CASE Becomes([pc |-> "copying"])
      BY <2>1, <2>3 DEF Becomes
    <2>4. CASE Becomes([pc |-> "artifacts"])
      BY <2>1, <2>4 DEF Becomes
    <2>5. CASE Becomes([pc |-> "bundle"])
      BY <2>1, <2>5 DEF Becomes
    <2>6. CASE Becomes([pc |-> "merging"]) /\ execution.status # "completed"
      BY <2>1, <2>6 DEF Becomes
    <2>7. CASE Becomes([pc |-> "merging", referenced |-> execution.payload \cap Allowed]) /\ execution.objects
      BY <2>1, <2>7 DEF Becomes
    <2>8. QED
      BY <1>3, <2>2, <2>3, <2>4, <2>5, <2>6, <2>7, Chosen
  <1>4. ASSUME NEW a \in Artifacts, DownloadOne(a) PROVE ImportTypeOK'
    BY <1>4 DEF DownloadOne, Becomes, ImportRaises
  <1>5. ASSUME NEW a \in Artifacts, CollectFuture(a) PROVE ImportTypeOK'
    BY <1>5 DEF CollectFuture, Becomes, ImportRaises
  <1>6. ASSUME MergeWorkerGroups PROVE ImportTypeOK'
    BY <1>6 DEF MergeWorkerGroups, Becomes, ImportRaises, Entries
  <1>7. ASSUME DownloadBundle PROVE ImportTypeOK'
    BY <1>7 DEF DownloadBundle, Becomes, ImportRaises
  <1>8. ASSUME CopyFile PROVE ImportTypeOK'
    BY <1>8 DEF CopyFile
  <1>9. ASSUME CopyEnds PROVE ImportTypeOK'
    <2>1. execution.pc \in {"extracting", "copying"} /\ UNCHANGED <<remote, folder>>
      BY <1>9 DEF CopyEnds
    <2>2. CASE ImportRaises
      BY <2>1, <2>2 DEF ImportRaises, Becomes
    <2>3. CASE (\A a \in execution.payload : folder[a] = "whole") /\ Becomes([pc |-> "artifacts", bundle_downloaded |-> TRUE])
      BY <2>1, <2>3 DEF Becomes
    <2>4. QED
      BY <1>9, <2>2, <2>3 DEF CopyEnds
  <1>10. ASSUME CopyArtifact PROVE ImportTypeOK'
    BY <1>10 DEF CopyArtifact, Becomes, ImportRaises, Entries
  <1>11. ASSUME ExecutionDies PROVE ImportTypeOK'
    BY <1>11 DEF ExecutionDies, Becomes, ImportRaises
  <1>12. ASSUME ExecuteAgain PROVE ImportTypeOK'
    BY <1>12 DEF ExecuteAgain, NewExecution, NewRemote, NoFutures
  <1>13. CASE UNCHANGED artifactVars
    BY <1>13 DEF artifactVars
  <1>14. QED
    BY <1>1, <1>2, <1>3, <1>4, <1>5, <1>6, <1>7, <1>8, <1>9, <1>10, <1>11, <1>12, <1>13 DEF ArtifactsNext

\* What was polled is what the worker published so far.
LEMMA PayloadSteps ==
    ASSUME ImportTypeOK, LastPayload, [ArtifactsNext]_artifactVars PROVE LastPayload'
  <1> USE DEF ImportTypeOK, Executions, Remotes, Places, Futures, LastPayload
  <1>1. ASSUME PublishArtifacts PROVE LastPayload'
    BY <1>1 DEF PublishArtifacts
  <1>2. ASSUME PollWorker PROVE LastPayload'
    BY <1>2 DEF PollWorker, Becomes, ImportRaises, NoFutures
  <1>3. ASSUME ChooseImport PROVE LastPayload'
    <2> DEFINE running == [a \in Artifacts |-> IF a \in Entries THEN "running" ELSE "none"]
    <2>1. execution.pc = "importing" /\ UNCHANGED <<remote, folder>>
      BY <1>3 DEF ChooseImport
    <2>2. CASE Becomes([pc |-> "downloads", futures |-> running])
      <3>1. /\ running \in [Artifacts -> Futures]
            /\ \A a \in Artifacts : running[a] = IF a \in Entries THEN "running" ELSE "none"
        BY DEF Futures
      <3> HIDE DEF running
      <3>2. QED
        BY <2>1, <2>2, <3>1 DEF Becomes, Entries
    <2>3. CASE Becomes([pc |-> "copying"])
      BY <2>1, <2>3 DEF Becomes
    <2>4. CASE Becomes([pc |-> "artifacts"])
      BY <2>1, <2>4 DEF Becomes
    <2>5. CASE Becomes([pc |-> "bundle"])
      BY <2>1, <2>5 DEF Becomes
    <2>6. CASE Becomes([pc |-> "merging"]) /\ execution.status # "completed"
      BY <2>1, <2>6 DEF Becomes
    <2>7. CASE Becomes([pc |-> "merging", referenced |-> execution.payload \cap Allowed]) /\ execution.objects
      BY <2>1, <2>7 DEF Becomes
    <2>8. QED
      BY <1>3, <2>2, <2>3, <2>4, <2>5, <2>6, <2>7, Chosen
  <1>4. ASSUME NEW a \in Artifacts, DownloadOne(a) PROVE LastPayload'
    BY <1>4 DEF DownloadOne, Becomes, ImportRaises
  <1>5. ASSUME NEW a \in Artifacts, CollectFuture(a) PROVE LastPayload'
    BY <1>5 DEF CollectFuture, Becomes, ImportRaises
  <1>6. ASSUME MergeWorkerGroups PROVE LastPayload'
    BY <1>6 DEF MergeWorkerGroups, Becomes, ImportRaises, Entries
  <1>7. ASSUME DownloadBundle PROVE LastPayload'
    BY <1>7 DEF DownloadBundle, Becomes, ImportRaises
  <1>8. ASSUME CopyFile PROVE LastPayload'
    BY <1>8 DEF CopyFile
  <1>9. ASSUME CopyEnds PROVE LastPayload'
    BY <1>9 DEF CopyEnds, Becomes, ImportRaises
  <1>10. ASSUME CopyArtifact PROVE LastPayload'
    BY <1>10 DEF CopyArtifact, Becomes, ImportRaises, Entries
  <1>11. ASSUME ExecutionDies PROVE LastPayload'
    BY <1>11 DEF ExecutionDies, Becomes, ImportRaises
  <1>12. ASSUME ExecuteAgain PROVE LastPayload'
    BY <1>12 DEF ExecuteAgain, NewExecution, NewRemote, NoFutures
  <1>13. CASE UNCHANGED artifactVars
    BY <1>13 DEF artifactVars
  <1>14. QED
    BY <1>1, <1>2, <1>3, <1>4, <1>5, <1>6, <1>7, <1>8, <1>9, <1>10, <1>11, <1>12, <1>13 DEF ArtifactsNext

\* What counts as imported stays whole.
LEMMA ImportSteps ==
    ASSUME ImportTypeOK, LastPayload, ImportedSoFar, [ArtifactsNext]_artifactVars PROVE ImportedSoFar'
  <1> USE DEF ImportTypeOK, Executions, Remotes, Places, Futures, LastPayload, ImportedSoFar
  <1>1. ASSUME PublishArtifacts PROVE ImportedSoFar'
    BY <1>1 DEF PublishArtifacts
  <1>2. ASSUME PollWorker PROVE ImportedSoFar'
    BY <1>2 DEF PollWorker, Becomes, ImportRaises, NoFutures
  <1>3. ASSUME ChooseImport PROVE ImportedSoFar'
    <2> DEFINE running == [a \in Artifacts |-> IF a \in Entries THEN "running" ELSE "none"]
    <2>1. execution.pc = "importing" /\ UNCHANGED <<remote, folder>>
      BY <1>3 DEF ChooseImport
    <2>2. CASE Becomes([pc |-> "downloads", futures |-> running])
      <3>1. /\ running \in [Artifacts -> Futures]
            /\ \A a \in Artifacts : running[a] = IF a \in Entries THEN "running" ELSE "none"
        BY DEF Futures
      <3> HIDE DEF running
      <3>2. QED
        BY <2>1, <2>2, <3>1 DEF Becomes, Entries
    <2>3. CASE Becomes([pc |-> "copying"])
      BY <2>1, <2>3 DEF Becomes
    <2>4. CASE Becomes([pc |-> "artifacts"])
      BY <2>1, <2>4 DEF Becomes
    <2>5. CASE Becomes([pc |-> "bundle"])
      BY <2>1, <2>5 DEF Becomes
    <2>6. CASE Becomes([pc |-> "merging"]) /\ execution.status # "completed"
      BY <2>1, <2>6 DEF Becomes
    <2>7. CASE Becomes([pc |-> "merging", referenced |-> execution.payload \cap Allowed]) /\ execution.objects
      BY <2>1, <2>7 DEF Becomes
    <2>8. QED
      BY <1>3, <2>2, <2>3, <2>4, <2>5, <2>6, <2>7, Chosen
  <1>4. ASSUME NEW a \in Artifacts, DownloadOne(a) PROVE ImportedSoFar'
    BY <1>4 DEF DownloadOne, Becomes, ImportRaises
  <1>5. ASSUME NEW a \in Artifacts, CollectFuture(a) PROVE ImportedSoFar'
    BY <1>5 DEF CollectFuture, Becomes, ImportRaises
  <1>6. ASSUME MergeWorkerGroups PROVE ImportedSoFar'
    BY <1>6 DEF MergeWorkerGroups, Becomes, ImportRaises, Entries
  <1>7. ASSUME DownloadBundle PROVE ImportedSoFar'
    <2>1. execution.pc = "bundle" /\ UNCHANGED <<remote, folder>>
      BY <1>7 DEF DownloadBundle
    <2>2. CASE ImportRaises
      BY <2>1, <2>2 DEF ImportRaises, Becomes
    <2>3. CASE Becomes([pc |-> "artifacts"])
      BY <2>1, <2>3 DEF Becomes
    <2>4. CASE Becomes([pc |-> "extracting"])
      BY <2>1, <2>4 DEF Becomes
    <2>5. QED
      BY <1>7, <2>2, <2>3, <2>4 DEF DownloadBundle
  <1>8. ASSUME CopyFile PROVE ImportedSoFar'
    BY <1>8 DEF CopyFile
  <1>9. ASSUME CopyEnds PROVE ImportedSoFar'
    <2>1. execution.pc \in {"extracting", "copying"} /\ UNCHANGED <<remote, folder>>
      BY <1>9 DEF CopyEnds
    <2>2. CASE ImportRaises
      BY <2>1, <2>2 DEF ImportRaises, Becomes
    <2>3. CASE (\A a \in execution.payload : folder[a] = "whole") /\ Becomes([pc |-> "artifacts", bundle_downloaded |-> TRUE])
      BY <2>1, <2>3 DEF Becomes
    <2>4. QED
      BY <1>9, <2>2, <2>3 DEF CopyEnds
  <1>10. ASSUME CopyArtifact PROVE ImportedSoFar'
    BY <1>10 DEF CopyArtifact, Becomes, ImportRaises, Entries
  <1>11. ASSUME ExecutionDies PROVE ImportedSoFar'
    BY <1>11 DEF ExecutionDies, Becomes, ImportRaises
  <1>12. ASSUME ExecuteAgain PROVE ImportedSoFar'
    BY <1>12 DEF ExecuteAgain, NewExecution, NewRemote, NoFutures
  <1>13. CASE UNCHANGED artifactVars
    BY <1>13 DEF artifactVars
  <1>14. QED
    BY <1>1, <1>2, <1>3, <1>4, <1>5, <1>6, <1>7, <1>8, <1>9, <1>10, <1>11, <1>12, <1>13 DEF ArtifactsNext

\* No artifact is left aside, in any of the modes (copy_worker_artifacts).
LEMMA LeftOutSteps ==
    ASSUME ImportTypeOK, LastPayload, NothingLeftOut, [ArtifactsNext]_artifactVars PROVE NothingLeftOut'
  <1> USE DEF ImportTypeOK, Executions, Remotes, Places, Futures, LastPayload, NothingLeftOut
  <1>1. ASSUME PublishArtifacts PROVE NothingLeftOut'
    BY <1>1 DEF PublishArtifacts
  <1>2. ASSUME PollWorker PROVE NothingLeftOut'
    BY <1>2 DEF PollWorker, Becomes, ImportRaises, NoFutures
  <1>3. ASSUME ChooseImport PROVE NothingLeftOut'
    <2> DEFINE running == [a \in Artifacts |-> IF a \in Entries THEN "running" ELSE "none"]
    <2>1. execution.pc = "importing" /\ UNCHANGED <<remote, folder>>
      BY <1>3 DEF ChooseImport
    <2>2. CASE Becomes([pc |-> "downloads", futures |-> running]) /\ ~execution.objects
      <3>1. /\ running \in [Artifacts -> Futures]
            /\ \A a \in Artifacts : running[a] = IF a \in Entries THEN "running" ELSE "none"
        BY DEF Futures
      <3> HIDE DEF running
      <3>2. QED
        BY <2>1, <2>2, <3>1 DEF Becomes, Entries
    <2>3. CASE Becomes([pc |-> "copying"]) /\ ~execution.objects
      BY <2>1, <2>3 DEF Becomes
    <2>4. CASE Becomes([pc |-> "artifacts"]) /\ ~execution.objects
      BY <2>1, <2>4 DEF Becomes
    <2>5. CASE Becomes([pc |-> "bundle"]) /\ ~execution.objects
      BY <2>1, <2>5 DEF Becomes
    <2>6. CASE Becomes([pc |-> "merging"]) /\ execution.status # "completed"
      BY <2>1, <2>6 DEF Becomes
    <2>7. CASE Becomes([pc |-> "merging", referenced |-> execution.payload \cap Allowed]) /\ execution.objects
      BY <2>1, <2>7 DEF Becomes
    <2>8. QED
      BY <1>3, <2>2, <2>3, <2>4, <2>5, <2>6, <2>7, Chosen
  <1>4. ASSUME NEW a \in Artifacts, DownloadOne(a) PROVE NothingLeftOut'
    BY <1>4 DEF DownloadOne, Becomes, ImportRaises
  <1>5. ASSUME NEW a \in Artifacts, CollectFuture(a) PROVE NothingLeftOut'
    BY <1>5 DEF CollectFuture, Becomes, ImportRaises
  <1>6. ASSUME MergeWorkerGroups PROVE NothingLeftOut'
    BY <1>6 DEF MergeWorkerGroups, Becomes, ImportRaises, Entries
  <1>7. ASSUME DownloadBundle PROVE NothingLeftOut'
    BY <1>7 DEF DownloadBundle, Becomes, ImportRaises
  <1>8. ASSUME CopyFile PROVE NothingLeftOut'
    BY <1>8 DEF CopyFile
  <1>9. ASSUME CopyEnds PROVE NothingLeftOut'
    BY <1>9 DEF CopyEnds, Becomes, ImportRaises
  <1>10. ASSUME CopyArtifact PROVE NothingLeftOut'
    BY <1>10 DEF CopyArtifact, Becomes, ImportRaises, Entries
  <1>11. ASSUME ExecutionDies PROVE NothingLeftOut'
    BY <1>11 DEF ExecutionDies, Becomes, ImportRaises
  <1>12. ASSUME ExecuteAgain PROVE NothingLeftOut'
    BY <1>12 DEF ExecuteAgain, NewExecution, NewRemote, NoFutures
  <1>13. CASE UNCHANGED artifactVars
    BY <1>13 DEF artifactVars
  <1>14. QED
    BY <1>1, <1>2, <1>3, <1>4, <1>5, <1>6, <1>7, <1>8, <1>9, <1>10, <1>11, <1>12, <1>13 DEF ArtifactsNext

\* So the invariant of the import always holds.
LEMMA ImportInvariant == ArtifactsSpec => []ImportInv
  <1>1. ArtifactsInit => ImportInv
    BY 
    DEF ArtifactsInit, ImportInv, ImportTypeOK, Executions, Remotes, Places, Futures, LastPayload,
        ImportedSoFar,
           NothingLeftOut, NewExecution, NewRemote, NoFutures
  <1>2. ImportInv /\ [ArtifactsNext]_artifactVars => ImportInv'
    BY ImportTypes, PayloadSteps, ImportSteps, LeftOutSteps DEF ImportInv
  <1>3. QED
    BY <1>1, <1>2, PTL DEF ArtifactsSpec

\* For any artifacts, allowlist, modes and number of executions: the folder of a completed job
\* has every allowed artifact of the worker whole, though downloads failed, fell back to the
\* bundle or a copy, or were cut short in this execution or an earlier one
\* (copy_worker_artifacts).
THEOREM CompletedImportIsWhole == ArtifactsSpec => []ImportedFiles
  <1>1. ImportInv => ImportedFiles
    BY 
    DEF ImportInv, ImportTypeOK, Executions, Remotes, LastPayload, ImportedSoFar, NothingLeftOut,
        ImportedFiles, Wanted
  <1>2. QED
    BY <1>1, ImportInvariant, PTL

-----------------------------------------------------------------------------
(*************************************************************************)
(* The web page: an end it shows is, or was, an end of its job.           *)
(*************************************************************************)

PageStatuses == {"none", "active", "cancelling"} \cup TERMINAL_STATES
ServedStatuses == PageStatuses \cup {"gone"}
ApiRequests == [kind : {"none", "refresh", "cancel"}, job_id : WebJobs \cup {NoJob},
             answer : PageStatuses \cup {"sent", "raised"}]

WebTypeOK ==
    /\ served \in [WebJobs -> ServedStatuses]
    /\ job \in [job_id : WebJobs \cup {NoJob}, status : PageStatuses]
    /\ requests \in [Requests -> ApiRequests]
    /\ url \in WebJobs \cup {NoJob}
    /\ \A r \in Requests : requests[r].answer = "sent" => requests[r].job_id \in WebJobs

\* The job has this status, or had it and left it.
HadEnd(j, status) == served[j] = status \/ <<j, status>> \in left

\* That a job has ended is true of it wherever the page has it, or was.
EndsAreTrue ==
    /\ job.status \in TERMINAL_STATES => job.job_id \in WebJobs /\ HadEnd(job.job_id, job.status)
    /\ \A r \in Requests : requests[r].answer \in TERMINAL_STATES =>
        requests[r].job_id \in WebJobs /\ HadEnd(requests[r].job_id, requests[r].answer)

WebInv == WebTypeOK /\ EndsAreTrue

\* An end that the API has or had of a job stays one that it has or had.
EndsStay ==
    \A j \in WebJobs : \A status \in TERMINAL_STATES : HadEnd(j, status) => HadEnd(j, status)'

\* An answer is put to its own request.
LEMMA AnswersFit ==
    ASSUME WebInv, NEW r \in Requests, NEW status \in PageStatuses \cup {"raised"},
           requests' = [requests EXCEPT ![r].answer = status]
    PROVE  /\ requests' \in [Requests -> ApiRequests]
           /\ requests'[r].job_id = requests[r].job_id /\ requests'[r].answer = status
           /\ \A q \in Requests \ {r} : requests'[q] = requests[q]
  BY DEF WebInv, WebTypeOK, ApiRequests

\* What is sent is a request for one job, without an answer yet.
LEMMA RequestsFit ==
    ASSUME WebInv, NEW kind \in {"refresh", "cancel"}, NEW j \in WebJobs, Sent(kind, j)
    PROVE  \E r \in Requests :
             /\ requests' \in [Requests -> ApiRequests]
             /\ requests'[r].job_id = j /\ requests'[r].answer = "sent"
             /\ \A q \in Requests \ {r} : requests'[q] = requests[q]
  <1>1. PICK r \in Requests :
          requests' = [requests EXCEPT ![r] = [kind |-> kind, job_id |-> j, answer |-> "sent"]]
    BY DEF Sent
  <1>2. [kind |-> kind, job_id |-> j, answer |-> "sent"] \in ApiRequests
    BY DEF ApiRequests
  <1>3. QED
    BY <1>1, <1>2 DEF WebInv, WebTypeOK

\* So sending keeps the invariant.
LEMMA SendingKeeps ==
    ASSUME WebInv, NEW kind \in {"refresh", "cancel"}, NEW j \in WebJobs, Sent(kind, j),
           UNCHANGED <<served, left, job, url>>
    PROVE  WebInv'
  <1>1. PICK r \in Requests :
             /\ requests' \in [Requests -> ApiRequests]
             /\ requests'[r].job_id = j /\ requests'[r].answer = "sent"
             /\ \A q \in Requests \ {r} : requests'[q] = requests[q]
    BY RequestsFit
  <1>2. "sent" \notin TERMINAL_STATES
    BY DEF TERMINAL_STATES
  <1>3. WebTypeOK'
    BY <1>1 DEF WebInv, WebTypeOK
  <1>4. EndsAreTrue'
    BY <1>1, <1>2 DEF WebInv, EndsAreTrue, HadEnd
  <1>5. QED
    BY <1>3, <1>4 DEF WebInv

\* While only the API moves, an end that the page has stays true.
LEMMA EndedSteps == ASSUME WebInv, EndsStay, served' \in [WebJobs -> ServedStatuses],
                           UNCHANGED <<job, url, requests>> PROVE WebInv'
  BY DEF WebInv, WebTypeOK, EndsAreTrue, EndsStay

\* Every step of page and API keeps the invariant.
LEMMA WebSteps == ASSUME WebInv, [WebNext]_webVars PROVE WebInv'
  <1>1. ASSUME JobEnds PROVE WebInv'
    <2>1. EndsStay /\ served' \in [WebJobs -> ServedStatuses]
      BY <1>1 DEF JobEnds, EndsStay, HadEnd, WebInv, WebTypeOK, TERMINAL_STATES, PageStatuses, ServedStatuses
    <2>2. QED
      BY <1>1, <2>1, EndedSteps DEF JobEnds, pageVars
  <1>2. ASSUME Answer PROVE WebInv'
    <2>1. PICK r \in Requests :
            LET j == requests[r].job_id IN
            /\ requests[r].answer = "sent"
            /\ \E status \in IF requests[r].kind = "cancel" THEN CancelledFrom(served[j]) ELSE {served[j]} :
                 /\ served' = [served EXCEPT ![j] = status]
                 /\ \/ requests' = [requests EXCEPT ![r].answer = IF status = "gone" THEN "raised" ELSE status]
                    \/ requests' = [requests EXCEPT ![r].answer = "raised"]
      BY <1>2 DEF Answer
    <2> DEFINE j == requests[r].job_id
    <2>2. j \in WebJobs
      BY <2>1 DEF WebInv, WebTypeOK
    <2>3. PICK status \in IF requests[r].kind = "cancel" THEN CancelledFrom(served[j]) ELSE {served[j]} :
                 /\ served' = [served EXCEPT ![j] = status]
                 /\ \/ requests' = [requests EXCEPT ![r].answer = IF status = "gone" THEN "raised" ELSE status]
                    \/ requests' = [requests EXCEPT ![r].answer = "raised"]
      BY <2>1
    <2>4. served[j] \in ServedStatuses
      BY <2>2 DEF WebInv, WebTypeOK
    <2>5. status \in ServedStatuses /\ (served[j] \in TERMINAL_STATES => status = served[j])
      BY <2>3, <2>4 DEF CancelledFrom, PageStatuses, ServedStatuses, TERMINAL_STATES
    <2>6. EndsStay /\ served' \in [WebJobs -> ServedStatuses] /\ served'[j] = status
      BY <1>2, <2>2, <2>3, <2>5 DEF Answer, EndsStay, HadEnd, WebInv, WebTypeOK
    <2>7. PICK answer \in PageStatuses \cup {"raised"} :
             /\ requests' = [requests EXCEPT ![r].answer = answer]
             /\ answer = status \/ answer = "raised"
      BY <2>3, <2>5 DEF ServedStatuses
    <2>8. /\ requests' \in [Requests -> ApiRequests]
          /\ requests'[r].job_id = j /\ requests'[r].answer = answer
          /\ \A q \in Requests \ {r} : requests'[q] = requests[q]
      BY <2>7, AnswersFit
    <2>9. UNCHANGED <<job, url>>
      BY <1>2 DEF Answer
    <2>10. "raised" \notin TERMINAL_STATES /\ "sent" \notin PageStatuses \cup {"raised"}
      BY DEF TERMINAL_STATES, PageStatuses
    <2>11. WebTypeOK'
      BY <2>6, <2>8, <2>9, <2>10 DEF WebInv, WebTypeOK
    <2>12. EndsAreTrue'
      <3>1. (job.status \in TERMINAL_STATES => job.job_id \in WebJobs /\ HadEnd(job.job_id, job.status))'
        BY <2>6, <2>9 DEF WebInv, EndsAreTrue, EndsStay
      <3>2. ASSUME NEW q \in Requests, (requests[q].answer \in TERMINAL_STATES)'
            PROVE  (requests[q].job_id \in WebJobs /\ HadEnd(requests[q].job_id, requests[q].answer))'
        <4>1. CASE q = r
          BY <3>2, <4>1, <2>2, <2>6, <2>7, <2>8, <2>10 DEF HadEnd
        <4>2. CASE q # r
          BY <3>2, <4>2, <2>6, <2>8 DEF WebInv, EndsAreTrue, EndsStay
        <4>3. QED
          BY <4>1, <4>2
      <3>3. QED
        BY <3>1, <3>2 DEF EndsAreTrue
    <2>13. QED
      BY <2>11, <2>12 DEF WebInv
  <1>3. ASSUME Deliver PROVE WebInv'
    <2>1. PICK r \in Requests :
            /\ requests[r].answer \notin {"sent", "none"}
            /\ requests' = [requests EXCEPT ![r] = Idle]
            /\ IF requests[r].answer = "raised" THEN UNCHANGED job
               ELSE job' = [job_id |-> requests[r].job_id, status |-> requests[r].answer]
      BY <1>3 DEF Deliver
    <2>2. UNCHANGED <<served, left, url>>
      BY <1>3 DEF Deliver
    <2>3. Idle \in ApiRequests /\ Idle.answer = "none" /\ "none" \notin TERMINAL_STATES
      BY DEF Idle, ApiRequests, PageStatuses, TERMINAL_STATES
    <2>4. /\ requests[r].job_id \in WebJobs \cup {NoJob}
          /\ requests[r].answer \in PageStatuses \cup {"sent", "raised"}
      BY DEF WebInv, WebTypeOK, ApiRequests
    <2>5. WebTypeOK'
      BY <2>1, <2>2, <2>3, <2>4 DEF WebInv, WebTypeOK
    <2>6. EndsAreTrue'
      BY <2>1, <2>2, <2>3 DEF WebInv, WebTypeOK, EndsAreTrue, HadEnd
    <2>7. QED
      BY <2>5, <2>6 DEF WebInv
  <1>4. ASSUME Poll PROVE WebInv'
    <2>1. job.job_id \in WebJobs
      BY <1>4 DEF Poll, Polling, WebInv, WebTypeOK
    <2>2. QED
      BY <1>4, <2>1, SendingKeeps DEF Poll
  <1>5. ASSUME Retry PROVE WebInv'
    <2>1. job.job_id \in WebJobs
      BY <1>5 DEF Retry, WebInv, WebTypeOK
    <2>2. QED
      BY <1>5, <2>1, SendingKeeps DEF Retry
  <1>6. ASSUME Cancel PROVE WebInv'
    <2>1. job.job_id \in WebJobs
      BY <1>6 DEF Cancel, WebInv, WebTypeOK
    <2>2. QED
      BY <1>6, <2>1, SendingKeeps DEF Cancel
  <1> DEFINE Fresh == NoPayload \in [job_id : WebJobs \cup {NoJob}, status : PageStatuses] /\ NoPayload.status \notin TERMINAL_STATES
  <1>7. Fresh
    BY DEF NoPayload, PageStatuses, TERMINAL_STATES
  <1>8. ASSUME StartSession PROVE WebInv'
    BY <1>7, <1>8 DEF StartSession, WebInv, WebTypeOK, EndsAreTrue, HadEnd
  <1>9. ASSUME NEW j \in WebJobs, NEW status \in {"active", "gone"}, served[j] \in TERMINAL_STATES, JobLeaves(j, status)
        PROVE  WebInv'
    <2>1. EndsStay /\ served' \in [WebJobs -> ServedStatuses]
      BY <1>9 DEF JobLeaves, EndsStay, HadEnd, WebInv, WebTypeOK, ServedStatuses, PageStatuses
    <2>2. QED
      BY <1>9, <2>1, EndedSteps DEF JobLeaves, pageVars
  <1>10. ASSUME Submitted PROVE WebInv'
    <2>1. PICK j \in WebJobs :
            /\ served[j] = "none" /\ served' = [served EXCEPT ![j] = "active"]
            /\ \/ job' = [job_id |-> j, status |-> "active"] /\ url' = j /\ Sent("refresh", j)
               \/ UNCHANGED <<job, url, requests>>
      BY <1>10 DEF Submitted
    <2>2. EndsStay /\ served' \in [WebJobs -> ServedStatuses]
      BY <1>10, <2>1 DEF Submitted, EndsStay, HadEnd, WebInv, WebTypeOK, ServedStatuses, PageStatuses, TERMINAL_STATES
    <2>3. CASE UNCHANGED <<job, url, requests>>
      BY <2>2, <2>3, EndedSteps
    <2>4. CASE job' = [job_id |-> j, status |-> "active"] /\ url' = j /\ Sent("refresh", j)
      <3>1. PICK r \in Requests :
             /\ requests' \in [Requests -> ApiRequests]
             /\ requests'[r].job_id = j /\ requests'[r].answer = "sent"
             /\ \A q \in Requests \ {r} : requests'[q] = requests[q]
        BY <2>4, RequestsFit
      <3>2. /\ "sent" \notin TERMINAL_STATES /\ "active" \notin TERMINAL_STATES /\ "active" \in PageStatuses
        BY DEF TERMINAL_STATES, PageStatuses
      <3>3. WebTypeOK'
        BY <2>2, <2>4, <3>1, <3>2 DEF WebInv, WebTypeOK
      <3>4. EndsAreTrue'
        BY <2>2, <2>4, <3>1, <3>2 DEF WebInv, EndsAreTrue, EndsStay
      <3>5. QED
        BY <3>3, <3>4 DEF WebInv
    <2>5. QED
      BY <2>1, <2>3, <2>4
  <1>11. ASSUME SubmissionFails PROVE WebInv'
    BY <1>11 DEF SubmissionFails, WebInv, WebTypeOK, EndsAreTrue, HadEnd
  <1>12. ASSUME Reload PROVE WebInv'
    <2>1. PICK first \in Requests :
       requests' = [r \in Requests |-> IF r = first /\ url # NoJob
                                       THEN [kind |-> "refresh", job_id |-> url, answer |-> "sent"] ELSE Idle]
      BY <1>12 DEF Reload
    <2>2. UNCHANGED <<served, left, url>> /\ job' = NoPayload
      BY <1>12 DEF Reload
    <2>3. /\ Idle \in ApiRequests /\ Idle.answer = "none" /\ "none" \notin TERMINAL_STATES
          /\ "sent" \notin TERMINAL_STATES
      BY DEF Idle, ApiRequests, PageStatuses, TERMINAL_STATES
    <2>4. [kind |-> "refresh", job_id |-> url, answer |-> "sent"] \in ApiRequests
      BY DEF WebInv, WebTypeOK, ApiRequests
    <2>5. WebTypeOK'
      BY <1>7, <2>1, <2>2, <2>3, <2>4 DEF WebInv, WebTypeOK
    <2>6. EndsAreTrue'
      BY <1>7, <2>1, <2>2, <2>3 DEF WebInv, EndsAreTrue, HadEnd
    <2>7. QED
      BY <2>5, <2>6 DEF WebInv
  <1>13. CASE UNCHANGED webVars
    BY <1>13 DEF webVars, pageVars, WebInv, WebTypeOK, EndsAreTrue, HadEnd
  <1>14. JobReopens \/ JobDeleted => WebInv'
    BY <1>9 DEF JobReopens, JobDeleted, TERMINAL_STATES
  <1>15. QED
    BY <1>1, <1>2, <1>3, <1>4, <1>5, <1>6, <1>8, <1>10, <1>11, <1>12, <1>13, <1>14 DEF WebNext

\* So it always holds.
LEMMA WebInvariant == WebSpec => []WebInv
  <1>1. WebInit => WebInv
    BY 
    DEF WebInit, WebInv, WebTypeOK, EndsAreTrue, NoPayload, Idle, ApiRequests, PageStatuses, ServedStatuses,
        TERMINAL_STATES
  <1>2. WebInv /\ [WebNext]_webVars => WebInv'
    BY WebSteps
  <1>3. QED
    BY <1>1, <1>2, PTL DEF WebSpec

\* For any number of jobs, requests, lost answers and reloads, however often jobs are queued anew
\* or deleted: a page that has stopped asking shows the status the API has of its job, or one in
\* which the job had ended and which it left again (refreshJob, cancel, the interval of App).
THEOREM PageShowsTheEnd == WebSpec => []ShownIsServed
  <1>1. WebInv => ShownIsServed
    BY DEF WebInv, WebTypeOK, EndsAreTrue, HadEnd, ShownIsServed, Polling
  <1>2. QED
    BY <1>1, WebInvariant, PTL

-----------------------------------------------------------------------------
(*************************************************************************)
(* The specialist workers: each reported output is the waveform its      *)
(* target is to be, of this call's input.  Targets share what they keep  *)
(* of one another (LeftForNext), so none may leave that changed.         *)
(*************************************************************************)

\* One element fewer, one counted fewer, if it counts.
LEMMA CountOneLess ==
    ASSUME NEW S, IsFiniteSet(S), NEW M, NEW x \in S
    PROVE  /\ Cardinality(S \cap M) \in Nat /\ Cardinality((S \ {x}) \cap M) \in Nat
           /\ Cardinality(S \cap M) = Cardinality((S \ {x}) \cap M) + (IF x \in M THEN 1 ELSE 0)
  <1>1. IsFiniteSet(S \cap M) /\ IsFiniteSet((S \ {x}) \cap M)
    BY FS_Subset
  <1>2. Cardinality(S \cap M) \in Nat /\ Cardinality((S \ {x}) \cap M) \in Nat
    BY <1>1, FS_CardinalityType
  <1>3. CASE x \in M
    <2>1. (S \ {x}) \cap M = (S \cap M) \ {x} /\ x \in S \cap M
      BY <1>3
    <2>2. Cardinality((S \cap M) \ {x}) = Cardinality(S \cap M) - 1
      BY <1>1, <2>1, FS_RemoveElement
    <2>3. QED
      BY <1>2, <1>3, <2>1, <2>2
  <1>4. CASE x \notin M
    <2>1. (S \ {x}) \cap M = S \cap M
      BY <1>4
    <2>2. QED
      BY <1>2, <1>4, <2>1
  <1>5. QED
    BY <1>3, <1>4

\* A fold over places that adds one at each of M adds up to their number, in whichever order
\* it takes them.
LEMMA FoldCounts ==
    ASSUME NEW D, IsFiniteSet(D), NEW M, M \subseteq D,
           NEW iter, iter = CHOOSE f : f = [s \in SUBSET D |->
               IF s = {} THEN 0
               ELSE f[s \ {CHOOSE x \in s : TRUE}] + (IF (CHOOSE x \in s : TRUE) \in M THEN 1 ELSE 0)]
    PROVE  iter[D] = Cardinality(M)
  <1> DEFINE count == [s \in SUBSET D |-> Cardinality(s \cap M)]
             body(f) == [s \in SUBSET D |->
               IF s = {} THEN 0
               ELSE f[s \ {CHOOSE x \in s : TRUE}] + (IF (CHOOSE x \in s : TRUE) \in M THEN 1 ELSE 0)]
  <1>1. ASSUME NEW s \in SUBSET D PROVE count[s] = body(count)[s]
    <2>1. CASE s = {}
      <3>1. Cardinality({} \cap M) = 0
        BY FS_EmptySet
      <3>2. QED
        BY <2>1, <3>1
    <2>2. CASE s # {}
      <3> DEFINE x == CHOOSE x \in s : TRUE
      <3>1. x \in s
        BY <2>2
      <3>2. body(count)[s] = count[s \ {x}] + (IF x \in M THEN 1 ELSE 0)
        BY <2>2
      <3> HIDE DEF x
      <3>3. IsFiniteSet(s)
        BY FS_Subset
      <3>4. count[s] = count[s \ {x}] + (IF x \in M THEN 1 ELSE 0)
        BY <3>1, <3>3, CountOneLess
      <3>5. QED
        BY <3>2, <3>4
    <2>3. QED
      BY <2>1, <2>2
  <1>2. count = body(count)
    BY <1>1
  <1>3. \E f : f = body(f)
    BY <1>2
  <1>4. iter = CHOOSE f : f = body(f)
    OBVIOUS
  <1> HIDE DEF body
  <1>5. iter = body(iter)
    BY <1>3, <1>4
  <1> DEFINE pick == [s \in SUBSET D |-> CHOOSE x \in s : TRUE]
  <1>6. iter[{}] = 0
    BY <1>5 DEF body
  <1>7. ASSUME NEW s \in SUBSET D, s # {}
        PROVE  pick[s] \in s /\ iter[s] = iter[s \ {pick[s]}] + (IF pick[s] \in M THEN 1 ELSE 0)
    <2>1. pick[s] = CHOOSE x \in s : TRUE
      OBVIOUS
    <2>2. pick[s] \in s
      BY <1>7, <2>1
    <2>3. body(iter)[s] = iter[s \ {CHOOSE x \in s : TRUE}] + (IF (CHOOSE x \in s : TRUE) \in M THEN 1 ELSE 0)
      BY <1>7 DEF body
    <2>4. QED
      BY <1>5, <2>1, <2>2, <2>3
  <1> HIDE DEF pick
  <1> DEFINE odd == {t \in SUBSET D : iter[t] # Cardinality(t \cap M)}
             sizes == {Cardinality(t) : t \in odd}
  <1>8. ASSUME NEW s \in SUBSET D PROVE IsFiniteSet(s) /\ Cardinality(s) \in Nat
    BY FS_Subset, FS_CardinalityType
  <1>9. ASSUME NEW s \in odd PROVE FALSE
    <2>1. sizes \in SUBSET Nat /\ sizes # {}
      BY <1>8, <1>9
    <2> HIDE DEF sizes
    <2>2. PICK n \in sizes : \A k \in sizes : n <= k
      BY <2>1, LeastNumber
    <2> USE DEF sizes
    <2>3. PICK t \in odd : n = Cardinality(t)
      OBVIOUS
    <2>4. t \in SUBSET D /\ iter[t] # Cardinality(t \cap M) /\ IsFiniteSet(t) /\ Cardinality(t) \in Nat
      BY <1>8
    <2>5. t # {}
      <3>1. Cardinality({} \cap M) = 0
        BY FS_EmptySet
      <3>2. QED
        BY <1>6, <2>4, <3>1
    <2> DEFINE x == pick[t]
               rest == t \ {x}
    <2>6. x \in t
      BY <1>7, <2>4, <2>5
    <2>7. iter[t] = iter[rest] + (IF x \in M THEN 1 ELSE 0)
      BY <1>7, <2>4, <2>5
    <2> HIDE DEF x
    <2>8. rest \in SUBSET D /\ Cardinality(rest) = Cardinality(t) - 1
      BY <2>4, <2>6, FS_RemoveElement
    <2>9. rest \notin odd
      <3>1. SUFFICES ASSUME rest \in odd PROVE FALSE
        OBVIOUS
      <3>2. Cardinality(rest) \in sizes
        BY <3>1
      <3>3. Cardinality(t) <= Cardinality(rest)
        BY <2>2, <2>3, <3>2
      <3>4. QED
        BY <2>4, <2>8, <3>3
    <2>10. iter[rest] = Cardinality(rest \cap M)
      BY <2>8, <2>9
    <2>11. Cardinality(t \cap M) = Cardinality(rest \cap M) + (IF x \in M THEN 1 ELSE 0)
      BY <2>4, <2>6, CountOneLess
    <2>12. QED
      BY <2>4, <2>7, <2>10, <2>11
  <1>10. D \cap M = M
    OBVIOUS
  <1>11. QED
    BY <1>9, <1>10

\* What Mega53 adds to a copy is each model stem as often as the product stem names it.
LEMMA SumOfArrays ==
    ASSUME NEW stems \in Seq(Models), NEW m \in Models, separated = ArraysOf
    PROVE  FoldSeq(LAMBDA stem, n : n + separated[stem][m], 0, stems) = Counts(stems)[m]
  <1> DEFINE D == DOMAIN stems
             M == {i \in D : stems[i] = m}
  <1>1. ASSUME NEW stem \in Models PROVE ArraysOf[stem][m] = IF stem = m THEN 1 ELSE 0
    <2>1. ArraysOf[stem][m] = Cardinality({i \in DOMAIN <<stem>> : <<stem>>[i] = m})
      BY DEF ArraysOf, Counts
    <2>2. CASE stem = m
      <3>1. {i \in DOMAIN <<stem>> : <<stem>>[i] = m} = {1}
        BY <2>2
      <3>2. QED
        BY <2>1, <2>2, <3>1, FS_Singleton
    <2>3. CASE stem # m
      <3>1. {i \in DOMAIN <<stem>> : <<stem>>[i] = m} = {}
        BY <2>3
      <3>2. QED
        BY <2>1, <2>3, <3>1, FS_EmptySet
    <2>4. QED
      BY <2>2, <2>3
  <1>2. D = 1 .. Len(stems) /\ Len(stems) \in Nat /\ \A i \in D : stems[i] \in Models
    OBVIOUS
  <1>3. IsFiniteSet(D)
    BY <1>2, FS_Interval
  <1> DEFINE adds(f) == [s \in SUBSET D |->
               IF s = {} THEN 0
               ELSE f[s \ {CHOOSE x \in s : TRUE}] + ArraysOf[stems[CHOOSE x \in s : TRUE]][m]]
             counts(f) == [s \in SUBSET D |->
               IF s = {} THEN 0
               ELSE f[s \ {CHOOSE x \in s : TRUE}] + (IF (CHOOSE x \in s : TRUE) \in M THEN 1 ELSE 0)]
  <1>4. FoldSeq(LAMBDA stem, n : n + separated[stem][m], 0, stems) = (CHOOSE f : f = adds(f))[D]
    BY DEF FoldSeq, FoldFunction, FoldFunctionOnSet, MapThenFoldSet
  <1>5. ASSUME NEW f PROVE adds(f) = counts(f)
    <2>1. ASSUME NEW s \in SUBSET D, s # {}
          PROVE  ArraysOf[stems[CHOOSE x \in s : TRUE]][m] = IF (CHOOSE x \in s : TRUE) \in M THEN 1 ELSE 0
      <3>1. (CHOOSE x \in s : TRUE) \in s
        BY <2>1
      <3>2. QED
        BY <1>1, <1>2, <3>1
    <2>2. QED
      BY <2>1
  <1>6. (CHOOSE f : f = adds(f)) = CHOOSE f : f = counts(f)
    <2> HIDE DEF adds, counts
    <2>1. QED
      BY <1>5
  <1>7. (CHOOSE f : f = counts(f))[D] = Cardinality(M)
    BY <1>3, FoldCounts
  <1>8. Counts(stems)[m] = Cardinality(M)
    BY DEF Counts
  <1>9. QED
    BY <1>4, <1>6, <1>7, <1>8

OwnTargets == AvailableTargets(specialist)

\* A target's waveform as it is to be, of the input of the call.
Right(t) == [input |-> call.input, made |-> Reference(specialist, t)]

BatchTypeOK ==
    /\ specialist \in Workers
    /\ call \in [pc : {"idle", "separating", "uploading", "downloading", "reported"}, input : Nat,
                 requested : SUBSET OwnTargets, outputs : SUBSET OwnTargets, failures : SUBSET OwnTargets,
                 status : {"running", "completed", "completed_with_failures"}, todo : SUBSET OwnTargets,
                 upload : {Nothing} \cup [input : Nat, made : {Reference(specialist, t) : t \in OwnTargets}],
                 target : OwnTargets \cup {"none"}]
    /\ DOMAIN store = OwnTargets /\ DOMAIN localCopies = OwnTargets

\* What a target leaves behind for the next: the arrays as they were separated, and of a model
\* that was kept what it made of the mix.
LeftForNext ==
    /\ separated = ArraysOf
    /\ \A m \in Models : waveform_cache[m] \in {<<>>, <<m>>}
    /\ DOMAIN waveform_cache = Models

\* A target is still to come, uploaded or failed.
InTurn ==
    call.pc \in {"separating", "uploading"} =>
        /\ call.requested = call.todo \cup call.outputs \cup call.failures
        /\ call.todo \cap call.outputs = {} /\ call.todo \cap call.failures = {}
        /\ call.outputs \cap call.failures = {}
        /\ call.pc = "uploading" => call.target \in call.todo /\ call.upload = Right(call.target)

\* The objects of this call's outputs are of this call.
StoredRight ==
    call.pc # "idle" => \A t \in call.outputs : store[t] = Right(t)

\* What is downloaded is what was uploaded, and the status says if a target failed.
CopiedRight ==
    call.pc \in {"downloading", "reported"} =>
        /\ call.requested = call.outputs \cup call.failures /\ call.outputs \cap call.failures = {}
        /\ call.status = "completed" <=> call.outputs = call.requested
        /\ \A t \in call.outputs \ call.todo : localCopies[t] = Right(t)
        /\ call.pc = "reported" => call.todo = {}

BatchInv == BatchTypeOK /\ LeftForNext /\ InTurn /\ StoredRight /\ CopiedRight

\* Whichever worker it is, a target's waveform is made as it is to be, or the target fails, and
\* the others find what it found.
LEMMA TargetSteps ==
    ASSUME BatchInv, NEW t \in call.todo,
           SeparateModel(t) \/ SeparatePipeline(t) \/ SumModelStems(t) \/ SeparatePrompt(t) \/ SeparateStem(t)
    PROVE  LeftForNext' /\ (Separated(t, Reference(specialist, t)) \/ FailTarget(t))
  <1>1. t \in OwnTargets
    BY DEF BatchInv, BatchTypeOK
  <1>2. CASE SeparateModel(t)
    <2>1. Reference(specialist, t) = <<t>>
      BY <1>2, SpecialistAssumption DEF SeparateModel, Reference
    <2>2. /\ separated' = separated /\ t \in Models
          /\ waveform_cache' = waveform_cache \/ waveform_cache' = [waveform_cache EXCEPT ![t] = <<t>>]
      BY <1>2 DEF SeparateModel
    <2>3. ArraysOf' = ArraysOf
      BY DEF ArraysOf, Counts
    <2>4. LeftForNext'
      <3>1. CASE waveform_cache' = waveform_cache
        BY <2>2, <2>3, <3>1 DEF BatchInv, LeftForNext
      <3>2. CASE waveform_cache' = [waveform_cache EXCEPT ![t] = <<t>>]
        <4>1. DOMAIN waveform_cache' = Models
          BY <3>2 DEF BatchInv, LeftForNext
        <4>2. \A m \in Models : waveform_cache'[m] \in {<<>>, <<m>>}
          BY <3>2, <2>2 DEF BatchInv, LeftForNext
        <4>3. QED
          BY <2>2, <2>3, <4>1, <4>2 DEF BatchInv, LeftForNext
      <3>3. QED
        BY <2>2, <3>1, <3>2
    <2>5. QED
      BY <1>2, <2>1, <2>4 DEF SeparateModel
  <1>3. ASSUME UNCHANGED <<waveform_cache, separated>> PROVE LeftForNext'
    BY <1>3 DEF BatchInv, LeftForNext, ArraysOf, Counts
  <1>4. CASE SeparatePipeline(t)
    <2> DEFINE stages == Pipelines[t]
    <2>1. specialist = "open_specialist" /\ t \in DOMAIN Pipelines
      BY <1>4 DEF SeparatePipeline
    <2>2. Reference(specialist, t) = stages
      BY <2>1 DEF Reference
    <2>3. stages \in Seq(Models) /\ stages # <<>> /\ Head(stages) \in Models
      BY <2>1, SpecialistAssumption
    <2>4. <<Head(stages)>> \o Tail(stages) = stages
      <3> HIDE DEF stages
      <3>1. QED
        BY <2>3
    <2>5. waveform_cache[Head(stages)] # <<>> => waveform_cache[Head(stages)] = <<Head(stages)>>
      BY <2>3 DEF BatchInv, LeftForNext
    <2>6. Separated(t, (IF waveform_cache[Head(stages)] # <<>> THEN waveform_cache[Head(stages)]
                        ELSE <<Head(stages)>>) \o Tail(stages))
      BY <1>4 DEF SeparatePipeline
    <2>7. Separated(t, stages)
      BY <2>4, <2>5, <2>6
    <2>8. QED
      BY <1>3, <1>4, <2>2, <2>7 DEF SeparatePipeline
  <1>5. CASE SumModelStems(t)
    <2> DEFINE stems == TargetStems[t]
               sum == [m \in Models |-> FoldSeq(LAMBDA stem, n : n + separated[stem][m], 0, stems)]
    <2>1. specialist = "mega53"
      BY <1>5 DEF SumModelStems
    <2>2. t \in DOMAIN TargetStems
      BY <1>1, <2>1 DEF OwnTargets, AvailableTargets
    <2>3. Reference(specialist, t) = Counts(stems)
      BY <2>1 DEF Reference
    <2>4. stems \in Seq(Models) /\ separated = ArraysOf
      BY <2>2, SpecialistAssumption DEF BatchInv, LeftForNext
    <2>5. ASSUME NEW m \in Models
          PROVE  FoldSeq(LAMBDA stem, n : n + separated[stem][m], 0, stems) = Counts(stems)[m]
      BY <2>4, SumOfArrays
    <2>6. sum = [m \in Models |-> Counts(stems)[m]]
      BY <2>5
    <2>7. sum = Counts(stems)
      BY <2>6 DEF Counts
    <2>8. Separated(t, sum) /\ UNCHANGED <<waveform_cache, separated>>
      BY <1>5 DEF SumModelStems
    <2>9. QED
      BY <1>3, <2>3, <2>7, <2>8
  <1>6. CASE SeparatePrompt(t) \/ SeparateStem(t)
    <2>1. Reference(specialist, t) = <<t>>
      BY <1>6 DEF SeparatePrompt, SeparateStem, Reference
    <2>2. QED
      BY <1>3, <1>6, <2>1 DEF SeparatePrompt, SeparateStem
  <1>7. QED
    BY <1>2, <1>4, <1>5, <1>6

\* What a target is to be made of depends on the worker alone.
LEMMA ReferencesStay ==
    ASSUME UNCHANGED specialist
    PROVE  OwnTargets' = OwnTargets /\ Nothing' = Nothing
           /\ \A t \in OwnTargets : Reference(specialist, t)' = Reference(specialist, t)
  BY DEF OwnTargets, AvailableTargets, Reference, Counts, Nothing

\* A target that fails leaves the others as they are.
LEMMA FailTargetSteps ==
    ASSUME BatchInv, NEW t \in call.todo, call.pc \in {"separating", "uploading"}, FailTarget(t),
           LeftForNext', UNCHANGED <<specialist, store, localCopies>>
    PROVE  BatchInv'
  <1>1. OwnTargets' = OwnTargets /\ Nothing' = Nothing
        /\ \A x \in OwnTargets : Reference(specialist, x)' = Reference(specialist, x)
    BY ReferencesStay
  <1>2. /\ call'.pc = "separating" /\ call'.todo = call.todo \ {t}
        /\ call'.failures = call.failures \cup {t} /\ call'.upload = Nothing /\ call'.target = "none"
        /\ call'.outputs = call.outputs /\ call'.requested = call.requested /\ call'.input = call.input
        /\ call'.status = call.status
    BY DEF FailTarget, Sets, BatchInv, BatchTypeOK
  <1>3. call' = [pc |-> "separating", input |-> call.input, requested |-> call.requested,
                 outputs |-> call.outputs, failures |-> call.failures \cup {t}, status |-> call.status,
                 todo |-> call.todo \ {t}, upload |-> Nothing, target |-> "none"]
    BY <1>2 DEF FailTarget, Sets, BatchInv, BatchTypeOK
  <1>4. t \in OwnTargets
    BY DEF BatchInv, BatchTypeOK
  <1>5. BatchTypeOK'
    BY <1>1, <1>3, <1>4 DEF BatchInv, BatchTypeOK
  <1>6. InTurn'
    BY <1>2 DEF BatchInv, InTurn
  <1>7. StoredRight'
    <2>1. \A x \in call.outputs : Right(x)' = Right(x)
      BY <1>1, <1>2 DEF Right, BatchInv, BatchTypeOK
    <2>2. call.pc # "idle"
      OBVIOUS
    <2>3. QED
      BY <1>2, <2>1, <2>2 DEF BatchInv, StoredRight
  <1>8. CopiedRight'
    BY <1>2 DEF CopiedRight
  <1>9. QED
    BY <1>5, <1>6, <1>7, <1>8 DEF BatchInv

\* And what it is to be, on the input of the call besides.
LEMMA RightStays ==
    ASSUME UNCHANGED specialist, call'.input = call.input
    PROVE  \A t \in OwnTargets : Right(t)' = Right(t)
  BY ReferencesStay DEF Right

\* Every step of a call keeps the invariant.
LEMMA BatchSteps == ASSUME BatchInv, [SpecialistNext]_specialistVars PROVE BatchInv'
  <1>1. ASSUME UNCHANGED <<waveform_cache, separated>> PROVE LeftForNext'
    BY <1>1 DEF BatchInv, LeftForNext, ArraysOf, Counts
  <1>2. ASSUME BeginCall PROVE BatchInv'
    <2>1. PICK requested : /\ requested \in SUBSET OwnTargets
                           /\ call' = [pc |-> "separating", input |-> call.input + 1, requested |-> requested,
                                       outputs |-> {}, failures |-> {}, status |-> "running",
                                       todo |-> requested, upload |-> Nothing, target |-> "none"]
      <3>1. PICK requested \in IF specialist \in {"open_specialist", "sam_audio"}
                        THEN SUBSET AvailableTargets(specialist) \ {{}} ELSE {AvailableTargets(specialist)} :
              call' = [NewCall(call.input + 1) EXCEPT !.pc = "separating", !.requested = requested, !.todo = requested]
        BY <1>2 DEF BeginCall
      <3>2. requested \in SUBSET OwnTargets
        BY <3>1 DEF OwnTargets
      <3>3. QED
        BY <3>1, <3>2 DEF NewCall
    <2>2. UNCHANGED <<specialist, store, localCopies>>
      BY <1>2 DEF BeginCall
    <2>3. OwnTargets' = OwnTargets /\ Nothing' = Nothing
          /\ \A x \in OwnTargets : Reference(specialist, x)' = Reference(specialist, x)
      BY <2>2, ReferencesStay
    <2>4. call.input + 1 \in Nat
      BY DEF BatchInv, BatchTypeOK
    <2>5. BatchTypeOK'
      BY <2>1, <2>2, <2>3, <2>4 DEF BatchInv, BatchTypeOK
    <2>6. LeftForNext'
      BY <1>2 DEF BeginCall, LeftForNext, ArraysOf, Counts
    <2>7. InTurn' /\ StoredRight' /\ CopiedRight'
      BY <2>1 DEF InTurn, StoredRight, CopiedRight
    <2>8. QED
      BY <2>5, <2>6, <2>7 DEF BatchInv
  <1>3. ASSUME SeparateTarget PROVE BatchInv'
    <2>1. PICK t \in call.todo :
            SeparateModel(t) \/ SeparatePipeline(t) \/ SumModelStems(t) \/ SeparatePrompt(t) \/ SeparateStem(t)
      BY <1>3 DEF SeparateTarget
    <2>2. call.pc = "separating" /\ UNCHANGED <<specialist, store, localCopies>>
      BY <1>3 DEF SeparateTarget
    <2>3. LeftForNext' /\ (Separated(t, Reference(specialist, t)) \/ FailTarget(t))
      BY <2>1, TargetSteps
    <2>4. CASE FailTarget(t)
      BY <2>2, <2>3, <2>4, FailTargetSteps
    <2>5. CASE Sets([pc |-> "uploading", target |-> t, upload |-> Waveform(Reference(specialist, t))])
      <3>1. t \in OwnTargets
        BY DEF BatchInv, BatchTypeOK
      <3>2. call' = [pc |-> "uploading", input |-> call.input, requested |-> call.requested,
                     outputs |-> call.outputs, failures |-> call.failures, status |-> call.status,
                     todo |-> call.todo, upload |-> Right(t), target |-> t]
        BY <2>5 DEF Sets, Waveform, Right, BatchInv, BatchTypeOK
      <3>3. OwnTargets' = OwnTargets /\ Nothing' = Nothing
            /\ \A x \in OwnTargets : Reference(specialist, x)' = Reference(specialist, x)
        BY <2>2, ReferencesStay
      <3>4. Right(t) \in [input : Nat, made : {Reference(specialist, x) : x \in OwnTargets}]
        BY <3>1 DEF Right, BatchInv, BatchTypeOK
      <3>5. BatchTypeOK'
        BY <2>2, <3>1, <3>2, <3>3, <3>4 DEF BatchInv, BatchTypeOK
      <3>6. \A x \in OwnTargets : Right(x)' = Right(x)
        BY <2>2, <3>2, RightStays
      <3>7. InTurn'
        BY <2>2, <3>1, <3>2, <3>6 DEF BatchInv, InTurn
      <3>8. StoredRight'
        BY <2>2, <3>2, <3>6 DEF BatchInv, BatchTypeOK, StoredRight
      <3>9. CopiedRight'
        BY <3>2 DEF CopiedRight
      <3>10. QED
        BY <2>3, <3>5, <3>7, <3>8, <3>9 DEF BatchInv
    <2>6. QED
      BY <2>3, <2>4, <2>5 DEF Separated
  <1>4. ASSUME UploadTarget PROVE BatchInv'
    <2> DEFINE t == call.target
    <2>1. call.pc = "uploading" /\ UNCHANGED <<specialist, localCopies>> /\ LeftForNext'
      BY <1>1, <1>4 DEF UploadTarget
    <2>2. t \in call.todo /\ t \in OwnTargets /\ call.upload = Right(t)
      BY <2>1 DEF BatchInv, BatchTypeOK, InTurn
    <2>3. CASE FailTarget(t) /\ UNCHANGED store
      BY <2>1, <2>2, <2>3, FailTargetSteps
    <2>4. CASE /\ store' = [store EXCEPT ![call.target] = call.upload]
               /\ Sets([pc |-> "separating", todo |-> call.todo \ {call.target},
                        outputs |-> call.outputs \cup {call.target}, upload |-> Nothing, target |-> "none"])
      <3>1. call' = [pc |-> "separating", input |-> call.input, requested |-> call.requested,
                     outputs |-> call.outputs \cup {t}, failures |-> call.failures, status |-> call.status,
                     todo |-> call.todo \ {t}, upload |-> Nothing, target |-> "none"]
        BY <2>4 DEF Sets, BatchInv, BatchTypeOK
      <3>2. OwnTargets' = OwnTargets /\ Nothing' = Nothing
            /\ \A x \in OwnTargets : Reference(specialist, x)' = Reference(specialist, x)
        BY <2>1, ReferencesStay
      <3>3. DOMAIN store = OwnTargets /\ DOMAIN store' = OwnTargets
        BY <2>4 DEF BatchInv, BatchTypeOK
      <3>4. BatchTypeOK'
        BY <2>1, <2>2, <3>1, <3>2, <3>3 DEF BatchInv, BatchTypeOK
      <3>5. \A x \in OwnTargets : Right(x)' = Right(x)
        BY <2>1, <3>1, RightStays
      <3>6. InTurn'
        BY <2>1, <2>2, <3>1 DEF BatchInv, InTurn
      <3>7. store'[t] = Right(t) /\ \A x \in OwnTargets \ {t} : store'[x] = store[x]
        BY <2>2, <2>4, <3>3
      <3>8. \A x \in call.outputs : x \in OwnTargets /\ store[x] = Right(x)
        BY <2>1 DEF BatchInv, BatchTypeOK, StoredRight
      <3>9. \A x \in call.outputs \cup {t} : store'[x] = Right(x)'
        BY <2>2, <3>5, <3>7, <3>8
      <3>10. StoredRight' /\ CopiedRight'
        BY <3>1, <3>9 DEF StoredRight, CopiedRight
      <3>11. QED
        BY <2>1, <3>4, <3>6, <3>10 DEF BatchInv
    <2>5. QED
      BY <1>4, <2>3, <2>4 DEF UploadTarget
  <1>5. ASSUME FinishReport PROVE BatchInv'
    <2> DEFINE status == IF call.failures = {} /\ (specialist = "open_specialist" => call.outputs = call.requested)
                         THEN "completed" ELSE "completed_with_failures"
    <2>1. /\ call.pc = "separating" /\ call.todo = {} /\ LeftForNext'
          /\ UNCHANGED <<specialist, store, localCopies>>
      BY <1>1, <1>5 DEF FinishReport
    <2>2. OwnTargets' = OwnTargets /\ Nothing' = Nothing
          /\ \A x \in OwnTargets : Reference(specialist, x)' = Reference(specialist, x)
      BY <2>1, ReferencesStay
    <2>3. /\ call.requested = call.outputs \cup call.failures /\ call.outputs \cap call.failures = {}
          /\ \A x \in call.outputs : x \in OwnTargets /\ store[x] = Right(x)
      BY <2>1 DEF BatchInv, BatchTypeOK, InTurn, StoredRight
    <2>4. CASE Sets([pc |-> "downloading", todo |-> call.outputs, status |-> status])
      <3>1. call' = [pc |-> "downloading", input |-> call.input, requested |-> call.requested,
                     outputs |-> call.outputs, failures |-> call.failures, status |-> status,
                     todo |-> call.outputs, upload |-> call.upload, target |-> call.target]
        BY <2>4 DEF Sets, BatchInv, BatchTypeOK
      <3>2. BatchTypeOK'
        BY <2>1, <2>2, <3>1 DEF BatchInv, BatchTypeOK
      <3>3. \A x \in OwnTargets : Right(x)' = Right(x)
        BY <2>1, <3>1, RightStays
      <3>4. status = "completed" <=> call.outputs = call.requested
        <4>1. call.failures = {} <=> call.outputs = call.requested
          BY <2>3
        <4>2. QED
          BY <4>1
      <3>5. InTurn' /\ StoredRight'
        BY <2>1, <2>3, <3>1, <3>3 DEF InTurn, StoredRight
      <3>6. CopiedRight'
        BY <2>3, <3>1, <3>4 DEF CopiedRight
      <3>7. QED
        BY <2>1, <3>2, <3>5, <3>6 DEF BatchInv
    <2>5. CASE Sets([pc |-> "idle"])
      <3>1. call' = [call EXCEPT !.pc = "idle"]
        BY <2>5 DEF Sets, BatchInv, BatchTypeOK
      <3>2. BatchTypeOK' /\ call'.pc = "idle"
        BY <2>1, <2>2, <3>1 DEF BatchInv, BatchTypeOK
      <3>3. QED
        BY <2>1, <3>2 DEF BatchInv, InTurn, StoredRight, CopiedRight
    <2>6. QED
      BY <1>5, <2>4, <2>5 DEF FinishReport
  <1>6. ASSUME DownloadTarget PROVE BatchInv'
    <2>1. PICK t \in call.todo : /\ localCopies' = [localCopies EXCEPT ![t] = store[t]]
                                 /\ Sets([todo |-> call.todo \ {t}])
      BY <1>6 DEF DownloadTarget
    <2>2. /\ call.pc = "downloading" /\ LeftForNext'
          /\ UNCHANGED <<specialist, store>>
      BY <1>1, <1>6 DEF DownloadTarget
    <2>3. call' = [pc |-> call.pc, input |-> call.input, requested |-> call.requested,
                   outputs |-> call.outputs, failures |-> call.failures, status |-> call.status,
                   todo |-> call.todo \ {t}, upload |-> call.upload, target |-> call.target]
      BY <2>1 DEF Sets, BatchInv, BatchTypeOK
    <2>4. OwnTargets' = OwnTargets /\ Nothing' = Nothing
          /\ \A x \in OwnTargets : Reference(specialist, x)' = Reference(specialist, x)
      BY <2>2, ReferencesStay
    <2>5. /\ call'.pc = "downloading" /\ call'.input = call.input /\ call'.requested = call.requested
          /\ call'.outputs = call.outputs /\ call'.failures = call.failures /\ call'.status = call.status
          /\ call'.todo = call.todo \ {t} /\ call.todo \subseteq OwnTargets /\ call.outputs \subseteq OwnTargets
      BY <2>2, <2>3 DEF BatchInv, BatchTypeOK
    <2>6. DOMAIN localCopies = OwnTargets /\ DOMAIN localCopies' = OwnTargets
      BY <2>1 DEF BatchInv, BatchTypeOK
    <2>7. BatchTypeOK'
      BY <2>2, <2>3, <2>4, <2>6 DEF BatchInv, BatchTypeOK
    <2>8. \A x \in OwnTargets : Right(x)' = Right(x)
      BY <2>2, <2>5, RightStays
    <2>9. InTurn' /\ StoredRight'
      BY <2>2, <2>5, <2>8 DEF BatchInv, InTurn, StoredRight
    <2>10. localCopies'[t] = store[t] /\ \A x \in OwnTargets \ {t} : localCopies'[x] = localCopies[x]
      BY <2>1, <2>5, <2>6
    <2>11. \A x \in call'.outputs \ call'.todo : localCopies'[x] = Right(x)'
      BY <2>2, <2>5, <2>8, <2>10 DEF BatchInv, StoredRight, CopiedRight
    <2>12. CopiedRight'
      BY <2>2, <2>5, <2>11 DEF BatchInv, CopiedRight
    <2>13. QED
      BY <2>2, <2>7, <2>9, <2>12 DEF BatchInv
  <1>7. ASSUME WriteLocalReport PROVE BatchInv'
    <2>1. /\ call.pc = "downloading" /\ call.todo = {} /\ LeftForNext'
          /\ UNCHANGED <<specialist, store, localCopies>>
      BY <1>1, <1>7 DEF WriteLocalReport
    <2>2. call' = [call EXCEPT !.pc = "reported"]
      BY <1>7 DEF WriteLocalReport, Sets, BatchInv, BatchTypeOK
    <2>3. OwnTargets' = OwnTargets /\ Nothing' = Nothing
          /\ \A x \in OwnTargets : Reference(specialist, x)' = Reference(specialist, x)
      BY <2>1, ReferencesStay
    <2>4. /\ call'.pc = "reported" /\ call'.input = call.input /\ call'.requested = call.requested
          /\ call'.outputs = call.outputs /\ call'.failures = call.failures /\ call'.status = call.status
          /\ call'.todo = {} /\ call.outputs \subseteq OwnTargets
      BY <2>1, <2>2 DEF BatchInv, BatchTypeOK
    <2>5. BatchTypeOK'
      BY <2>1, <2>2, <2>3 DEF BatchInv, BatchTypeOK
    <2>6. \A x \in OwnTargets : Right(x)' = Right(x)
      BY <2>1, <2>4, RightStays
    <2>7. InTurn' /\ StoredRight' /\ CopiedRight'
      BY <2>1, <2>4, <2>6 DEF BatchInv, InTurn, StoredRight, CopiedRight
    <2>8. QED
      BY <2>1, <2>5, <2>7 DEF BatchInv
  <1>8. ASSUME CallEnds PROVE BatchInv'
    <2>1. LeftForNext' /\ UNCHANGED <<specialist, store, localCopies>>
      BY <1>1, <1>8 DEF CallEnds
    <2>2. call' = [pc |-> "idle", input |-> call.input, requested |-> call.requested,
                   outputs |-> call.outputs, failures |-> call.failures, status |-> call.status,
                   todo |-> {}, upload |-> Nothing, target |-> "none"]
      BY <1>8 DEF CallEnds, Sets, BatchInv, BatchTypeOK
    <2>3. OwnTargets' = OwnTargets /\ Nothing' = Nothing
          /\ \A x \in OwnTargets : Reference(specialist, x)' = Reference(specialist, x)
      BY <2>1, ReferencesStay
    <2>4. BatchTypeOK' /\ call'.pc = "idle"
      BY <2>1, <2>2, <2>3 DEF BatchInv, BatchTypeOK
    <2>5. QED
      BY <2>1, <2>4 DEF BatchInv, InTurn, StoredRight, CopiedRight
  <1>9. CASE UNCHANGED specialistVars
    <2>1. UNCHANGED <<specialist, call, store, localCopies>> /\ LeftForNext'
      BY <1>1, <1>9 DEF specialistVars
    <2>2. OwnTargets' = OwnTargets /\ Nothing' = Nothing
          /\ \A x \in OwnTargets : Reference(specialist, x)' = Reference(specialist, x)
      BY <2>1, ReferencesStay
    <2>3. \A x \in OwnTargets : Right(x)' = Right(x)
      BY <2>1, RightStays
    <2>4. BatchTypeOK'
      BY <2>1, <2>2 DEF BatchInv, BatchTypeOK
    <2>5. InTurn'
      BY <2>1, <2>3 DEF BatchInv, BatchTypeOK, InTurn
    <2>6. StoredRight' /\ CopiedRight'
      BY <2>1, <2>3 DEF BatchInv, BatchTypeOK, StoredRight, CopiedRight
    <2>7. QED
      BY <2>1, <2>4, <2>5, <2>6 DEF BatchInv
  <1>10. QED
    BY <1>2, <1>3, <1>4, <1>5, <1>6, <1>7, <1>8, <1>9 DEF SpecialistNext

\* So it always holds.
LEMMA BatchInvariant == SpecialistSpec => []BatchInv
  <1>1. SpecialistInit => BatchInv
    <2> SUFFICES ASSUME SpecialistInit PROVE BatchInv
      OBVIOUS
    <2>1. BatchTypeOK
      BY DEF SpecialistInit, BatchTypeOK, NewCall, OwnTargets
    <2>2. LeftForNext /\ InTurn /\ StoredRight /\ CopiedRight
      BY DEF SpecialistInit, NewCall, LeftForNext, InTurn, StoredRight, CopiedRight
    <2>3. QED
      BY <2>1, <2>2 DEF BatchInv
  <1>2. BatchInv /\ [SpecialistNext]_specialistVars => BatchInv'
    BY BatchSteps
  <1>3. QED
    BY <1>1, <1>2, PTL DEF SpecialistSpec

\* Whatever the models, pipelines and product stems of a configuration are, and however often
\* the batch is run again over the objects of an earlier call: the outputs that the report names
\* are made as they are to be, of this call's input (separate and main of the four workers).
THEOREM OutputsAreRight == SpecialistSpec => []ReportedOutputs
  <1>1. BatchInv => ReportedOutputs
    BY DEF BatchInv, CopiedRight, Right, ReportedOutputs
  <1>2. QED
    BY <1>1, BatchInvariant, PTL

-----------------------------------------------------------------------------
(*************************************************************************)
(* The calibration: thresholds that are reported accept as precisely and *)
(* retain as much as they must, and no others that are tried do and      *)
(* accept more; the scores they are chosen over are of songs the head    *)
(* has not seen.                                                         *)
(*************************************************************************)

\* A finite set of numbers has a largest one.
LEMMA LargestOf ==
    ASSUME NEW S \in SUBSET Nat, IsFiniteSet(S), S # {}
    PROVE  Max(S) \in S /\ \A y \in S : y <= Max(S)
  <1> DEFINE above(x) == {y \in S : y > x}
             sizes == {Cardinality(above(x)) : x \in S}
  <1>1. ASSUME NEW x \in S PROVE IsFiniteSet(above(x)) /\ Cardinality(above(x)) \in Nat
    <2>1. IsFiniteSet(above(x))
      BY FS_Subset
    <2>2. QED
      BY <2>1, FS_CardinalityType
  <1>2. PICK n \in sizes : \A k \in sizes : n <= k
    <2>1. sizes \in SUBSET Nat /\ sizes # {}
      BY <1>1
    <2> HIDE DEF sizes
    <2>2. QED
      BY <2>1, LeastNumber
  <1>3. PICK x \in S : n = Cardinality(above(x))
    OBVIOUS
  <1>4. ASSUME NEW y \in S, y > x PROVE FALSE
    <2>1. /\ above(y) \in SUBSET above(x)
          /\ y \in above(x)
          /\ y \notin above(y)
      <3>1. \A z \in S : z > y => z > x
        BY <1>3, <1>4
      <3>2. ~(y > y)
        OBVIOUS
      <3>3. QED
        BY <1>4, <3>1, <3>2
    <2>2. Cardinality(above(y)) <= Cardinality(above(x)) /\ Cardinality(above(y)) # Cardinality(above(x))
      <3> HIDE DEF above
      <3>1. QED
        BY <1>1, <2>1, FS_Subset
    <2>3. Cardinality(above(x)) <= Cardinality(above(y))
      BY <1>2, <1>3
    <2>4. Cardinality(above(x)) \in Nat /\ Cardinality(above(y)) \in Nat
      BY <1>1
    <2> DEFINE p == Cardinality(above(x))
               q == Cardinality(above(y))
    <2>5. p \in Nat /\ q \in Nat /\ q <= p /\ q # p /\ p <= q
      BY <2>2, <2>3, <2>4
    <2> HIDE DEF p, q
    <2>6. QED
      BY <2>5
  <1>5. \E z \in S : \A y \in S : z >= y
    BY <1>4
  <1>6. QED
    BY <1>5 DEF Max

\* No song is picked for two labels.
LEMMA LabelsApart ==
    ASSUME NEW pools \in [LABEL_GROUPS -> SUBSET Songs], NEW selected \in PickSongs(pools)
    PROVE  /\ \A l \in LABEL_GROUPS : selected[l] \subseteq Songs
           /\ \A l, k \in LABEL_GROUPS : l # k => selected[l] \cap selected[k] = {}
  <1>1. PICK absent \in FirstOf(pools["target_absent"] \ pools["positive"], PickCounts["target_absent"]) :
          \E confuser \in FirstOf(pools["confuser"] \ (pools["positive"] \cup absent), PickCounts["confuser"]) :
            selected = [positive |-> pools["positive"], target_absent |-> absent, confuser |-> confuser]
    BY DEF PickSongs
  <1>2. PICK confuser \in FirstOf(pools["confuser"] \ (pools["positive"] \cup absent), PickCounts["confuser"]) :
            selected = [positive |-> pools["positive"], target_absent |-> absent, confuser |-> confuser]
    BY <1>1
  <1>3. \A available, count : \A s \in FirstOf(available, count) : s \subseteq available
    BY DEF FirstOf, kSubset
  <1>4. /\ absent \subseteq pools["target_absent"] \ pools["positive"]
        /\ confuser \subseteq pools["confuser"] \ (pools["positive"] \cup absent)
    BY <1>1, <1>2, <1>3
  <1>5. \A l \in {"positive", "target_absent", "confuser"} : pools[l] \subseteq Songs
    BY CalibrationAssumption
  <1>6. /\ selected["positive"] = pools["positive"] /\ selected["target_absent"] = absent
        /\ selected["confuser"] = confuser
    BY <1>2
  <1>7. QED
    BY <1>4, <1>5, <1>6, CalibrationAssumption

-----------------------------------------------------------------------------

\* A candidate is a song, once.
CandidatesFit ==
    /\ candidates \subseteq [song : Songs, label : LABEL_GROUPS, split : {"calibration", "validation"}]
    /\ \A c, d \in candidates : c.song = d.song => c = d

\* A row is a window of a candidate, once, with scores of a model that did not see the song.
RowsFit ==
    /\ \A r \in rows : /\ r.candidate \in candidates /\ r.window \in 1..MaxRows
                       /\ r.score \in Nat \ {0} /\ r.margin \in Nat
                       /\ r.candidate.song \notin r.seen
    /\ \A r, q \in rows : r.candidate = q.candidate /\ r.window = q.window => r = q

\* What is reported is on target and the best on target.
ReportedFit ==
    calibration.pc = "reported" =>
         LET of == InSplit("calibration")
             kept == Cardinality(Positive(of)) - Cardinality(Positive(Rejected(of, thresholds))) IN
         /\ Precise(of, thresholds) /\ Recalled(of, thresholds)
         /\ kept * 100 >= PositiveRetention * Cardinality(Positive(of))
         /\ \A other \in IF AllTried(of) THEN [accept : Scores, margin : Margins, reject : {0}] ELSE Thresholds(of) :
              Precise(of, other) /\ Recalled(of, other) =>
                Cardinality(Positive(Accepted(of, other))) <= Cardinality(Positive(Accepted(of, thresholds)))

CalibrationInv ==
    /\ CandidatesFit /\ RowsFit /\ ReportedFit
    /\ calibration.pc \in {"building", "scoring"} => rows = {}

\* There are finitely many rows to choose thresholds over.
LEMMA RowsFinite == ASSUME CandidatesFit, RowsFit PROVE IsFiniteSet(rows)
  <1>1. IsFiniteSet(candidates)
    <2> DEFINE f == [c \in candidates |-> c.song]
    <2>1. f \in Injection(candidates, Songs)
      BY DEF CandidatesFit, Injection, IsInjective
    <2>2. QED
      BY <2>1, FS_Injection, CalibrationAssumption
  <1> DEFINE places == candidates \X (1..MaxRows)
             g == [r \in rows |-> <<r.candidate, r.window>>]
  <1>2. IsFiniteSet(places)
    <2>1. IsFiniteSet(1..MaxRows)
      BY CalibrationAssumption, FS_Interval
    <2>2. QED
      BY <1>1, <2>1, FS_Product
  <1>3. g \in Injection(rows, places)
    BY DEF RowsFit, Injection, IsInjective
  <1> HIDE DEF places, g
  <1>4. QED
    BY <1>2, <1>3, FS_Injection

\* When all values are tried, thresholds accept as those do that occur in the rows just above them.
LEMMA OccurringThresholds ==
    ASSUME NEW of, AllTried(of), \A r \in of : r.score \in Nat /\ r.margin \in Nat,
           NEW a \in Nat, NEW m \in Nat,
           Accepted(of, [accept |-> a, margin |-> m, reject |-> 0]) # {}
    PROVE  \E b \in Thresholds(of) : Accepted(of, b) = Accepted(of, [accept |-> a, margin |-> m, reject |-> 0])
  <1> DEFINE scores == {r.score : r \in {x \in of : x.score >= a}}
             margins == {r.margin : r \in {x \in of : x.margin >= m}}
  <1>1. PICK e \in of : e.score >= a /\ e.margin >= m
    BY DEF Accepted
  <1>2. scores \in SUBSET Nat /\ scores # {} /\ margins \in SUBSET Nat /\ margins # {}
    BY <1>1
  <1>3. PICK s \in scores : \A k \in scores : s <= k
    <2> HIDE DEF scores, margins
    <2>1. QED
      BY <1>2, LeastNumber
  <1>4. PICK n \in margins : \A k \in margins : n <= k
    <2> HIDE DEF scores, margins
    <2>1. QED
      BY <1>2, LeastNumber
  <1> DEFINE b == [accept |-> s, margin |-> n, reject |-> 0]
  <1>5. b \in Thresholds(of)
    <2>1. b \in [accept : ScoresOf(of), margin : MarginsOf(of), reject : {0}]
      BY <1>3, <1>4 DEF ScoresOf, MarginsOf
    <2>2. QED
      BY <2>1 DEF Thresholds, AllTried, ThresholdValues
  <1>6. ASSUME NEW r \in of PROVE (r.score >= s <=> r.score >= a) /\ (r.margin >= n <=> r.margin >= m)
    <2>1. s >= a /\ n >= m
      BY <1>3, <1>4
    <2>2. r.score >= a => s <= r.score
      BY <1>3
    <2>3. r.margin >= m => n <= r.margin
      BY <1>4
    <2>4. QED
      BY <1>2, <2>1, <2>2, <2>3
  <1>7. Accepted(of, b) = Accepted(of, [accept |-> a, margin |-> m, reject |-> 0])
    BY <1>6 DEF Accepted
  <1>8. QED
    BY <1>5, <1>7

\* The rejected positives are those below the chosen score, and no more than allowed.
LEMMA RejectsFew ==
    ASSUME NEW of, IsFiniteSet(of), \A r \in of : r.score \in Nat \ {0},
           NEW t, t.reject = SelectReject(of)
    PROVE  /\ Cardinality(Positive(of)) \in Nat /\ Cardinality(Positive(Rejected(of, t))) \in Nat
           /\ (Cardinality(Positive(of)) - Cardinality(Positive(Rejected(of, t)))) * 100
                >= PositiveRetention * Cardinality(Positive(of))
  <1> DEFINE P == Positive(of)
             R == Positive(Rejected(of, t))
             allowed == (Cardinality(P) * (100 - PositiveRetention)) \div 100
             below(s) == {r \in P : r.score < s}
             S == {r.score : r \in {x \in P : Cardinality(below(x.score)) <= allowed}}
  <1>1. P \in SUBSET of /\ R \in SUBSET P
    BY DEF Positive, Rejected
  <1>2. IsFiniteSet(P) /\ IsFiniteSet(R) /\ Cardinality(P) \in Nat /\ Cardinality(R) \in Nat
    <2>1. IsFiniteSet(P)
      BY <1>1, FS_Subset
    <2>2. IsFiniteSet(R)
      BY <1>1, <2>1, FS_Subset
    <2>3. QED
      BY <2>1, <2>2, FS_CardinalityType
  <1>3. t.reject = Max(S) - 1
    BY DEF SelectReject
  <1>4. allowed \in Nat /\ allowed * 100 <= Cardinality(P) * (100 - PositiveRetention)
    <2>1. ASSUME NEW n \in Nat PROVE n \div 100 \in Nat /\ (n \div 100) * 100 <= n
      OBVIOUS
    <2>2. ASSUME NEW n \in Nat, NEW k \in 0 .. 100 PROVE n * (100 - k) \in Nat
      <3>1. 100 - k \in Nat
        OBVIOUS
      <3>2. QED
        BY <3>1
    <2>3. Cardinality(P) * (100 - PositiveRetention) \in Nat
      BY <1>2, <2>2, CalibrationAssumption
    <2>4. QED
      BY <2>1, <2>3
  <1>5. Cardinality(R) <= allowed
    <2>1. CASE P = {}
      <3>1. R = {}
        BY <1>1, <2>1
      <3>2. Cardinality(R) = 0
        BY <3>1, FS_EmptySet
      <3>3. QED
        BY <1>4, <3>2
    <2>2. CASE P # {}
      <3> DEFINE Q == {x \in P : Cardinality(below(x.score)) <= allowed}
                 scores == {r.score : r \in P}
      <3>1. PICK s \in scores : \A k \in scores : s <= k
        <4>1. scores \in SUBSET Nat /\ scores # {}
          BY <1>1, <2>2
        <4> HIDE DEF scores
        <4>2. QED
          BY <4>1, LeastNumber
      <3>2. PICK x \in P : s = x.score
        OBVIOUS
      <3>3. below(x.score) = {}
        <4>1. ASSUME NEW r \in P, r.score < x.score PROVE FALSE
          <5>1. r.score \in Nat /\ x.score \in Nat
            BY <1>1
          <5>2. x.score <= r.score
            BY <3>1, <3>2
          <5>3. QED
            BY <4>1, <5>1, <5>2
        <4>2. QED
          BY <4>1
      <3>4. x \in Q
        <4>1. Cardinality({}) <= allowed
          BY <1>4, FS_EmptySet
        <4>2. QED
          BY <3>2, <3>3, <4>1
      <3>5. IsFiniteSet(S)
        <4> DEFINE h == [r \in Q |-> r.score]
        <4>1. h \in Surjection(Q, S)
          BY DEF Surjection
        <4>2. Q \in SUBSET P
          OBVIOUS
        <4>3. IsFiniteSet(Q)
          <5> HIDE DEF Q
          <5>1. QED
            BY <1>2, <4>2, FS_Subset
        <4> HIDE DEF h, S, Q
        <4>4. QED
          BY <4>1, <4>3, FS_Surjection
      <3>6. S \in SUBSET Nat /\ S # {}
        BY <1>1, <3>4
      <3>7. Max(S) \in S
        <4> HIDE DEF S
        <4>1. QED
          BY <3>5, <3>6, LargestOf
      <3> DEFINE top == Max(S)
      <3>8. top \in Nat /\ Cardinality(below(top)) <= allowed
        <4> HIDE DEF top, allowed
        <4>1. top \in S
          BY <3>7 DEF top
        <4>2. PICK y \in P : top = y.score /\ Cardinality(below(y.score)) <= allowed
          BY <4>1
        <4>3. QED
          BY <3>6, <4>1, <4>2
      <3>9. R = below(top)
        <4> HIDE DEF top, S
        <4>1. t.reject = top - 1
          BY <1>3 DEF top
        <4>2. ASSUME NEW r \in of PROVE r.score <= t.reject <=> r.score < top
          BY <3>8, <4>1
        <4>3. QED
          BY <4>2 DEF Positive, Rejected
      <3> HIDE DEF R, top, allowed, below
      <3>10. QED
        BY <3>8, <3>9
    <2>3. QED
      BY <2>1, <2>2
  <1>6. ASSUME NEW n \in Nat, NEW q \in Nat, NEW a \in Nat, NEW k \in 0 .. 100,
               q <= a, a * 100 <= n * (100 - k)
        PROVE  (n - q) * 100 >= k * n
    <2>1. n * (100 - k) = n * 100 - k * n
      OBVIOUS
    <2>2. QED
      BY <1>6, <2>1
  <1> HIDE DEF allowed, R, P
  <1>7. QED
    BY <1>2, <1>4, <1>5, <1>6, CalibrationAssumption DEF R, P


\* A song is picked once, for one label (build_calibration_corpus).
LEMMA BuildSteps == ASSUME CalibrationInv, BuildCorpus PROVE CalibrationInv'
  <1>1. PICK selected \in UNION {PickSongs(pools) : pools \in [LABEL_GROUPS -> SUBSET Songs]} :
         LET all == UNION {{[song |-> s, label |-> l] : s \in selected[l]} : l \in LABEL_GROUPS} IN
         \E some \in SUBSET all, decodes \in SUBSET all :
           candidates' = {[song |-> c.song, label |-> c.label,
                           split |-> IF c \in some THEN "calibration" ELSE "validation"] : c \in decodes}
    BY DEF BuildCorpus
  <1>2. PICK pools \in [LABEL_GROUPS -> SUBSET Songs] : selected \in PickSongs(pools)
    OBVIOUS
  <1> DEFINE all == UNION {{[song |-> s, label |-> l] : s \in selected[l]} : l \in LABEL_GROUPS}
  <1>3. PICK some \in SUBSET all, decodes \in SUBSET all :
           candidates' = {[song |-> c.song, label |-> c.label,
                           split |-> IF c \in some THEN "calibration" ELSE "validation"] : c \in decodes}
    BY <1>1
  <1>4. /\ \A l \in LABEL_GROUPS : selected[l] \subseteq Songs
        /\ \A l, k \in LABEL_GROUPS : l # k => selected[l] \cap selected[k] = {}
    BY <1>2, LabelsApart
  <1>5. \A c \in all : /\ c.label \in LABEL_GROUPS /\ c.song \in selected[c.label]
                       /\ c = [song |-> c.song, label |-> c.label]
    OBVIOUS
  <1> HIDE DEF all
  <1>6. \A c, d \in all : c.song = d.song => c = d
    <2>1. SUFFICES ASSUME NEW c \in all, NEW d \in all, c.song = d.song PROVE c = d
      OBVIOUS
    <2>2. c.label = d.label
      BY <1>4, <1>5, <2>1
    <2>3. QED
      BY <1>5, <2>1, <2>2
  <1>7. CandidatesFit'
    <2>1. candidates' \subseteq [song : Songs, label : LABEL_GROUPS, split : {"calibration", "validation"}]
      <3>1. \A c \in decodes : c.song \in Songs /\ c.label \in LABEL_GROUPS
        BY <1>4, <1>5
      <3>2. QED
        BY <1>3, <3>1
    <2>2. ASSUME NEW x \in candidates', NEW y \in candidates', x.song = y.song PROVE x = y
      <3>1. PICK c \in decodes : x = [song |-> c.song, label |-> c.label,
                                      split |-> IF c \in some THEN "calibration" ELSE "validation"]
        BY <1>3
      <3>2. PICK d \in decodes : y = [song |-> d.song, label |-> d.label,
                                      split |-> IF d \in some THEN "calibration" ELSE "validation"]
        BY <1>3
      <3>3. c = d
        BY <1>6, <2>2, <3>1, <3>2
      <3>4. QED
        BY <3>1, <3>2, <3>3
    <2>3. QED
      BY <2>1, <2>2 DEF CandidatesFit
  <1>8. rows' = {} /\ calibration'.pc = "scoring"
    BY DEF BuildCorpus, Step, CalibrationInv
  <1>9. QED
    BY <1>7, <1>8 DEF CalibrationInv, RowsFit, ReportedFit

\* A batch scores its own songs.
LEMMA ScoreSteps == ASSUME CalibrationInv, ScoreBatch PROVE CalibrationInv'
  <1>0. PICK heard \in SUBSET candidates : \E W \in Windows(heard) : \E reading \in [W -> Readings] :
         rows' = {[candidate |-> w[1], window |-> w[2], score |-> reading[w].score,
                   margin |-> reading[w].margin, seen |-> {}] : w \in W}
    BY DEF ScoreBatch
  <1>1. PICK W \in Windows(heard) : \E reading \in [W -> Readings] :
         rows' = {[candidate |-> w[1], window |-> w[2], score |-> reading[w].score,
                   margin |-> reading[w].margin, seen |-> {}] : w \in W}
    BY <1>0
  <1>2. PICK reading \in [W -> Readings] :
         rows' = {[candidate |-> w[1], window |-> w[2], score |-> reading[w].score,
                   margin |-> reading[w].margin, seen |-> {}] : w \in W}
    BY <1>1
  <1>3. \A w \in W : /\ w[1] \in candidates /\ w[2] \in 1..MaxRows /\ w = <<w[1], w[2]>>
                     /\ reading[w].score \in Nat \ {0} /\ reading[w].margin \in Nat
    <2>1. W \in SUBSET (heard \X (1..MaxRows))
      BY DEF Windows
    <2>2. \A x \in Readings : x.score \in Nat \ {0} /\ x.margin \in Nat
      BY CalibrationAssumption
    <2>3. QED
      BY <2>1, <2>2
  <1>4. UNCHANGED candidates /\ calibration'.pc = "calibrating"
    BY DEF ScoreBatch, Step
  <1>5. RowsFit'
    <2>1. ASSUME NEW r \in rows' PROVE
            \E w \in W : r = [candidate |-> w[1], window |-> w[2], score |-> reading[w].score,
                              margin |-> reading[w].margin, seen |-> {}]
      BY <1>2
    <2>2. ASSUME NEW r \in rows'
          PROVE  /\ r.candidate \in candidates /\ r.window \in 1..MaxRows
                 /\ r.score \in Nat \ {0} /\ r.margin \in Nat /\ r.candidate.song \notin r.seen
      BY <1>3, <2>1
    <2>3. ASSUME NEW r \in rows', NEW q \in rows', r.candidate = q.candidate, r.window = q.window PROVE r = q
      <3>1. PICK w \in W : r = [candidate |-> w[1], window |-> w[2], score |-> reading[w].score,
                                margin |-> reading[w].margin, seen |-> {}]
        BY <2>1
      <3>2. PICK x \in W : q = [candidate |-> x[1], window |-> x[2], score |-> reading[x].score,
                                margin |-> reading[x].margin, seen |-> {}]
        BY <2>1
      <3>3. w = x
        BY <1>3, <2>3, <3>1, <3>2
      <3>4. QED
        BY <3>1, <3>2, <3>3
    <2>4. QED
      BY <1>4, <2>2, <2>3 DEF RowsFit
  <1>6. CandidatesFit'
    BY <1>4 DEF CalibrationInv, CandidatesFit
  <1>7. QED
    BY <1>4, <1>5, <1>6 DEF CalibrationInv, ReportedFit

\* A head scores none of the songs it was trained with.
LEMMA HeadSteps == ASSUME CalibrationInv, TrainSynthHead PROVE CalibrationInv'
  <1>1. PICK fold \in DealtFolds, W \in Windows(candidates) : \E score \in [W -> Scores] :
          rows' = {[candidate |-> w[1], window |-> w[2], score |-> score[w], margin |-> 1,
                    seen |-> {d.song : d \in {e \in Calibrating : w[1] \in Calibrating => fold[e] # fold[w[1]]}}] : w \in W}
    BY DEF TrainSynthHead
  <1> DEFINE seen(c) == {d.song : d \in {e \in Calibrating : c \in Calibrating => fold[e] # fold[c]}}
  <1>2. PICK score \in [W -> Scores] :
          rows' = {[candidate |-> w[1], window |-> w[2], score |-> score[w], margin |-> 1,
                    seen |-> seen(w[1])] : w \in W}
    BY <1>1
  <1>3. \A w \in W : /\ w[1] \in candidates /\ w[2] \in 1..MaxRows /\ w = <<w[1], w[2]>>
                     /\ score[w] \in Nat \ {0}
    <2>1. W \in SUBSET (candidates \X (1..MaxRows))
      BY DEF Windows
    <2>2. Scores \subseteq Nat \ {0}
      BY CalibrationAssumption DEF Scores
    <2>3. \A w \in W : score[w] \in Nat \ {0}
      BY <2>2
    <2>4. \A w \in W : w[1] \in candidates /\ w[2] \in 1..MaxRows /\ w = <<w[1], w[2]>>
      BY <2>1
    <2>5. QED
      BY <2>3, <2>4
  <1>4. ASSUME NEW c \in candidates PROVE c.song \notin seen(c)
    <2>1. ASSUME NEW d \in Calibrating, c \in Calibrating => fold[d] # fold[c], d.song = c.song
          PROVE  FALSE
      <3>1. d = c
        BY <2>1 DEF CalibrationInv, CandidatesFit, Calibrating
      <3>2. QED
        BY <2>1, <3>1
    <2>2. QED
      BY <2>1
  <1> HIDE DEF seen
  <1>5. UNCHANGED candidates /\ calibration'.pc = "calibrating"
    BY DEF TrainSynthHead, Step
  <1>6. RowsFit'
    <2>1. ASSUME NEW r \in rows' PROVE
            \E w \in W : r = [candidate |-> w[1], window |-> w[2], score |-> score[w], margin |-> 1,
                              seen |-> seen(w[1])]
      BY <1>2
    <2>2. ASSUME NEW r \in rows'
          PROVE  /\ r.candidate \in candidates /\ r.window \in 1..MaxRows
                 /\ r.score \in Nat \ {0} /\ r.margin \in Nat /\ r.candidate.song \notin r.seen
      BY <1>3, <1>4, <2>1
    <2>3. ASSUME NEW r \in rows', NEW q \in rows', r.candidate = q.candidate, r.window = q.window PROVE r = q
      <3>1. PICK w \in W : r = [candidate |-> w[1], window |-> w[2], score |-> score[w], margin |-> 1,
                                seen |-> seen(w[1])]
        BY <2>1
      <3>2. PICK x \in W : q = [candidate |-> x[1], window |-> x[2], score |-> score[x], margin |-> 1,
                                seen |-> seen(x[1])]
        BY <2>1
      <3>3. w = x
        BY <1>3, <2>3, <3>1, <3>2
      <3>4. QED
        BY <3>1, <3>2, <3>3
    <2>4. QED
      BY <1>5, <2>2, <2>3 DEF RowsFit
  <1>7. CandidatesFit'
    BY <1>5 DEF CalibrationInv, CandidatesFit
  <1>8. QED
    BY <1>5, <1>6, <1>7 DEF CalibrationInv, ReportedFit

\* What is selected is on target, and nothing on target accepts more positives.
LEMMA SelectedIsBest ==
    ASSUME NEW of, IsFiniteSet(of), NEW t \in SelectAccept(of) \cup SelectHeadThreshold(of)
    PROVE  /\ t \in OnTarget(of)
           /\ \A b \in OnTarget(of) : Cardinality(Positive(Accepted(of, b))) <= Cardinality(Positive(Accepted(of, t)))
  <1>1. t \in OnTarget(of)
    BY DEF SelectAccept, SelectHeadThreshold
  <1>2. ASSUME NEW b PROVE Cardinality(Positive(Accepted(of, b))) \in Nat
    <2>1. Positive(Accepted(of, b)) \in SUBSET of
      BY DEF Positive, Accepted
    <2>2. QED
      BY <2>1, FS_Subset, FS_CardinalityType
  <1>3. ASSUME NEW b \in OnTarget(of)
        PROVE  Cardinality(Positive(Accepted(of, t))) > Cardinality(Positive(Accepted(of, b)))
               \/ Cardinality(Positive(Accepted(of, t))) = Cardinality(Positive(Accepted(of, b)))
    BY DEF SelectAccept, SelectHeadThreshold, Outranks
  <1>4. QED
    BY <1>1, <1>2, <1>3

\* The thresholds that are reported are found among those that meet the targets.
LEMMA CalibrateSteps == ASSUME CalibrationInv, Calibrate PROVE CalibrationInv'
  <1> DEFINE of == InSplit("calibration")
  <1> DEFINE selected == IF calibration.by = "batch" THEN SelectAccept(of) ELSE SelectHeadThreshold(of)
  <1>1. UNCHANGED <<candidates, rows>> /\ calibration'.pc \in {"ended", "reported"}
        /\ calibration'.by = calibration.by
        /\ (calibration'.pc = "reported" =>
               \E t \in selected : thresholds' = [t EXCEPT !.reject = SelectReject(of)])
    <2>1. UNCHANGED <<candidates, rows>>
      BY DEF Calibrate
    <2> DEFINE stops == \/ ~EnoughExamples \/ selected = {}
                        \/ calibration.by = "head" /\ Positive(InSplit("validation")) = {}
    <2>2. CASE stops
      <3>1. Step("ended", calibration.by, "none")
        BY <2>2 DEF Calibrate
      <3>2. QED
        BY <2>1, <3>1 DEF Step
    <2>3. CASE ~stops
      <3>1. PICK t \in selected :
              /\ thresholds' = [t EXCEPT !.reject = SelectReject(of)]
              /\ \E status : Step("reported", calibration.by, status)
        BY <2>3 DEF Calibrate
      <3>2. calibration'.pc = "reported" /\ calibration'.by = calibration.by
        BY <3>1 DEF Step
      <3>3. QED
        BY <2>1, <3>1, <3>2
    <2>4. QED
      BY <2>2, <2>3
  <1>2. CandidatesFit' /\ RowsFit'
    BY <1>1 DEF CalibrationInv, CandidatesFit, RowsFit
  <1>3. ASSUME calibration'.pc = "reported" PROVE ReportedFit'
    <2>1. PICK t \in SelectAccept(of) \cup SelectHeadThreshold(of) :
            thresholds' = [t EXCEPT !.reject = SelectReject(of)]
      BY <1>1, <1>3
    <2>2. of \in SUBSET rows /\ of' = of
      BY <1>1 DEF InSplit
    <2>3. IsFiniteSet(of) /\ \A r \in of : r.score \in Nat \ {0} /\ r.margin \in Nat
      <3>1. IsFiniteSet(rows)
        BY RowsFinite DEF CalibrationInv
      <3>2. IsFiniteSet(of)
        <4> HIDE DEF of
        <4>1. QED
          BY <2>2, <3>1, FS_Subset
      <3>3. QED
        BY <2>2, <3>2 DEF CalibrationInv, RowsFit
    <2> HIDE DEF of
    <2>4. /\ t \in OnTarget(of)
          /\ \A b \in OnTarget(of) : Cardinality(Positive(Accepted(of, b))) <= Cardinality(Positive(Accepted(of, t)))
      BY <2>1, <2>3, SelectedIsBest
    <2>5. /\ thresholds'.accept = t.accept /\ thresholds'.margin = t.margin /\ thresholds'.reject = SelectReject(of)
      BY <2>1, <2>4 DEF OnTarget, Thresholds
    <2>6. Accepted(of, thresholds') = Accepted(of, t)
      BY <2>5 DEF Accepted
    <2>7. Precise(of, thresholds') /\ Recalled(of, thresholds')
      BY <2>4, <2>6 DEF OnTarget, Precise, Recalled
    <2>8. (Cardinality(Positive(of)) - Cardinality(Positive(Rejected(of, thresholds')))) * 100
             >= PositiveRetention * Cardinality(Positive(of))
      BY <2>3, <2>5, RejectsFew
    <2>9. ASSUME NEW other \in IF AllTried(of) THEN [accept : Scores, margin : Margins, reject : {0}]
                              ELSE Thresholds(of),
                 Precise(of, other), Recalled(of, other)
          PROVE  Cardinality(Positive(Accepted(of, other))) <= Cardinality(Positive(Accepted(of, thresholds')))
      <3>1. CASE AllTried(of)
        <4>1. /\ Accepted(of, other) # {} /\ other.accept \in Nat /\ other.margin \in Nat
              /\ other = [accept |-> other.accept, margin |-> other.margin, reject |-> 0]
          BY <2>9, <3>1, CalibrationAssumption DEF Precise, Scores, Margins
        <4>2. PICK b \in Thresholds(of) : Accepted(of, b) = Accepted(of, other)
          BY <2>3, <3>1, <4>1, OccurringThresholds
        <4>3. b \in OnTarget(of)
          BY <2>9, <4>2 DEF OnTarget, Precise, Recalled
        <4>4. QED
          BY <2>4, <2>6, <4>2, <4>3
      <3>2. CASE ~AllTried(of)
        <4>1. other \in OnTarget(of)
          BY <2>9, <3>2 DEF OnTarget
        <4>2. QED
          BY <2>4, <2>6, <4>1
      <3>3. QED
        BY <3>1, <3>2
    <2>10. AllTried(of)' = AllTried(of) /\ Thresholds(of)' = Thresholds(of)
      BY <1>1, <2>2 DEF AllTried, Thresholds, ThresholdValues, ScoresOf, MarginsOf
    <2>11. QED
      BY <2>2, <2>7, <2>8, <2>9, <2>10 DEF ReportedFit, Precise, Recalled, Positive, Rejected, Accepted, of
  <1>4. calibration'.pc # "reported" => ReportedFit'
    BY DEF ReportedFit
  <1>5. QED
    BY <1>1, <1>2, <1>3, <1>4 DEF CalibrationInv

\* So the invariant of the calibration always holds.
LEMMA CalibrationInvariant == CalibrationSpec => []CalibrationInv
  <1>1. CalibrationInit => CalibrationInv
    BY DEF CalibrationInit, CalibrationInv, CandidatesFit, RowsFit, ReportedFit
  <1>2. CalibrationInv /\ [CalibrationNext]_calibrationVars => CalibrationInv'
    <2>1. ASSUME CalibrationInv, UNCHANGED calibrationVars PROVE CalibrationInv'
      <3>1. /\ UNCHANGED <<candidates, rows, thresholds, calibration>>
            /\ InSplit("calibration")' = InSplit("calibration") /\ InSplit("validation")' = InSplit("validation")
        BY <2>1 DEF calibrationVars, InSplit
      <3>2. CandidatesFit' /\ RowsFit'
        BY <2>1, <3>1 DEF CalibrationInv, CandidatesFit, RowsFit
      <3>3. \A of : AllTried(of)' = AllTried(of) /\ Thresholds(of)' = Thresholds(of)
        BY <3>1 DEF AllTried, Thresholds
      <3>4. ReportedFit'
        BY <2>1, <3>1, <3>3 DEF CalibrationInv, ReportedFit, Positive, Accepted, Rejected, Precise, Recalled
      <3>5. QED
        BY <2>1, <3>1, <3>2, <3>4 DEF CalibrationInv
    <2>2. QED
      BY <2>1, BuildSteps, ScoreSteps, HeadSteps, CalibrateSteps DEF CalibrationNext
  <1>3. QED
    BY <1>1, <1>2, PTL DEF CalibrationSpec

\* For any songs, labels' counts, windows, scores, targets and folds: no song is a candidate twice
\* and no score is of a head trained with the song, and what is reported keeps the targets on the
\* calibration songs and accepts the most positives that thresholds on target can: any, as long
\* as no more values occur than are tried, and otherwise those that are tried
\* (build_synth_cleaner_calibration, calibrate_synth_cleaner, train_synth_head).
THEOREM ThresholdsAreSound == CalibrationSpec => []CalibrationSound
  <1>1. CalibrationInv => CalibrationSound
    BY DEF CalibrationInv, CandidatesFit, RowsFit, ReportedFit, CalibrationSound
  <1>2. QED
    BY <1>1, CalibrationInvariant, PTL

-----------------------------------------------------------------------------
(*************************************************************************)
(* BakeoffCompletes for any pairs, calls and answers of the worker.  The *)
(* report is read by a later call, so what a result says has to stay true*)
(* of the worker (Backed) and a result without a score has to be known as*)
(* one (Accounted); and a call returns over what it found as well as over*)
(* what it did (Passed), which is all pairs and, with one result for each*)
(* pair (OneEach), nothing else.                                         *)
(*************************************************************************)

JobAnswers == [status : {"none", "completed", "error"}, contract : BOOLEAN, run : Nat]

PairResults == [pair : PairSet, status : {"none", "completed", "error"}, run : Nat, contract_failure : BOOLEAN,
                scored : {"no", "own", "stale"}, quality_scoring_error : BOOLEAN]

Benches == [call : Nat, pc : {"stopped", "returned", "pairs", "submitting", "answered", "scoring"},
            scoring : BOOLEAN, at : Nat \ {0}, results : Seq(PairResults), answer : JobAnswers]

BakeoffTypeOK ==
    /\ bench \in Benches
    /\ workerJobs \in [PairSet -> JobAnswers]
    /\ report \in [written : BOOLEAN, status : {"none", "failed_early", "completed", "in_progress"}, results : Seq(PairResults)]
    /\ predictions \in [PairSet -> Nat]
    /\ leftUnscored \subseteq PairSet

\* No pair has two results.
OneEach(results) == \A i, j \in DOMAIN results : results[i].pair = results[j].pair => i = j

DoneIn(run) == [status |-> "completed", contract |-> TRUE, run |-> run]

\* A result without a failure of the contract is what the worker still has.
Backed(r) ==
    /\ r.contract_failure \/ (r.status = "completed" /\ workerJobs[r.pair] = DoneIn(r.run))
    /\ r.scored \in {"no", "own"}

\* Who is not scored was left so, or is about to be.
Accounted(r) ==
    Valid(r) /\ r.scored = "no" => r.pair \in leftUnscored \/ (bench.pc = "scoring" /\ r.pair = Pairs[bench.at])

ResultsSound(results) ==
    OneEach(results) /\ \A i \in DOMAIN results : Backed(results[i]) /\ Accounted(results[i])

PredictionsSound == \A p \in PairSet : predictions[p] # 0 => workerJobs[p] = DoneIn(predictions[p])

\* The pair a call is at: without a result until it is reported.
Underway ==
    /\ bench.pc \in {"submitting", "answered", "scoring"} => bench.at \in DOMAIN Pairs
    /\ bench.pc \in {"submitting", "answered"} => \A i \in DOMAIN bench.results : bench.results[i].pair # Pairs[bench.at]
    /\ bench.pc = "answered" => bench.answer = workerJobs[Pairs[bench.at]]
    /\ bench.pc = "scoring" =>
         /\ bench.results # <<>> /\ Last(bench.results).pair = Pairs[bench.at]
         /\ Valid(Last(bench.results)) /\ Last(bench.results).scored = "no"

\* The pairs a call has passed have valid results.
Passed ==
    /\ bench.at <= Len(Pairs) + 1
    /\ bench.pc # "stopped" => \A n \in 1 .. bench.at - 1 :
         \E i \in DOMAIN bench.results : bench.results[i].pair = Pairs[n] /\ Valid(bench.results[i])

\* Between pairs the report has all results.
ReportKept ==
    /\ bench.pc \in {"pairs", "returned"} =>
         (report.written /\ report.results = bench.results) \/ (bench.results = <<>> /\ bench.at = 1)
    /\ bench.pc = "returned" => bench.at = Len(Pairs) + 1
    /\ report.written => report.status = StatusOf(report.results)

BakeoffInv ==
    /\ BakeoffTypeOK /\ ResultsSound(bench.results) /\ ResultsSound(report.results)
    /\ PredictionsSound /\ Underway /\ Passed /\ ReportKept

-----------------------------------------------------------------------------

\* A subsequence has the elements at its places, in their order, and no other.
LEMMA ThoseAre ==
    ASSUME NEW T, NEW seq \in Seq(T), NEW places \in SUBSET DOMAIN seq
    PROVE  /\ Those(seq, places) \in Seq(T) /\ Len(Those(seq, places)) = Cardinality(places)
           /\ \A n \in DOMAIN Those(seq, places) : \E i \in places : Those(seq, places)[n] = seq[i]
           /\ \A i \in places : \E n \in DOMAIN Those(seq, places) : Those(seq, places)[n] = seq[i]
           /\ (\A i, j \in places : seq[i] = seq[j] => i = j) =>
                \A m, n \in DOMAIN Those(seq, places) : Those(seq, places)[m] = Those(seq, places)[n] => m = n
  <1> DEFINE before == {p \in places \X places : p[1] < p[2]}
             rank == [i \in places |-> Cardinality({j \in places : <<j, i>> \in before})]
             count == Cardinality(places)
  <1>1. /\ IsFiniteSet(places) /\ \A i \in places : i \in Nat /\ seq[i] \in T
        /\ places \subseteq 1 .. Len(seq)
    <2>1. places \subseteq 1 .. Len(seq) /\ Len(seq) \in Nat
      OBVIOUS
    <2>2. IsFiniteSet(1 .. Len(seq))
      BY <2>1, FS_Interval
    <2>3. QED
      BY <2>1, <2>2, FS_Subset
  <1>2. count \in Nat
    BY <1>1, FS_CardinalityType
  <1>3. \A i, j \in places : <<j, i>> \in before <=> j < i
    OBVIOUS
  <1>4. \A i \in places : rank[i] = Cardinality({j \in places : j < i})
    <2> TAKE i \in places
    <2>1. {j \in places : <<j, i>> \in before} = {j \in places : j < i}
      BY <1>3
    <2>2. QED
      BY <2>1
  <1> HIDE DEF before
  <1>5. rank \in Bijection(places, 0 .. count - 1)
    <2>1. \A i \in places : <<i, i>> \notin before
      BY <1>1, <1>3
    <2>2. \A i, j, k \in places : <<i, j>> \in before /\ <<j, k>> \in before => <<i, k>> \in before
      BY <1>1, <1>3
    <2>3. \A i, j \in places : i # j => <<i, j>> \in before \/ <<j, i>> \in before
      BY <1>1, <1>3
    <2>4. QED
      BY <1>1, <2>1, <2>2, <2>3, Ranks
  <1> HIDE DEF rank, count
  <1>6. /\ rank \in [places -> 0 .. count - 1] /\ \A i, j \in places : rank[i] = rank[j] => i = j
        /\ \A k \in 0 .. count - 1 : \E i \in places : rank[i] = k
    BY <1>5 DEF Bijection, Injection, Surjection, IsInjective
  <1> DEFINE place == [n \in 1 .. count |-> CHOOSE i \in places : Cardinality({j \in places : j < i}) = n - 1]
  <1>7. \A n \in 1 .. count : place[n] \in places /\ rank[place[n]] = n - 1
    <2> TAKE n \in 1 .. count
    <2>1. n - 1 \in 0 .. count - 1
      BY <1>2
    <2>2. \E i \in places : Cardinality({j \in places : j < i}) = n - 1
      BY <1>4, <1>6, <2>1
    <2>3. place[n] \in places /\ Cardinality({j \in places : j < place[n]}) = n - 1
      BY <2>2
    <2> HIDE DEF place
    <2>4. QED
      BY <1>4, <2>3
  <1>8. \A i \in places : rank[i] + 1 \in 1 .. count /\ place[rank[i] + 1] = i
    <2> TAKE i \in places
    <2>1. rank[i] \in 0 .. count - 1
      BY <1>6
    <2>2. rank[i] + 1 \in 1 .. count /\ (rank[i] + 1) - 1 = rank[i]
      BY <1>2, <2>1
    <2> HIDE DEF place
    <2>3. QED
      BY <1>6, <1>7, <2>2
  <1> DEFINE those == Those(seq, places)
  <1>9. those = [n \in 1 .. count |-> seq[place[n]]]
    BY DEF Those, count
  <1> HIDE DEF place, those
  <1>10. those \in Seq(T) /\ Len(those) = count /\ DOMAIN those = 1 .. count
    <2>1. \A n \in 1 .. count : seq[place[n]] \in T
      BY <1>1, <1>7
    <2>2. QED
      BY <1>2, <1>9, <2>1
  <1>11. place \in [1 .. count -> places]
    BY <1>7 DEF place
  <1>12. \A m, n \in 1 .. count : place[m] = place[n] => m = n
    BY <1>7
  <1>13. \A i \in places : \E n \in 1 .. count : place[n] = i
    BY <1>8
  <1>14. \A n \in 1 .. count : those[n] = seq[place[n]]
    BY <1>9
  <1>15. /\ \A n \in DOMAIN those : \E i \in places : those[n] = seq[i]
         /\ \A i \in places : \E n \in DOMAIN those : those[n] = seq[i]
         /\ (\A i, j \in places : seq[i] = seq[j] => i = j) =>
              \A m, n \in DOMAIN those : those[m] = those[n] => m = n
    BY <1>10, <1>11, <1>12, <1>13, <1>14
  <1>16. those \in Seq(T) /\ Len(those) = Cardinality(places)
    BY <1>10 DEF count
  <1>17. QED
    BY <1>15, <1>16 DEF those

\* What the drop leaves is sound, and has no result of the pair.
LEMMA DropKeeps ==
    ASSUME BakeoffInv, NEW pair
    PROVE  /\ Dropped(pair) \in Seq(PairResults)
           /\ OneEach(Dropped(pair))
           /\ \A i \in DOMAIN Dropped(pair) : \E j \in DOMAIN bench.results :
                /\ Dropped(pair)[i] = bench.results[j] /\ Dropped(pair)[i].pair # pair
           /\ \A j \in DOMAIN bench.results : bench.results[j].pair # pair =>
                \E i \in DOMAIN Dropped(pair) : Dropped(pair)[i] = bench.results[j]
  <1> DEFINE results == bench.results
             places == {i \in DOMAIN results : results[i].pair # pair}
             those == Those(results, places)
  <1>1. results \in Seq(PairResults) /\ OneEach(results)
    BY DEF BakeoffInv, BakeoffTypeOK, Benches, ResultsSound
  <1>2. places \in SUBSET DOMAIN results /\ \A i \in places : results[i].pair # pair
    OBVIOUS
  <1>3. \A j \in DOMAIN results : results[j].pair # pair => j \in places
    OBVIOUS
  <1>4. Dropped(pair) = those
    BY DEF Dropped
  <1> HIDE DEF results, places, those
  <1>5. those \in Seq(PairResults)
    BY <1>1, <1>2, ThoseAre DEF those
  <1>6. /\ \A n \in DOMAIN those : \E i \in places : those[n] = results[i]
        /\ \A i \in places : \E n \in DOMAIN those : those[n] = results[i]
        /\ (\A i, j \in places : results[i] = results[j] => i = j) =>
             \A m, n \in DOMAIN those : those[m] = those[n] => m = n
    BY <1>1, <1>2, ThoseAre DEF those
  <1>7. OneEach(those)
    <2>1. \A i, j \in places : results[i].pair = results[j].pair => i = j
      BY <1>1, <1>2 DEF OneEach
    <2>2. \A m, n \in DOMAIN those : those[m] = those[n] => m = n
      BY <1>6, <2>1
    <2>3. QED
      BY <1>6, <2>1, <2>2 DEF OneEach
  <1>8. \A i \in DOMAIN those : \E j \in DOMAIN results : those[i] = results[j] /\ those[i].pair # pair
    BY <1>2, <1>6
  <1>9. \A j \in DOMAIN results : results[j].pair # pair => \E i \in DOMAIN those : those[i] = results[j]
    BY <1>3, <1>6
  <1>10. QED
    BY <1>4, <1>5, <1>7, <1>8, <1>9 DEF results

-----------------------------------------------------------------------------

\* A first call finds no report.
LEMMA BakeoffStarts == BakeoffInit => BakeoffInv
  <1> SUFFICES ASSUME BakeoffInit PROVE BakeoffInv
    OBVIOUS
  <1>1. bench = [call |-> 0, pc |-> "stopped", scoring |-> TRUE, at |-> 1, results |-> <<>>, answer |-> NoAnswer]
    BY DEF BakeoffInit, NewBakeoff
  <1>2. <<>> \in Seq(PairResults) /\ Len(<<>>) = 0 /\ DOMAIN <<>> = {}
    OBVIOUS
  <1>3. BakeoffTypeOK
    <2>1. bench \in Benches
      BY <1>1, <1>2 DEF Benches, JobAnswers, NoAnswer
    <2>2. workerJobs \in [PairSet -> JobAnswers] /\ predictions \in [PairSet -> Nat] /\ leftUnscored \subseteq PairSet
      BY DEF BakeoffInit, JobAnswers, NoAnswer
    <2>3. report = [written |-> FALSE, status |-> "none", results |-> <<>>]
      BY DEF BakeoffInit, NoReport
    <2>4. QED
      BY <1>2, <2>1, <2>2, <2>3 DEF BakeoffTypeOK
  <1>4. ResultsSound(<<>>)
    BY <1>2 DEF ResultsSound, OneEach
  <1>5. PredictionsSound
    BY DEF BakeoffInit, PredictionsSound
  <1>6. bench.pc = "stopped" /\ bench.at = 1 /\ bench.results = <<>>
    BY <1>1
  <1>7. report.results = <<>> /\ report.written = FALSE
    <2>1. report = [written |-> FALSE, status |-> "none", results |-> <<>>]
      BY DEF BakeoffInit, NoReport
    <2>2. QED
      BY <2>1
  <1>8. Underway /\ Passed /\ ReportKept
    BY <1>6, <1>7, PairsAssumption DEF Underway, Passed, ReportKept
  <1>9. QED
    BY <1>3, <1>4, <1>5, <1>6, <1>7, <1>8 DEF BakeoffInv

\* A call starts over, or with the results of the report (main, --resume).
LEMMA StartKeeps == ASSUME BakeoffInv, StartBakeoff PROVE BakeoffInv'
  <1>1. PICK scoring \in BOOLEAN, resume \in BOOLEAN :
          bench' = [NewBakeoff(bench.call + 1, scoring) EXCEPT
                      !.pc = "pairs", !.results = IF resume /\ report.written THEN report.results ELSE <<>>]
    BY DEF StartBakeoff
  <1> DEFINE results == IF resume /\ report.written THEN report.results ELSE <<>>
  <1>2. bench' = [call |-> bench.call + 1, pc |-> "pairs", scoring |-> scoring, at |-> 1, results |-> results,
                  answer |-> NoAnswer]
    BY <1>1 DEF NewBakeoff
  <1>3. /\ UNCHANGED <<workerJobs, report, predictions, leftUnscored>>
        /\ bench.pc \in {"stopped", "returned"}
    BY DEF StartBakeoff
  <1>4. results \in Seq(PairResults) /\ (results = <<>> \/ (report.written /\ results = report.results))
    BY DEF BakeoffInv, BakeoffTypeOK
  <1> HIDE DEF results
  <1>5. BakeoffTypeOK'
    BY <1>2, <1>3, <1>4 DEF BakeoffInv, BakeoffTypeOK, Benches, JobAnswers, NoAnswer
  <1>6. \A r : Backed(r)' <=> Backed(r)
    BY <1>3 DEF Backed
  <1>7. \A r : Accounted(r) => Accounted(r)'
    BY <1>3 DEF Accounted, Valid
  <1>8. ResultsSound(report.results)' /\ ResultsSound(bench.results)'
    BY <1>2, <1>3, <1>4, <1>6, <1>7 DEF BakeoffInv, ResultsSound, OneEach
  <1>9. Passed' /\ Underway' /\ ReportKept'
    BY <1>2, <1>3, <1>4, PairsAssumption DEF BakeoffInv, Passed, Underway, ReportKept, StatusOf
  <1>10. QED
    BY <1>3, <1>5, <1>8, <1>9 DEF BakeoffInv, PredictionsSound

\* The prior result is one of the pair.
LEMMA PriorIs ==
    ASSUME NEW pair, BakeoffTypeOK, Prior(pair) # 0
    PROVE  Prior(pair) \in DOMAIN bench.results /\ bench.results[Prior(pair)].pair = pair
  <1> DEFINE places == {i \in 1 .. Len(bench.results) : bench.results[i].pair = pair}
  <1>1. Prior(pair) = IF places # {} THEN Min(places) ELSE 0
    BY DEF Prior, SelectInSeq
  <1>2. bench.results \in Seq(PairResults) /\ places \in SUBSET Nat
    BY DEF BakeoffTypeOK, Benches
  <1>3. places # {} => Min(places) \in places
    <2> HIDE DEF places
    <2>1. QED
      BY <1>2, LeastNumber DEF Min
  <1>4. Prior(pair) \in places
    BY <1>1, <1>3
  <1>5. QED
    BY <1>2, <1>4

\* All fields of a call.
LEMMA BenchIs ==
    ASSUME BakeoffTypeOK
    PROVE  /\ bench = [call |-> bench.call, pc |-> bench.pc, scoring |-> bench.scoring, at |-> bench.at,
                       results |-> bench.results, answer |-> bench.answer]
           /\ bench.call \in Nat /\ bench.scoring \in BOOLEAN /\ bench.at \in Nat \ {0}
           /\ bench.results \in Seq(PairResults) /\ bench.answer \in JobAnswers
           /\ bench.pc \in {"stopped", "returned", "pairs", "submitting", "answered", "scoring"}
  BY DEF BakeoffTypeOK, Benches

\* A valid prior result is passed over, another one is dropped (main, the loop over the pairs).
LEMMA NextPairKeeps == ASSUME BakeoffInv, NextPair PROVE BakeoffInv'
  <1> DEFINE pair == Pairs[bench.at]
             prior == Prior(pair)
  <1>1. /\ BakeoffTypeOK /\ bench.pc = "pairs" /\ bench.at <= Len(Pairs)
        /\ UNCHANGED <<workerJobs, report, predictions, leftUnscored>>
    BY DEF NextPair, BakeoffInv
  <1>2. bench.at \in DOMAIN Pairs /\ Len(Pairs) \in Nat
    BY <1>1, BenchIs, PairsAssumption
  <1>3. CASE /\ prior # 0 /\ Valid(bench.results[prior])
             /\ bench' = [call |-> bench.call, pc |-> "pairs", scoring |-> bench.scoring, at |-> bench.at + 1,
                          results |-> bench.results, answer |-> bench.answer]
    <2>1. prior \in DOMAIN bench.results /\ bench.results[prior].pair = pair
      BY <1>1, <1>3, PriorIs
    <2>2. BakeoffTypeOK'
      BY <1>1, <1>3, BenchIs DEF BakeoffTypeOK, Benches
    <2>3. (\A r : Backed(r) <=> Backed(r)') /\ \A r : Accounted(r) => Accounted(r)'
      BY <1>1 DEF Backed, Accounted, Valid
    <2>4. ResultsSound(report.results)' /\ ResultsSound(bench.results)'
      BY <1>1, <1>3, <2>3 DEF BakeoffInv, ResultsSound, OneEach
    <2>5. Passed'
      <3>1. bench'.at = bench.at + 1 /\ bench'.results = bench.results /\ bench.at \in Nat \ {0}
        BY <1>1, <1>3, BenchIs
      <3>2. \A n \in 1 .. bench.at : n \in 1 .. bench.at - 1 \/ n = bench.at
        BY <3>1
      <3>3. \A n \in 1 .. bench.at :
              \E i \in DOMAIN bench.results : bench.results[i].pair = Pairs[n] /\ Valid(bench.results[i])
        BY <1>1, <1>3, <2>1, <3>2 DEF BakeoffInv, Passed
      <3>4. \A r : Valid(r)' <=> Valid(r)
        BY DEF Valid
      <3>5. bench'.at - 1 = bench.at /\ bench'.at <= Len(Pairs) + 1
        BY <1>1, <1>2, <3>1
      <3>6. QED
        BY <3>1, <3>3, <3>4, <3>5 DEF Passed
    <2>6. Underway' /\ ReportKept'
      <3>1. report.written /\ report.results = bench.results
        BY <1>1, <2>1 DEF BakeoffInv, ReportKept
      <3>2. QED
        BY <1>1, <1>3, <3>1 DEF Underway, ReportKept, BakeoffInv, StatusOf, Valid
    <2>7. QED
      BY <1>1, <2>2, <2>4, <2>5, <2>6 DEF BakeoffInv, PredictionsSound
  <1>4. CASE bench' = [call |-> bench.call, pc |-> "submitting", scoring |-> bench.scoring, at |-> bench.at,
                       results |-> Dropped(pair), answer |-> bench.answer]
    <2> DEFINE those == Dropped(pair)
    <2>1. /\ those \in Seq(PairResults) /\ OneEach(those)
          /\ \A i \in DOMAIN those : \E j \in DOMAIN bench.results :
               those[i] = bench.results[j] /\ those[i].pair # pair
          /\ \A j \in DOMAIN bench.results : bench.results[j].pair # pair =>
               \E i \in DOMAIN those : those[i] = bench.results[j]
      BY DropKeeps
    <2> HIDE DEF those
    <2>2. bench' = [call |-> bench.call, pc |-> "submitting", scoring |-> bench.scoring, at |-> bench.at,
                    results |-> those, answer |-> bench.answer]
      BY <1>4 DEF those
    <2>3. BakeoffTypeOK'
      BY <1>1, <2>1, <2>2, BenchIs DEF BakeoffTypeOK, Benches
    <2>4. (\A r : Backed(r) <=> Backed(r)') /\ \A r : Accounted(r) => Accounted(r)'
      BY <1>1 DEF Backed, Accounted, Valid
    <2>5. ResultsSound(report.results)'
      BY <1>1, <2>4 DEF BakeoffInv, ResultsSound, OneEach
    <2>6. \A i \in DOMAIN those : Backed(those[i]) /\ Accounted(those[i])
      BY <2>1 DEF BakeoffInv, ResultsSound
    <2>7. ResultsSound(bench.results)'
      BY <2>1, <2>2, <2>4, <2>6 DEF ResultsSound, OneEach
    <2>8. Passed'
      <3>1. \A n \in 1 .. bench.at - 1 : Pairs[n] # pair
        BY <1>2, PairsAssumption
      <3>2. \A n \in 1 .. bench.at - 1 : \E i \in DOMAIN those : those[i].pair = Pairs[n] /\ Valid(those[i])
        BY <1>1, <2>1, <3>1 DEF BakeoffInv, Passed
      <3>3. \A r : Valid(r)' <=> Valid(r)
        BY DEF Valid
      <3>4. QED
        BY <1>1, <2>2, <3>2, <3>3 DEF BakeoffInv, Passed
    <2>9. Underway' /\ ReportKept'
      BY <1>1, <1>2, <2>1, <2>2 DEF Underway, ReportKept, BakeoffInv, StatusOf, Valid
    <2>10. QED
      BY <1>1, <2>3, <2>5, <2>7, <2>8, <2>9 DEF BakeoffInv, PredictionsSound
  <1>5. QED
    <2>1. \/ /\ prior # 0 /\ Valid(bench.results[prior])
             /\ bench' = [bench EXCEPT !.at = @ + 1]
          \/ bench' = [bench EXCEPT !.results = Dropped(pair), !.pc = "submitting"]
      BY DEF NextPair
    <2>2. QED
      BY <1>1, <1>3, <1>4, <2>1, BenchIs

\* main returns when no pair is left.
LEMMA ReturnKeeps == ASSUME BakeoffInv, ReturnZero PROVE BakeoffInv'
  <1>1. /\ BakeoffTypeOK /\ bench.pc = "pairs" /\ bench.at > Len(Pairs) /\ bench' = [bench EXCEPT !.pc = "returned"]
        /\ UNCHANGED <<workerJobs, report, predictions, leftUnscored>>
    BY DEF ReturnZero, BakeoffInv
  <1>2. bench' = [call |-> bench.call, pc |-> "returned", scoring |-> bench.scoring, at |-> bench.at,
                  results |-> bench.results, answer |-> bench.answer]
    BY <1>1, BenchIs
  <1>3. BakeoffTypeOK'
    BY <1>1, <1>2, BenchIs DEF BakeoffTypeOK, Benches
  <1>4. (\A r : Backed(r) <=> Backed(r)') /\ \A r : Accounted(r) => Accounted(r)'
    BY <1>1 DEF Backed, Accounted, Valid
  <1>5. ResultsSound(report.results)' /\ ResultsSound(bench.results)'
    BY <1>1, <1>2, <1>4 DEF BakeoffInv, ResultsSound, OneEach
  <1>6. bench.at = Len(Pairs) + 1
    BY <1>1, BenchIs, PairsAssumption DEF BakeoffInv, Passed
  <1>7. Passed' /\ Underway' /\ ReportKept'
    BY <1>1, <1>2, <1>6 DEF BakeoffInv, Passed, Underway, ReportKept, StatusOf, Valid
  <1>8. QED
    BY <1>1, <1>3, <1>5, <1>7 DEF BakeoffInv, PredictionsSound

\* The worker replays what it completed, so that what was taken from it stays what it has.
LEMMA SubmitKeeps == ASSUME BakeoffInv, SubmitPair PROVE BakeoffInv'
  <1> DEFINE pair == Pairs[bench.at]
             prepared == workerJobs[pair]
  <1>1. /\ BakeoffTypeOK /\ bench.pc = "submitting" /\ UNCHANGED <<report, predictions, leftUnscored>>
        /\ bench.at \in DOMAIN Pairs
    BY DEF SubmitPair, BakeoffInv, Underway
  <1>2. pair \in PairSet /\ prepared \in JobAnswers
    BY <1>1 DEF PairSet, ToSet, BakeoffTypeOK
  <1>3. PICK answer \in JobAnswers :
          /\ bench' = [bench EXCEPT !.pc = "answered", !.answer = answer]
          /\ workerJobs' = [workerJobs EXCEPT ![pair] = answer]
          /\ prepared.status = "completed" => answer = prepared
    <2>1. CASE prepared.status = "completed"
      <3>1. bench' = [bench EXCEPT !.pc = "answered", !.answer = prepared] /\ workerJobs' = workerJobs
        BY <2>1 DEF SubmitPair
      <3>2. workerJobs' = [workerJobs EXCEPT ![pair] = prepared]
        BY <1>1, <1>2, <3>1 DEF BakeoffTypeOK
      <3>3. QED
        BY <1>2, <3>1, <3>2
    <2>2. CASE prepared.status # "completed"
      <3>1. PICK answer \in [status : {"completed", "error"}, contract : BOOLEAN, run : {prepared.run + 1}] :
              /\ workerJobs' = [workerJobs EXCEPT ![pair] = answer]
              /\ bench' = [bench EXCEPT !.pc = "answered", !.answer = answer]
        BY <2>2 DEF SubmitPair
      <3>2. answer \in JobAnswers
        BY <1>2, <3>1 DEF JobAnswers
      <3>3. QED
        BY <2>2, <3>1, <3>2
    <2>3. QED
      BY <2>1, <2>2
  <1>4. bench' = [call |-> bench.call, pc |-> "answered", scoring |-> bench.scoring, at |-> bench.at,
                  results |-> bench.results, answer |-> answer]
    BY <1>1, <1>3, BenchIs
  <1>5. /\ workerJobs' \in [PairSet -> JobAnswers] /\ workerJobs'[pair] = answer
        /\ \A p \in PairSet : workerJobs[p].status = "completed" => workerJobs'[p] = workerJobs[p]
    BY <1>1, <1>2, <1>3 DEF BakeoffTypeOK
  <1> HIDE DEF pair, prepared
  <1>6. BakeoffTypeOK'
    BY <1>1, <1>4, <1>5, BenchIs DEF BakeoffTypeOK, Benches
  <1>7. \A r \in PairResults : Backed(r) => Backed(r)'
    BY <1>5 DEF Backed, DoneIn, PairResults
  <1>8. \A r : Accounted(r) => Accounted(r)'
    BY <1>1, <1>4 DEF Accounted, Valid
  <1>9. ResultsSound(report.results)' /\ ResultsSound(bench.results)'
    <2>1. bench.results \in Seq(PairResults) /\ report.results \in Seq(PairResults)
      BY <1>1 DEF BakeoffTypeOK, Benches
    <2>2. /\ \A i \in DOMAIN bench.results : bench.results[i] \in PairResults
          /\ \A i \in DOMAIN report.results : report.results[i] \in PairResults
      BY <2>1
    <2>3. QED
      BY <1>1, <1>4, <1>7, <1>8, <2>2 DEF BakeoffInv, ResultsSound, OneEach
  <1>10. PredictionsSound'
    <2>1. \A p \in PairSet : predictions[p] # 0 => workerJobs[p].status = "completed" /\ workerJobs[p] = DoneIn(predictions[p])
      BY DEF BakeoffInv, PredictionsSound, DoneIn
    <2>2. QED
      BY <1>1, <1>5, <2>1 DEF PredictionsSound, DoneIn
  <1>11. Passed' /\ ReportKept'
    BY <1>1, <1>4 DEF BakeoffInv, Passed, ReportKept, StatusOf, Valid
  <1>12. Underway'
    BY <1>1, <1>4, <1>5 DEF BakeoffInv, Underway, pair
  <1>13. QED
    BY <1>6, <1>9, <1>10, <1>11, <1>12 DEF BakeoffInv

\* The statuses _write_report writes.
LEMMA StatusIs == \A results : StatusOf(results) \in {"failed_early", "completed", "in_progress"}
  BY DEF StatusOf

\* What the worker answered is appended and reported before it is judged (main, _write_report).
LEMMA ReportKeeps == ASSUME BakeoffInv, ReportResult PROVE BakeoffInv'
  <1> DEFINE pair == Pairs[bench.at]
  <1>1. /\ BakeoffTypeOK /\ bench.pc = "answered" /\ UNCHANGED <<workerJobs, predictions, leftUnscored>>
        /\ bench.at \in DOMAIN Pairs /\ bench.answer = workerJobs[pair]
        /\ \A i \in DOMAIN bench.results : bench.results[i].pair # pair
    BY DEF ReportResult, BakeoffInv, Underway
  <1>2. pair \in PairSet /\ bench.answer \in JobAnswers /\ bench.results \in Seq(PairResults)
    BY <1>1, BenchIs DEF PairSet, ToSet
  <1>3. PICK r \in PairResults :
          /\ r = ResultOf(pair, bench.answer)
          /\ r.pair = pair /\ r.scored = "no" /\ ~r.quality_scoring_error
          /\ ~r.contract_failure => r.status = "completed" /\ workerJobs[pair] = DoneIn(r.run) /\ Valid(r)
    <2> DEFINE r == ResultOf(pair, bench.answer)
    <2>1. r = [pair |-> pair, status |-> bench.answer.status, run |-> bench.answer.run,
               contract_failure |-> bench.answer.status # "completed" \/ ~bench.answer.contract,
               scored |-> "no", quality_scoring_error |-> FALSE]
      BY DEF ResultOf
    <2>2. r \in PairResults
      BY <1>2, <2>1 DEF PairResults, JobAnswers
    <2>3. bench.answer = [status |-> bench.answer.status, contract |-> bench.answer.contract, run |-> bench.answer.run]
          /\ bench.answer.contract \in BOOLEAN
      BY <1>2 DEF JobAnswers
    <2>4. r.pair = pair /\ r.scored = "no" /\ ~r.quality_scoring_error
          /\ (~r.contract_failure => bench.answer.status = "completed" /\ bench.answer.contract)
          /\ r.status = bench.answer.status /\ r.run = bench.answer.run
      <3>1. bench.answer.contract \in BOOLEAN
        BY <1>2 DEF JobAnswers
      <3> HIDE DEF r
      <3>2. QED
        BY <2>1, <3>1
    <2> HIDE DEF r
    <2>5. ~r.contract_failure => r.status = "completed" /\ workerJobs[pair] = DoneIn(r.run) /\ Valid(r)
      BY <1>1, <2>3, <2>4 DEF DoneIn, Valid
    <2>6. QED
      BY <2>2, <2>4, <2>5 DEF r
  <1>4. PICK results \in Seq(PairResults) : results = Append(bench.results, r)
    <2>1. Append(bench.results, r) \in Seq(PairResults)
      BY <1>2
    <2>2. QED
      BY <2>1
  <1>5. /\ Len(results) = Len(bench.results) + 1 /\ results[Len(results)] = r
        /\ \A i \in DOMAIN bench.results : i \in DOMAIN results /\ results[i] = bench.results[i]
        /\ \A i \in DOMAIN results : i \in DOMAIN bench.results \/ (i = Len(results) /\ results[i] = r)
    BY <1>2, <1>4
  <1>6. Last(results) = r /\ results # <<>>
    BY <1>2, <1>5 DEF Last
  <1>7. /\ report' = [written |-> TRUE, status |-> StatusOf(results), results |-> results]
        /\ bench' = [bench EXCEPT !.results = results, !.answer = NoAnswer,
                      !.pc = IF Last(results).contract_failure THEN "stopped" ELSE "scoring"]
    BY <1>3, <1>4 DEF ReportResult, WriteReport
  <1>8. bench' = [call |-> bench.call, pc |-> IF r.contract_failure THEN "stopped" ELSE "scoring",
                  scoring |-> bench.scoring, at |-> bench.at, results |-> results, answer |-> NoAnswer]
    BY <1>1, <1>6, <1>7, BenchIs
  <1> HIDE DEF pair
  <1>9. BakeoffTypeOK'
    <2>1. bench' \in Benches
      BY <1>1, <1>8, BenchIs DEF Benches, JobAnswers, NoAnswer
    <2>2. QED
      BY <1>1, <1>7, <2>1, StatusIs DEF BakeoffTypeOK
  <1>10. (\A x : Backed(x) <=> Backed(x)') /\ \A x : Accounted(x) => Accounted(x)'
    BY <1>1 DEF Backed, Accounted, Valid
  <1>11. Backed(r)' /\ Accounted(r)'
    BY <1>1, <1>3, <1>8 DEF Backed, Accounted, Valid, pair
  <1>12. OneEach(results)
    BY <1>1, <1>3, <1>5 DEF BakeoffInv, ResultsSound, OneEach
  <1>13. \A i \in DOMAIN results : Backed(results[i])' /\ Accounted(results[i])'
    <2>1. \A i \in DOMAIN bench.results : Backed(bench.results[i]) /\ Accounted(bench.results[i])
      BY DEF BakeoffInv, ResultsSound
    <2>2. \A i \in DOMAIN results : results[i] = r \/ (i \in DOMAIN bench.results /\ results[i] = bench.results[i])
      BY <1>5
    <2>3. QED
      BY <1>10, <1>11, <2>1, <2>2
  <1>14. report'.results = results /\ bench'.results = results
    BY <1>7, <1>8
  <1>15. ResultsSound(report.results)' /\ ResultsSound(bench.results)'
    BY <1>12, <1>13, <1>14 DEF ResultsSound, OneEach
  <1>16. Passed'
    <2>1. \A n \in 1 .. bench.at - 1 : \E i \in DOMAIN results : results[i].pair = Pairs[n] /\ Valid(results[i])
      BY <1>1, <1>5 DEF BakeoffInv, Passed
    <2>2. \A x : Valid(x)' <=> Valid(x)
      BY DEF Valid
    <2>3. QED
      BY <1>8, <2>1, <2>2 DEF BakeoffInv, Passed
  <1>17. Underway'
    BY <1>1, <1>3, <1>6, <1>8 DEF Underway, Valid, Last, pair
  <1>18. ReportKept'
    <2>1. \A x : StatusOf(x)' = StatusOf(x)
      BY DEF StatusOf, Valid
    <2>2. QED
      BY <1>7, <1>8, <2>1 DEF ReportKept
  <1>19. QED
    BY <1>1, <1>9, <1>15, <1>16, <1>17, <1>18 DEF BakeoffInv, PredictionsSound

\* The result that is scored: the last one, valid, of the pair the call is at.
LEMMA LastOne ==
    ASSUME BakeoffInv, bench.pc = "scoring"
    PROVE  LET last == Last(bench.results) IN
           /\ bench.results \in Seq(PairResults) /\ bench.results # <<>> /\ Len(bench.results) \in DOMAIN bench.results
           /\ last = bench.results[Len(bench.results)] /\ last \in PairResults
           /\ bench.at \in DOMAIN Pairs /\ last.pair = Pairs[bench.at] /\ last.pair \in PairSet
           /\ Valid(last) /\ last.scored = "no" /\ workerJobs[last.pair] = DoneIn(last.run)
  <1>1. BakeoffTypeOK /\ bench.results \in Seq(PairResults) /\ bench.results # <<>>
    BY BenchIs DEF BakeoffInv, Underway
  <1>2. Len(bench.results) \in DOMAIN bench.results
    BY <1>1
  <1>3. Last(bench.results) = bench.results[Len(bench.results)] /\ Last(bench.results) \in PairResults
    BY <1>1, <1>2 DEF Last
  <1>4. Backed(Last(bench.results))
    BY <1>2, <1>3 DEF BakeoffInv, ResultsSound
  <1>5. bench.at \in DOMAIN Pairs /\ Last(bench.results).pair = Pairs[bench.at]
        /\ Valid(Last(bench.results)) /\ Last(bench.results).scored = "no"
    BY DEF BakeoffInv, Underway
  <1>6. Last(bench.results).pair \in PairSet
    BY <1>3 DEF PairResults
  <1>7. workerJobs[Last(bench.results).pair] = DoneIn(Last(bench.results).run)
    BY <1>4, <1>5 DEF Backed, Valid
  <1>8. QED
    BY <1>1, <1>2, <1>3, <1>5, <1>6, <1>7

\* --skip-quality-scoring leaves a result without a score.
LEMMA SkipKeeps == ASSUME BakeoffInv, SkipScoring PROVE BakeoffInv'
  <1> DEFINE last == Last(bench.results)
  <1>1. /\ BakeoffTypeOK /\ bench.pc = "scoring" /\ UNCHANGED <<workerJobs, predictions>>
        /\ leftUnscored' = leftUnscored \cup {last.pair}
        /\ report' = [written |-> TRUE, status |-> StatusOf(bench.results), results |-> bench.results]
        /\ bench' = [bench EXCEPT !.pc = "pairs", !.at = @ + 1]
    BY DEF SkipScoring, WriteReport, BakeoffInv
  <1>2. /\ bench.results \in Seq(PairResults) /\ Len(bench.results) \in DOMAIN bench.results
        /\ last = bench.results[Len(bench.results)]
        /\ bench.at \in DOMAIN Pairs /\ last.pair = Pairs[bench.at] /\ last.pair \in PairSet /\ Valid(last)
    BY <1>1, LastOne
  <1> HIDE DEF last
  <1>3. bench' = [call |-> bench.call, pc |-> "pairs", scoring |-> bench.scoring, at |-> bench.at + 1,
                  results |-> bench.results, answer |-> bench.answer]
    BY <1>1, BenchIs
  <1>4. BakeoffTypeOK'
    <2>1. bench' \in Benches
      BY <1>1, <1>3, BenchIs DEF Benches
    <2>2. QED
      BY <1>1, <1>2, <2>1, StatusIs DEF BakeoffTypeOK
  <1>5. (\A r : Backed(r) <=> Backed(r)') /\ \A r : Accounted(r) => Accounted(r)'
    BY <1>1, <1>2 DEF Backed, Accounted, Valid
  <1>6. report'.results = bench.results /\ bench'.results = bench.results
    BY <1>1, <1>3
  <1>7. ResultsSound(report.results)' /\ ResultsSound(bench.results)'
    BY <1>5, <1>6 DEF BakeoffInv, ResultsSound, OneEach
  <1>8. Passed'
    <2>1. \A n \in 1 .. bench.at : n \in 1 .. bench.at - 1 \/ n = bench.at
      BY <1>1, BenchIs
    <2>2. \A n \in 1 .. bench.at : \E i \in DOMAIN bench.results : bench.results[i].pair = Pairs[n] /\ Valid(bench.results[i])
      BY <1>1, <1>2, <2>1 DEF BakeoffInv, Passed
    <2>3. \A r : Valid(r)' <=> Valid(r)
      BY DEF Valid
    <2>4. bench.at \in Nat /\ bench.at <= Len(Pairs) /\ Len(Pairs) \in Nat
      BY <1>1, <1>2, BenchIs, PairsAssumption
    <2>5. bench'.at - 1 = bench.at /\ bench'.at <= Len(Pairs) + 1
      BY <1>3, <2>4
    <2>6. QED
      BY <1>6, <2>2, <2>3, <2>5 DEF Passed
  <1>9. ReportKept'
    <2>1. \A x : StatusOf(x)' = StatusOf(x)
      BY DEF StatusOf, Valid
    <2>2. QED
      BY <1>1, <1>3, <1>6, <2>1 DEF ReportKept
  <1>10. Underway'
    BY <1>3 DEF Underway
  <1>11. QED
    BY <1>1, <1>4, <1>7, <1>8, <1>9, <1>10 DEF BakeoffInv, PredictionsSound

\* What the completed last result leaves of the others.
LEMMA LastReplaced ==
    ASSUME BakeoffInv, bench.pc = "scoring", NEW r \in PairResults, r.pair = Last(bench.results).pair
    PROVE  /\ Scored(r) \in Seq(PairResults) /\ OneEach(Scored(r)) /\ DOMAIN Scored(r) = DOMAIN bench.results
           /\ Scored(r)[Len(bench.results)] = r
           /\ \A i \in DOMAIN bench.results : i # Len(bench.results) => Scored(r)[i] = bench.results[i]
           /\ \A i \in DOMAIN bench.results : Scored(r)[i].pair = bench.results[i].pair
  <1>1. bench.results \in Seq(PairResults) /\ Len(bench.results) \in DOMAIN bench.results
        /\ r.pair = bench.results[Len(bench.results)].pair
    BY LastOne
  <1> DEFINE results == bench.results
             n == Len(bench.results)
             done == Scored(r)
  <1>2. done = [results EXCEPT ![n] = r]
    BY DEF Scored
  <1>3. OneEach(results)
    BY DEF BakeoffInv, ResultsSound
  <1>4. results \in Seq(PairResults) /\ n \in DOMAIN results /\ r.pair = results[n].pair
    BY <1>1
  <1> HIDE DEF results, n, done
  <1>5. done \in Seq(PairResults) /\ DOMAIN done = DOMAIN results /\ done[n] = r
        /\ \A i \in DOMAIN results : i # n => done[i] = results[i]
    BY <1>2, <1>4
  <1>6. \A i \in DOMAIN results : done[i].pair = results[i].pair
    BY <1>4, <1>5
  <1>7. OneEach(done)
    BY <1>3, <1>5, <1>6 DEF OneEach
  <1>8. QED
    BY <1>5, <1>6, <1>7 DEF results, n, done

\* Stems that were downloaded before are those of the run the worker still has.
\* The stems that are scored are those of the run reported (_ground_truth_scores).
LEMMA ScoreKeeps == ASSUME BakeoffInv, ScoreResult PROVE BakeoffInv'
  <1>1. BakeoffTypeOK /\ bench.pc = "scoring" /\ UNCHANGED <<workerJobs, leftUnscored>>
    BY DEF ScoreResult, BakeoffInv
  <1>2. PICK last \in PairResults :
          /\ last = Last(bench.results) /\ last = bench.results[Len(bench.results)]
          /\ bench.at \in DOMAIN Pairs /\ last.pair = Pairs[bench.at] /\ last.pair \in PairSet
          /\ Valid(last) /\ workerJobs[last.pair] = DoneIn(last.run)
    BY <1>1, LastOne
  <1>3. predictions[last.pair] # 0 => predictions[last.pair] = last.run
    <2>1. \A m, n : DoneIn(m) = DoneIn(n) => m = n
      <3>1. \A m : DoneIn(m).run = m
        BY DEF DoneIn
      <3>2. QED
        BY <3>1
    <2>2. QED
      BY <1>2, <2>1 DEF BakeoffInv, PredictionsSound
  <1>4. PICK r \in PairResults : r = [last EXCEPT !.scored = "own"]
    BY DEF PairResults
  <1>5. /\ r.pair = last.pair /\ r.run = last.run /\ r.scored = "own" /\ Valid(r) /\ r.status = last.status
        /\ r.contract_failure = last.contract_failure
    BY <1>2, <1>4 DEF PairResults, Valid
  <1>6. PICK results \in Seq(PairResults) : results = Scored(r)
    BY <1>1, <1>2, <1>5, LastReplaced
  <1>7. /\ OneEach(results) /\ DOMAIN results = DOMAIN bench.results
        /\ Len(bench.results) \in DOMAIN bench.results /\ results[Len(bench.results)] = r
        /\ \A i \in DOMAIN bench.results : i # Len(bench.results) => results[i] = bench.results[i]
        /\ \A i \in DOMAIN bench.results : results[i].pair = bench.results[i].pair
    BY <1>1, <1>2, <1>5, <1>6, LastReplaced, LastOne
  <1>8. /\ predictions' = [predictions EXCEPT ![last.pair] = last.run]
        /\ report' = [written |-> TRUE, status |-> StatusOf(results), results |-> results]
        /\ bench' = [bench EXCEPT !.results = results, !.pc = "pairs", !.at = @ + 1]
    <2> DEFINE got == IF predictions[last.pair] # 0 THEN predictions[last.pair] ELSE last.run
               all == Scored([last EXCEPT !.scored = IF got = last.run THEN "own" ELSE "stale"])
    <2>1. got = last.run
      BY <1>3
    <2>2. all = results
      BY <1>4, <1>6, <2>1
    <2>3. /\ predictions' = [predictions EXCEPT ![last.pair] = got]
          /\ WriteReport(all)
          /\ bench' = [bench EXCEPT !.results = all, !.pc = "pairs", !.at = @ + 1]
      BY <1>2 DEF ScoreResult
    <2> HIDE DEF got, all
    <2>4. QED
      BY <2>1, <2>2, <2>3 DEF WriteReport
  <1>9. bench' = [call |-> bench.call, pc |-> "pairs", scoring |-> bench.scoring, at |-> bench.at + 1,
                  results |-> results, answer |-> bench.answer]
    BY <1>1, <1>8, BenchIs
  <1>10. BakeoffTypeOK'
    <2>1. bench' \in Benches
      BY <1>1, <1>9, BenchIs DEF Benches
    <2>2. predictions' \in [PairSet -> Nat]
      BY <1>1, <1>2, <1>8 DEF BakeoffTypeOK, PairResults
    <2>3. QED
      BY <1>1, <1>8, <2>1, <2>2, StatusIs DEF BakeoffTypeOK
  <1>11. \A x : Backed(x) <=> Backed(x)'
    BY <1>1 DEF Backed
  <1>12. Backed(r) /\ Accounted(r)'
    BY <1>2, <1>5 DEF Backed, Accounted, Valid
  <1>13. \A x : Accounted(x) /\ x.pair # Pairs[bench.at] => Accounted(x)'
    BY <1>1 DEF Accounted, Valid
  <1>14. \A i \in DOMAIN results : Backed(results[i])' /\ Accounted(results[i])'
    <2> TAKE i \in DOMAIN results
    <2>1. CASE i = Len(bench.results)
      BY <1>7, <1>11, <1>12, <2>1
    <2>2. CASE i # Len(bench.results)
      <3>1. results[i] = bench.results[i] /\ i \in DOMAIN bench.results
        BY <1>7, <2>2
      <3>2. bench.results[i].pair # Pairs[bench.at]
        BY <1>2, <1>7, <2>2, <3>1 DEF BakeoffInv, ResultsSound, OneEach
      <3>3. Backed(bench.results[i]) /\ Accounted(bench.results[i])
        BY <3>1 DEF BakeoffInv, ResultsSound
      <3>4. QED
        BY <1>11, <1>13, <3>1, <3>2, <3>3
    <2>3. QED
      BY <2>1, <2>2
  <1>15. report'.results = results /\ bench'.results = results
    BY <1>8, <1>9
  <1>16. ResultsSound(report.results)' /\ ResultsSound(bench.results)'
    BY <1>7, <1>14, <1>15 DEF ResultsSound, OneEach
  <1>17. PredictionsSound'
    BY <1>1, <1>2, <1>8 DEF BakeoffInv, BakeoffTypeOK, PredictionsSound, DoneIn
  <1>18. Passed'
    <2>1. \A n \in 1 .. bench.at : n \in 1 .. bench.at - 1 \/ n = bench.at
      BY <1>1, BenchIs
    <2>2. \A n \in 1 .. bench.at : \E i \in DOMAIN bench.results : bench.results[i].pair = Pairs[n] /\ Valid(bench.results[i])
      BY <1>1, <1>2, <1>7, <2>1 DEF BakeoffInv, Passed
    <2>3. \A i \in DOMAIN bench.results : Valid(bench.results[i]) => Valid(results[i])
      BY <1>5, <1>7
    <2>4. \A n \in 1 .. bench.at : \E i \in DOMAIN results : results[i].pair = Pairs[n] /\ Valid(results[i])
      BY <1>7, <2>2, <2>3
    <2>5. \A x : Valid(x)' <=> Valid(x)
      BY DEF Valid
    <2>6. bench.at \in Nat /\ bench.at <= Len(Pairs) /\ Len(Pairs) \in Nat
      BY <1>1, <1>2, BenchIs, PairsAssumption
    <2>7. bench'.at - 1 = bench.at /\ bench'.at <= Len(Pairs) + 1
      BY <1>9, <2>6
    <2>8. QED
      BY <1>15, <2>4, <2>5, <2>7 DEF Passed
  <1>19. ReportKept'
    <2>1. \A x : StatusOf(x)' = StatusOf(x)
      BY DEF StatusOf, Valid
    <2>2. QED
      BY <1>8, <1>9, <1>15, <2>1 DEF ReportKept
  <1>20. Underway'
    BY <1>9 DEF Underway
  <1>21. QED
    BY <1>10, <1>16, <1>17, <1>18, <1>19, <1>20 DEF BakeoffInv

\* A failed scoring is reported and ends the call; a later one drops the result.
LEMMA ScoringFailureKeeps == ASSUME BakeoffInv, ScoringFails PROVE BakeoffInv'
  <1>1. BakeoffTypeOK /\ bench.pc = "scoring" /\ UNCHANGED <<workerJobs, leftUnscored>>
    BY DEF ScoringFails, BakeoffInv
  <1>2. PICK last \in PairResults :
          /\ last = Last(bench.results) /\ last = bench.results[Len(bench.results)]
          /\ bench.at \in DOMAIN Pairs /\ last.pair = Pairs[bench.at] /\ last.pair \in PairSet
          /\ Valid(last) /\ workerJobs[last.pair] = DoneIn(last.run)
    BY <1>1, LastOne
  <1>3. PICK r \in PairResults : r = [last EXCEPT !.quality_scoring_error = TRUE]
    BY DEF PairResults
  <1>4. /\ r.pair = last.pair /\ r.run = last.run /\ r.scored = last.scored /\ ~Valid(r) /\ r.status = last.status
        /\ r.contract_failure = last.contract_failure
    BY <1>2, <1>3 DEF PairResults, Valid
  <1>5. PICK results \in Seq(PairResults) : results = Scored(r)
    BY <1>1, <1>2, <1>4, LastReplaced
  <1>6. /\ OneEach(results) /\ DOMAIN results = DOMAIN bench.results
        /\ Len(bench.results) \in DOMAIN bench.results /\ results[Len(bench.results)] = r
        /\ \A i \in DOMAIN bench.results : i # Len(bench.results) => results[i] = bench.results[i]
        /\ \A i \in DOMAIN bench.results : results[i].pair = bench.results[i].pair
    BY <1>1, <1>2, <1>4, <1>5, LastReplaced, LastOne
  <1>7. /\ predictions' = predictions \/ predictions' = [predictions EXCEPT ![last.pair] = last.run]
        /\ report' = [written |-> TRUE, status |-> StatusOf(results), results |-> results]
        /\ bench' = [bench EXCEPT !.results = results, !.pc = "stopped"]
    BY <1>2, <1>3, <1>5 DEF ScoringFails, WriteReport
  <1>8. bench' = [call |-> bench.call, pc |-> "stopped", scoring |-> bench.scoring, at |-> bench.at,
                  results |-> results, answer |-> bench.answer]
    BY <1>1, <1>7, BenchIs
  <1>9. BakeoffTypeOK'
    <2>1. bench' \in Benches
      BY <1>1, <1>8, BenchIs DEF Benches
    <2>2. predictions' \in [PairSet -> Nat]
      BY <1>1, <1>2, <1>7 DEF BakeoffTypeOK, PairResults
    <2>3. QED
      BY <1>1, <1>7, <2>1, <2>2, StatusIs DEF BakeoffTypeOK
  <1>10. \A x : Backed(x) <=> Backed(x)'
    BY <1>1 DEF Backed
  <1>11. Backed(r) /\ Accounted(r)'
    <2>1. Backed(last)
      BY <1>2, <1>6 DEF BakeoffInv, ResultsSound
    <2>2. Valid(r)' <=> Valid(r)
      BY DEF Valid
    <2>3. QED
      BY <1>4, <2>1, <2>2 DEF Backed, Accounted
  <1>12. \A x : Accounted(x) /\ x.pair # Pairs[bench.at] => Accounted(x)'
    BY <1>1 DEF Accounted, Valid
  <1>13. \A i \in DOMAIN results : Backed(results[i])' /\ Accounted(results[i])'
    <2> TAKE i \in DOMAIN results
    <2>1. CASE i = Len(bench.results)
      BY <1>6, <1>10, <1>11, <2>1
    <2>2. CASE i # Len(bench.results)
      <3>1. results[i] = bench.results[i] /\ i \in DOMAIN bench.results
        BY <1>6, <2>2
      <3>2. bench.results[i].pair # Pairs[bench.at]
        BY <1>2, <1>6, <2>2, <3>1 DEF BakeoffInv, ResultsSound, OneEach
      <3>3. Backed(bench.results[i]) /\ Accounted(bench.results[i])
        BY <3>1 DEF BakeoffInv, ResultsSound
      <3>4. QED
        BY <1>10, <1>12, <3>1, <3>2, <3>3
    <2>3. QED
      BY <2>1, <2>2
  <1>14. report'.results = results /\ bench'.results = results
    BY <1>7, <1>8
  <1>15. ResultsSound(report.results)' /\ ResultsSound(bench.results)'
    BY <1>6, <1>13, <1>14 DEF ResultsSound, OneEach
  <1>16. PredictionsSound'
    BY <1>1, <1>2, <1>7 DEF BakeoffInv, BakeoffTypeOK, PredictionsSound, DoneIn
  <1>17. Passed' /\ Underway'
    BY <1>8 DEF BakeoffInv, Passed, Underway
  <1>18. ReportKept'
    <2>1. \A x : StatusOf(x)' = StatusOf(x)
      BY DEF StatusOf, Valid
    <2>2. QED
      BY <1>7, <1>8, <1>14, <2>1 DEF ReportKept
  <1>19. QED
    BY <1>9, <1>15, <1>16, <1>17, <1>18 DEF BakeoffInv

\* A call dies anywhere, and what it had not reported is lost.
LEMMA DeathKeeps == ASSUME BakeoffInv, BakeoffDies PROVE BakeoffInv'
  <1>1. /\ BakeoffTypeOK /\ UNCHANGED <<workerJobs, report, predictions>>
        /\ bench' = [bench EXCEPT !.pc = "stopped"]
        /\ leftUnscored' = IF bench.pc = "scoring" THEN leftUnscored \cup {Last(bench.results).pair} ELSE leftUnscored
    BY DEF BakeoffDies, BakeoffInv
  <1>2. bench.pc = "scoring" => Last(bench.results).pair = Pairs[bench.at] /\ Last(bench.results).pair \in PairSet
    BY LastOne
  <1>3. bench' = [call |-> bench.call, pc |-> "stopped", scoring |-> bench.scoring, at |-> bench.at,
                  results |-> bench.results, answer |-> bench.answer]
    BY <1>1, BenchIs
  <1>4. BakeoffTypeOK'
    <2>1. bench' \in Benches
      BY <1>1, <1>3, BenchIs DEF Benches
    <2>2. QED
      BY <1>1, <1>2, <2>1 DEF BakeoffTypeOK
  <1>5. (\A r : Backed(r) <=> Backed(r)') /\ \A r : Accounted(r) => Accounted(r)'
    BY <1>1, <1>2 DEF Backed, Accounted, Valid
  <1>6. ResultsSound(report.results)' /\ ResultsSound(bench.results)'
    BY <1>1, <1>3, <1>5 DEF BakeoffInv, ResultsSound, OneEach
  <1>7. Passed' /\ Underway' /\ ReportKept'
    BY <1>1, <1>3 DEF BakeoffInv, Passed, Underway, ReportKept, StatusOf, Valid
  <1>8. QED
    BY <1>1, <1>4, <1>6, <1>7 DEF BakeoffInv, PredictionsSound

\* Every step keeps the invariant.
LEMMA BakeoffSteps == ASSUME BakeoffInv, [BakeoffNext]_bakeoffVars PROVE BakeoffInv'
  <1>1. CASE UNCHANGED bakeoffVars
    BY <1>1 DEF bakeoffVars, BakeoffInv, BakeoffTypeOK, ResultsSound, OneEach, Backed, Accounted, Valid,
                PredictionsSound, Underway, Passed, ReportKept, StatusOf
  <1>2. QED
    BY <1>1, StartKeeps, NextPairKeeps, ReturnKeeps, SubmitKeeps, ReportKeeps, SkipKeeps, ScoreKeeps,
       ScoringFailureKeeps, DeathKeeps DEF BakeoffNext

\* So it always holds.
LEMMA BakeoffInvariant == BakeoffSpec => []BakeoffInv
  BY BakeoffStarts, BakeoffSteps, PTL DEF BakeoffSpec

\* As many results as pairs, if each pair has one and no pair has two.
LEMMA AllPairs ==
    ASSUME BakeoffInv, bench.pc = "returned"
    PROVE  /\ {r.pair : r \in ToSet(bench.results)} = PairSet /\ Len(bench.results) = Len(Pairs)
           /\ \A i \in DOMAIN bench.results : Valid(bench.results[i])
  <1> DEFINE results == bench.results
             place == [i \in DOMAIN results |-> CHOOSE n \in DOMAIN Pairs : Pairs[n] = results[i].pair]
  <1>1. /\ results \in Seq(PairResults) /\ OneEach(results) /\ Len(results) \in Nat /\ DOMAIN results = 1 .. Len(results)
        /\ \A i \in DOMAIN results : results[i] \in PairResults
    BY BenchIs DEF BakeoffInv, ResultsSound
  <1>2. /\ Len(Pairs) \in Nat /\ DOMAIN Pairs = 1 .. Len(Pairs)
        /\ \A m, n \in DOMAIN Pairs : Pairs[m] = Pairs[n] => m = n
    BY PairsAssumption
  <1>3. \A n \in DOMAIN Pairs : \E i \in DOMAIN results : results[i].pair = Pairs[n] /\ Valid(results[i])
    <2>1. bench.at = Len(Pairs) + 1
      BY DEF BakeoffInv, ReportKept
    <2>2. bench.at - 1 = Len(Pairs)
      BY <1>2, <2>1
    <2>3. QED
      BY <1>2, <2>2 DEF BakeoffInv, Passed
  <1>4. \A i \in DOMAIN results : \E n \in DOMAIN Pairs : Pairs[n] = results[i].pair
    BY <1>1 DEF PairResults, PairSet, ToSet
  <1> HIDE DEF results
  <1>5. \A i \in DOMAIN results : place[i] \in DOMAIN Pairs /\ Pairs[place[i]] = results[i].pair
    BY <1>4
  <1>6. place \in [DOMAIN results -> DOMAIN Pairs]
    BY <1>5
  <1> HIDE DEF place
  <1>7. \A i, j \in DOMAIN results : place[i] = place[j] => i = j
    BY <1>1, <1>5 DEF OneEach
  <1>8. \A n \in DOMAIN Pairs : \E i \in DOMAIN results : place[i] = n
    BY <1>2, <1>3, <1>5
  <1>9. IsFiniteSet(DOMAIN Pairs) /\ Cardinality(DOMAIN Pairs) = Len(Pairs)
        /\ Cardinality(DOMAIN results) = Len(results)
    <2>1. \A n \in Nat : IsFiniteSet(1 .. n) /\ Cardinality(1 .. n) = n
      BY FS_Interval
    <2>2. QED
      BY <1>1, <1>2, <2>1
  <1>10. place \in Injection(DOMAIN results, DOMAIN Pairs) /\ place \in Surjection(DOMAIN results, DOMAIN Pairs)
    BY <1>6, <1>7, <1>8 DEF Injection, IsInjective, Surjection
  <1>11. Len(results) = Len(Pairs)
    BY <1>9, <1>10, FS_Injection
  <1>12. \A i \in DOMAIN results : Valid(results[i])
    BY <1>1, <1>3, <1>4 DEF OneEach
  <1>13. {r.pair : r \in ToSet(results)} = PairSet
    BY <1>3, <1>4 DEF ToSet, PairSet
  <1>14. QED
    BY <1>11, <1>12, <1>13 DEF results

\* For any pairs and calls, whatever of them failed, stopped or died: when main returns, the
\* report says completed and has one valid result of each pair, scored with the stems of its
\* own run of the worker, unless a call skipped its scoring or died in it (main, _write_report).
THEOREM ReportIsComplete == BakeoffSpec => []BakeoffCompletes
  <1>1. ASSUME BakeoffInv, bench.pc = "returned" PROVE BakeoffCompletes
    <2> DEFINE results == report.results
    <2>1. bench.at # 1
      BY <1>1, PairsAssumption DEF BakeoffInv, ReportKept
    <2>2. report.written /\ bench.results = results /\ report.status = StatusOf(results)
      BY <1>1, <2>1 DEF BakeoffInv, ReportKept
    <2>3. /\ {r.pair : r \in ToSet(results)} = PairSet /\ Len(results) = Len(Pairs)
          /\ \A i \in DOMAIN results : Valid(results[i])
      BY <1>1, <2>2, AllPairs
    <2>4. \A i \in DOMAIN results : Backed(results[i]) /\ Accounted(results[i])
      BY <1>1 DEF BakeoffInv, ResultsSound
    <2>5. results \in Seq(PairResults) /\ Len(results) \in Nat
      BY <1>1 DEF BakeoffInv, BakeoffTypeOK
    <2> HIDE DEF results
    <2>6. \A i \in DOMAIN results : results[i].scored = "own" \/ results[i].pair \in leftUnscored
      BY <1>1, <2>3, <2>4 DEF Backed, Accounted
    <2>7. StatusOf(results) = "completed"
      <3>1. {i \in DOMAIN results : Valid(results[i])} = 1 .. Len(results)
        BY <2>3, <2>5
      <3>2. Cardinality({i \in DOMAIN results : Valid(results[i])}) = Len(Pairs)
        <4>1. \A n \in Nat : Cardinality(1 .. n) = n
          BY FS_Interval
        <4>2. QED
          BY <2>3, <2>5, <3>1, <4>1
      <3>3. ~\E i \in DOMAIN results : results[i].contract_failure \/ results[i].quality_scoring_error
        BY <2>3 DEF Valid
      <3>4. QED
        BY <3>2, <3>3 DEF StatusOf
    <2>8. \A r \in ToSet(results) : Valid(r) /\ (r.scored = "own" \/ r.pair \in leftUnscored)
      BY <2>3, <2>6 DEF ToSet
    <2>9. QED
      BY <2>2, <2>3, <2>7, <2>8 DEF BakeoffCompletes, results
  <1>2. BakeoffInv => BakeoffCompletes
    BY <1>1 DEF BakeoffCompletes
  <1>3. QED
    BY <1>2, BakeoffInvariant, PTL

-----------------------------------------------------------------------------
(*************************************************************************)
(* ContractDelivers for any outputs, targets and rules, and any number of*)
(* runs.  A delivered contract is read by nobody who still has the files *)
(* it was made of, so each phase has to hand on what the next relies on: *)
(* what was collected is in its directory until it is a candidate        *)
(* (ProducedKept), a candidate's file stays (CandidatesKept), and what is*)
(* published is still the audio of its sources (PublishedKept), whichever*)
(* files of other runs are in the directories (NamesLeft).               *)
(*************************************************************************)

StemFiles == [attempt : Nat, made : (SUBSET Bases) \ {{}}, whole : BOOLEAN]

RawEntries == [name : OutputNames, place : Nat]

CandidateSet == [group : RAW_GROUPS, name : OutputNames, place : Nat]

ContractRuns ==
    [number : Nat, pc : {"failed", "collecting", "archiving", "publishing", "delivered"}, clean : BOOLEAN,
     produced : Seq(OutputNames), copying : Seq(OutputNames), raw : [RAW_GROUPS -> Seq(RawEntries)],
     selected : SUBSET CandidateSet, published : SUBSET Targets, missing : SUBSET Targets,
     rejected : SUBSET CandidateSet]

ContractTypeOK ==
    /\ groupDirs \in [RAW_GROUPS -> [OutputNames -> StemFiles \cup {NoFile}]]
    /\ candidateDir \in [RAW_GROUPS -> [OutputNames -> Seq(StemFiles)]]
    /\ attempt \in ContractRuns

InCopy(m) == attempt.copying # <<>> /\ Head(attempt.copying) = m

Begun(b) == (\E x \in ToSet(attempt.produced) : x.base = b) \/ (\E x \in OutputNames : InCopy(x) /\ x.base = b)

\* Who is not at work copies nothing, and a run has a number of its own.
Numbered ==
    /\ attempt.pc \in {"failed", "archiving", "delivered"} => attempt.copying = <<>>
    /\ attempt.number <= MaxAttempts /\ (attempt.pc # "failed" => attempt.number >= 1)
    /\ attempt.pc = "collecting" => \A m \in OutputNames : InCopy(m) => groupDirs[GroupOf[m.base]][m] # NoFile

\* Each run adds one file at most to those of a name, so that a free name is left.
NamesLeft ==
    \A g \in RAW_GROUPS, m \in OutputNames : groupDirs[g][m] # NoFile =>
        /\ m.suffix < attempt.number
        /\ attempt.pc = "collecting" /\ ~Begun(m.base) => m.suffix + 1 < attempt.number

Archived(m) ==
    \E i \in DOMAIN attempt.raw[GroupOf[m.base]] :
        LET c == attempt.raw[GroupOf[m.base]][i] IN
        c.name = m /\ candidateDir[GroupOf[m.base]][m][c.place].made = {m.base}

\* What was produced is in its group's directory until it is a candidate.
ProducedKept ==
    \A m \in ToSet(attempt.produced) :
        /\ m.base \in Bases
        /\ \/ attempt.pc \in {"collecting", "archiving"} /\ groupDirs[GroupOf[m.base]][m].made = {m.base}
           \/ Archived(m)

\* A candidate's file is there, and in a run that found nothing it is of this run.
OwnFile(f, m) == m.suffix = 0 /\ f.attempt = attempt.number /\ f.made = {m.base}

EntryKept(g, c) ==
    /\ c.place \in DOMAIN candidateDir[g][c.name]
    /\ attempt.clean => OwnFile(candidateDir[g][c.name][c.place], c.name) /\ candidateDir[g][c.name][c.place].whole

CandidatesKept == \A g \in RAW_GROUPS : \A i \in DOMAIN attempt.raw[g] : EntryKept(g, attempt.raw[g][i])

CleanKept ==
    attempt.clean /\ attempt.pc \in {"collecting", "archiving"} =>
        \A g \in RAW_GROUPS, m \in OutputNames : groupDirs[g][m] # NoFile =>
            /\ OwnFile(groupDirs[g][m], m) /\ (groupDirs[g][m].whole \/ InCopy(m))
            /\ m.base \in Bases /\ g = GroupOf[m.base] /\ (m \in ToSet(attempt.produced) \/ InCopy(m))

FromSources(t) == SourcesOf(t) # {} /\ File(t) = AudioOf(SourcesOf(t))

\* What is published is the audio of its sources, and nothing else is selected.
PublishedKept ==
    /\ attempt.pc \in {"collecting", "archiving"} => attempt.published = {} /\ attempt.selected = {}
    /\ attempt.pc \in {"publishing", "delivered"} =>
         /\ \A t \in attempt.published : FromSources(t)
         /\ \A c \in attempt.selected : \E t \in attempt.published : c \in SourcesOf(t)
    /\ attempt.pc = "delivered" =>
         /\ attempt.published \cup attempt.missing = Targets
         /\ attempt.rejected = (UNION {Candidates(g) : g \in RAW_GROUPS}) \ attempt.selected

ContractInv ==
    /\ ContractTypeOK /\ Numbered /\ NamesLeft /\ ProducedKept /\ CandidatesKept /\ CleanKept /\ PublishedKept

-----------------------------------------------------------------------------

\* A minimum is a least element.
LEMMA MinIs == ASSUME NEW S \in SUBSET Nat, S # {} PROVE Min(S) \in S /\ \A k \in S : Min(S) <= k
  BY LeastNumber DEF Min

\* All fields of a run.
LEMMA AttemptIs ==
    ASSUME ContractTypeOK
    PROVE  /\ attempt.number \in Nat /\ attempt.clean \in BOOLEAN
           /\ attempt.pc \in {"failed", "collecting", "archiving", "publishing", "delivered"}
           /\ attempt.produced \in Seq(OutputNames) /\ attempt.copying \in Seq(OutputNames)
           /\ attempt.raw \in [RAW_GROUPS -> Seq(RawEntries)]
           /\ attempt.selected \in SUBSET CandidateSet /\ attempt.rejected \in SUBSET CandidateSet
           /\ attempt.published \in SUBSET Targets /\ attempt.missing \in SUBSET Targets
  BY DEF ContractTypeOK, ContractRuns

\* A new run, with all its fields.
LEMMA NewAttemptIs ==
    ASSUME NEW n \in Nat, NEW pc \in {"failed", "collecting"}
    PROVE  /\ NewAttempt(n, pc) \in ContractRuns
           /\ NewAttempt(n, pc).number = n /\ NewAttempt(n, pc).pc = pc
           /\ NewAttempt(n, pc).produced = <<>> /\ NewAttempt(n, pc).copying = <<>>
           /\ \A g \in RAW_GROUPS : NewAttempt(n, pc).raw[g] = <<>>
           /\ NewAttempt(n, pc).published = {} /\ NewAttempt(n, pc).selected = {}
           /\ NewAttempt(n, pc).clean => \A g \in RAW_GROUPS, m \in OutputNames : groupDirs[g][m] = NoFile
  <1> DEFINE found == \A g \in RAW_GROUPS, m \in OutputNames : groupDirs[g][m] = NoFile
             archived == [g \in RAW_GROUPS |-> <<>>]
  <1>1. NewAttempt(n, pc) = [number |-> n, pc |-> pc, clean |-> found, produced |-> <<>>, copying |-> <<>>, raw |-> archived,
                             selected |-> {}, published |-> {}, missing |-> {}, rejected |-> {}]
    BY DEF NewAttempt
  <1>2. archived \in [RAW_GROUPS -> Seq(RawEntries)] /\ \A g \in RAW_GROUPS : archived[g] = <<>>
    OBVIOUS
  <1>3. found \in BOOLEAN
    OBVIOUS
  <1>4. <<>> \in Seq(OutputNames)
    OBVIOUS
  <1> HIDE DEF found, archived
  <1>5. NewAttempt(n, pc).clean = found
    BY <1>1, <1>3
  <1>6. NewAttempt(n, pc) \in ContractRuns
    BY <1>1, <1>2, <1>3, <1>4 DEF ContractRuns
  <1>7. QED
    BY <1>1, <1>2, <1>5, <1>6 DEF found

-----------------------------------------------------------------------------

\* The job's folder does not exist before its first run.
LEMMA ContractStarts == ContractInit => ContractInv
  <1> SUFFICES ASSUME ContractInit PROVE ContractInv
    OBVIOUS
  <1> DEFINE new == NewAttempt(0, "failed")
  <1>1. \A g \in RAW_GROUPS, m \in OutputNames : groupDirs[g][m] = NoFile
    BY DEF ContractInit
  <1>2. /\ new \in ContractRuns /\ new.number = 0 /\ new.pc = "failed" /\ new.produced = <<>> /\ new.copying = <<>>
        /\ \A g \in RAW_GROUPS : new.raw[g] = <<>>
    BY NewAttemptIs
  <1>3. attempt = [new EXCEPT !.clean = TRUE]
    BY DEF ContractInit
  <1> HIDE DEF new
  <1>4. /\ attempt \in ContractRuns /\ attempt.number = 0 /\ attempt.pc = "failed" /\ attempt.produced = <<>>
        /\ attempt.copying = <<>> /\ \A g \in RAW_GROUPS : attempt.raw[g] = <<>>
    BY <1>2, <1>3 DEF ContractRuns
  <1>5. ContractTypeOK
    <2>1. groupDirs \in [RAW_GROUPS -> [OutputNames -> StemFiles \cup {NoFile}]]
      BY DEF ContractInit
    <2>2. candidateDir \in [RAW_GROUPS -> [OutputNames -> Seq(StemFiles)]]
      BY DEF ContractInit
    <2>3. QED
      BY <1>4, <2>1, <2>2 DEF ContractTypeOK
  <1>6. Numbered /\ NamesLeft
    BY <1>1, <1>4, ContractAssumption DEF Numbered, NamesLeft
  <1>7. ProducedKept /\ CandidatesKept
    <2>1. ToSet(attempt.produced) = {} /\ \A g \in RAW_GROUPS : DOMAIN attempt.raw[g] = {}
      BY <1>4 DEF ToSet
    <2>2. QED
      BY <2>1 DEF ProducedKept, CandidatesKept
  <1>8. QED
    BY <1>4, <1>5, <1>6, <1>7 DEF ContractInv, CleanKept, PublishedKept

\* A run finds what an earlier one left, but none of its records.
LEMMA NewRunKeeps ==
    ASSUME ContractInv, NEW n \in Nat, NEW pc \in {"failed", "collecting"}, n <= MaxAttempts,
           pc = "failed" => n = attempt.number, pc = "collecting" => n = attempt.number + 1,
           attempt' = NewAttempt(n, pc), UNCHANGED <<groupDirs, candidateDir>>
    PROVE  ContractInv'
  <1>1. /\ attempt' \in ContractRuns /\ attempt'.number = n /\ attempt'.pc = pc
        /\ attempt'.produced = <<>> /\ attempt'.copying = <<>>
        /\ \A g \in RAW_GROUPS : attempt'.raw[g] = <<>>
        /\ attempt'.published = {} /\ attempt'.selected = {}
        /\ attempt'.clean => \A g \in RAW_GROUPS, m \in OutputNames : groupDirs[g][m] = NoFile
    BY NewAttemptIs
  <1>2. ContractTypeOK'
    BY <1>1 DEF ContractInv, ContractTypeOK
  <1>3. Numbered'
    BY <1>1, AttemptIs DEF ContractInv, Numbered, InCopy
  <1>4. NamesLeft'
    <2>1. \A g \in RAW_GROUPS, m \in OutputNames : groupDirs[g][m] # NoFile =>
            m.suffix < n /\ (pc = "collecting" => m.suffix + 1 < n)
      <3> TAKE g \in RAW_GROUPS, m \in OutputNames
      <3>1. groupDirs[g][m] # NoFile => m.suffix < attempt.number
        BY DEF ContractInv, NamesLeft
      <3>2. m.suffix \in Nat /\ attempt.number \in Nat
        BY AttemptIs, ContractAssumption DEF OutputNames, ContractInv
      <3>3. QED
        BY <3>1, <3>2
    <2>2. QED
      BY <1>1, <2>1 DEF NamesLeft
  <1>5. ProducedKept' /\ CandidatesKept'
    <2>1. ToSet(attempt'.produced) = {} /\ \A g \in RAW_GROUPS : DOMAIN attempt'.raw[g] = {}
      BY <1>1 DEF ToSet
    <2>2. QED
      BY <2>1 DEF ProducedKept, CandidatesKept
  <1>6. CleanKept' /\ PublishedKept'
    BY <1>1 DEF CleanKept, PublishedKept
  <1>7. QED
    BY <1>2, <1>3, <1>4, <1>5, <1>6 DEF ContractInv

\* Another run begins on what the last left.
LEMMA ContractStartKeeps == ASSUME ContractInv, StartAttempt PROVE ContractInv'
  <1>1. attempt.number \in Nat /\ attempt.number < MaxAttempts /\ MaxAttempts \in Nat
    BY AttemptIs, ContractAssumption DEF StartAttempt, ContractInv
  <1>2. attempt.number + 1 \in Nat /\ attempt.number + 1 <= MaxAttempts
    BY <1>1
  <1>3. attempt' = NewAttempt(attempt.number + 1, "collecting") /\ UNCHANGED <<groupDirs, candidateDir>>
    BY DEF StartAttempt
  <1>4. QED
    BY <1>2, <1>3, NewRunKeeps

\* A run that fails leaves its files where they are.
LEMMA ContractFailureKeeps == ASSUME ContractInv, AttemptFails PROVE ContractInv'
  <1>1. attempt.number \in Nat /\ attempt.number <= MaxAttempts
    BY AttemptIs DEF ContractInv, Numbered
  <1>2. attempt' = NewAttempt(attempt.number, "failed") /\ UNCHANGED <<groupDirs, candidateDir>>
    BY DEF AttemptFails
  <1>3. QED
    BY <1>1, <1>2, NewRunKeeps

-----------------------------------------------------------------------------

\* Candidates stay what they are while nothing is archived.
LEMMA CandidatesSame ==
    ASSUME CandidatesKept, candidateDir' = candidateDir, attempt'.raw = attempt.raw, attempt'.clean = attempt.clean,
           attempt'.number = attempt.number
    PROVE  CandidatesKept'
  <1>1. \A g, c : EntryKept(g, c)' <=> EntryKept(g, c)
    BY DEF EntryKept, OwnFile
  <1>2. QED
    BY <1>1 DEF CandidatesKept

\* What a list has with one thing more.
LEMMA AppendedSet ==
    ASSUME NEW T, NEW seq \in Seq(T), NEW x \in T PROVE ToSet(Append(seq, x)) = ToSet(seq) \cup {x}
  <1>1. /\ Len(Append(seq, x)) = Len(seq) + 1 /\ Append(seq, x)[Len(seq) + 1] = x
        /\ \A i \in 1 .. Len(seq) : Append(seq, x)[i] = seq[i]
    OBVIOUS
  <1>2. DOMAIN Append(seq, x) = 1 .. (Len(seq) + 1) /\ DOMAIN seq = 1 .. Len(seq) /\ Len(seq) \in Nat
    OBVIOUS
  <1>3. \A i \in 1 .. (Len(seq) + 1) : i \in 1 .. Len(seq) \/ i = Len(seq) + 1
    BY <1>2
  <1>4. \A i \in 1 .. Len(seq) : i \in 1 .. (Len(seq) + 1)
    BY <1>2
  <1>5. Len(seq) + 1 \in 1 .. (Len(seq) + 1)
    BY <1>2
  <1>6. QED
    BY <1>1, <1>2, <1>3, <1>4, <1>5 DEF ToSet

\* The sorts of the constants.
LEMMA ContractSorts ==
    /\ Outputs \in Seq(Bases) /\ (\A i, j \in DOMAIN Outputs : Outputs[i] = Outputs[j] => i = j)
    /\ GroupOf \in [Bases -> RAW_GROUPS] /\ "broad_stems" \in RAW_GROUPS /\ MaxAttempts \in Nat
  BY ContractAssumption

\* A name that no file has is left for an output that the run has not begun.
LEMMA UniqueNameIs ==
    ASSUME ContractInv, attempt.pc = "collecting", NEW g \in RAW_GROUPS, NEW b \in Bases, ~Begun(b)
    PROVE  LET m == UniqueName(g, b) IN
           /\ m \in OutputNames /\ m.base = b /\ m.suffix < attempt.number /\ groupDirs[g][m] = NoFile
           /\ groupDirs[g][PlainName(b)] = NoFile => m.suffix = 0
  <1> DEFINE named(i) == [base |-> b, suffix |-> i]
             free == {i \in 0 .. MaxAttempts : groupDirs[g][named(i)] = NoFile}
             m == UniqueName(g, b)
             least == CHOOSE i \in free : \A j \in free : i <= j
             n == attempt.number
  <1>1. n \in Nat /\ n >= 1 /\ n <= MaxAttempts /\ MaxAttempts \in Nat
    BY AttemptIs, ContractSorts DEF ContractInv, Numbered
  <1>2. \A i \in 0 .. MaxAttempts : named(i) \in OutputNames /\ named(i).base = b /\ named(i).suffix = i
    BY DEF OutputNames
  <1>3. m = named(least)
    BY DEF UniqueName
  <1>4. n - 1 \in free
    <2>1. n - 1 \in 0 .. MaxAttempts
      BY <1>1
    <2> HIDE DEF named
    <2>2. groupDirs[g][named(n - 1)] # NoFile => named(n - 1).suffix + 1 < n
      BY <1>2, <2>1 DEF ContractInv, NamesLeft
    <2>3. ~((n - 1) + 1 < n)
      BY <1>1
    <2>4. QED
      BY <1>2, <2>1, <2>2, <2>3
  <1>5. least \in free /\ \A j \in free : least <= j
    <2>1. free \in SUBSET Nat
      BY <1>1
    <2> HIDE DEF free
    <2>2. QED
      BY <1>4, <2>1, LeastNumber
  <1> HIDE DEF m, least, named
  <1>6. least \in 0 .. MaxAttempts /\ least <= n - 1 /\ groupDirs[g][named(least)] = NoFile
    BY <1>4, <1>5
  <1>7. m \in OutputNames /\ m.base = b /\ m.suffix < n /\ groupDirs[g][m] = NoFile /\ m.suffix = least
    BY <1>1, <1>2, <1>3, <1>6
  <1>8. groupDirs[g][PlainName(b)] = NoFile => m.suffix = 0
    <2>1. PlainName(b) = named(0)
      BY DEF PlainName, named
    <2>2. groupDirs[g][PlainName(b)] = NoFile => 0 \in free
      BY <1>1, <2>1
    <2>3. QED
      BY <1>1, <1>5, <1>6, <1>7, <2>2
  <1>9. QED
    BY <1>7, <1>8 DEF m

\* An output is copied under a free name, torn until the copy ends (_collect_outputs).
LEMMA CollectKeeps == ASSUME ContractInv, NEW i \in DOMAIN Outputs, CollectOutput(i) PROVE ContractInv'
  <1> DEFINE b == Outputs[i]
             g == GroupOf[b]
             m == IF attempt.copying = <<>> THEN UniqueName(g, b) ELSE Head(attempt.copying)
             f == [attempt |-> attempt.number, made |-> {b}, whole |-> attempt.copying # <<>>]
  <1>1. ContractTypeOK /\ attempt.pc = "collecting" /\ b \in Bases /\ g \in RAW_GROUPS
    BY ContractSorts DEF CollectOutput, ContractInv
  <1>2. \A x \in ToSet(attempt.produced) : x.base # b
    <2>1. \A x \in ToSet(attempt.produced) : \E j \in 1 .. (i - 1) : x.base = Outputs[j]
      BY DEF CollectOutput
    <2>2. \A j \in 1 .. (i - 1) : j \in DOMAIN Outputs /\ j # i
      BY ContractSorts
    <2>3. QED
      BY <2>1, <2>2, ContractSorts
  <1>3. /\ groupDirs' = [groupDirs EXCEPT ![g][m] = f] /\ candidateDir' = candidateDir /\ m.base = b
        /\ attempt' = IF attempt.copying = <<>> THEN [attempt EXCEPT !.copying = <<m>>]
                      ELSE [attempt EXCEPT !.copying = <<>>, !.produced = Append(@, m)]
    <2> HIDE DEF g, m
    <2>1. /\ CopyTo(g, m, [attempt |-> attempt.number, made |-> {b}, whole |-> TRUE])
          /\ candidateDir' = candidateDir /\ m.base = b
          /\ attempt' = IF attempt.copying = <<>> THEN [attempt EXCEPT !.copying = <<m>>]
                        ELSE [attempt EXCEPT !.copying = <<>>, !.produced = Append(@, m)]
      BY DEF CollectOutput, g, m
    <2>2. [[attempt |-> attempt.number, made |-> {b}, whole |-> TRUE] EXCEPT !.whole = @ /\ attempt.copying # <<>>] = f
      <3>1. CASE attempt.copying = <<>>
        BY <3>1
      <3>2. CASE attempt.copying # <<>>
        BY <3>2
      <3>3. QED
        BY <3>1, <3>2
    <2>3. QED
      BY <2>1, <2>2 DEF CopyTo
  <1>4. f \in StemFiles /\ f # NoFile /\ f.attempt = attempt.number /\ f.made = {b} /\ f.whole = (attempt.copying # <<>>)
    <2>1. f.made = {b} /\ NoFile.made = {}
      BY DEF NoFile
    <2>2. QED
      BY <1>1, <2>1, AttemptIs DEF StemFiles
  <1>5. attempt.copying # <<>> => m \in OutputNames /\ InCopy(m) /\ groupDirs[g][m] # NoFile
    <2>1. attempt.copying \in Seq(OutputNames)
      BY <1>1, AttemptIs
    <2>2. attempt.copying # <<>> => m \in OutputNames /\ InCopy(m)
      BY <2>1 DEF InCopy
    <2> HIDE DEF m
    <2>3. QED
      BY <1>1, <1>3, <2>2 DEF ContractInv, Numbered
  <1>6. attempt.copying = <<>> =>
          /\ m \in OutputNames /\ m.suffix < attempt.number
          /\ groupDirs[g][PlainName(b)] = NoFile => m.suffix = 0
    <2>1. attempt.copying = <<>> => ~Begun(b)
      BY <1>2 DEF Begun, InCopy
    <2> HIDE DEF b, g
    <2>2. QED
      BY <1>1, <2>1, UniqueNameIs
  <1> HIDE DEF m, f
  <1>7. m \in OutputNames /\ m.suffix < attempt.number
    BY <1>1, <1>5, <1>6 DEF ContractInv, NamesLeft
  <1>8. attempt.clean => m.suffix = 0
    <2> SUFFICES ASSUME attempt.clean PROVE m.suffix = 0
      OBVIOUS
    <2>1. CASE attempt.copying # <<>>
      BY <1>1, <1>5, <2>1 DEF ContractInv, CleanKept, OwnFile
    <2>2. CASE attempt.copying = <<>>
      <3>1. PlainName(b) \in OutputNames /\ PlainName(b).base = b
        BY <1>1, ContractSorts DEF PlainName, OutputNames
      <3>2. PlainName(b) \notin ToSet(attempt.produced) /\ ~InCopy(PlainName(b))
        BY <1>2, <2>2, <3>1 DEF InCopy
      <3>3. groupDirs[g][PlainName(b)] = NoFile
        BY <1>1, <3>1, <3>2 DEF ContractInv, CleanKept
      <3>4. QED
        BY <1>6, <2>2, <3>3
    <2>3. QED
      BY <2>1, <2>2
  <1>9. /\ groupDirs'[g][m] = f
        /\ \A h \in RAW_GROUPS, x \in OutputNames : h # g \/ x # m => groupDirs'[h][x] = groupDirs[h][x]
    BY <1>1, <1>3, <1>7 DEF ContractTypeOK
  <1>10. /\ attempt' \in ContractRuns /\ attempt'.number = attempt.number /\ attempt'.pc = "collecting"
         /\ attempt'.clean = attempt.clean /\ attempt'.raw = attempt.raw
         /\ attempt'.published = attempt.published /\ attempt'.selected = attempt.selected
         /\ \/ attempt.copying = <<>> /\ attempt'.copying = <<m>> /\ attempt'.produced = attempt.produced
            \/ attempt.copying # <<>> /\ attempt'.copying = <<>> /\ attempt'.produced = Append(attempt.produced, m)
    <2>1. attempt \in ContractRuns /\ <<m>> \in Seq(OutputNames) /\ Append(attempt.produced, m) \in Seq(OutputNames)
      BY <1>1, <1>7, AttemptIs DEF ContractTypeOK
    <2>2. CASE attempt.copying = <<>>
      <3>1. attempt' = [attempt EXCEPT !.copying = <<m>>]
        BY <1>3, <2>2
      <3>2. QED
        BY <1>1, <2>1, <2>2, <3>1 DEF ContractRuns
    <2>3. CASE attempt.copying # <<>>
      <3>1. attempt' = [attempt EXCEPT !.copying = <<>>, !.produced = Append(attempt.produced, m)]
        BY <1>3, <2>3
      <3>2. <<>> \in Seq(OutputNames)
        OBVIOUS
      <3>3. QED
        BY <1>1, <2>1, <2>3, <3>1, <3>2 DEF ContractRuns
    <2>4. QED
      BY <2>2, <2>3
  <1>11. \/ attempt.copying = <<>> /\ (\A x : InCopy(x)' <=> x = m) /\ ToSet(attempt'.produced) = ToSet(attempt.produced)
         \/ /\ attempt.copying # <<>> /\ (\A x : ~InCopy(x)')
            /\ ToSet(attempt'.produced) = ToSet(attempt.produced) \cup {m}
    <2>1. attempt.produced \in Seq(OutputNames)
      BY <1>1, AttemptIs
    <2>2. ToSet(Append(attempt.produced, m)) = ToSet(attempt.produced) \cup {m}
      BY <1>7, <2>1, AppendedSet
    <2>3. <<m>> # <<>> /\ Head(<<m>>) = m
      OBVIOUS
    <2>4. CASE attempt.copying = <<>>
      BY <1>10, <2>3, <2>4 DEF InCopy
    <2>5. CASE attempt.copying # <<>>
      BY <1>10, <2>2, <2>5 DEF InCopy
    <2>6. QED
      BY <2>4, <2>5
  <1>12. \A c : Begun(c)' <=> (Begun(c) \/ c = b)
    <2>1. CASE attempt.copying = <<>>
      BY <1>3, <1>7, <1>11, <2>1 DEF Begun, InCopy
    <2>2. CASE attempt.copying # <<>>
      <3>1. \A x : InCopy(x) <=> x = m
        BY <1>5, <2>2 DEF InCopy
      <3>2. QED
        BY <1>3, <1>7, <1>11, <2>2, <3>1 DEF Begun
    <2>3. QED
      BY <2>1, <2>2
  <1>13. \A x : InCopy(x) => x = m
    BY <1>5 DEF InCopy
  <1>14. ContractTypeOK'
    <2>1. groupDirs' \in [RAW_GROUPS -> [OutputNames -> StemFiles \cup {NoFile}]]
      BY <1>1, <1>3, <1>4, <1>7 DEF ContractTypeOK
    <2>2. QED
      BY <1>1, <1>3, <1>10, <2>1 DEF ContractTypeOK
  <1>15. Numbered'
    <2>1. attempt'.number <= MaxAttempts /\ attempt'.number >= 1
      BY <1>1, <1>10 DEF ContractInv, Numbered
    <2>2. \A x \in OutputNames : InCopy(x)' => groupDirs'[GroupOf[x.base]][x] # NoFile
      BY <1>3, <1>4, <1>9, <1>11
    <2>3. QED
      BY <1>10, <2>1, <2>2 DEF Numbered
  <1>16. NamesLeft'
    <2> SUFFICES ASSUME NEW h \in RAW_GROUPS, NEW x \in OutputNames, groupDirs'[h][x] # NoFile
                 PROVE  /\ x.suffix < attempt'.number
                        /\ attempt'.pc = "collecting" /\ ~Begun(x.base)' => x.suffix + 1 < attempt'.number
      BY DEF NamesLeft
    <2>1. CASE h = g /\ x = m
      BY <1>3, <1>7, <1>10, <1>12, <2>1
    <2>2. CASE h # g \/ x # m
      BY <1>1, <1>9, <1>10, <1>12, <2>2 DEF ContractInv, NamesLeft
    <2>3. QED
      BY <2>1, <2>2
  <1>17. ProducedKept'
    <2> SUFFICES ASSUME NEW x \in ToSet(attempt'.produced)
                 PROVE  /\ x.base \in Bases
                        /\ \/ groupDirs'[GroupOf[x.base]][x].made = {x.base}
                           \/ Archived(x)'
      BY <1>10 DEF ProducedKept
    <2>1. CASE x = m
      BY <1>1, <1>3, <1>4, <1>9, <2>1
    <2>2. CASE x # m
      <3>1. x \in ToSet(attempt.produced) /\ x \in OutputNames
        <4>1. attempt.produced \in Seq(OutputNames)
          BY <1>1, AttemptIs
        <4>2. \A y \in ToSet(attempt.produced) : y \in OutputNames
          BY <4>1 DEF ToSet
        <4>3. x \in ToSet(attempt.produced)
          BY <1>11, <2>2
        <4>4. QED
          BY <4>2, <4>3
      <3>2. x.base \in Bases /\ GroupOf[x.base] \in RAW_GROUPS
        BY <3>1, ContractSorts DEF ContractInv, ProducedKept
      <3>3. Archived(x)' <=> Archived(x)
        BY <1>3, <1>10 DEF Archived
      <3>4. groupDirs'[GroupOf[x.base]][x] = groupDirs[GroupOf[x.base]][x]
        BY <1>9, <2>2, <3>1, <3>2
      <3>5. QED
        BY <3>1, <3>2, <3>3, <3>4 DEF ContractInv, ProducedKept
    <2>3. QED
      BY <2>1, <2>2
  <1>18. CandidatesKept'
    BY <1>3, <1>10, CandidatesSame DEF ContractInv
  <1>19. CleanKept'
    <2> SUFFICES ASSUME attempt.clean, NEW h \in RAW_GROUPS, NEW x \in OutputNames, groupDirs'[h][x] # NoFile
                 PROVE  /\ OwnFile(groupDirs[h][x], x)' /\ (groupDirs'[h][x].whole \/ InCopy(x)')
                        /\ x.base \in Bases /\ h = GroupOf[x.base] /\ (x \in ToSet(attempt'.produced) \/ InCopy(x)')
      BY <1>10 DEF CleanKept
    <2>1. CASE h = g /\ x = m
      BY <1>1, <1>3, <1>4, <1>8, <1>9, <1>10, <1>11, <2>1, ZenonT(30) DEF OwnFile
    <2>2. CASE h # g \/ x # m
      <3>1. groupDirs'[h][x] = groupDirs[h][x]
        BY <1>9, <2>2
      <3>2. /\ OwnFile(groupDirs[h][x], x) /\ (groupDirs[h][x].whole \/ InCopy(x))
            /\ x.base \in Bases /\ h = GroupOf[x.base] /\ (x \in ToSet(attempt.produced) \/ InCopy(x))
        BY <1>1, <3>1 DEF ContractInv, CleanKept
      <3>3. x # m
        BY <1>3, <2>2, <3>2
      <3>4. QED
        BY <1>10, <1>11, <1>13, <3>1, <3>2, <3>3 DEF OwnFile
    <2>3. QED
      BY <2>1, <2>2
  <1>20. PublishedKept'
    BY <1>1, <1>10 DEF ContractInv, PublishedKept
  <1>21. QED
    BY <1>14, <1>15, <1>16, <1>17, <1>18, <1>19, <1>20 DEF ContractInv

\* When all models have ended nothing is being copied.
LEMMA FinalizeKeeps == ASSUME ContractInv, FinalizeContract PROVE ContractInv'
  <1>1. /\ ContractTypeOK /\ attempt.pc = "collecting" /\ attempt.copying = <<>>
        /\ groupDirs' = groupDirs /\ candidateDir' = candidateDir /\ attempt' = [attempt EXCEPT !.pc = "archiving"]
    BY DEF FinalizeContract, ContractInv
  <1>2. /\ attempt' \in ContractRuns /\ attempt'.number = attempt.number /\ attempt'.pc = "archiving"
        /\ attempt'.clean = attempt.clean /\ attempt'.raw = attempt.raw /\ attempt'.copying = attempt.copying
        /\ attempt'.produced = attempt.produced
        /\ attempt'.published = attempt.published /\ attempt'.selected = attempt.selected
    BY <1>1 DEF ContractTypeOK, ContractRuns
  <1>3. ContractTypeOK'
    BY <1>1, <1>2 DEF ContractTypeOK
  <1>4. Numbered' /\ NamesLeft'
    BY <1>1, <1>2 DEF ContractInv, Numbered, NamesLeft
  <1>5. \A m : Archived(m)' <=> Archived(m)
    BY <1>1, <1>2 DEF Archived
  <1>6. ProducedKept'
    BY <1>1, <1>2, <1>5 DEF ContractInv, ProducedKept
  <1>7. CandidatesKept'
    BY <1>1, <1>2, CandidatesSame DEF ContractInv
  <1>8. CleanKept'
    BY <1>1, <1>2 DEF ContractInv, CleanKept, OwnFile, InCopy
  <1>9. PublishedKept'
    BY <1>1, <1>2 DEF ContractInv, PublishedKept
  <1>10. QED
    BY <1>3, <1>4, <1>6, <1>7, <1>8, <1>9 DEF ContractInv

\* A file is moved to a path of its own, where its candidate finds it (_move_candidate_file).
LEMMA ArchiveKeeps ==
    ASSUME ContractInv, NEW g \in RAW_GROUPS, NEW m \in OutputNames, ArchiveOutput(g, m) PROVE ContractInv'
  <1>0. PICK f, k, n, entry :
          /\ f = groupDirs[g][m] /\ k = Len(candidateDir[g][m]) + 1 /\ n = Len(attempt.raw[g]) + 1
          /\ entry = [name |-> m, place |-> k]
    OBVIOUS
  <1>1. ContractTypeOK /\ attempt.pc = "archiving" /\ attempt.copying = <<>> /\ f # NoFile
    BY <1>0 DEF ArchiveOutput, Present, ContractInv, Numbered
  <1>2. f \in StemFiles /\ candidateDir[g][m] \in Seq(StemFiles) /\ attempt.raw[g] \in Seq(RawEntries) /\ k \in Nat /\ n \in Nat
    BY <1>0, <1>1, AttemptIs DEF ContractTypeOK
  <1>3. /\ candidateDir' = [candidateDir EXCEPT ![g][m] = Append(candidateDir[g][m], f)]
        /\ groupDirs' = [groupDirs EXCEPT ![g][m] = NoFile]
    BY <1>0 DEF ArchiveOutput
  <1>4. /\ candidateDir'[g][m] = Append(candidateDir[g][m], f) /\ Len(candidateDir'[g][m]) = k
        /\ candidateDir'[g][m][k] = f /\ k \in DOMAIN candidateDir'[g][m]
        /\ \A p \in DOMAIN candidateDir[g][m] :
             p \in DOMAIN candidateDir'[g][m] /\ candidateDir'[g][m][p] = candidateDir[g][m][p]
        /\ \A h \in RAW_GROUPS, x \in OutputNames : h # g \/ x # m => candidateDir'[h][x] = candidateDir[h][x]
    <2>1. candidateDir'[g][m] = Append(candidateDir[g][m], f)
      BY <1>1, <1>3 DEF ContractTypeOK
    <2>2. \A h \in RAW_GROUPS, x \in OutputNames : h # g \/ x # m => candidateDir'[h][x] = candidateDir[h][x]
      BY <1>1, <1>3 DEF ContractTypeOK
    <2>3. QED
      BY <1>0, <1>2, <2>1, <2>2
  <1>5. attempt' = [attempt EXCEPT !.raw = [attempt.raw EXCEPT ![g] = Append(attempt.raw[g], entry)]]
    <2>1. attempt' = [attempt EXCEPT !.raw[g] = Append(@, [name |-> m, place |-> Len(candidateDir'[g][m])])]
      BY DEF ArchiveOutput
    <2>2. QED
      BY <1>0, <1>1, <1>4, <2>1 DEF ContractTypeOK, ContractRuns
  <1>6. entry \in RawEntries /\ entry.name = m /\ entry.place = k
    BY <1>0, <1>2 DEF RawEntries
  <1>7. [attempt.raw EXCEPT ![g] = Append(attempt.raw[g], entry)] \in [RAW_GROUPS -> Seq(RawEntries)]
    BY <1>1, <1>6, AttemptIs
  <1>8. /\ attempt' \in ContractRuns /\ attempt'.number = attempt.number /\ attempt'.pc = "archiving"
        /\ attempt'.clean = attempt.clean /\ attempt'.copying = <<>> /\ attempt'.produced = attempt.produced
        /\ attempt'.published = attempt.published /\ attempt'.selected = attempt.selected
        /\ attempt'.raw = [attempt.raw EXCEPT ![g] = Append(attempt.raw[g], entry)]
    BY <1>1, <1>5, <1>7 DEF ContractTypeOK, ContractRuns
  <1>9. /\ n \in DOMAIN attempt'.raw[g] /\ attempt'.raw[g][n] = entry
        /\ \A i \in DOMAIN attempt'.raw[g] :
             i = n \/ (i \in DOMAIN attempt.raw[g] /\ attempt'.raw[g][i] = attempt.raw[g][i])
        /\ \A i \in DOMAIN attempt.raw[g] :
             i \in DOMAIN attempt'.raw[g] /\ attempt'.raw[g][i] = attempt.raw[g][i]
        /\ \A h \in RAW_GROUPS : h # g => attempt'.raw[h] = attempt.raw[h]
    <2>1. attempt'.raw[g] = Append(attempt.raw[g], entry) /\ \A h \in RAW_GROUPS : h # g => attempt'.raw[h] = attempt.raw[h]
      BY <1>1, <1>8, AttemptIs
    <2>2. QED
      BY <1>0, <1>2, <1>6, <2>1
  <1>10. /\ groupDirs'[g][m] = NoFile
         /\ \A h \in RAW_GROUPS, x \in OutputNames : h # g \/ x # m => groupDirs'[h][x] = groupDirs[h][x]
    BY <1>1, <1>3 DEF ContractTypeOK
  <1>11. ContractTypeOK'
    <2>1. groupDirs' \in [RAW_GROUPS -> [OutputNames -> StemFiles \cup {NoFile}]]
      BY <1>1, <1>3 DEF ContractTypeOK
    <2>2. Append(candidateDir[g][m], f) \in Seq(StemFiles)
      BY <1>2
    <2>3. candidateDir' \in [RAW_GROUPS -> [OutputNames -> Seq(StemFiles)]]
      BY <1>1, <1>3, <2>2 DEF ContractTypeOK
    <2>4. QED
      BY <1>8, <2>1, <2>3 DEF ContractTypeOK
  <1>12. Numbered' /\ NamesLeft'
    <2>1. Numbered'
      BY <1>1, <1>8 DEF ContractInv, Numbered
    <2>2. \A h \in RAW_GROUPS, x \in OutputNames : groupDirs'[h][x] # NoFile => groupDirs[h][x] # NoFile
      BY <1>10
    <2>3. NamesLeft'
      BY <1>8, <2>2 DEF ContractInv, NamesLeft
    <2>4. QED
      BY <2>1, <2>3
  <1>13. \A h \in RAW_GROUPS, x \in OutputNames : \A p \in DOMAIN candidateDir[h][x] :
            p \in DOMAIN candidateDir'[h][x] /\ candidateDir'[h][x][p] = candidateDir[h][x][p]
    BY <1>4
  <1>14. \A h \in RAW_GROUPS : \A i \in DOMAIN attempt.raw[h] :
            /\ attempt.raw[h][i].name \in OutputNames
            /\ attempt.raw[h][i].place \in DOMAIN candidateDir[h][attempt.raw[h][i].name]
    <2>1. \A h \in RAW_GROUPS : \A i \in DOMAIN attempt.raw[h] : attempt.raw[h][i] \in RawEntries
      BY <1>1, AttemptIs
    <2>2. QED
      BY <2>1 DEF ContractInv, CandidatesKept, EntryKept, RawEntries
  <1>15. ProducedKept'
    <2> SUFFICES ASSUME NEW x \in ToSet(attempt.produced)
                 PROVE  /\ x.base \in Bases
                        /\ \/ groupDirs'[GroupOf[x.base]][x].made = {x.base}
                           \/ Archived(x)'
      BY <1>8 DEF ProducedKept
    <2>1. x.base \in Bases /\ GroupOf[x.base] \in RAW_GROUPS
      BY ContractSorts DEF ContractInv, ProducedKept
    <2>2. x \in OutputNames
      <3>1. attempt.produced \in Seq(OutputNames)
        BY <1>1, AttemptIs
      <3>2. QED
        BY <3>1 DEF ToSet
    <2>3. CASE Archived(x)
      <3> DEFINE h == GroupOf[x.base]
      <3>1. PICK i \in DOMAIN attempt.raw[h] :
              attempt.raw[h][i].name = x /\ candidateDir[h][x][attempt.raw[h][i].place].made = {x.base}
        BY <2>3 DEF Archived
      <3>2. i \in DOMAIN attempt'.raw[h] /\ attempt'.raw[h][i] = attempt.raw[h][i]
        BY <1>9, <2>1
      <3>3. candidateDir'[h][x][attempt.raw[h][i].place] = candidateDir[h][x][attempt.raw[h][i].place]
        <4>1. attempt.raw[h][i].place \in DOMAIN candidateDir[h][x]
          BY <1>14, <2>1, <3>1
        <4>2. QED
          BY <1>13, <2>1, <2>2, <4>1
      <3>4. Archived(x)'
        BY <3>1, <3>2, <3>3 DEF Archived
      <3>5. QED
        BY <2>1, <3>4
    <2>4. CASE groupDirs[GroupOf[x.base]][x].made = {x.base}
      <3>1. CASE GroupOf[x.base] = g /\ x = m
        <4>1. attempt'.raw[g][n].name = m /\ candidateDir'[g][m][attempt'.raw[g][n].place].made = {m.base}
          BY <1>0, <1>4, <1>6, <1>9, <2>4, <3>1
        <4>2. Archived(x)'
          BY <1>9, <3>1, <4>1 DEF Archived
        <4>3. QED
          BY <2>1, <4>2
      <3>2. CASE GroupOf[x.base] # g \/ x # m
        BY <1>10, <2>1, <2>2, <2>4, <3>2
      <3>3. QED
        BY <3>1, <3>2
    <2>5. QED
      BY <2>3, <2>4 DEF ContractInv, ProducedKept
  <1>16. CandidatesKept'
    <2>1. EntryKept(g, entry)'
      <3>1. attempt.clean => OwnFile(f, m) /\ f.whole
        BY <1>0, <1>1 DEF ContractInv, CleanKept, InCopy
      <3>2. QED
        BY <1>4, <1>6, <1>8, <3>1 DEF EntryKept, OwnFile
    <2>2. ASSUME NEW h \in RAW_GROUPS, NEW i \in DOMAIN attempt.raw[h] PROVE EntryKept(h, attempt.raw[h][i])'
      <3> PICK c : c = attempt.raw[h][i]
        OBVIOUS
      <3>1. EntryKept(h, c)
        BY DEF ContractInv, CandidatesKept
      <3>2. c.name \in OutputNames /\ c.place \in DOMAIN candidateDir[h][c.name]
        BY <1>14
      <3>3. /\ c.place \in DOMAIN candidateDir'[h][c.name]
            /\ candidateDir'[h][c.name][c.place] = candidateDir[h][c.name][c.place]
        BY <1>13, <3>2
      <3>4. EntryKept(h, c)'
        BY <1>8, <3>1, <3>3 DEF EntryKept, OwnFile
      <3>5. attempt'.raw[h][i] = c
        BY <1>9
      <3>6. QED
        BY <3>4, <3>5
    <2>3. QED
      BY <1>9, <2>1, <2>2 DEF CandidatesKept
  <1>17. CleanKept'
    <2>1. \A h \in RAW_GROUPS, x \in OutputNames : groupDirs'[h][x] # NoFile =>
            groupDirs[h][x] # NoFile /\ groupDirs'[h][x] = groupDirs[h][x]
      BY <1>10
    <2>2. QED
      BY <1>1, <1>8, <2>1 DEF ContractInv, CleanKept, OwnFile, InCopy
  <1>18. PublishedKept'
    BY <1>1, <1>8 DEF ContractInv, PublishedKept
  <1>19. QED
    BY <1>11, <1>12, <1>15, <1>16, <1>17, <1>18 DEF ContractInv

\* What is published is chosen among the candidates once no file is left beside them.
LEMMA PublishingStarts == ASSUME ContractInv, PublishTargets PROVE ContractInv'
  <1>1. /\ ContractTypeOK /\ attempt.pc = "archiving" /\ attempt.copying = <<>>
        /\ groupDirs' = groupDirs /\ candidateDir' = candidateDir /\ attempt' = [attempt EXCEPT !.pc = "publishing"]
        /\ \A g \in RAW_GROUPS, m \in OutputNames : groupDirs[g][m] = NoFile
    BY DEF PublishTargets, Present, ContractInv, Numbered
  <1>2. /\ attempt' \in ContractRuns /\ attempt'.number = attempt.number /\ attempt'.pc = "publishing"
        /\ attempt'.clean = attempt.clean /\ attempt'.raw = attempt.raw /\ attempt'.copying = attempt.copying
        /\ attempt'.produced = attempt.produced
        /\ attempt'.published = attempt.published /\ attempt'.selected = attempt.selected
    BY <1>1 DEF ContractTypeOK, ContractRuns
  <1>3. ContractTypeOK'
    BY <1>1, <1>2 DEF ContractTypeOK
  <1>4. Numbered' /\ NamesLeft'
    BY <1>1, <1>2 DEF ContractInv, Numbered, NamesLeft
  <1>5. \A m : Archived(m)' <=> Archived(m)
    BY <1>1, <1>2 DEF Archived
  <1>6. ProducedKept'
    <2>1. ASSUME NEW m \in ToSet(attempt.produced) PROVE m.base \in Bases /\ Archived(m)
      <3>1. m.base \in Bases /\ GroupOf[m.base] \in RAW_GROUPS
        BY ContractSorts DEF ContractInv, ProducedKept
      <3>2. m \in OutputNames
        <4>1. attempt.produced \in Seq(OutputNames)
          BY <1>1, AttemptIs
        <4>2. QED
          BY <4>1 DEF ToSet
      <3>3. groupDirs[GroupOf[m.base]][m].made = {}
        BY <1>1, <3>1, <3>2 DEF NoFile
      <3>4. QED
        BY <3>1, <3>3 DEF ContractInv, ProducedKept
    <2>2. QED
      BY <1>2, <1>5, <2>1 DEF ProducedKept
  <1>7. CandidatesKept'
    BY <1>1, <1>2, CandidatesSame DEF ContractInv
  <1>8. CleanKept' /\ PublishedKept'
    BY <1>1, <1>2 DEF ContractInv, CleanKept, PublishedKept
  <1>9. QED
    BY <1>3, <1>4, <1>6, <1>7, <1>8 DEF ContractInv

-----------------------------------------------------------------------------

\* The rules of a target.
LEMMA TargetSorts ==
    ASSUME NEW t \in Targets
    PROVE  LET rules == TARGET_RULES[t].rules IN
           /\ TARGET_RULES[t].group \in RAW_GROUPS /\ rules \in Seq(ToSet(rules)) /\ Len(rules) \in Nat /\ 1 \in 1 .. Len(rules)
           /\ rules[1].group = TARGET_RULES[t].group /\ 1 \in 1 .. Len(rules[1].aliases) /\ rules[1].aliases[1] = t
           /\ \A n \in 1 .. Len(rules) :
                rules[n].group \in RAW_GROUPS /\ rules[n].aliases \in Seq(ToSet(rules[n].aliases))
  <1> DEFINE rules == TARGET_RULES[t].rules
  <1>1. /\ rules \in Seq(ToSet(rules)) /\ rules # <<>>
        /\ \A r \in ToSet(rules) : r.group \in RAW_GROUPS /\ r.aliases \in Seq(ToSet(r.aliases))
        /\ rules[1].group = TARGET_RULES[t].group /\ rules[1].aliases # <<>> /\ rules[1].aliases[1] = t
    BY ContractAssumption
  <1> HIDE DEF rules
  <1>2. Len(rules) \in Nat /\ 1 \in 1 .. Len(rules) /\ DOMAIN rules = 1 .. Len(rules)
    BY <1>1
  <1>3. \A n \in 1 .. Len(rules) : rules[n] \in ToSet(rules)
    BY <1>2 DEF ToSet
  <1>4. rules[1].aliases \in Seq(ToSet(rules[1].aliases))
    BY <1>1, <1>2, <1>3
  <1>5. 1 \in 1 .. Len(rules[1].aliases)
    BY <1>1, <1>4
  <1>6. TARGET_RULES[t].group \in RAW_GROUPS
    BY <1>1, <1>2, <1>3
  <1>7. QED
    BY <1>1, <1>2, <1>3, <1>5, <1>6 DEF rules

\* A candidate's file is there, and of the run that found nothing of an earlier one.
LEMMA CandidatesAre ==
    ASSUME ContractTypeOK, CandidatesKept, NEW g \in RAW_GROUPS
    PROVE  /\ \A i \in DOMAIN attempt.raw[g] : CandidateOf(g, attempt.raw[g][i]) \in Candidates(g)
           /\ \A c \in Candidates(g) :
                /\ c \in CandidateSet /\ c.group = g /\ FileOf(c) \in StemFiles
                /\ \E i \in DOMAIN attempt.raw[g] : c = CandidateOf(g, attempt.raw[g][i])
                /\ attempt.clean => OwnFile(FileOf(c), c.name) /\ FileOf(c).whole
  <1>1. attempt.raw[g] \in Seq(RawEntries)
    BY AttemptIs
  <1>2. \A i \in DOMAIN attempt.raw[g] : CandidateOf(g, attempt.raw[g][i]) \in Candidates(g)
    BY DEF Candidates, ToSet
  <1>3. ASSUME NEW c \in Candidates(g)
        PROVE  /\ c \in CandidateSet /\ c.group = g /\ FileOf(c) \in StemFiles
               /\ \E i \in DOMAIN attempt.raw[g] : c = CandidateOf(g, attempt.raw[g][i])
               /\ attempt.clean => OwnFile(FileOf(c), c.name) /\ FileOf(c).whole
    <2>1. PICK i \in DOMAIN attempt.raw[g] : c = CandidateOf(g, attempt.raw[g][i])
      BY <1>3 DEF Candidates, ToSet
    <2>2. PICK e \in RawEntries : e = attempt.raw[g][i]
      BY <1>1
    <2>3. c = [group |-> g, name |-> e.name, place |-> e.place]
      BY <2>1, <2>2 DEF CandidateOf
    <2>4. EntryKept(g, e)
      BY <2>2 DEF CandidatesKept
    <2>5. e.name \in OutputNames /\ e.place \in Nat /\ candidateDir[g][e.name] \in Seq(StemFiles)
      BY DEF ContractTypeOK, RawEntries
    <2>6. FileOf(c) = candidateDir[g][e.name][e.place]
      BY <2>3 DEF FileOf
    <2>7. FileOf(c) \in StemFiles
      BY <2>4, <2>5, <2>6 DEF EntryKept
    <2>8. attempt.clean => OwnFile(FileOf(c), c.name) /\ FileOf(c).whole
      BY <2>3, <2>4, <2>6 DEF EntryKept
    <2>9. c \in CandidateSet /\ c.group = g
      BY <2>3, <2>5 DEF CandidateSet
    <2>10. QED
      BY <2>1, <2>7, <2>8, <2>9
  <1>4. QED
    BY <1>2, <1>3

\* A match is what has an alias for its name, the first alias before others, or one that
\* contains an alias.
LEMMA MatchIs ==
    ASSUME NEW T, NEW aliases \in Seq(T), NEW g, NEW U, attempt.raw[g] \in Seq(U)
    PROVE  /\ \/ Match(g, aliases) = {}
              \/ \E n \in DOMAIN aliases : Match(g, aliases) = NamedCandidates(g, aliases[n])
              \/ \E i \in DOMAIN attempt.raw[g] :
                   /\ Match(g, aliases) = {CandidateOf(g, attempt.raw[g][i])}
                   /\ LooseAliases[attempt.raw[g][i].name] \cap ToSet(aliases) # {}
           /\ 1 \in DOMAIN aliases /\ NamedCandidates(g, aliases[1]) # {} => Match(g, aliases) = NamedCandidates(g, aliases[1])
  <1> DEFINE named == {n \in 1 .. Len(aliases) : NamedCandidates(g, aliases[n]) # {}}
             loose == {i \in 1 .. Len(attempt.raw[g]) : LooseAliases[attempt.raw[g][i].name] \cap ToSet(aliases) # {}}
             one == IF named # {} THEN Min(named) ELSE 0
             other == IF loose # {} THEN Min(loose) ELSE 0
  <1>1. Match(g, aliases) = IF one # 0 THEN NamedCandidates(g, aliases[one])
                            ELSE IF other # 0 THEN {CandidateOf(g, attempt.raw[g][other])} ELSE {}
    BY DEF Match, SelectInSeq
  <1>2. Len(aliases) \in Nat /\ DOMAIN aliases = 1 .. Len(aliases)
        /\ Len(attempt.raw[g]) \in Nat /\ DOMAIN attempt.raw[g] = 1 .. Len(attempt.raw[g])
    OBVIOUS
  <1>3. /\ named \in SUBSET (1 .. Len(aliases)) /\ loose \in SUBSET (1 .. Len(attempt.raw[g]))
        /\ \A i \in loose : LooseAliases[attempt.raw[g][i].name] \cap ToSet(aliases) # {}
        /\ 1 \in DOMAIN aliases /\ NamedCandidates(g, aliases[1]) # {} => 1 \in named
    BY <1>2
  <1> HIDE DEF named, loose
  <1>4. named \in SUBSET Nat /\ loose \in SUBSET Nat
    BY <1>3
  <1>5. named # {} => Min(named) \in named /\ \A n \in named : Min(named) <= n
    BY <1>4, MinIs
  <1>6. loose # {} => Min(loose) \in loose
    BY <1>4, MinIs
  <1>7. (one = 0 \/ one \in named) /\ (other = 0 \/ other \in loose)
    BY <1>5, <1>6
  <1>8. 1 \in named => one = 1
    <2>1. \A n \in named : n >= 1 /\ n \in Nat
      BY <1>2, <1>3
    <2> SUFFICES ASSUME 1 \in named PROVE one = 1
      OBVIOUS
    <2>2. Min(named) \in named /\ Min(named) <= 1
      BY <1>5
    <2>3. QED
      BY <2>1, <2>2
  <1>9. 1 \in named => Match(g, aliases) = NamedCandidates(g, aliases[1])
    BY <1>1, <1>8
  <1> HIDE DEF one, other
  <1>10. \/ Match(g, aliases) = {}
         \/ \E n \in DOMAIN aliases : Match(g, aliases) = NamedCandidates(g, aliases[n])
         \/ \E i \in DOMAIN attempt.raw[g] :
              /\ Match(g, aliases) = {CandidateOf(g, attempt.raw[g][i])}
              /\ LooseAliases[attempt.raw[g][i].name] \cap ToSet(aliases) # {}
    BY <1>1, <1>2, <1>3, <1>7
  <1>11. QED
    BY <1>3, <1>9, <1>10

\* A target's candidate is a match of one of its rules, of the first that has one.
LEMMA FindIs ==
    ASSUME NEW t \in Targets
    PROVE  LET rules == TARGET_RULES[t].rules IN
           /\ \/ FindCandidate(t) = {}
              \/ \E n \in 1 .. Len(rules) : FindCandidate(t) = Match(rules[n].group, rules[n].aliases)
           /\ Match(rules[1].group, rules[1].aliases) # {} => FindCandidate(t) = Match(rules[1].group, rules[1].aliases)
  <1> DEFINE rules == TARGET_RULES[t].rules
             matched == {n \in 1 .. Len(rules) : Match(rules[n].group, rules[n].aliases) # {}}
             rule == IF matched # {} THEN Min(matched) ELSE 0
  <1>1. FindCandidate(t) = IF rule = 0 THEN {} ELSE Match(rules[rule].group, rules[rule].aliases)
    BY DEF FindCandidate, SelectInSeq
  <1>2. Len(rules) \in Nat /\ 1 \in 1 .. Len(rules)
    BY TargetSorts
  <1> HIDE DEF rules
  <1>3. matched \in SUBSET (1 .. Len(rules)) /\ (Match(rules[1].group, rules[1].aliases) # {} => 1 \in matched)
    BY <1>2
  <1> HIDE DEF matched
  <1>4. matched # {} => Min(matched) \in matched /\ \A n \in matched : Min(matched) <= n
    <2>1. matched \in SUBSET Nat
      BY <1>3
    <2>2. QED
      BY <2>1, MinIs
  <1>5. rule = 0 \/ rule \in 1 .. Len(rules)
    BY <1>3, <1>4
  <1>6. 1 \in matched => rule = 1
    <2>1. \A n \in matched : n >= 1 /\ n \in Nat
      BY <1>3
    <2> SUFFICES ASSUME 1 \in matched PROVE rule = 1
      OBVIOUS
    <2>2. Min(matched) \in matched /\ Min(matched) <= 1
      BY <1>4
    <2>3. QED
      BY <2>1, <2>2
  <1> HIDE DEF rule
  <1>7. /\ FindCandidate(t) = {} \/ \E n \in 1 .. Len(rules) : FindCandidate(t) = Match(rules[n].group, rules[n].aliases)
        /\ Match(rules[1].group, rules[1].aliases) # {} => FindCandidate(t) = Match(rules[1].group, rules[1].aliases)
    BY <1>1, <1>3, <1>5, <1>6
  <1>8. QED
    BY <1>7 DEF rules

\* What matches is a candidate.
LEMMA MatchesAre ==
    ASSUME ContractTypeOK, CandidatesKept, NEW g \in RAW_GROUPS, NEW T, NEW aliases \in Seq(T)
    PROVE  Match(g, aliases) \subseteq Candidates(g)
  <1>1. attempt.raw[g] \in Seq(RawEntries)
    BY AttemptIs
  <1>2. \A a : NamedCandidates(g, a) \subseteq Candidates(g)
    BY DEF NamedCandidates
  <1>3. \/ Match(g, aliases) = {}
        \/ \E n \in DOMAIN aliases : Match(g, aliases) = NamedCandidates(g, aliases[n])
        \/ \E i \in DOMAIN attempt.raw[g] : Match(g, aliases) = {CandidateOf(g, attempt.raw[g][i])}
    BY <1>1, MatchIs
  <1>4. \A i \in DOMAIN attempt.raw[g] : CandidateOf(g, attempt.raw[g][i]) \in Candidates(g)
    BY CandidatesAre
  <1>5. QED
    BY <1>2, <1>3, <1>4

\* And so is what a target is made of.
LEMMA SourcesAre ==
    ASSUME ContractTypeOK, CandidatesKept, NEW t \in Targets
    PROVE  \A c \in SourcesOf(t) : \E g \in RAW_GROUPS : c \in Candidates(g)
  <1>1. \A c \in FindCandidate(t) : \E g \in RAW_GROUPS : c \in Candidates(g)
    <2> DEFINE rules == TARGET_RULES[t].rules
    <2>1. \A n \in 1 .. Len(rules) : Match(rules[n].group, rules[n].aliases) \subseteq Candidates(rules[n].group)
      BY TargetSorts, MatchesAre
    <2>2. \A n \in 1 .. Len(rules) : rules[n].group \in RAW_GROUPS
      BY TargetSorts
    <2>3. QED
      BY <2>1, <2>2, FindIs
  <1>2. \A c \in PartsOf(t) : c \in Candidates("broad_stems")
    <2>1. \A s : Match("broad_stems", <<s>>) \subseteq Candidates("broad_stems")
      <3> TAKE s
      <3>1. <<s>> \in Seq({s})
        OBVIOUS
      <3>2. QED
        BY <3>1, ContractSorts, MatchesAre
    <2>2. QED
      BY <2>1 DEF PartsOf
  <1>3. QED
    BY <1>1, <1>2, ContractSorts DEF SourcesOf

\* The choice depends on the candidates and on nothing else.
LEMMA SourcesSame == ASSUME attempt'.raw = attempt.raw, NEW t PROVE SourcesOf(t)' = SourcesOf(t)
  <1>1. \A g : Candidates(g)' = Candidates(g)
    BY DEF Candidates, CandidateOf
  <1>2. \A g, a : NamedCandidates(g, a)' = NamedCandidates(g, a)
    BY <1>1 DEF NamedCandidates
  <1>3. \A g, aliases : Match(g, aliases)' = Match(g, aliases)
    <2> TAKE g, aliases
    <2>1. {n \in 1 .. Len(aliases) : NamedCandidates(g, aliases[n])' # {}} = {n \in 1 .. Len(aliases) : NamedCandidates(g, aliases[n]) # {}}
      BY <1>2
    <2>2. {i \in 1 .. Len(attempt'.raw[g]) : LooseAliases[attempt'.raw[g][i].name] \cap ToSet(aliases) # {}}
            = {i \in 1 .. Len(attempt.raw[g]) : LooseAliases[attempt.raw[g][i].name] \cap ToSet(aliases) # {}}
      OBVIOUS
    <2>3. \A i : CandidateOf(g, attempt'.raw[g][i]) = CandidateOf(g, attempt.raw[g][i])
      OBVIOUS
    <2>4. QED
      BY <1>2, <2>1, <2>2, <2>3 DEF Match, SelectInSeq
  <1>4. FindCandidate(t)' = FindCandidate(t)
    <2> DEFINE rules == TARGET_RULES[t].rules
    <2>1. {n \in 1 .. Len(rules) : Match(rules[n].group, rules[n].aliases)' # {}}
            = {n \in 1 .. Len(rules) : Match(rules[n].group, rules[n].aliases) # {}}
      BY <1>3
    <2>2. QED
      BY <1>3, <2>1 DEF FindCandidate, SelectInSeq
  <1>5. PartsOf(t)' = PartsOf(t)
    BY <1>3 DEF PartsOf
  <1>6. QED
    BY <1>4, <1>5 DEF SourcesOf

\* The audio of candidates: of all their outputs.
LEMMA AudioIs ==
    ASSUME ContractTypeOK, CandidatesKept, NEW sources, sources # {},
           \A c \in sources : \E g \in RAW_GROUPS : c \in Candidates(g)
    PROVE  /\ AudioOf(sources) \in StemFiles
           /\ \A c \in sources : FileOf(c).made \subseteq AudioOf(sources).made
           /\ \A b \in AudioOf(sources).made : \E c \in sources : b \in FileOf(c).made
           /\ attempt.clean => AudioOf(sources).whole /\ AudioOf(sources).attempt = attempt.number
  <1>1. \A c \in sources : FileOf(c) \in StemFiles /\ (attempt.clean => OwnFile(FileOf(c), c.name) /\ FileOf(c).whole)
    BY CandidatesAre
  <1> DEFINE made == UNION {FileOf(c).made : c \in sources}
             number == IF \A c \in sources : FileOf(c).attempt = attempt.number THEN attempt.number ELSE 0
             whole == \A c \in sources : FileOf(c).whole
  <1>2. AudioOf(sources) = [attempt |-> number, made |-> made, whole |-> whole]
    BY DEF AudioOf
  <1>3. made \in (SUBSET Bases) \ {{}}
    <2>1. \A c \in sources : FileOf(c).made \in (SUBSET Bases) \ {{}}
      BY <1>1 DEF StemFiles
    <2>2. QED
      BY <2>1
  <1>4. number \in Nat /\ whole \in BOOLEAN
    BY AttemptIs
  <1>5. attempt.clean => whole /\ number = attempt.number
    BY <1>1 DEF OwnFile
  <1>6. (\A c \in sources : FileOf(c).made \subseteq made) /\ \A b \in made : \E c \in sources : b \in FileOf(c).made
    OBVIOUS
  <1> HIDE DEF made, number, whole
  <1>7. AudioOf(sources) \in StemFiles /\ AudioOf(sources).made = made /\ AudioOf(sources).attempt = number
        /\ (AudioOf(sources).whole <=> whole)
    BY <1>2, <1>3, <1>4 DEF StemFiles
  <1>8. QED
    BY <1>5, <1>6, <1>7

\* It changes with its files only.
LEMMA AudioSame ==
    ASSUME candidateDir' = candidateDir, attempt'.number = attempt.number, NEW sources
    PROVE  AudioOf(sources)' = AudioOf(sources)
  <1>1. \A c : FileOf(c)' = FileOf(c)
    BY DEF FileOf
  <1>2. {FileOf(c)'.made : c \in sources} = {FileOf(c).made : c \in sources}
    BY <1>1
  <1>3. QED
    BY <1>1, <1>2 DEF AudioOf

-----------------------------------------------------------------------------

\* And a file that is published stays that of its sources, while it is not written again.
LEMMA FromSourcesStill ==
    ASSUME candidateDir' = candidateDir, attempt'.raw = attempt.raw, attempt'.number = attempt.number,
           NEW t, FromSources(t), File(t)' = File(t)
    PROVE  FromSources(t)'
  <1>1. PICK sources : sources = SourcesOf(t)
    OBVIOUS
  <1>2. SourcesOf(t)' = sources
    BY <1>1, SourcesSame
  <1>3. AudioOf(sources)' = AudioOf(sources)
    BY AudioSame
  <1>4. File(t)' = AudioOf(sources)' /\ SourcesOf(t)' # {}
    BY <1>1, <1>2, <1>3 DEF FromSources
  <1>5. QED
    BY <1>2, <1>4 DEF FromSources

\* A target without a source is on record (_record_missing_target).
LEMMA MissingKeeps == ASSUME ContractInv, NEW t \in Targets, RecordMissing(t) PROVE ContractInv'
  <1>1. /\ ContractTypeOK /\ attempt.pc = "publishing" /\ attempt.copying = <<>>
        /\ groupDirs' = groupDirs /\ candidateDir' = candidateDir
        /\ attempt' = [attempt EXCEPT !.missing = @ \cup {t}]
    BY DEF RecordMissing, ContractInv
  <1>2. /\ attempt' \in ContractRuns /\ attempt'.number = attempt.number /\ attempt'.pc = "publishing"
        /\ attempt'.clean = attempt.clean /\ attempt'.raw = attempt.raw /\ attempt'.copying = attempt.copying
        /\ attempt'.produced = attempt.produced
        /\ attempt'.published = attempt.published /\ attempt'.selected = attempt.selected
    BY <1>1 DEF ContractTypeOK, ContractRuns
  <1>3. ContractTypeOK'
    BY <1>1, <1>2 DEF ContractTypeOK
  <1>4. Numbered' /\ NamesLeft'
    BY <1>1, <1>2 DEF ContractInv, Numbered, NamesLeft
  <1>5. \A m : Archived(m)' <=> Archived(m)
    BY <1>1, <1>2 DEF Archived
  <1>6. ProducedKept'
    BY <1>1, <1>2, <1>5 DEF ContractInv, ProducedKept
  <1>7. CandidatesKept'
    BY <1>1, <1>2, CandidatesSame DEF ContractInv
  <1>8. CleanKept'
    BY <1>2 DEF CleanKept
  <1>9. PublishedKept'
    <2>1. \A s \in attempt.published : FromSources(s)'
      <3>1. \A s : File(s)' = File(s)
        BY <1>1 DEF File
      <3>2. QED
        BY <1>1, <1>2, <3>1, FromSourcesStill DEF ContractInv, PublishedKept
    <2>2. \A c \in attempt.selected : \E s \in attempt.published : c \in SourcesOf(s)'
      BY <1>1, <1>2, SourcesSame DEF ContractInv, PublishedKept
    <2>3. QED
      BY <1>2, <2>1, <2>2 DEF PublishedKept
  <1>10. QED
    BY <1>3, <1>4, <1>6, <1>7, <1>8, <1>9 DEF ContractInv

\* A target is copied, or mixed, from candidates that all stay (_publish_target).
LEMMA PublishKeeps == ASSUME ContractInv, NEW t \in Targets, PublishTarget(t) PROVE ContractInv'
  <1>1. PICK g, m, sources, f :
          /\ g = TARGET_RULES[t].group /\ m = PlainName(t) /\ sources = SourcesOf(t)
          /\ f = [AudioOf(sources) EXCEPT !.whole = @ /\ attempt.copying # <<>>]
    OBVIOUS
  <1>2. /\ ContractTypeOK /\ CandidatesKept /\ attempt.pc = "publishing" /\ t \notin attempt.published
        /\ attempt.copying \in {<<>>, <<m>>} /\ sources # {}
        /\ candidateDir' = candidateDir /\ groupDirs' = [groupDirs EXCEPT ![g][m] = f]
        /\ attempt' = IF attempt.copying = <<>> THEN [attempt EXCEPT !.copying = <<m>>]
                      ELSE [attempt EXCEPT !.copying = <<>>, !.published = @ \cup {t}, !.selected = @ \cup sources]
    BY <1>1 DEF PublishTarget, Published, CopyTo, Turn, ContractInv
  <1>3. g \in RAW_GROUPS /\ m \in OutputNames /\ m.suffix = 0
    BY <1>1, TargetSorts, ContractSorts DEF PlainName, OutputNames
  <1>4. \A c \in sources : \E h \in RAW_GROUPS : c \in Candidates(h)
    BY <1>1, <1>2, SourcesAre
  <1>5. AudioOf(sources) \in StemFiles /\ sources \in SUBSET CandidateSet
    BY <1>2, <1>4, AudioIs, CandidatesAre
  <1>6. f \in StemFiles /\ (attempt.copying # <<>> => f = AudioOf(sources))
    <2>1. PICK audio \in StemFiles : audio = AudioOf(sources)
      BY <1>5
    <2>2. CASE attempt.copying = <<>>
      BY <1>1, <2>1, <2>2 DEF StemFiles
    <2>3. CASE attempt.copying # <<>>
      <3>1. [audio EXCEPT !.whole = @ /\ TRUE] = audio
        BY DEF StemFiles
      <3>2. [audio EXCEPT !.whole = @ /\ attempt.copying # <<>>] = [audio EXCEPT !.whole = @ /\ TRUE]
        BY <2>3
      <3>3. QED
        BY <1>1, <2>1, <3>1, <3>2
    <2>4. QED
      BY <2>2, <2>3
  <1>7. /\ groupDirs'[g][m] = f
        /\ \A h \in RAW_GROUPS, x \in OutputNames : h # g \/ x # m => groupDirs'[h][x] = groupDirs[h][x]
    BY <1>2, <1>3 DEF ContractTypeOK
  <1>8. /\ attempt' \in ContractRuns /\ attempt'.number = attempt.number /\ attempt'.pc = "publishing"
        /\ attempt'.clean = attempt.clean /\ attempt'.raw = attempt.raw /\ attempt'.produced = attempt.produced
        /\ \/ attempt.copying = <<>> /\ attempt'.published = attempt.published /\ attempt'.selected = attempt.selected
           \/ /\ attempt.copying # <<>> /\ attempt'.published = attempt.published \cup {t}
              /\ attempt'.selected = attempt.selected \cup sources
    <2>1. attempt \in ContractRuns /\ <<m>> \in Seq(OutputNames) /\ <<>> \in Seq(OutputNames)
      BY <1>2, <1>3 DEF ContractTypeOK
    <2>2. CASE attempt.copying = <<>>
      <3>1. attempt' = [attempt EXCEPT !.copying = <<m>>]
        BY <1>2, <2>2
      <3>2. QED
        BY <1>2, <2>1, <2>2, <3>1 DEF ContractRuns
    <2>3. CASE attempt.copying # <<>>
      <3>1. attempt' = [attempt EXCEPT !.copying = <<>>, !.published = attempt.published \cup {t},
                                       !.selected = attempt.selected \cup sources]
        BY <1>2, <2>3
      <3>2. attempt.published \cup {t} \in SUBSET Targets /\ attempt.selected \cup sources \in SUBSET CandidateSet
        BY <1>2, <1>5, AttemptIs
      <3>3. QED
        BY <1>2, <2>1, <2>3, <3>1, <3>2 DEF ContractRuns
    <2>4. QED
      BY <2>2, <2>3
  <1>9. ContractTypeOK'
    <2>1. groupDirs' \in [RAW_GROUPS -> [OutputNames -> StemFiles \cup {NoFile}]]
      BY <1>2, <1>3, <1>6 DEF ContractTypeOK
    <2>2. QED
      BY <1>2, <1>8, <2>1 DEF ContractTypeOK
  <1>10. Numbered'
    BY <1>2, <1>8 DEF ContractInv, Numbered
  <1>11. NamesLeft'
    <2>1. attempt.number >= 1 /\ attempt.number \in Nat
      BY <1>2, AttemptIs DEF ContractInv, Numbered
    <2>2. ASSUME NEW h \in RAW_GROUPS, NEW x \in OutputNames, groupDirs'[h][x] # NoFile PROVE x.suffix < attempt.number
      <3>1. CASE x = m
        BY <1>3, <2>1, <3>1
      <3>2. CASE x # m
        BY <1>7, <2>2, <3>2 DEF ContractInv, NamesLeft
      <3>3. QED
        BY <3>1, <3>2
    <2>3. QED
      BY <1>8, <2>2 DEF NamesLeft
  <1>12. \A x : Archived(x)' <=> Archived(x)
    BY <1>2, <1>8 DEF Archived
  <1>13. ProducedKept'
    BY <1>2, <1>8, <1>12 DEF ContractInv, ProducedKept
  <1>14. CandidatesKept'
    BY <1>2, <1>8, CandidatesSame
  <1>15. CleanKept'
    BY <1>8 DEF CleanKept
  <1>16. \A s \in attempt.published : FromSources(s)'
    <2> TAKE s \in attempt.published
    <2>1. s \in Targets /\ s # t
      BY <1>2, AttemptIs
    <2>2. PlainName(s) # m /\ PlainName(s) \in OutputNames
      BY <1>1, <2>1, ContractSorts DEF PlainName, OutputNames
    <2>3. File(s)' = File(s)
      BY <1>7, <2>1, <2>2, TargetSorts DEF File
    <2>4. QED
      BY <1>2, <1>8, <2>3, FromSourcesStill DEF ContractInv, PublishedKept
  <1>17. attempt.copying # <<>> => FromSources(t)'
    <2> SUFFICES ASSUME attempt.copying # <<>> PROVE FromSources(t)'
      OBVIOUS
    <2>1. File(t)' = AudioOf(sources)
      BY <1>1, <1>6, <1>7 DEF File
    <2>2. AudioOf(sources)' = AudioOf(sources)
      BY <1>2, <1>8, AudioSame
    <2>3. SourcesOf(t)' = sources
      BY <1>1, <1>8, SourcesSame
    <2>4. File(t)' = AudioOf(sources)'
      BY <2>1, <2>2
    <2>5. QED
      BY <1>2, <2>3, <2>4 DEF FromSources
  <1>18. PublishedKept'
    <2>1. \A s \in attempt'.published : FromSources(s)'
      BY <1>8, <1>16, <1>17
    <2>2. \A c \in attempt'.selected : \E s \in attempt'.published : c \in SourcesOf(s)'
      <3>1. \A s : SourcesOf(s)' = SourcesOf(s)
        BY <1>8, SourcesSame
      <3>2. \A c \in attempt.selected : \E s \in attempt.published : c \in SourcesOf(s)
        BY <1>2 DEF ContractInv, PublishedKept
      <3>3. QED
        BY <1>1, <1>8, <3>1, <3>2
    <2>3. QED
      BY <1>8, <2>1, <2>2 DEF PublishedKept
  <1>19. QED
    BY <1>9, <1>10, <1>11, <1>13, <1>14, <1>15, <1>18 DEF ContractInv

\* The contract records what it did with every target and every candidate.
LEMMA DeliveryKeeps == ASSUME ContractInv, WriteContract PROVE ContractInv'
  <1> DEFINE others == (UNION {Candidates(g) : g \in RAW_GROUPS}) \ attempt.selected
  <1>1. /\ ContractTypeOK /\ CandidatesKept /\ attempt.pc = "publishing" /\ attempt.copying = <<>>
        /\ attempt.published \cup attempt.missing = Targets
        /\ groupDirs' = groupDirs /\ candidateDir' = candidateDir
        /\ attempt' = [attempt EXCEPT !.pc = "delivered", !.rejected = others]
    BY DEF WriteContract, ContractInv
  <1>2. others \in SUBSET CandidateSet
    BY <1>1, CandidatesAre
  <1> HIDE DEF others
  <1>3. /\ attempt' \in ContractRuns /\ attempt'.number = attempt.number /\ attempt'.pc = "delivered"
        /\ attempt'.clean = attempt.clean /\ attempt'.raw = attempt.raw /\ attempt'.copying = attempt.copying
        /\ attempt'.produced = attempt.produced /\ attempt'.missing = attempt.missing /\ attempt'.rejected = others
        /\ attempt'.published = attempt.published /\ attempt'.selected = attempt.selected
    BY <1>1, <1>2 DEF ContractTypeOK, ContractRuns
  <1>4. ContractTypeOK'
    BY <1>1, <1>3 DEF ContractTypeOK
  <1>5. Numbered' /\ NamesLeft'
    BY <1>1, <1>3 DEF ContractInv, Numbered, NamesLeft
  <1>6. \A m : Archived(m)' <=> Archived(m)
    BY <1>1, <1>3 DEF Archived
  <1>7. ProducedKept'
    BY <1>1, <1>3, <1>6 DEF ContractInv, ProducedKept
  <1>8. CandidatesKept'
    BY <1>1, <1>3, CandidatesSame
  <1>9. CleanKept'
    BY <1>3 DEF CleanKept
  <1>10. PublishedKept'
    <2>1. \A s \in attempt.published : FromSources(s)'
      <3>1. \A s : File(s)' = File(s)
        BY <1>1 DEF File
      <3>2. QED
        BY <1>1, <1>3, <3>1, FromSourcesStill DEF ContractInv, PublishedKept
    <2>2. \A c \in attempt.selected : \E s \in attempt.published : c \in SourcesOf(s)'
      BY <1>1, <1>3, SourcesSame DEF ContractInv, PublishedKept
    <2>3. \A g : Candidates(g)' = Candidates(g)
      BY <1>3 DEF Candidates, CandidateOf
    <2>4. {Candidates(g)' : g \in RAW_GROUPS} = {Candidates(g) : g \in RAW_GROUPS}
      BY <2>3
    <2>5. attempt'.rejected = (UNION {Candidates(g)' : g \in RAW_GROUPS}) \ attempt.selected
      BY <1>3, <2>4 DEF others
    <2>6. QED
      BY <1>1, <1>3, <2>1, <2>2, <2>5 DEF PublishedKept
  <1>11. QED
    BY <1>4, <1>5, <1>7, <1>8, <1>9, <1>10 DEF ContractInv

\* Every step keeps the invariant.
LEMMA ContractSteps == ASSUME ContractInv, [ContractNext]_contractVars PROVE ContractInv'
  <1>1. CASE UNCHANGED contractVars
    <2>1. groupDirs' = groupDirs /\ candidateDir' = candidateDir /\ attempt' = attempt
      BY <1>1 DEF contractVars
    <2>2. ContractTypeOK' /\ CandidatesKept'
      BY <2>1, CandidatesSame DEF ContractInv, ContractTypeOK
    <2>3. ProducedKept'
      <3>1. \A m : Archived(m)' <=> Archived(m)
        BY <2>1 DEF Archived
      <3>2. QED
        BY <2>1, <3>1 DEF ContractInv, ProducedKept
    <2>4. Numbered' /\ NamesLeft' /\ CleanKept'
      <3>1. \A m : InCopy(m)' <=> InCopy(m)
        BY <2>1 DEF InCopy
      <3>2. Numbered'
        BY <2>1, <3>1 DEF ContractInv, Numbered
      <3>3. \A b : Begun(b)' <=> Begun(b)
        BY <2>1, <3>1 DEF Begun
      <3>4. NamesLeft'
        BY <2>1, <3>3 DEF ContractInv, NamesLeft
      <3>5. \A f, m : OwnFile(f, m)' <=> OwnFile(f, m)
        BY <2>1 DEF OwnFile
      <3>6. CleanKept'
        BY <2>1, <3>1, <3>5 DEF ContractInv, CleanKept
      <3>7. QED
        BY <3>2, <3>4, <3>6
    <2>5. \A s : File(s)' = File(s) /\ SourcesOf(s)' = SourcesOf(s)
      BY <2>1, SourcesSame DEF File
    <2>6. \A s : FromSources(s) => FromSources(s)'
      BY <2>1, <2>5, FromSourcesStill
    <2>7. {Candidates(g)' : g \in RAW_GROUPS} = {Candidates(g) : g \in RAW_GROUPS}
      BY <2>1 DEF Candidates, CandidateOf
    <2>8. PublishedKept'
      BY <2>1, <2>5, <2>6, <2>7 DEF ContractInv, PublishedKept
    <2>9. QED
      BY <2>2, <2>3, <2>4, <2>8 DEF ContractInv
  <1>2. QED
    BY <1>1, ContractStartKeeps, ContractFailureKeeps, CollectKeeps, FinalizeKeeps, ArchiveKeeps, PublishingStarts,
       MissingKeeps, PublishKeeps, DeliveryKeeps DEF ContractNext

\* So it always holds.
LEMMA ContractInvariant == ContractSpec => []ContractInv
  BY ContractStarts, ContractSteps, PTL DEF ContractSpec

-----------------------------------------------------------------------------

\* In a run that found nothing, what a candidate of a match holds is the output it is named
\* after, and that stands for one of the aliases.
LEMMA MatchStandsFor ==
    ASSUME ContractTypeOK, CandidatesKept, attempt.clean, NEW g \in RAW_GROUPS, NEW s
    PROVE  \A c \in Match(g, <<s>>) : FileOf(c).made = {c.name.base} /\ StandsFor(c.name.base, s)
  <1>1. <<s>> \in Seq({s}) /\ ToSet(<<s>>) = {s} /\ DOMAIN <<s>> = {1} /\ <<s>>[1] = s
    BY DEF ToSet
  <1> SUFFICES ASSUME NEW c \in Match(g, <<s>>) PROVE FileOf(c).made = {c.name.base} /\ StandsFor(c.name.base, s)
    OBVIOUS
  <1>2. c \in Candidates(g)
    BY <1>1, MatchesAre
  <1>3. c.name \in OutputNames /\ c.name.suffix = 0 /\ FileOf(c).made = {c.name.base}
    BY <1>2, CandidatesAre DEF OwnFile, CandidateSet
  <1>4. c.name = PlainName(c.name.base)
    BY <1>3 DEF OutputNames, PlainName
  <1>5. attempt.raw[g] \in Seq(RawEntries)
    BY AttemptIs
  <1>6. \/ Match(g, <<s>>) = {}
        \/ Match(g, <<s>>) = NamedCandidates(g, s)
        \/ \E i \in DOMAIN attempt.raw[g] :
             /\ Match(g, <<s>>) = {CandidateOf(g, attempt.raw[g][i])}
             /\ s \in LooseAliases[attempt.raw[g][i].name]
    <2> PICK aliases : aliases = <<s>>
      OBVIOUS
    <2>1. aliases \in Seq({s}) /\ ToSet(aliases) = {s} /\ \A n \in DOMAIN aliases : aliases[n] = s
      BY <1>1
    <2>2. \/ Match(g, aliases) = {}
          \/ \E n \in DOMAIN aliases : Match(g, aliases) = NamedCandidates(g, aliases[n])
          \/ \E i \in DOMAIN attempt.raw[g] :
               /\ Match(g, aliases) = {CandidateOf(g, attempt.raw[g][i])}
               /\ LooseAliases[attempt.raw[g][i].name] \cap ToSet(aliases) # {}
      BY <1>5, <2>1, MatchIs
    <2>3. QED
      BY <2>1, <2>2
  <1>7. CASE Match(g, <<s>>) = NamedCandidates(g, s)
    <2>1. c.name = PlainName(s)
      BY <1>7 DEF NamedCandidates
    <2>2. c.name.base = s
      BY <2>1 DEF PlainName
    <2>3. QED
      BY <1>3, <2>2 DEF StandsFor
  <1>8. ASSUME NEW i \in DOMAIN attempt.raw[g], Match(g, <<s>>) = {CandidateOf(g, attempt.raw[g][i])},
               s \in LooseAliases[attempt.raw[g][i].name]
        PROVE  FileOf(c).made = {c.name.base} /\ StandsFor(c.name.base, s)
    <2>1. c.name = attempt.raw[g][i].name
      BY <1>8 DEF CandidateOf
    <2>2. QED
      BY <1>3, <1>4, <1>8, <2>1 DEF StandsFor
  <1>9. QED
    BY <1>6, <1>7, <1>8

\* And the candidates of a target's match are all of one name.
LEMMA FoundIsOne ==
    ASSUME ContractTypeOK, CandidatesKept, NEW t \in Targets
    PROVE  \A c, d \in FindCandidate(t) : c.name = d.name
  <1> DEFINE rules == TARGET_RULES[t].rules
  <1>1. CASE FindCandidate(t) = {}
    BY <1>1
  <1>2. ASSUME NEW n \in 1 .. Len(rules), FindCandidate(t) = Match(rules[n].group, rules[n].aliases)
        PROVE  \A c, d \in FindCandidate(t) : c.name = d.name
    <2> PICK g, aliases : g = rules[n].group /\ aliases = rules[n].aliases
      OBVIOUS
    <2>1. g \in RAW_GROUPS /\ aliases \in Seq(ToSet(aliases))
      BY TargetSorts
    <2>2. attempt.raw[g] \in Seq(RawEntries)
      BY <2>1, AttemptIs
    <2>3. \/ Match(g, aliases) = {}
          \/ \E k \in DOMAIN aliases : Match(g, aliases) = NamedCandidates(g, aliases[k])
          \/ \E i \in DOMAIN attempt.raw[g] : Match(g, aliases) = {CandidateOf(g, attempt.raw[g][i])}
      BY <2>1, <2>2, MatchIs
    <2>4. \A a : \A c, d \in NamedCandidates(g, a) : c.name = d.name
      BY DEF NamedCandidates
    <2>5. QED
      BY <1>2, <2>3, <2>4, SMTT(30)
  <1>3. QED
    BY <1>1, <1>2, FindIs

\* A run that found nothing gives a target in its group under its own name as that output.
LEMMA OwnNameGiven ==
    ASSUME ContractTypeOK, CandidatesKept, attempt.clean, NEW t \in Targets, FromSources(t),
           t \in Bases, Archived(PlainName(t)), GroupOf[t] = TARGET_RULES[t].group
    PROVE  File(t).made = {t}
  <1> DEFINE rules == TARGET_RULES[t].rules
  <1> PICK g : g = TARGET_RULES[t].group
    OBVIOUS
  <1>1. g \in RAW_GROUPS /\ rules[1].group = g /\ rules[1].aliases[1] = t /\ 1 \in 1 .. Len(rules)
        /\ rules[1].aliases \in Seq(ToSet(rules[1].aliases)) /\ 1 \in DOMAIN rules[1].aliases
    BY TargetSorts
  <1>2. NamedCandidates(g, t) # {}
    <2>1. PICK i \in DOMAIN attempt.raw[g] : attempt.raw[g][i].name = PlainName(t)
      BY DEF Archived, PlainName
    <2>2. CandidateOf(g, attempt.raw[g][i]) \in NamedCandidates(g, t)
      BY <1>1, <2>1, CandidatesAre DEF NamedCandidates, CandidateOf
    <2>3. QED
      BY <2>2
  <1>3. FindCandidate(t) = NamedCandidates(g, t)
    <2> PICK aliases : aliases = rules[1].aliases
      OBVIOUS
    <2>1. attempt.raw[g] \in Seq(RawEntries)
      BY <1>1, AttemptIs
    <2>2. aliases \in Seq(ToSet(aliases)) /\ 1 \in DOMAIN aliases /\ aliases[1] = t
      BY <1>1
    <2>3. Match(g, aliases) = NamedCandidates(g, t)
      BY <1>2, <2>1, <2>2, MatchIs
    <2>4. QED
      BY <1>1, <1>2, <2>3, FindIs
  <1>4. SourcesOf(t) = NamedCandidates(g, t)
    BY <1>2, <1>3 DEF SourcesOf
  <1>5. \A c \in SourcesOf(t) : FileOf(c).made = {t}
    <2> TAKE c \in SourcesOf(t)
    <2>1. c \in Candidates(g) /\ c.name = PlainName(t)
      BY <1>4 DEF NamedCandidates
    <2>2. FileOf(c).made = {c.name.base}
      BY <1>1, <2>1, CandidatesAre DEF OwnFile
    <2>3. QED
      BY <2>1, <2>2 DEF PlainName
  <1>6. \E c : c \in SourcesOf(t)
    BY <1>2, <1>4
  <1>7. /\ \A c \in SourcesOf(t) : FileOf(c).made \subseteq File(t).made
        /\ \A b \in File(t).made : \E c \in SourcesOf(t) : b \in FileOf(c).made
    BY SourcesAre, AudioIs DEF FromSources
  <1>8. QED
    BY <1>5, <1>6, <1>7

\* And makes an instrumental of an output for each stem it needs, and of nothing else.
LEMMA SumOfParts ==
    ASSUME ContractTypeOK, CandidatesKept, attempt.clean, NEW t \in Targets, FromSources(t), Cardinality(File(t).made) # 1
    PROVE  /\ \A s \in required_stems : \E b \in File(t).made : StandsFor(b, s)
           /\ \A b \in File(t).made : \E s \in required_stems : StandsFor(b, s)
  <1>1. /\ \A c \in SourcesOf(t) : FileOf(c).made \subseteq File(t).made
        /\ \A b \in File(t).made : \E c \in SourcesOf(t) : b \in FileOf(c).made
    BY SourcesAre, AudioIs DEF FromSources
  <1>2. \A c \in SourcesOf(t) : FileOf(c).made = {c.name.base}
    BY SourcesAre, CandidatesAre DEF OwnFile
  <1>3. FindCandidate(t) = {}
    <2> SUFFICES ASSUME FindCandidate(t) # {} PROVE FALSE
      OBVIOUS
    <2>1. PICK c \in FindCandidate(t) : TRUE
      OBVIOUS
    <2>2. SourcesOf(t) = FindCandidate(t)
      BY DEF SourcesOf
    <2>3. \A d \in SourcesOf(t) : FileOf(d).made = {c.name.base}
      <3> TAKE d \in SourcesOf(t)
      <3>1. d.name = c.name
        BY <2>2, FoundIsOne
      <3>2. QED
        BY <1>2, <3>1
    <2>4. File(t).made = {c.name.base}
      BY <1>1, <2>1, <2>2, <2>3
    <2>5. QED
      BY <2>4, FS_Singleton
  <1>4. /\ SourcesOf(t) = UNION {Match("broad_stems", <<s>>) : s \in required_stems}
        /\ \A s \in required_stems : Match("broad_stems", <<s>>) # {}
    BY <1>3 DEF SourcesOf, PartsOf, FromSources
  <1>5. \A s : \A c \in Match("broad_stems", <<s>>) : FileOf(c).made = {c.name.base} /\ StandsFor(c.name.base, s)
    BY MatchStandsFor, ContractSorts
  <1>6. ASSUME NEW s \in required_stems PROVE \E b \in File(t).made : StandsFor(b, s)
    <2>1. PICK c \in Match("broad_stems", <<s>>) : TRUE
      BY <1>4
    <2>2. c \in SourcesOf(t)
      BY <1>4, <2>1
    <2>3. QED
      BY <1>1, <1>5, <2>1, <2>2
  <1>7. ASSUME NEW b \in File(t).made PROVE \E s \in required_stems : StandsFor(b, s)
    <2>1. PICK c \in SourcesOf(t) : b \in FileOf(c).made
      BY <1>1
    <2>2. PICK s \in required_stems : c \in Match("broad_stems", <<s>>)
      BY <1>4, <2>1
    <2>3. b = c.name.base /\ StandsFor(c.name.base, s)
      BY <1>5, <2>1, <2>2
    <2>4. QED
      BY <2>3
  <1>8. QED
    BY <1>6, <1>7

\* A delivered contract accounts for every target and for everything that was produced, and
\* one whose run found nothing of an earlier run serves whole files of its own models, under
\* their names, and an instrumental that is the sum of its parts (apply_product_11_contract).
THEOREM ContractIsDelivered == ContractSpec => []ContractDelivers
  <1>1. ContractInv => ContractDelivers
    <2> SUFFICES ASSUME ContractInv, attempt.pc = "delivered" PROVE ContractDelivers
      BY DEF ContractDelivers
    <2>1. /\ ContractTypeOK /\ CandidatesKept /\ attempt.published \cup attempt.missing = Targets
          /\ attempt.published \subseteq Targets
          /\ \A t \in attempt.published : FromSources(t)
          /\ \A c \in attempt.selected : \E t \in attempt.published : c \in SourcesOf(t)
      BY AttemptIs DEF ContractInv, PublishedKept
    <2>2. PICK all : all = UNION {Candidates(g) : g \in RAW_GROUPS} /\ attempt.rejected = all \ attempt.selected
      BY DEF ContractInv, PublishedKept
    <2>3. \A m \in ToSet(attempt.produced) : m.base \in Bases /\ GroupOf[m.base] \in RAW_GROUPS /\ Archived(m)
      BY ContractSorts DEF ContractInv, ProducedKept
    <2>4. \A t \in attempt.published :
            /\ File(t) \in StemFiles
            /\ \A c \in SourcesOf(t) : FileOf(c).made \subseteq File(t).made
            /\ attempt.clean => File(t).whole /\ File(t).attempt = attempt.number
      <3> TAKE t \in attempt.published
      <3>1. SourcesOf(t) # {} /\ File(t) = AudioOf(SourcesOf(t)) /\ t \in Targets
        BY <2>1 DEF FromSources
      <3>2. \A c \in SourcesOf(t) : \E g \in RAW_GROUPS : c \in Candidates(g)
        BY <2>1, <3>1, SourcesAre
      <3>3. QED
        BY <2>1, <3>1, <3>2, AudioIs
    <2>5. \A t \in attempt.published : File(t).made # {}
      BY <2>4 DEF StemFiles
    <2>6. ASSUME NEW m \in ToSet(attempt.produced)
          PROVE  (\E c \in attempt.rejected : c.name = m) \/ \E t \in attempt.published : m.base \in File(t).made
      <3> PICK g : g = GroupOf[m.base]
        OBVIOUS
      <3>1. PICK i \in DOMAIN attempt.raw[g] :
              attempt.raw[g][i].name = m /\ candidateDir[g][m][attempt.raw[g][i].place].made = {m.base}
        BY <2>3 DEF Archived
      <3> PICK c : c = CandidateOf(g, attempt.raw[g][i])
        OBVIOUS
      <3>2. c \in Candidates(g) /\ g \in RAW_GROUPS
        BY <2>1, <2>3, CandidatesAre
      <3>3. c.name = m /\ FileOf(c).made = {m.base}
        BY <3>1 DEF CandidateOf, FileOf
      <3>4. c \in attempt.rejected \/ c \in attempt.selected
        <4>1. c \in all
          BY <2>2, <3>2
        <4>2. QED
          BY <2>2, <4>1
      <3>5. QED
        BY <2>1, <2>4, <3>3, <3>4
    <2>7. ASSUME attempt.clean, NEW t \in attempt.published, PlainName(t) \in ToSet(attempt.produced),
                 GroupOf[t] = TARGET_RULES[t].group
          PROVE  File(t).made = {t}
      <3>1. PlainName(t).base = t
        BY DEF PlainName
      <3>2. t \in Bases /\ Archived(PlainName(t))
        BY <2>3, <2>7, <3>1
      <3>3. QED
        BY <2>1, <2>7, <3>2, OwnNameGiven
    <2>8. ASSUME attempt.clean, NEW t \in attempt.published, Cardinality(File(t).made) # 1
          PROVE  /\ \A s \in required_stems : \E b \in File(t).made : StandsFor(b, s)
                 /\ \A b \in File(t).made : \E s \in required_stems : StandsFor(b, s)
      BY <2>1, <2>8, SumOfParts
    <2>9. QED
      BY <2>1, <2>4, <2>5, <2>6, <2>7, <2>8 DEF ContractDelivers
  <1>2. QED
    BY <1>1, ContractInvariant, PTL

=============================================================================
