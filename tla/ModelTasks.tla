----------------------------- MODULE ModelTasks -----------------------------
(***************************************************************************)
(* The model tasks of the GPU worker: _execute_model_task on the threads   *)
(* of EXECUTOR, and the cache of loaded separators they share.  A          *)
(* separator writes to the output directory set on it when it writes.      *)
(***************************************************************************)
EXTENDS Naturals, FiniteSets

CONSTANTS
    Tasks,      \* the calls of _execute_model_task, all of one model
    Pools       \* MAX_WORKERS and AUDIO_SEPARATOR_MODEL_CACHE to check

ASSUME PoolsAssumption == Pools \subseteq [MAX_WORKERS : Nat \ {0}, MODEL_CACHE : BOOLEAN]

VARIABLES
    pool,            \* the configuration
    task,            \* the statement each task has reached
    separator,       \* the separator each task holds; a shared one is Cached
    SEPARATOR_CACHE, \* whether the model is in the cache
    outputDir,       \* the output directory set on each separator
    runDir,          \* whose outputs are in each task's run directory
    collected        \* whose outputs each task has collected

modelTasksVars == <<pool, task, separator, SEPARATOR_CACHE, outputDir, runDir, collected>>

Cached == "cached"
NoSeparator == "none"

ASSUME TasksAssumption == IsFiniteSet(Tasks) /\ Cached \notin Tasks /\ NoSeparator \notin Tasks

TaskPcs == {"waiting", "loading", "directing", "separating", "collecting", "failed", "completed", "cleaned"}
Occupying == {"loading", "directing", "separating", "collecting", "failed", "completed"}

ModelTasksTypeOK ==
    /\ pool \in Pools
    /\ task \in [Tasks -> TaskPcs]
    /\ separator \in [Tasks -> Tasks \cup {Cached, NoSeparator}]
    /\ SEPARATOR_CACHE \in BOOLEAN
    /\ outputDir \in [Tasks \cup {Cached} -> Tasks \cup {NoSeparator}]
    /\ runDir \in [Tasks -> SUBSET Tasks]
    /\ collected \in [Tasks -> SUBSET Tasks]

ModelTasksInit ==
    /\ pool \in Pools
    /\ task = [t \in Tasks |-> "waiting"]
    /\ separator = [t \in Tasks |-> NoSeparator]
    /\ SEPARATOR_CACHE = FALSE
    /\ outputDir = [x \in Tasks \cup {Cached} |-> NoSeparator]
    /\ runDir = [t \in Tasks |-> {}]
    /\ collected = [t \in Tasks |-> {}]

-----------------------------------------------------------------------------

TaskStep(t, from, to) == task[t] = from /\ task' = [task EXCEPT ![t] = to]

\* A thread of the pool takes the task up, in a run directory that is empty.
StartTask(t) ==
    /\ TaskStep(t, "waiting", "loading")
    /\ Cardinality({x \in Tasks : task[x] \in Occupying}) < pool.MAX_WORKERS
    /\ runDir' = [runDir EXCEPT ![t] = {}]
    /\ UNCHANGED <<pool, separator, SEPARATOR_CACHE, outputDir, collected>>

\* A new separator takes its output directory from the task that loads it.
LoadPythonSeparator(t, new) ==
    /\ separator' = [separator EXCEPT ![t] = new]
    /\ outputDir' = [outputDir EXCEPT ![new] = t]

\* Under SEPARATOR_CACHE_LOCK: the cached separator, or one that is loaded and cached.
GetPythonSeparator(t) ==
    /\ TaskStep(t, "loading", "directing")
    /\ \/ /\ pool.MODEL_CACHE /\ SEPARATOR_CACHE
          /\ separator' = [separator EXCEPT ![t] = Cached]
          /\ UNCHANGED <<outputDir, SEPARATOR_CACHE>>
       \/ /\ pool.MODEL_CACHE /\ ~SEPARATOR_CACHE
          /\ LoadPythonSeparator(t, Cached)
          /\ SEPARATOR_CACHE' = TRUE
       \/ /\ ~pool.MODEL_CACHE
          /\ LoadPythonSeparator(t, t)
          /\ UNCHANGED SEPARATOR_CACHE
    /\ UNCHANGED <<pool, runDir, collected>>

\* Mutant: a separator keeps the directory it was loaded with.
SetSeparatorOutputDir_Kept(t) ==
    /\ TaskStep(t, "directing", "separating")
    /\ UNCHANGED <<pool, separator, SEPARATOR_CACHE, outputDir, runDir, collected>>

SetSeparatorOutputDir(t) ==
    /\ TaskStep(t, "directing", "separating")
    /\ outputDir' = [outputDir EXCEPT ![separator[t]] = t]
    /\ UNCHANGED <<pool, separator, SEPARATOR_CACHE, runDir, collected>>

\* The separator writes its stems where its output directory points to by then.
Separate(t) ==
    /\ TaskStep(t, "separating", "collecting")
    /\ runDir' = [runDir EXCEPT ![outputDir[separator[t]]] = @ \cup {t}]
    /\ UNCHANGED <<pool, separator, SEPARATOR_CACHE, outputDir, collected>>

\* Whatever is in the run directory becomes an artifact of the task's job.
CollectOutputs(t) ==
    /\ TaskStep(t, "collecting", "completed")
    /\ collected' = [collected EXCEPT ![t] = runDir[t]]
    /\ UNCHANGED <<pool, separator, SEPARATOR_CACHE, outputDir, runDir>>

\* Loading, separating and collecting may raise: the task has failed.
TaskRaises(t) ==
    /\ \E from \in {"loading", "directing", "separating", "collecting"} : TaskStep(t, from, "failed")
    /\ UNCHANGED <<pool, separator, SEPARATOR_CACHE, outputDir, runDir, collected>>

\* The finally clause.
RemoveRunDir(t) ==
    /\ TaskStep(t, "completed", "cleaned") \/ TaskStep(t, "failed", "cleaned")
    /\ runDir' = [runDir EXCEPT ![t] = {}]
    /\ UNCHANGED <<pool, separator, SEPARATOR_CACHE, outputDir, collected>>

ModelTask(t) ==
    \/ StartTask(t) \/ GetPythonSeparator(t) \/ SetSeparatorOutputDir(t)
    \/ Separate(t) \/ CollectOutputs(t) \/ TaskRaises(t) \/ RemoveRunDir(t)

ModelTasksNext == \E t \in Tasks : ModelTask(t)

-----------------------------------------------------------------------------

\* A task collects its own outputs and nobody else's, if tasks run one at a time or
\* have a separator each (_set_separator_output_dir, _collect_outputs).
OwnOutputs ==
    pool.MAX_WORKERS = 1 \/ ~pool.MODEL_CACHE =>
        \A t \in Tasks : /\ collected[t] \subseteq {t}
                         /\ task[t] = "completed" => collected[t] = {t}

=============================================================================
