-------------------------- MODULE GpuWorkerProofs --------------------------
(***************************************************************************)
(* The invariants of GpuWorker for any number of submissions,              *)
(* cancellations, containers and branches.                                 *)
(***************************************************************************)
EXTENDS GpuWorker, FiniteSetTheorems, TLAPS

Containers == ApiContainers \cup {"runner"}
Actors == Requests \cup Runs
Pcs == RequestPcs \cup RunPcs

Undispatched == {"new", "entered", "upload", "send"}

Dirs == [file : StatusFiles, stems : SUBSET Roles]
Views == [file : StatusFiles, stems : SUBSET Roles, dirty : BOOLEAN]
ActorStates == [pc : Pcs, at : Containers, read : BOOLEAN, held : StatusFiles]

\* Who is where: requests and runs have their own statements, and submissions and
\* cancellations too; a request on Modal is in a container of the API, anything else
\* in the runner.
Placed ==
    /\ \A r \in Requests :
          /\ actor[r].pc \in RequestPcs
          /\ actor[r].pc # "new" => (deployment.modal <=> actor[r].at # "runner")
    /\ \A s \in Submissions : actor[s].pc # "confirm"
    /\ \A c \in Cancels : actor[c].pc \notin {"upload", "send", "record"}
    /\ \A run \in Runs : actor[run].pc \in RunPcs /\ actor[run].at = "runner"
    /\ \A run \in Runs : actor[run].pc \in {"input", "marking", "spawning", "collecting", "overbudget"} => deployment.parallel
    /\ \A run \in Runs : actor[run].pc \in {"executing", "merging"} => ~deployment.parallel
    /\ \A a \in Actors : actor[a].pc \in Resting \cup {"committing"} => ~actor[a].read

\* A run begins with the dispatch of its submission.
Unstarted == \A s \in Submissions : actor[s].pc \in Undispatched => actor[RunOf(s)].pc = "none"

\* One run at a time.
OneActive ==
    \A x, y \in Runs : actor[x].pc \notin Resting /\ actor[y].pc \notin Resting => x = y

----------------------------------------------------------------------------
(* Status files, directories and views.                                     *)

LEMMA DeploymentTyped ==
  ASSUME GpuWorkerTypeOK
  PROVE  deployment.modal \in BOOLEAN /\ deployment.parallel \in BOOLEAN /\ deployment.early \in BOOLEAN
         /\ deployment.faults \in BOOLEAN /\ (deployment.parallel => deployment.modal)
  BY DeploymentsAssumption DEF GpuWorkerTypeOK

LEMMA FilesTyped ==
  /\ NoStatus \in StatusFiles /\ NewStatus \in StatusFiles /\ TornStatus \in StatusFiles
  /\ \A f \in StatusFiles, s \in REPLAYABLE_JOB_STATES \cup {"none", "error", "torn"} :
        [f EXCEPT !.status = s] \in StatusFiles
  /\ \A f \in StatusFiles, call \in Runs \cup {NoCall} : [f EXCEPT !.call = call] \in StatusFiles
  /\ \A f \in StatusFiles, stems \in SUBSET Roles : [f EXCEPT !.stems = stems] \in StatusFiles
  BY DEF StatusFiles, NoStatus, NewStatus, TornStatus, REPLAYABLE_JOB_STATES

\* What publishes a view or shows a directory in it keeps types.
LEMMA DirsTyped ==
  ASSUME GpuWorkerTypeOK, NEW v \in Containers
  PROVE  /\ Committed(v) \in Dirs
         /\ volume \in Dirs
         /\ Commit(v) => volume' \in Dirs /\ view' \in [Containers -> Views]
         /\ \A dir \in Dirs : Show(v, dir) => view' \in [Containers -> Views]
         /\ \A f \in StatusFiles : WriteStatus(v, f) => volume' \in Dirs /\ view' \in [Containers -> Views]
  <1> USE DEF Dirs, Views, Containers
  <1>1. Committed(v) \in Dirs /\ volume \in Dirs
    BY DEF GpuWorkerTypeOK, Committed
  <1>2. ASSUME Commit(v) PROVE volume' \in Dirs /\ view' \in [Containers -> Views]
    <2>1. volume' \in Dirs
      BY <1>1, <1>2 DEF Commit
    <2>2. view \in [Containers -> Views] /\ view' = [view EXCEPT ![v].dirty = FALSE]
      BY <1>2 DEF Commit, GpuWorkerTypeOK
    <2> QED BY <2>1, <2>2
  <1>3. ASSUME NEW dir \in Dirs, Show(v, dir) PROVE view' \in [Containers -> Views]
    BY <1>3 DEF GpuWorkerTypeOK, Show
  <1>4. ASSUME NEW f \in StatusFiles, WriteStatus(v, f) PROVE volume' \in Dirs /\ view' \in [Containers -> Views]
    <2>1. view \in [Containers -> Views]
          /\ view' = [view EXCEPT ![v] = [view[v] EXCEPT !.file = f, !.dirty = TRUE]]
      BY <1>4 DEF WriteStatus, GpuWorkerTypeOK
    <2>2. [view[v] EXCEPT !.file = f, !.dirty = TRUE] \in Views
      BY <2>1
    <2>3. view' \in [Containers -> Views]
      BY <2>1, <2>2
    <2> QED BY <1>1, <1>4, <2>3 DEF WriteStatus
  <1> QED BY <1>1, <1>2, <1>3, <1>4

LEMMA FetchesTyped ==
  ASSUME GpuWorkerTypeOK, NEW v \in Containers, Reload(v) \/ \E writing : Terminate(v, writing)
  PROVE  volume' \in Dirs /\ view' \in [Containers -> Views]
  <1>1. Committed(v) \in Dirs /\ volume \in Dirs /\ view \in [Containers -> Views]
    BY DirsTyped DEF GpuWorkerTypeOK, Containers, Views
  <1>2. ASSUME NEW left, NEW writing, left \in Left(v, writing) PROVE left \in Dirs
    <2>1. [Committed(v) EXCEPT !.file = TornStatus] \in Dirs
      BY <1>1, FilesTyped DEF Dirs
    <2> QED BY <1>1, <1>2, <2>1 DEF Left
  <1>3. CASE Reload(v)
    BY <1>1, <1>3, DirsTyped DEF Reload
  <1>4. ASSUME NEW writing, Terminate(v, writing) PROVE volume' \in Dirs /\ view' \in [Containers -> Views]
    BY <1>1, <1>2, <1>4, DirsTyped DEF Terminate
  <1> QED BY <1>3, <1>4

LEMMA ActorsTyped ==
  ASSUME GpuWorkerTypeOK, NEW a \in Actors
  PROVE  /\ \A pc \in Pcs : Goto(a, pc) => actor' \in [Actors -> ActorStates]
         /\ LoadStatus(a) => actor' \in [Actors -> ActorStates]
         /\ actor[a].held \in StatusFiles /\ File(a) \in StatusFiles /\ actor[a].at \in Containers
  <1> USE DEF ActorStates, Actors, Pcs, Containers
  <1>1. actor \in [Actors -> ActorStates] /\ File(a) \in StatusFiles
    BY DEF GpuWorkerTypeOK, File
  <1>2. ASSUME NEW pc \in Pcs, Goto(a, pc) PROVE actor' \in [Actors -> ActorStates]
    BY <1>1, <1>2, FilesTyped DEF Goto
  <1>3. ASSUME LoadStatus(a) PROVE actor' \in [Actors -> ActorStates]
    BY <1>1, <1>3 DEF LoadStatus
  <1> QED BY <1>1, <1>2, <1>3

----------------------------------------------------------------------------
(* Types and places.                                                        *)

TypedStep ==
    /\ deployment' = deployment
    /\ volume' \in Dirs /\ view' \in [Containers -> Views]
    /\ actor' \in [Actors -> ActorStates]
    /\ branch' \in [Roles -> Outcomes]

LEMMA TypedSteps == ASSUME GpuWorkerTypeOK, TypedStep PROVE GpuWorkerTypeOK'
  BY DEF GpuWorkerTypeOK, TypedStep, Dirs, Views, Containers, Actors, ActorStates, Pcs

\* What is not a run's own step keeps the branches; what keeps the actors, the places.
LEMMA Pieces ==
  ASSUME GpuWorkerTypeOK
  PROVE  /\ deployment \in Deployments /\ volume \in Dirs /\ view \in [Containers -> Views]
         /\ actor \in [Actors -> ActorStates] /\ branch \in [Roles -> Outcomes]
  BY DEF GpuWorkerTypeOK, Dirs, Views, Containers, Actors, ActorStates, Pcs

LEMMA EnterTyped ==
  ASSUME GpuWorkerTypeOK, Placed, NEW r \in Requests, NEW c \in Containers, EnterContainer(r, c)
  PROVE  TypedStep /\ Placed'
  <1>1. volume' \in Dirs /\ view' \in [Containers -> Views]
    BY FetchesTyped DEF EnterContainer
  <1>2. actor' = [actor EXCEPT ![r] = [actor[r] EXCEPT !.pc = "entered", !.at = c]]
    BY Pieces DEF EnterContainer, Actors, ActorStates
  <1>3. [actor[r] EXCEPT !.pc = "entered", !.at = c] \in ActorStates
    BY Pieces DEF ActorStates, Actors, Pcs, RequestPcs
  <1>4. TypedStep
    BY <1>1, <1>2, <1>3, Pieces DEF TypedStep, EnterContainer, Actors
  <1>5. Placed'
    BY <1>2, Pieces, CallsAssumption, SMTT(30) DEF Placed, EnterContainer, Actors, ActorStates, Resting, RequestPcs, Requests, Runs
  <1> QED BY <1>4, <1>5

LEMMA LoadTyped ==
  ASSUME GpuWorkerTypeOK, Placed, NEW a \in Actors, LoadStatus(a), actor[a].pc \notin Resting \cup {"committing"}
  PROVE  TypedStep /\ Placed'
  <1>1. TypedStep
    BY Pieces, ActorsTyped DEF LoadStatus, TypedStep
  <1>2. Placed'
    BY Pieces, SMTT(30) DEF Placed, LoadStatus, Actors, ActorStates, Requests, Runs
  <1> QED BY <1>1, <1>2

\* An actor goes on to another of its statements.
LEMMA GotoPlaced ==
  ASSUME GpuWorkerTypeOK, Placed, NEW a \in Actors, NEW pc, Goto(a, pc), deployment' = deployment,
         actor[a].pc # "new",
         a \in Requests => pc \in RequestPcs /\ pc # "confirm",
         a \in Cancels => pc \notin {"upload", "send", "record"},
         a \in Runs => /\ pc \in RunPcs
                       /\ pc \in {"input", "marking", "spawning", "collecting", "overbudget"} => deployment.parallel
                       /\ pc \in {"executing", "merging"} => ~deployment.parallel
  PROVE  actor' \in [Actors -> ActorStates] /\ Placed'
  <1>1. actor' \in [Actors -> ActorStates]
    BY ActorsTyped DEF Actors, Pcs
  <1>2. actor' = [actor EXCEPT ![a] = [actor[a] EXCEPT !.pc = pc, !.read = FALSE, !.held = NoStatus]]
    BY Pieces DEF Goto, ActorStates
  <1>3. Placed'
    BY <1>2, Pieces, CallsAssumption DEF Placed, Actors, ActorStates, Requests
  <1> QED BY <1>1, <1>3

\* A call goes on with the status it has read, or another one.
LEMMA UpdateTyped ==
  ASSUME GpuWorkerTypeOK, NEW a \in Actors, NEW f \in StatusFiles, NEW pc, UpdateStatus(a, f, pc)
  PROVE  volume' \in Dirs /\ view' \in [Containers -> Views] /\ Goto(a, pc)
  BY DirsTyped, Pieces DEF UpdateStatus, Actors, ActorStates

LEMMA HeldTyped ==
  ASSUME GpuWorkerTypeOK, NEW a \in Actors
  PROVE  /\ actor[a].held \in StatusFiles /\ File(a) \in StatusFiles /\ actor[a].at \in Containers
         /\ \A s \in REPLAYABLE_JOB_STATES \cup {"none", "error", "torn"} :
               [actor[a].held EXCEPT !.status = s] \in StatusFiles
         /\ \A call \in Runs \cup {NoCall} : [actor[a].held EXCEPT !.call = call] \in StatusFiles
         /\ \A stems \in SUBSET Roles : [actor[a].held EXCEPT !.stems = stems] \in StatusFiles
  BY ActorsTyped, FilesTyped

LEMMA RequestTyped ==
  ASSUME GpuWorkerTypeOK, Placed, Unstarted, NEW r \in Requests, RequestStep(r)
  PROVE  TypedStep /\ Placed'
  <1> DEFINE at == actor[r].at
             held == actor[r].held
  <1>0. r \in Actors /\ at \in Containers
    BY HeldTyped DEF Actors
  <1> USE <1>0
  <1>1. CASE actor[r].pc \in {"upload", "record", "confirm"} /\ LoadStatus(r)
    BY <1>1, LoadTyped DEF Resting
  <1>2. CASE ReserveJob(r) /\ r \in Submissions
    <2>1. CASE \E pc \in {"answered", "failed"} : Goto(r, pc) /\ UNCHANGED <<volume, view>>
      BY <1>2, <2>1, GotoPlaced, Pieces, CallsAssumption DEF ReserveJob, TypedStep, RequestPcs, Requests
    <2>2. CASE WriteStatus(at, NewStatus) /\ \E next \in {"upload", "send"} : Goto(r, next)
      <3>1. volume' \in Dirs /\ view' \in [Containers -> Views]
        BY <2>2, DirsTyped, FilesTyped
      <3> QED BY <1>2, <2>2, <3>1, GotoPlaced, Pieces, CallsAssumption DEF ReserveJob, TypedStep, RequestPcs, Requests
    <2> QED BY <1>2, <2>1, <2>2 DEF ReserveJob
  <1>3. CASE ReceiveUpload(r)
    <2>1. PICK f \in StatusFiles, pc \in {"send", "failed"} : UpdateStatus(r, f, pc)
      BY <1>3, HeldTyped DEF ReceiveUpload
    <2>2. r \notin Cancels /\ r \notin Runs
      BY <1>3, CallsAssumption DEF Placed, ReceiveUpload
    <2> QED BY <1>3, <2>1, <2>2, UpdateTyped, GotoPlaced, Pieces DEF ReceiveUpload, TypedStep, RequestPcs
  <1>4. CASE DispatchJob(r)
    <2>1. r \in Submissions /\ RunOf(r) \in Runs /\ r \notin Cancels /\ r \notin Runs
      BY <1>4, CallsAssumption DEF Placed, DispatchJob, Requests, Runs
    <2>2. volume' \in Dirs /\ view' \in [Containers -> Views]
      BY <1>4, DirsTyped DEF DispatchJob
    <2>3. CASE Goto(r, "failed")
      BY <1>4, <2>1, <2>2, <2>3, GotoPlaced, Pieces DEF DispatchJob, TypedStep, RequestPcs
    <2>4. CASE actor' = [actor EXCEPT ![r].pc = "record", ![RunOf(r)].pc = "pending"]
      <3>1. RunOf(r) # r /\ RunOf(r) \in Actors
        BY <2>1 DEF Actors
      <3>2. /\ \A a \in Actors \ {r, RunOf(r)} : actor'[a] = actor[a]
            /\ actor'[r] = [actor[r] EXCEPT !.pc = "record"]
            /\ actor'[RunOf(r)] = [actor[RunOf(r)] EXCEPT !.pc = "pending"]
        BY <2>4, <3>1, Pieces DEF ActorStates
      <3>3. actor' \in [Actors -> ActorStates]
        <4>1. /\ [actor[r] EXCEPT !.pc = "record"] \in ActorStates
              /\ [actor[RunOf(r)] EXCEPT !.pc = "pending"] \in ActorStates
          BY <3>1, Pieces DEF ActorStates, Pcs, RequestPcs, RunPcs
        <4> QED BY <2>4, <3>2, <4>1, Pieces
      <3>4. Placed'
        <4>1. actor[RunOf(r)].pc = "none" /\ ~actor[RunOf(r)].read
          BY <1>4, <2>1, <3>1 DEF DispatchJob, Placed, Unstarted, Undispatched, Resting
        <4> QED
          BY <1>4, <2>1, <3>1, <3>2, <4>1, Pieces, CallsAssumption
          DEF DispatchJob, Placed, Actors, ActorStates, Requests, Resting, RequestPcs, RunPcs
      <3> QED BY <1>4, <2>2, <3>3, <3>4, Pieces DEF DispatchJob, TypedStep
    <2> QED BY <1>4, <2>3, <2>4 DEF DispatchJob
  <1>5. CASE RecordDispatch(r)
    <2>1. r \in Submissions /\ RunOf(r) \in Runs /\ r \notin Cancels /\ r \notin Runs
      BY <1>5, CallsAssumption DEF Placed, RecordDispatch, Requests, Runs
    <2>2. PICK f \in StatusFiles : UpdateStatus(r, f, "publish")
      BY <1>5, <2>1, HeldTyped DEF RecordDispatch
    <2> QED BY <1>5, <2>1, <2>2, UpdateTyped, GotoPlaced, Pieces DEF RecordDispatch, TypedStep, RequestPcs
  <1>6. CASE Publish(r)
    <2>1. volume' \in Dirs /\ view' \in [Containers -> Views]
      BY <1>6, DirsTyped DEF Publish
    <2> QED BY <1>6, <2>1, GotoPlaced, Pieces, CallsAssumption DEF Publish, TypedStep, RequestPcs
  <1>7. CASE CancelJob(r) /\ r \in Cancels
    <2>0. r \notin Runs /\ r \notin Submissions
      BY <1>7, CallsAssumption
    <2>1. CASE \E pc \in {"answered", "failed"} : Goto(r, pc) /\ UNCHANGED <<volume, view>>
      BY <1>7, <2>0, <2>1, GotoPlaced, Pieces DEF CancelJob, TypedStep, RequestPcs
    <2>2. CASE StopFuture(r)
      <3>1. /\ \A a \in Actors : actor'[a].at = actor[a].at /\ actor'[a].read = actor[a].read
            /\ actor'[r].pc = "confirm"
            /\ \A a \in Actors \ {r} :
                  \/ actor'[a].pc = actor[a].pc
                  \/ a \in Runs /\ actor[a].pc = "pending" /\ actor'[a].pc = "stopped"
        <4>1. actor' = [a \in Actors |->
                    CASE a = r -> [actor[a] EXCEPT !.pc = "confirm"]
                      [] a \in Runs /\ actor[a].pc = "pending" /\ ~deployment.modal -> [actor[a] EXCEPT !.pc = "stopped"]
                      [] OTHER -> actor[a]]
          BY <2>2, Pieces DEF StopFuture
        <4>2. actor'[r] = [actor[r] EXCEPT !.pc = "confirm"]
          BY <4>1, <2>0
        <4>3. ASSUME NEW a \in Actors \ {r}
              PROVE  \/ actor'[a] = actor[a]
                     \/ a \in Runs /\ actor[a].pc = "pending" /\ actor'[a] = [actor[a] EXCEPT !.pc = "stopped"]
          BY <4>1, <2>0
        <4>4. \A a \in Actors : actor[a] \in ActorStates
          BY Pieces
        <4>5. actor'[r].pc = "confirm" /\ actor'[r].at = actor[r].at /\ actor'[r].read = actor[r].read
          BY <4>2, <4>4 DEF ActorStates
        <4>6. ASSUME NEW a \in Actors \ {r}
              PROVE  /\ actor'[a].at = actor[a].at /\ actor'[a].read = actor[a].read
                     /\ \/ actor'[a].pc = actor[a].pc
                        \/ a \in Runs /\ actor[a].pc = "pending" /\ actor'[a].pc = "stopped"
          BY <4>3, <4>4 DEF ActorStates
        <4> QED BY <4>5, <4>6
      <3>2. actor' \in [Actors -> ActorStates]
        BY <2>2, Pieces DEF StopFuture, ActorStates, Pcs, RequestPcs, RunPcs
      <3>3. Placed'
        BY <1>7, <2>0, <3>1, Pieces DEF CancelJob, Placed, Actors, ActorStates, Requests, Resting, RequestPcs, RunPcs
      <3> QED BY <1>7, <2>2, <3>2, <3>3, Pieces DEF StopFuture, CancelJob, TypedStep
    <2>3. ASSUME NEW run \in Runs, StopRun(r, run) PROVE TypedStep /\ Placed'
      <3>1. volume' \in Dirs /\ view' \in [Containers -> Views]
        BY <2>3, FetchesTyped, Pieces DEF StopRun, Containers
      <3>2. run # r /\ run \in Actors
        BY <2>0 DEF Actors
      <3>3. /\ \A a \in Actors \ {r, run} : actor'[a] = actor[a]
            /\ actor'[r] = [actor[r] EXCEPT !.pc = "confirm"]
            /\ actor'[run].pc \in Resting /\ actor'[run].pc \in RunPcs
            /\ ~actor'[run].read /\ actor'[run].at = actor[run].at
            /\ actor'[run] \in ActorStates
        <4>1. actor[run].pc \in RunPcs /\ (actor[run].pc \in Resting => ~actor[run].read)
          BY <3>2 DEF Placed
        <4>2. CASE actor[run].pc \in Resting
          <5>1. actor' = [actor EXCEPT ![run].pc = IF @ = "pending" THEN "stopped" ELSE @, ![r].pc = "confirm"]
            BY <2>3, <4>2 DEF StopRun
          <5> QED BY <3>2, <4>1, <4>2, <5>1, Pieces DEF ActorStates, Resting, RunPcs, Pcs
        <4>3. CASE actor[run].pc \notin Resting
          <5>1. actor' = [actor EXCEPT ![run].pc = "stopped", ![run].read = FALSE, ![r].pc = "confirm"]
            BY <2>3, <4>3 DEF StopRun
          <5> QED BY <3>2, <5>1, Pieces DEF ActorStates, Resting, RunPcs, Pcs
        <4> QED BY <4>2, <4>3
      <3>4. DOMAIN actor' = Actors /\ actor' = [a \in Actors |-> actor'[a]]
        BY <2>3, Pieces DEF StopRun
      <3>5. actor' \in [Actors -> ActorStates]
        <4>1. [actor[r] EXCEPT !.pc = "confirm"] \in ActorStates
          BY Pieces DEF ActorStates, Pcs, RequestPcs
        <4> QED BY <3>3, <3>4, <4>1, Pieces
      <3>6. Placed'
        BY <1>7, <2>0, <3>2, <3>3, Pieces
        DEF CancelJob, Placed, Actors, ActorStates, Requests, Resting, RequestPcs, RunPcs
      <3> QED BY <1>7, <3>1, <3>5, <3>6, Pieces DEF CancelJob, TypedStep
    <2>4. File(r).call \in Runs \cup {NoCall}
      BY HeldTyped DEF StatusFiles
    <2> QED BY <1>7, <2>1, <2>2, <2>3, <2>4 DEF CancelJob
  <1>8. CASE ConfirmCancel(r)
    <2>1. r \notin Runs /\ r \in Cancels
      BY <1>8, CallsAssumption DEF Placed, ConfirmCancel, Requests
    <2>2. PICK f \in StatusFiles : UpdateStatus(r, f, "publish")
      BY <1>8, HeldTyped DEF ConfirmCancel, REPLAYABLE_JOB_STATES
    <2> QED BY <1>8, <2>1, <2>2, UpdateTyped, GotoPlaced, Pieces DEF ConfirmCancel, TypedStep, RequestPcs
  <1> QED BY <1>1, <1>2, <1>3, <1>4, <1>5, <1>6, <1>7, <1>8 DEF RequestStep

\* What a step of a run is to the types, its places and its directories.
LEMMA RunTyped ==
  ASSUME GpuWorkerTypeOK, Placed, NEW run \in Runs, RunWorks(run) \/ RunDies(run)
  PROVE  TypedStep /\ Placed'
  <1> DEFINE held == actor[run].held
  <1>0. run \in Actors /\ run \notin Requests /\ run \notin Cancels /\ "runner" \in Containers /\ actor[run].at = "runner"
    BY CallsAssumption DEF Actors, Containers, Placed, Requests
  <1> USE <1>0
  <1>w. ASSUME NEW pc, Goto(run, pc), actor[run].pc # "new", pc \in RunPcs,
               pc \in {"input", "marking", "spawning", "collecting", "overbudget"} => deployment.parallel,
               pc \in {"executing", "merging"} => ~deployment.parallel,
               deployment' = deployment, volume' \in Dirs, view' \in [Containers -> Views],
               branch' \in [Roles -> Outcomes]
        PROVE  TypedStep /\ Placed'
    BY <1>w, GotoPlaced DEF TypedStep
  <1>o. OutcomeStems \in SUBSET Roles
    BY DEF OutcomeStems
  <1>1. CASE StartRun(run)
    <2>1. volume' \in Dirs /\ view' \in [Containers -> Views]
      BY <1>1, FetchesTyped DEF StartRun
    <2>2. branch' \in [Roles -> Outcomes]
      BY <1>1 DEF StartRun, Outcomes
    <2>3. PICK pc \in {"committing", "failing", IF deployment.parallel THEN "input" ELSE "executing"} : Goto(run, pc)
      BY <1>1 DEF StartRun, Begun
    <2> QED BY <1>1, <1>w, <2>1, <2>2, <2>3, DeploymentTyped DEF StartRun, RunPcs
  <1>2. CASE LoadsStatus(run) /\ LoadStatus(run)
    BY <1>2, LoadTyped DEF LoadsStatus, Resting
  <1>3. CASE ExecuteModelTask(run)
    <2> DEFINE running == [held EXCEPT !.status = "running"]
    <2>0. running \in StatusFiles
      BY HeldTyped DEF REPLAYABLE_JOB_STATES
    <2>1. PICK role \in Roles, succeeds \in BOOLEAN :
             view' = [view EXCEPT !["runner"] = [file |-> running, dirty |-> TRUE,
                             stems |-> IF succeeds THEN @.stems \cup {role} ELSE @.stems]]
      BY <1>3 DEF ExecuteModelTask
    <2>2. view' \in [Containers -> Views]
      <3> DEFINE after == [file |-> running, dirty |-> TRUE,
                           stems |-> IF succeeds THEN view["runner"].stems \cup {role} ELSE view["runner"].stems]
      <3>1. after \in Views
        BY <2>0, Pieces DEF Views
      <3>2. view' = [view EXCEPT !["runner"] = after]
        BY <2>1
      <3> HIDE DEF after
      <3> QED BY <3>1, <3>2, Pieces
    <2>3. branch' \in [Roles -> Outcomes]
      BY <1>3, Pieces DEF ExecuteModelTask, Outcomes
    <2> QED BY <1>3, <1>w, <2>2, <2>3, Pieces DEF ExecuteModelTask, RunPcs, Placed
  <1>4. CASE MergeArtifacts(run)
    <2>1. PICK f \in StatusFiles : UpdateStatus(run, f, "executing")
      <3>1. held \in StatusFiles
        BY HeldTyped
      <3>2. [held EXCEPT !.status = "running", !.stems = @ \cup OutcomeStems] \in StatusFiles
        BY <3>1, <1>o DEF StatusFiles, REPLAYABLE_JOB_STATES
      <3> QED BY <1>4, <3>2 DEF MergeArtifacts
    <2> QED BY <1>4, <1>w, <2>1, UpdateTyped, Pieces DEF MergeArtifacts, RunPcs, Placed
  <1>5. CASE AllTasksRun(run)
    BY <1>5, <1>w, Pieces DEF AllTasksRun, RunPcs
  <1>6. CASE MarkRunning(run)
    <2>1. PICK f \in StatusFiles : UpdateStatus(run, f, "spawning")
      BY <1>6, HeldTyped DEF MarkRunning, REPLAYABLE_JOB_STATES
    <2> QED BY <1>6, <1>w, <2>1, UpdateTyped, Pieces DEF MarkRunning, RunPcs, Placed
  <1>7. CASE SpawnBranches(run)
    <2>1. volume' \in Dirs /\ view' \in [Containers -> Views]
      BY <1>7, DirsTyped DEF SpawnBranches
    <2>2. branch' \in [Roles -> Outcomes]
      BY <1>7 DEF SpawnBranches, Outcomes
    <2> QED BY <1>7, <1>w, <2>1, <2>2 DEF SpawnBranches, RunPcs, Placed
  <1>8. CASE CollectBranch(run)
    <2>1. PICK role \in Roles :
             \/ MaterializeBranchObjects(role) \/ ValidateBranchArtifacts(role)
             \/ branch' = [branch EXCEPT ![role] = "failed"] /\ UNCHANGED <<volume, view>>
      BY <1>8 DEF CollectBranch
    <2>2. branch' \in [Roles -> Outcomes]
      BY <2>1, Pieces DEF MaterializeBranchObjects, ValidateBranchArtifacts, Outcomes
    <2>3. CASE MaterializeBranchObjects(role)
      <3>1. view' = [view EXCEPT !["runner"] = [view["runner"] EXCEPT !.stems = @ \cup {role}]]
        BY <2>3, Pieces DEF MaterializeBranchObjects, Views
      <3>2. [view["runner"] EXCEPT !.stems = @ \cup {role}] \in Views
        BY Pieces DEF Views
      <3> QED BY <1>8, <2>2, <2>3, <3>1, <3>2, Pieces DEF MaterializeBranchObjects, CollectBranch, TypedStep, Placed
    <2>4. CASE ValidateBranchArtifacts(role)
      BY <1>8, <2>2, <2>4, FetchesTyped, Pieces DEF ValidateBranchArtifacts, CollectBranch, TypedStep, Placed
    <2> QED BY <1>8, <2>1, <2>2, <2>3, <2>4, Pieces DEF CollectBranch, TypedStep, Placed
  <1>9. CASE CollectedAll(run)
    BY <1>9, <1>w, FetchesTyped, Pieces DEF CollectedAll, RunPcs
  <1>10. CASE ExceedBudget(run)
    <2>1. branch' \in [Roles -> Outcomes]
      <3>1. PICK raises \in SUBSET Roles :
              branch' = [role \in Roles |->
                        CASE branch[role] = "running" /\ role \in raises -> "escaped"
                          [] branch[role] = "running" -> "cancelled"
                          [] OTHER -> branch[role]]
        BY <1>10 DEF ExceedBudget
      <3>2. ASSUME NEW role \in Roles PROVE branch'[role] \in {"escaped", "cancelled", branch[role]}
        BY <3>1
      <3>3. {"escaped", "cancelled"} \subseteq Outcomes /\ \A role \in Roles : branch[role] \in Outcomes
        BY Pieces DEF Outcomes
      <3> QED BY <3>1, <3>2, <3>3
    <2> QED BY <1>10, <1>w, <2>1, Pieces DEF ExceedBudget, RunPcs, Placed
  <1>11. CASE FinalizeJob(run)
    <2> DEFINE merged == [held EXCEPT !.stems = @ \cup OutcomeStems]
    <2>1. merged \in StatusFiles
      BY <1>o, HeldTyped DEF StatusFiles
    <2>2. volume' \in Dirs /\ view' \in [Containers -> Views]
      BY <1>11, <2>1, DirsTyped DEF FinalizeJob
    <2>3. actor' = [actor EXCEPT ![run] = [actor[run] EXCEPT !.pc = "publishing", !.held = merged]]
      BY <1>11, Pieces DEF FinalizeJob, ActorStates
    <2>4. [actor[run] EXCEPT !.pc = "publishing", !.held = merged] \in ActorStates
      BY <2>1, Pieces DEF ActorStates, Pcs, RunPcs
    <2>5. actor' \in [Actors -> ActorStates]
      BY <2>3, <2>4, Pieces
    <2>6. Placed'
      <3> HIDE DEF merged
      <3> QED BY <1>11, <2>3, Pieces, CallsAssumption
              DEF FinalizeJob, Placed, Actors, ActorStates, Requests, Resting, RunPcs
    <2> QED BY <1>11, <2>2, <2>5, <2>6, Pieces DEF FinalizeJob, TypedStep
  <1>12. CASE PublishObjects(run)
    BY <1>12, <1>w, DirsTyped, HeldTyped, Pieces DEF PublishObjects, RunPcs
  <1>13. CASE CompleteJob(run) \/ FailWorkerJob(run)
    <2>1. PICK f \in StatusFiles : UpdateStatus(run, f, "committing")
      BY <1>13, HeldTyped DEF CompleteJob, FailWorkerJob, REPLAYABLE_JOB_STATES
    <2> QED BY <1>13, <1>w, <2>1, UpdateTyped, Pieces DEF CompleteJob, FailWorkerJob, RunPcs
  <1>14. CASE EndRun(run)
    BY <1>14, <1>w, DirsTyped, Pieces DEF EndRun, RunPcs
  <1>15. CASE RunDies(run)
    BY <1>15, <1>w, FetchesTyped, Pieces DEF RunDies, RunPcs, Resting
  <1>16. CASE RecordInput(run)
    <2>1. PICK f \in StatusFiles : UpdateStatus(run, f, "marking")
      BY <1>16, HeldTyped DEF RecordInput
    <2> QED BY <1>16, <1>w, <2>1, UpdateTyped, Pieces DEF RecordInput, RunPcs, Placed
  <1>17. CASE SkipInput(run)
    BY <1>17, <1>w, Pieces DEF SkipInput, RunPcs, Placed
  <1> QED BY <1>1, <1>2, <1>3, <1>4, <1>5, <1>6, <1>7, <1>8, <1>9, <1>10, <1>11, <1>12, <1>13, <1>14, <1>15, <1>16, <1>17
          DEF RunWorks

\* What the rest of the worker does leaves the actors alone.
LEMMA OtherTyped ==
  ASSUME GpuWorkerTypeOK,
         \/ \E role \in Roles : BranchEnds(role)
         \/ \E c \in ApiContainers : JobStatus(c)
         \/ \E v \in Containers : BackgroundCommit(v)
  PROVE  TypedStep /\ actor' = actor
  <1>1. ASSUME NEW role \in Roles, BranchEnds(role) PROVE TypedStep /\ actor' = actor
    <2>1. PICK succeeds \in BOOLEAN :
            /\ volume' = [volume EXCEPT !.stems = IF succeeds /\ role \notin Specialists THEN @ \cup {role} ELSE @]
            /\ branch' = [branch EXCEPT ![role] = IF @ = "escaped" THEN "cancelled" ELSE BranchResult(succeeds)]
      BY <1>1 DEF BranchEnds
    <2>2. volume' \in Dirs
      BY <2>1, Pieces DEF Dirs
    <2>3. branch' \in [Roles -> Outcomes]
      BY <2>1, Pieces DEF BranchResult, Outcomes
    <2> QED BY <1>1, <2>2, <2>3, Pieces DEF BranchEnds, TypedStep
  <1>2. ASSUME NEW c \in ApiContainers, JobStatus(c) PROVE TypedStep /\ actor' = actor
    BY <1>2, FetchesTyped, Pieces DEF JobStatus, TypedStep, Containers
  <1>3. ASSUME NEW v \in Containers, BackgroundCommit(v) PROVE TypedStep /\ actor' = actor
    BY <1>3, DirsTyped, Pieces DEF BackgroundCommit, TypedStep
  <1> QED BY <1>1, <1>2, <1>3

\* Every submission passes its statements in order, and a run that began was dispatched.
LEMMA UnstartedKept ==
  ASSUME GpuWorkerTypeOK, Placed, Unstarted, GpuWorkerNext PROVE Unstarted'
  <1> DEFINE Ordered ==
                /\ \A s \in Submissions : actor'[s].pc \in Undispatched => actor[s].pc \in Undispatched
                /\ \A run \in Runs : actor[run].pc = "none" => actor'[run].pc = "none"
  <1>0. \A s \in Submissions : s \in Actors /\ RunOf(s) \in Actors /\ RunOf(s) \in Runs
    BY DEF Actors, Requests, Runs
  <1>1. Ordered => Unstarted'
    BY <1>0 DEF Unstarted
  <1>2. ASSUME NEW a \in Actors, NEW pc, Goto(a, pc), actor[a].pc # "none",
               actor[a].pc \in Undispatched \/ pc \notin Undispatched
        PROVE  Ordered
    BY <1>0, <1>2, Pieces DEF Goto, ActorStates, Actors, Requests
  <1>3. ASSUME NEW a \in Actors, LoadStatus(a) PROVE Ordered
    BY <1>0, <1>3, Pieces DEF LoadStatus, ActorStates, Actors, Requests
  <1>4. ASSUME NEW r \in Requests, RequestStep(r) PROVE Unstarted'
    <2>1. r \in Actors
      BY DEF Actors
    <2>2. CASE LoadStatus(r)
      BY <1>1, <1>3, <2>1, <2>2
    <2>3. CASE ReserveJob(r)
      BY <1>1, <1>2, <2>1, <2>3 DEF ReserveJob, Undispatched
    <2>4. CASE ReceiveUpload(r) \/ RecordDispatch(r) \/ Publish(r) \/ ConfirmCancel(r)
      BY <1>1, <1>2, <2>1, <2>4
      DEF ReceiveUpload, RecordDispatch, Publish, ConfirmCancel, UpdateStatus, Undispatched
    <2>5. CASE DispatchJob(r)
      <3>1. r \in Submissions
        BY <2>5 DEF Placed, DispatchJob, Requests
      <3>2. CASE Goto(r, "failed")
        BY <1>1, <1>2, <2>1, <2>5, <3>2 DEF DispatchJob, Undispatched
      <3>3. CASE actor' = [actor EXCEPT ![r].pc = "record", ![RunOf(r)].pc = "pending"]
        <4>1. ASSUME NEW s \in Submissions, actor'[s].pc \in Undispatched PROVE actor'[RunOf(s)].pc = "none"
          <5>1. r # RunOf(r) /\ RunOf(r) \in Actors /\ s # RunOf(r) /\ r # RunOf(s) /\ s \in Actors /\ RunOf(s) \in Actors
            BY <1>0, <3>1, CallsAssumption DEF Requests
          <5>2. s # r
            BY <2>1, <3>3, <4>1, <5>1, Pieces DEF ActorStates, Undispatched
          <5>3. RunOf(s) # RunOf(r)
            BY <5>2 DEF RunOf
          <5>4. actor'[s] = actor[s] /\ actor'[RunOf(s)] = actor[RunOf(s)]
            BY <2>1, <3>3, <5>1, <5>2, <5>3, Pieces
          <5> QED BY <4>1, <5>4 DEF Unstarted
        <4> QED BY <4>1 DEF Unstarted
      <3> QED BY <2>5, <3>2, <3>3 DEF DispatchJob
    <2>6. CASE CancelJob(r) /\ r \in Cancels
      <3>1. \A s \in Submissions : s # r
        BY <2>6, CallsAssumption
      <3>2. ASSUME NEW pc \in {"answered", "failed"}, Goto(r, pc) PROVE Ordered
        BY <1>2, <2>1, <2>6, <3>2 DEF CancelJob, Undispatched
      <3>3. CASE StopFuture(r)
        <4>1. ASSUME NEW a \in Actors, a # r
              PROVE  \/ actor'[a].pc = actor[a].pc
                     \/ actor[a].pc = "pending"
          BY <3>3, <4>1, Pieces DEF StopFuture, ActorStates
        <4>2. \A s \in Submissions : actor[s].pc # "pending"
          BY DEF Placed, RequestPcs, Requests
        <4>3. \A run \in Runs : run # r /\ run \in Actors
          BY CallsAssumption DEF Actors
        <4> QED BY <1>0, <1>1, <3>1, <4>1, <4>2, <4>3
      <3>4. ASSUME NEW run \in Runs, StopRun(r, run) PROVE Ordered
        <4>1. run \in Actors /\ run # r /\ \A s \in Submissions : s # run
          BY CallsAssumption DEF Actors, Requests
        <4>2. \A a \in Actors : a # r /\ a # run => actor'[a].pc = actor[a].pc
          BY <3>4, <4>1, Pieces DEF StopRun, ActorStates
        <4>3. actor[run].pc = "none" => actor'[run].pc = "none"
          BY <3>4, <4>1, Pieces DEF StopRun, ActorStates, Resting
        <4>4. \A other \in Runs : other # r /\ other \in Actors
          BY CallsAssumption DEF Actors
        <4> QED BY <1>0, <3>1, <4>1, <4>2, <4>3, <4>4
      <3>5. File(r).call \in Runs \cup {NoCall}
        BY <2>1, HeldTyped DEF StatusFiles
      <3> QED BY <1>1, <2>6, <3>2, <3>3, <3>4, <3>5 DEF CancelJob
    <2> QED BY <1>4, <2>2, <2>3, <2>4, <2>5, <2>6 DEF RequestStep
  <1>5. ASSUME NEW r \in Requests, NEW c \in Containers, EnterContainer(r, c) PROVE Unstarted'
    <2>1. r \in Actors /\ \A run \in Runs : run # r /\ run \in Actors
      BY CallsAssumption DEF Actors
    <2> QED BY <1>0, <1>1, <1>5, <2>1, Pieces DEF EnterContainer, ActorStates, Undispatched
  <1>6. ASSUME NEW run \in Runs, RunWorks(run) \/ RunDies(run) PROVE Unstarted'
    <2>1. run \in Actors
      BY DEF Actors
    <2>2. CASE LoadStatus(run)
      BY <1>1, <1>3, <2>1, <2>2
    <2>7. CASE StartRun(run)
      <3>1. PICK pc \in {"committing", "failing", "input", "executing"} : Goto(run, pc)
        BY <2>7 DEF StartRun, Begun
      <3> QED BY <1>1, <1>2, <2>1, <2>7, <3>1 DEF StartRun, Undispatched
    <2>3. CASE ExecuteModelTask(run) \/ MergeArtifacts(run) \/ AllTasksRun(run) \/ RecordInput(run) \/ SkipInput(run) \/ MarkRunning(run)
               \/ SpawnBranches(run) \/ CollectedAll(run) \/ ExceedBudget(run)
      BY <1>1, <1>2, <2>1, <2>3
      DEF ExecuteModelTask, MergeArtifacts, AllTasksRun, RecordInput, SkipInput, MarkRunning, SpawnBranches, CollectedAll,
          ExceedBudget, UpdateStatus, Undispatched
    <2>4. CASE PublishObjects(run) \/ CompleteJob(run) \/ FailWorkerJob(run) \/ EndRun(run) \/ RunDies(run)
      BY <1>1, <1>2, <2>1, <2>4
      DEF PublishObjects, CompleteJob, FailWorkerJob, EndRun, RunDies, UpdateStatus, Undispatched, Resting
    <2>5. CASE FinalizeJob(run)
      <3>1. \A s \in Submissions : s # run
        BY CallsAssumption DEF Requests
      <3> QED BY <1>0, <1>1, <2>1, <2>5, <3>1, Pieces DEF FinalizeJob, ActorStates, Actors
    <2>6. CASE CollectBranch(run)
      BY <1>1, <2>6 DEF CollectBranch
    <2> QED BY <1>6, <2>2, <2>3, <2>4, <2>5, <2>6, <2>7 DEF RunWorks
  <1> QED BY <1>1, <1>4, <1>5, <1>6, OtherTyped DEF GpuWorkerNext, Containers

\* Every variable has its type, a call is only ever at statements of its own kind, in a container of
\* its own kind, and a run does not exist before the dispatch of its submission (_dispatch_job).
THEOREM WorkerTyping == GpuWorkerSpec => [](GpuWorkerTypeOK /\ Placed /\ Unstarted)
  <1>1. GpuWorkerInit => GpuWorkerTypeOK /\ Placed /\ Unstarted
    <2> SUFFICES ASSUME GpuWorkerInit PROVE GpuWorkerTypeOK /\ Placed /\ Unstarted
      OBVIOUS
    <2>1. \A a \in Actors : actor[a].pc = (IF a \in Requests THEN "new" ELSE "none") /\ actor[a].at = "runner" /\ ~actor[a].read
      BY DEF GpuWorkerInit, Actors
    <2>2. GpuWorkerTypeOK
      BY FilesTyped DEF GpuWorkerInit, GpuWorkerTypeOK, RequestPcs, RunPcs, Outcomes
    <2>3. Placed /\ Unstarted
      BY <2>1, CallsAssumption
      DEF GpuWorkerInit, Placed, Unstarted, Undispatched, Actors, RequestPcs, RunPcs, Requests, Runs
    <2> QED BY <2>2, <2>3
  <1>2. GpuWorkerTypeOK /\ Placed /\ Unstarted /\ [GpuWorkerNext]_workerVars
          => GpuWorkerTypeOK' /\ Placed' /\ Unstarted'
    <2> SUFFICES ASSUME GpuWorkerTypeOK, Placed, Unstarted, [GpuWorkerNext]_workerVars
                 PROVE  GpuWorkerTypeOK' /\ Placed' /\ Unstarted'
      OBVIOUS
    <2>1. CASE UNCHANGED workerVars
      BY <2>1 DEF workerVars, GpuWorkerTypeOK, Placed, Unstarted
    <2>2. CASE GpuWorkerNext
      <3>1. TypedStep /\ (Placed' \/ actor' = actor)
        BY <2>2, EnterTyped, RequestTyped, RunTyped, OtherTyped DEF GpuWorkerNext, Containers
      <3>2. Placed'
        BY <3>1 DEF Placed, TypedStep
      <3> QED BY <2>2, <3>1, <3>2, TypedSteps, UnstartedKept
    <2> QED BY <2>1, <2>2
  <1> QED BY <1>1, <1>2, PTL DEF GpuWorkerSpec

----------------------------------------------------------------------------
(* One run at a time, and its branches.                                     *)

\* What a step of run leaves alone of the others.
OthersStay(run) == \A other \in Actors \ {run} : actor'[other] = actor[other]

\* A request ends runs or dispatches them.
LEMMA RequestsLeaveRuns ==
  ASSUME GpuWorkerTypeOK, Placed, NEW r \in Requests,
         RequestStep(r) \/ \E c \in Containers : EnterContainer(r, c)
  PROVE  /\ branch' = branch
         /\ \A run \in Runs :
               \/ actor'[run] = actor[run]
               \/ actor'[run].pc = "stopped"
               \/ actor'[run].pc = "pending" /\ run = RunOf(r) /\ DispatchJob(r)
         /\ \A other \in Requests \ {r} : actor'[other] = actor[other]
  <1>0. /\ r \in Actors /\ \A other \in Requests : other \in Actors
        /\ \A run \in Runs : run # r /\ run \in Actors /\ run \notin Requests
    BY CallsAssumption DEF Actors
  <1> DEFINE Kept == /\ \A run \in Runs : actor'[run] = actor[run] \/ actor'[run].pc = "stopped"
                     /\ \A other \in Requests \ {r} : actor'[other] = actor[other]
  <1>1. ASSUME NEW pc, Goto(r, pc) PROVE Kept
    BY <1>0, <1>1, Pieces DEF Goto
  <1>2. ASSUME LoadStatus(r) PROVE Kept
    BY <1>0, <1>2, Pieces DEF LoadStatus
  <1>3. ASSUME NEW c \in Containers, EnterContainer(r, c) PROVE Kept
    BY <1>0, <1>3, Pieces DEF EnterContainer
  <1>4. ASSUME ReserveJob(r) \/ ReceiveUpload(r) \/ RecordDispatch(r) \/ Publish(r) \/ ConfirmCancel(r) PROVE Kept
    BY <1>1, <1>4 DEF ReserveJob, ReceiveUpload, RecordDispatch, Publish, ConfirmCancel, UpdateStatus
  <1>5. CASE DispatchJob(r)
    <2>1. branch' = branch
      BY <1>5 DEF DispatchJob
    <2>2. CASE actor' = [actor EXCEPT ![r].pc = "record", ![RunOf(r)].pc = "pending"]
      <3>0. RunOf(r) \in Runs /\ RunOf(r) \in Actors /\ RunOf(r) # r
        <4>1. r \in Submissions
          BY <1>5 DEF DispatchJob, Placed, Requests
        <4> QED BY <1>0, <4>1 DEF Runs
      <3>1. \A other \in Actors : other # RunOf(r) /\ other # r => actor'[other] = actor[other]
        BY <1>0, <2>2, Pieces
      <3>2. actor'[RunOf(r)].pc = "pending"
        BY <1>0, <2>2, <3>0, Pieces DEF ActorStates
      <3>3. \A other \in Requests \ {r} : other \in Actors /\ other # RunOf(r)
        BY <1>0, <3>0
      <3>4. \A run \in Runs : run = RunOf(r) \/ actor'[run] = actor[run]
        BY <1>0, <3>1
      <3> QED BY <1>5, <2>1, <3>1, <3>2, <3>3, <3>4
    <2>3. CASE Goto(r, "failed")
      BY <1>1, <2>1, <2>3
    <2>4. \/ actor' = [actor EXCEPT ![r].pc = "record", ![RunOf(r)].pc = "pending"]
          \/ Goto(r, "failed")
      BY <1>5 DEF DispatchJob
    <2> QED BY <2>2, <2>3, <2>4
  <1>6. ASSUME CancelJob(r) PROVE Kept /\ branch' = branch
    <2>1. ASSUME StopFuture(r) PROVE Kept
      <3>1. ASSUME NEW run \in Runs PROVE actor'[run] = actor[run] \/ actor'[run].pc = "stopped"
        BY <1>0, <2>1, Pieces DEF StopFuture, ActorStates
      <3>2. ASSUME NEW other \in Requests \ {r} PROVE actor'[other] = actor[other]
        BY <1>0, <2>1, CallsAssumption, Pieces DEF StopFuture
      <3> QED BY <3>1, <3>2
    <2>2. ASSUME NEW run \in Runs, StopRun(r, run) PROVE Kept
      <3>1. \A other \in Actors : other # run /\ other # r => actor'[other] = actor[other]
        BY <1>0, <2>2, Pieces DEF StopRun
      <3>2. actor'[run] = actor[run] \/ actor'[run].pc = "stopped"
        BY <1>0, <2>2, Pieces DEF StopRun, ActorStates
      <3> QED BY <1>0, <3>1, <3>2
    <2>3. File(r).call \in Runs \cup {NoCall}
      BY <1>0, HeldTyped DEF StatusFiles
    <2>4. branch' = branch
      BY <1>6 DEF CancelJob
    <2> QED BY <1>1, <1>6, <2>1, <2>2, <2>3, <2>4 DEF CancelJob
  <1>7. DispatchJob(r) \/ (Kept /\ branch' = branch)
    <2>1. CASE \E c \in Containers : EnterContainer(r, c)
      BY <1>3, <2>1 DEF EnterContainer
    <2>2. CASE LoadStatus(r)
      BY <1>2, <2>2 DEF LoadStatus
    <2>3. CASE ReserveJob(r) \/ ReceiveUpload(r) \/ RecordDispatch(r) \/ Publish(r) \/ ConfirmCancel(r)
      BY <1>4, <2>3 DEF ReserveJob, ReceiveUpload, RecordDispatch, Publish, ConfirmCancel
    <2> QED BY <1>6, <2>1, <2>2, <2>3 DEF RequestStep
  <1> QED BY <1>5, <1>7

LEMMA RunsLeaveOthers ==
  ASSUME GpuWorkerTypeOK, Placed, NEW run \in Runs, RunWorks(run) \/ RunDies(run)
  PROVE  OthersStay(run)
  <1>0. \A other \in Runs : other \in Actors
    BY DEF Actors
  <1>1. ASSUME NEW pc, Goto(run, pc) PROVE OthersStay(run)
    BY <1>0, <1>1, Pieces DEF Goto, OthersStay, Actors
  <1>2. CASE LoadStatus(run) \/ FinalizeJob(run) \/ CollectBranch(run)
    BY <1>0, <1>2, Pieces DEF LoadStatus, FinalizeJob, CollectBranch, OthersStay, Actors
  <1>3. CASE StartRun(run) \/ ExecuteModelTask(run) \/ MergeArtifacts(run) \/ AllTasksRun(run) \/ RecordInput(run) \/ SkipInput(run) \/ MarkRunning(run)
             \/ SpawnBranches(run) \/ CollectedAll(run) \/ ExceedBudget(run)
    BY <1>1, <1>3
    DEF StartRun, ExecuteModelTask, MergeArtifacts, AllTasksRun, RecordInput, SkipInput, MarkRunning, SpawnBranches, CollectedAll,
        ExceedBudget, UpdateStatus
  <1>4. CASE PublishObjects(run) \/ CompleteJob(run) \/ FailWorkerJob(run) \/ EndRun(run) \/ RunDies(run)
    BY <1>1, <1>4
    DEF PublishObjects, CompleteJob, FailWorkerJob, EndRun, RunDies, UpdateStatus
  <1> QED BY <1>2, <1>3, <1>4 DEF RunWorks

LEMMA OneActiveKept ==
  ASSUME GpuWorkerTypeOK, Placed, OneActive, GpuWorkerNext PROVE OneActive'
  <1>0. \A run \in Runs : run \in Actors
    BY DEF Actors
  <1>1. ASSUME NEW r \in Requests, RequestStep(r) \/ \E c \in Containers : EnterContainer(r, c) PROVE OneActive'
    BY <1>1, RequestsLeaveRuns DEF OneActive, Resting
  <1>2. ASSUME NEW run \in Runs, RunWorks(run) \/ RunDies(run) PROVE OneActive'
    <2>1. actor[run].pc \notin Resting \/ OthersRest(run)
      BY <1>2
      DEF RunWorks, RunDies, StartRun, LoadsStatus, ExecuteModelTask, MergeArtifacts, AllTasksRun, RecordInput, SkipInput, MarkRunning,
          SpawnBranches, CollectBranch, CollectedAll, ExceedBudget, FinalizeJob, PublishObjects, CompleteJob,
          FailWorkerJob, EndRun, Resting
    <2> QED BY <1>2, <2>1, RunsLeaveOthers DEF OneActive, OthersRest, OthersStay, Actors
  <1> QED BY <1>1, <1>2, OtherTyped DEF GpuWorkerNext, Containers, OneActive

\* A run that collects its branches, or was stopped while it did, and no other.
Owns(run) ==
    /\ actor[run].pc \in {"collecting", "stopped"}
    /\ \A other \in Runs \ {run} : actor[other].pc \in Resting

LEMMA BranchesEndFirstKept ==
  ASSUME GpuWorkerTypeOK, Placed, Unstarted, OneActive, OneActive', BranchesEndFirst, GpuWorkerNext
  PROVE  BranchesEndFirst'
  <1> SUFFICES ASSUME NEW role \in Roles, branch'[role] = "running" PROVE \E run \in Runs : Owns(run)'
    BY DEF BranchesEndFirst, Owns
  <1>0. \A run \in Runs : run \in Actors
    BY DEF Actors
  <1>1. branch[role] = "running" => \E run \in Runs : Owns(run)
    BY DEF BranchesEndFirst, Owns
  <1>2. ASSUME NEW r \in Requests, RequestStep(r) \/ \E c \in Containers : EnterContainer(r, c)
        PROVE  \E run \in Runs : Owns(run)'
    <2>1. PICK run \in Runs : Owns(run)
      BY <1>1, <1>2, RequestsLeaveRuns
    <2>2. ~(run = RunOf(r) /\ DispatchJob(r))
      BY <2>1 DEF DispatchJob, Owns, Placed, Unstarted, Undispatched, Requests
    <2> QED BY <1>2, <2>1, <2>2, RequestsLeaveRuns DEF Owns, Resting
  <1>3. ASSUME NEW run \in Runs, RunWorks(run) \/ RunDies(run) PROVE \E owner \in Runs : Owns(owner)'
    <2>1. OthersStay(run)
      BY <1>3, RunsLeaveOthers
    <2>2. ASSUME NEW owner \in Runs, Owns(owner), actor'[run].pc = actor[run].pc \/ (owner = run /\ actor'[run].pc = "stopped")
          PROVE  \E o \in Runs : Owns(o)'
      BY <1>0, <2>1, <2>2 DEF Owns, OthersStay
    <2>3. ASSUME actor[run].pc \notin Resting \cup {"collecting"}, branch[role] = "running" PROVE FALSE
      BY <1>1, <2>3 DEF Owns, Resting
    <2>4. CASE StartRun(run)
      BY <2>4 DEF StartRun
    <2>5. CASE LoadsStatus(run) /\ LoadStatus(run)
      BY <2>3, <2>5 DEF LoadsStatus, LoadStatus, Resting
    <2>6. CASE ExecuteModelTask(run)
      BY <2>3, <2>6, Pieces DEF ExecuteModelTask, Resting
    <2>7. CASE MergeArtifacts(run) \/ AllTasksRun(run) \/ RecordInput(run) \/ SkipInput(run) \/ MarkRunning(run)
               \/ FinalizeJob(run) \/ PublishObjects(run) \/ CompleteJob(run) \/ FailWorkerJob(run) \/ EndRun(run)
      BY <2>3, <2>7
      DEF MergeArtifacts, AllTasksRun, RecordInput, SkipInput, MarkRunning, FinalizeJob, PublishObjects, CompleteJob,
          FailWorkerJob, EndRun, Resting
    <2>8. CASE SpawnBranches(run)
      <3>1. actor'[run].pc = "collecting" /\ actor'[run].pc \notin Resting
        BY <1>0, <2>8, Pieces DEF SpawnBranches, Goto, ActorStates, Resting
      <3> QED BY <3>1 DEF Owns, OneActive
    <2>9. CASE CollectBranch(run)
      <3>1. branch[role] = "running" /\ actor' = actor
        BY <2>9, Pieces DEF CollectBranch, MaterializeBranchObjects, ValidateBranchArtifacts
      <3> QED BY <1>1, <2>2, <3>1
    <2>10. CASE CollectedAll(run)
      BY <2>10 DEF CollectedAll, Uncollected
    <2>11. CASE ExceedBudget(run)
      BY <2>11 DEF ExceedBudget
    <2>12. CASE RunDies(run)
      <3>1. branch[role] = "running" /\ actor[run].pc \notin Resting /\ actor'[run].pc = "stopped"
        BY <1>0, <2>12, Pieces DEF RunDies, Goto, ActorStates
      <3>2. PICK owner \in Runs : Owns(owner)
        BY <1>1, <3>1
      <3>3. owner = run
        BY <3>1, <3>2 DEF Owns
      <3> QED BY <2>2, <3>1, <3>2, <3>3
    <2> QED BY <1>3, <2>4, <2>5, <2>6, <2>7, <2>8, <2>9, <2>10, <2>11, <2>12 DEF RunWorks
  <1>4. ASSUME NEW other \in Roles, BranchEnds(other) PROVE \E run \in Runs : Owns(run)'
    <2>1. branch[role] = "running" /\ actor' = actor
      BY <1>4, Pieces DEF BranchEnds, BranchResult
    <2> QED BY <1>1, <2>1 DEF Owns
  <1> QED BY <1>1, <1>2, <1>3, <1>4 DEF GpuWorkerNext, Containers, Owns, JobStatus, BackgroundCommit

\* However branches, budgets, cancellations and deaths interleave, a branch computes only for a
\* run that collects its branches or for one that was stopped, and then no other run is under way
\* (_run_parallel_job, budget_exceeded).
THEOREM NoBranchIsLeft == GpuWorkerSpec => []BranchesEndFirst
  <1>1. GpuWorkerInit => OneActive /\ BranchesEndFirst
    BY CallsAssumption DEF GpuWorkerInit, OneActive, BranchesEndFirst, Resting
  <1>2. GpuWorkerTypeOK /\ Placed /\ Unstarted /\ OneActive /\ BranchesEndFirst /\ [GpuWorkerNext]_workerVars
          => OneActive' /\ BranchesEndFirst'
    BY OneActiveKept, BranchesEndFirstKept DEF workerVars, OneActive, BranchesEndFirst
  <1> QED BY <1>1, <1>2, WorkerTyping, PTL DEF GpuWorkerSpec

----------------------------------------------------------------------------
(* What a status lists is there.                                            *)

\* A status lists stems that are there, and as completed a parallel run's all.
Sound(file, stems) ==
    /\ file.stems \subseteq stems
    /\ deployment.parallel /\ file.status = "completed" => file.stems = Roles

DirsSound ==
    /\ Sound(volume.file, volume.stems)
    /\ \A v \in Containers : Sound(view[v].file, view[v].stems)

\* So does a status that somebody is about to write back.
HeldSound == \A a \in Actors : actor[a].read => Sound(actor[a].held, view[actor[a].at].stems)

\* A run goes on with the stems that its branches made.
RunStems(run) ==
    /\ actor[run].pc \notin Resting => OutcomeStems \subseteq view["runner"].stems
    /\ actor[run].pc = "publishing" => actor[run].read /\ OutcomeStems \subseteq actor[run].held.stems
    /\ actor[run].pc = "completing" /\ deployment.parallel =>
          /\ view["runner"].file.stems = Roles
          /\ actor[run].read => actor[run].held.stems = Roles

StemsSound == \A run \in Runs : RunStems(run)

SameStems(v) == view[v].file = view'[v].file /\ view[v].stems = view'[v].stems
OthersSame(v) == \A w \in Containers \ {v} : view'[w] = view[w]
Grows(v) == view[v].stems \subseteq view'[v].stems

LEMMA CommitSound ==
  ASSUME GpuWorkerTypeOK, DirsSound, deployment' = deployment, NEW v \in Containers, Commit(v)
  PROVE  DirsSound' /\ (\A w \in Containers : SameStems(w)) /\ OthersSame(v)
  <1>1. view' = [view EXCEPT ![v].dirty = FALSE] /\ view \in [Containers -> Views]
    BY Pieces DEF Commit
  <1>2. \A w \in Containers : SameStems(w)
    BY <1>1 DEF SameStems, Views
  <1>3. OthersSame(v)
    BY <1>1 DEF OthersSame
  <1>4. Sound(volume'.file, volume'.stems)
    BY DEF Commit, Committed, DirsSound, Sound
  <1> QED BY <1>2, <1>3, <1>4 DEF DirsSound, SameStems, Sound

LEMMA ShowSound ==
  ASSUME GpuWorkerTypeOK, DirsSound, deployment' = deployment, NEW v \in Containers, NEW dir,
         Show(v, dir), volume' = dir, dir \in {volume, Committed(v)}
  PROVE  /\ DirsSound' /\ OthersSame(v)
         /\ view'[v].file = dir.file /\ view'[v].stems = dir.stems /\ ~view'[v].dirty
         /\ dir = Committed(v) => Grows(v)
  <1>1. view \in [Containers -> Views]
    BY Pieces
  <1>2. Sound(dir.file, dir.stems)
    BY DEF Committed, DirsSound, Sound
  <1>3. view'[v] = [file |-> dir.file, stems |-> dir.stems, dirty |-> FALSE]
    BY <1>1 DEF Show
  <1>4. OthersSame(v)
    BY <1>1 DEF Show, OthersSame
  <1>5. dir = Committed(v) => Grows(v)
    BY <1>3 DEF Committed, Grows
  <1> QED BY <1>2, <1>3, <1>4, <1>5 DEF DirsSound, Sound, OthersSame

LEMMA ReloadSound ==
  ASSUME GpuWorkerTypeOK, DirsSound, deployment' = deployment, NEW v \in Containers, Reload(v)
  PROVE  DirsSound' /\ OthersSame(v) /\ Grows(v)
  <1>1. CASE deployment.modal
    BY <1>1, ShowSound DEF Reload
  <1>2. CASE ~deployment.modal
    BY <1>2 DEF Reload, DirsSound, Sound, OthersSame, Grows
  <1> QED BY <1>1, <1>2

LEMMA TerminateSound ==
  ASSUME GpuWorkerTypeOK, DirsSound, deployment' = deployment, NEW v \in Containers, NEW writing,
         Terminate(v, writing)
  PROVE  DirsSound' /\ OthersSame(v) /\ (deployment.modal \/ view' = view)
  <1>1. CASE deployment.modal
    <2>1. PICK dir \in Left(v, writing) : volume' = dir /\ Show(v, dir)
      BY <1>1 DEF Terminate
    <2>2. CASE dir \in {volume, Committed(v)}
      BY <1>1, <2>1, <2>2, ShowSound
    <2>3. CASE dir = [Committed(v) EXCEPT !.file = TornStatus]
      <3>1. dir.file = TornStatus
        BY <2>3 DEF Committed
      <3>2. view'[v] = [file |-> dir.file, stems |-> dir.stems, dirty |-> FALSE] /\ OthersSame(v)
        BY <2>1, Pieces DEF Show, OthersSame
      <3>3. Sound(dir.file, dir.stems)
        BY <3>1 DEF Sound, TornStatus
      <3> QED BY <1>1, <2>1, <3>2, <3>3 DEF DirsSound, Sound, OthersSame
    <2> QED BY <2>1, <2>2, <2>3 DEF Left
  <1>2. CASE ~deployment.modal
    BY <1>2 DEF Terminate, DirsSound, Sound, OthersSame
  <1> QED BY <1>1, <1>2

LEMMA WriteSound ==
  ASSUME GpuWorkerTypeOK, DirsSound, deployment' = deployment, NEW v \in Containers,
         NEW f \in StatusFiles, Sound(f, view[v].stems), WriteStatus(v, f)
  PROVE  /\ DirsSound' /\ OthersSame(v) /\ view'[v].file = f
         /\ \A w \in Containers : view'[w].stems = view[w].stems
  <1>1. view \in [Containers -> Views]
        /\ view' = [view EXCEPT ![v] = [view[v] EXCEPT !.file = f, !.dirty = TRUE]]
    BY Pieces DEF WriteStatus
  <1>2. view'[v].file = f /\ view'[v].stems = view[v].stems
    BY <1>1 DEF Views
  <1>3. OthersSame(v)
    BY <1>1 DEF OthersSame
  <1> QED BY <1>2, <1>3 DEF DirsSound, Sound, OthersSame, WriteStatus

\* Whoever is about to write a status back is not disturbed by what others do.
LEMMA HeldKept ==
  ASSUME GpuWorkerTypeOK, GpuWorkerTypeOK', HeldSound, deployment' = deployment,
         \A a \in Actors : actor'[a].read =>
            /\ actor[a].read /\ actor'[a].held = actor[a].held /\ actor'[a].at = actor[a].at
            /\ Grows(actor[a].at)
  PROVE  HeldSound'
  BY DEF HeldSound, Sound, Grows

\* A request leaves all stems where they are, unless it ends the run that is under way.
RunnerKept ==
    /\ \A v \in Containers : Grows(v)
    /\ deployment.modal => view'["runner"] = view["runner"]

RunTerminated ==
    /\ deployment.modal /\ OthersSame("runner")
    /\ \E run \in Runs : actor[run].pc \notin Resting /\ actor'[run].pc = "stopped"

LEMMA RequestDirs ==
  ASSUME GpuWorkerTypeOK, Placed, DirsSound, HeldSound, deployment' = deployment, NEW r \in Requests,
         RequestStep(r) \/ \E c \in Containers : EnterContainer(r, c)
  PROVE  DirsSound' /\ (RunnerKept \/ RunTerminated)
  <1> DEFINE at == actor[r].at
             held == actor[r].held
  <1>0. r \in Actors /\ at \in Containers /\ held \in StatusFiles /\ "runner" \in Containers
    BY HeldTyped DEF Actors, Containers
  <1> USE <1>0
  <1>a. actor[r].pc # "new" => (deployment.modal => at # "runner")
    BY DEF Placed
  <1>b. ASSUME view' = view, volume' = volume PROVE DirsSound' /\ RunnerKept
    BY <1>b DEF DirsSound, Sound, RunnerKept, Grows
  <1>c. ASSUME actor[r].pc # "new", Commit(at) PROVE DirsSound' /\ RunnerKept
    BY <1>a, <1>c, CommitSound DEF RunnerKept, Grows, SameStems, OthersSame
  <1>d. ASSUME actor[r].pc # "new", NEW f \in StatusFiles, Sound(f, view[at].stems), WriteStatus(at, f)
        PROVE  DirsSound' /\ RunnerKept
    <2>1. DirsSound' /\ OthersSame(at) /\ \A w \in Containers : view'[w].stems = view[w].stems
      BY <1>d, WriteSound
    <2> QED BY <1>a, <1>d, <2>1 DEF RunnerKept, Grows, OthersSame
  <1>1. CASE LoadStatus(r)
    BY <1>1, <1>b DEF LoadStatus
  <1>2. ASSUME NEW c \in Containers, EnterContainer(r, c) PROVE DirsSound' /\ RunnerKept
    <2>1. DirsSound' /\ OthersSame(c) /\ Grows(c)
      BY <1>2, ReloadSound DEF EnterContainer
    <2> QED BY <1>2, <2>1 DEF EnterContainer, RunnerKept, OthersSame, Grows
  <1>3. CASE ReserveJob(r)
    <2>1. Sound(NewStatus, view[at].stems) /\ NewStatus \in StatusFiles
      BY FilesTyped DEF Sound, NewStatus
    <2> QED BY <1>3, <1>b, <1>d, <2>1 DEF ReserveJob
  <1>4. CASE ReceiveUpload(r) \/ RecordDispatch(r) \/ ConfirmCancel(r)
    <2>1. Sound(held, view[at].stems)
      BY <1>4 DEF ReceiveUpload, RecordDispatch, ConfirmCancel, UpdateStatus, HeldSound
    <2>2. held \in [status : REPLAYABLE_JOB_STATES \cup {"none", "error", "torn"}, call : Runs \cup {NoCall}, stems : SUBSET Roles]
      BY DEF StatusFiles
    <2>3. PICK f : /\ WriteStatus(at, f)
                   /\ \/ f \in {held, [held EXCEPT !.status = "error"], [held EXCEPT !.status = "cancelled"]}
                      \/ \E call \in Runs \cup {NoCall} : f = [held EXCEPT !.call = call]
      <3>1. actor[r].pc = "record" => RunOf(r) \in Runs
        BY DEF Placed, Requests, Runs
      <3> QED BY <1>4, <3>1 DEF ReceiveUpload, RecordDispatch, ConfirmCancel, UpdateStatus
    <2>4. Sound(f, view[at].stems)
      BY <2>1, <2>2, <2>3 DEF Sound
    <2>5. f \in StatusFiles
      <3>1. /\ [held EXCEPT !.status = "error"] \in StatusFiles
            /\ [held EXCEPT !.status = "cancelled"] \in StatusFiles
            /\ \A call \in Runs \cup {NoCall} : [held EXCEPT !.call = call] \in StatusFiles
        BY HeldTyped DEF REPLAYABLE_JOB_STATES
      <3> HIDE DEF held
      <3> QED BY <2>3, <3>1
    <2> QED BY <1>4, <1>d, <2>3, <2>4, <2>5 DEF ReceiveUpload, RecordDispatch, ConfirmCancel
  <1>5. CASE DispatchJob(r) \/ Publish(r)
    BY <1>5, <1>c DEF DispatchJob, Publish
  <1>6. CASE CancelJob(r)
    <2>1. CASE UNCHANGED <<volume, view>>
      BY <1>b, <2>1
    <2>2. ASSUME NEW run \in Runs, StopRun(r, run), ~UNCHANGED <<volume, view>> PROVE DirsSound' /\ (RunnerKept \/ RunTerminated)
      <3>1. actor[run].pc \notin Resting /\ Terminate("runner", Writing(run))
        BY <2>2 DEF StopRun
      <3>2. run # r /\ run \in Actors
        BY CallsAssumption DEF Actors
      <3>3. actor'[run].pc = "stopped"
        BY <2>2, <3>1, <3>2, Pieces DEF StopRun, ActorStates
      <3> QED BY <2>2, <3>1, <3>3, TerminateSound DEF RunTerminated, RunnerKept, Grows, OthersSame
    <2>3. File(r).call \in Runs \cup {NoCall}
      BY HeldTyped DEF StatusFiles
    <2> QED BY <1>6, <2>1, <2>2, <2>3 DEF CancelJob, StopFuture
  <1> QED BY <1>1, <1>2, <1>3, <1>4, <1>5, <1>6 DEF RequestStep

LEMMA RequestHeld ==
  ASSUME GpuWorkerTypeOK, GpuWorkerTypeOK', Placed, Placed', OneActive, DirsSound, HeldSound,
         deployment' = deployment, NEW r \in Requests,
         RequestStep(r) \/ \E c \in Containers : EnterContainer(r, c)
  PROVE  HeldSound'
  <1>0. r \in Actors /\ \A run \in Runs : run # r /\ run \in Actors
    BY CallsAssumption DEF Actors
  <1>1. CASE LoadStatus(r)
    <2>1. actor'[r].held = view[actor[r].at].file /\ actor'[r].at = actor[r].at /\ actor[r].at \in Containers
      BY <1>0, <1>1, HeldTyped, Pieces DEF LoadStatus, ActorStates, File
    <2>2. \A a \in Actors \ {r} : actor'[a] = actor[a]
      BY <1>1, Pieces DEF LoadStatus
    <2> QED BY <1>1, <2>1, <2>2, ZenonT(30) DEF LoadStatus, HeldSound, DirsSound, Sound
  <1>2. CASE ~LoadStatus(r)
    <2> DEFINE Kept(a) == actor[a].read /\ actor'[a].held = actor[a].held /\ actor'[a].at = actor[a].at
    <2>1. actor'[r].read => Kept(r)
      <3>1. ASSUME NEW pc, Goto(r, pc) PROVE ~actor'[r].read
        BY <1>0, <3>1, Pieces DEF Goto, ActorStates
      <3>2. CASE \E c \in Containers : EnterContainer(r, c)
        <4>1. ~actor[r].read
          BY <1>0, <3>2 DEF EnterContainer, Placed, Resting
        <4>2. actor'[r].read = actor[r].read
          BY <1>0, <3>2, Pieces, ZenonT(30) DEF EnterContainer, ActorStates
        <4> QED BY <4>1, <4>2
      <3>3. CASE ReserveJob(r) \/ ReceiveUpload(r) \/ RecordDispatch(r) \/ Publish(r) \/ ConfirmCancel(r)
        BY <3>1, <3>3 DEF ReserveJob, ReceiveUpload, RecordDispatch, Publish, ConfirmCancel, UpdateStatus
      <3>4. CASE DispatchJob(r)
        <4>1. RunOf(r) # r
          BY <1>0, <3>4 DEF DispatchJob, Placed, Requests, Runs
        <4> QED BY <1>0, <3>1, <3>4, <4>1, Pieces DEF DispatchJob, ActorStates
      <3>5. CASE CancelJob(r)
        <4>1. CASE StopFuture(r)
          <5>1. actor'[r] = [actor[r] EXCEPT !.pc = "confirm"]
            BY <1>0, <4>1, Pieces DEF StopFuture
          <5> QED BY <1>0, <5>1, Pieces DEF ActorStates
        <4>2. ASSUME NEW run \in Runs, StopRun(r, run) PROVE actor'[r] = [actor[r] EXCEPT !.pc = "confirm"]
          BY <1>0, <4>2, Pieces DEF StopRun, ActorStates
        <4>3. File(r).call \in Runs \cup {NoCall}
          BY <1>0, HeldTyped DEF StatusFiles
        <4>4. actor'[r] = [actor[r] EXCEPT !.pc = "confirm"] => Kept(r) \/ ~actor'[r].read
          BY <1>0, Pieces DEF ActorStates
        <4> QED BY <3>1, <3>5, <4>1, <4>2, <4>3, <4>4 DEF CancelJob
      <3> QED BY <1>2, <3>2, <3>3, <3>4, <3>5 DEF RequestStep
    <2>2. \A a \in Actors : actor'[a].read => Kept(a)
      <3>1. ASSUME NEW run \in Runs, actor'[run].read PROVE Kept(run)
        <4>1. actor'[run].pc \notin {"pending", "stopped"}
          BY <1>0, <3>1 DEF Placed, Resting
        <4> QED BY <3>1, <4>1, RequestsLeaveRuns
      <3>2. ASSUME NEW other \in Requests, actor'[other].read PROVE Kept(other)
        BY <2>1, <3>2, RequestsLeaveRuns
      <3> QED BY <3>1, <3>2 DEF Actors
    <2>3. ASSUME NEW a \in Actors, actor'[a].read PROVE Grows(actor[a].at)
      <3>1. actor[a].pc \notin Resting /\ actor[a].at \in Containers
        BY <2>2, <2>3, HeldTyped DEF Placed
      <3>2. CASE RunnerKept
        BY <3>1, <3>2 DEF RunnerKept
      <3>3. CASE RunTerminated
        <4>1. CASE a \in Runs
          <5>1. actor'[a].pc = "stopped"
            BY <3>1, <3>3, <4>1 DEF RunTerminated, OneActive
          <5> QED BY <2>3, <5>1 DEF Placed, Resting
        <4>2. CASE a \in Requests
          BY <3>1, <3>3, <4>2 DEF RunTerminated, Placed, Resting, OthersSame, Grows
        <4> QED BY <4>1, <4>2 DEF Actors
      <3> QED BY <3>2, <3>3, RequestDirs
    <2> QED BY <2>2, <2>3, HeldKept
  <1> QED BY <1>1, <1>2

LEMMA RequestStems ==
  ASSUME GpuWorkerTypeOK, GpuWorkerTypeOK', Placed, Placed', OneActive, DirsSound, HeldSound, StemsSound,
         deployment' = deployment, NEW r \in Requests,
         RequestStep(r) \/ \E c \in Containers : EnterContainer(r, c)
  PROVE  StemsSound'
  <1> SUFFICES ASSUME NEW run \in Runs, actor'[run].pc \notin Resting
               PROVE  /\ OutcomeStems' \subseteq view'["runner"].stems
                      /\ actor'[run].pc = "publishing" =>
                            actor'[run].read /\ OutcomeStems' \subseteq actor'[run].held.stems
                      /\ actor'[run].pc = "completing" /\ deployment.parallel =>
                            /\ view'["runner"].file.stems = Roles
                            /\ actor'[run].read => actor'[run].held.stems = Roles
    BY DEF StemsSound, RunStems, Resting
  <1>1. OutcomeStems' = OutcomeStems
    BY RequestsLeaveRuns DEF OutcomeStems
  <1>2. actor'[run] = actor[run]
    BY RequestsLeaveRuns DEF Resting
  <1>3. RunnerKept
    BY <1>2, RequestDirs DEF RunTerminated, OneActive, Resting
  <1>4. Grows("runner") /\ (deployment.modal => view'["runner"] = view["runner"])
    BY <1>3 DEF RunnerKept, Containers
  <1> QED BY <1>1, <1>2, <1>4, DeploymentTyped DEF StemsSound, RunStems, Grows

\* A step of the run that is under way.
RunSound(run) ==
    /\ DirsSound' /\ OthersSame("runner") /\ (deployment.modal \/ Grows("runner"))
    /\ actor'[run].read => Sound(actor'[run].held, view'["runner"].stems)
    /\ RunStems(run)'

LEMMA RunsFrame ==
  ASSUME GpuWorkerTypeOK, GpuWorkerTypeOK', Placed, Placed', HeldSound, StemsSound, deployment' = deployment,
         NEW run \in Runs, OthersStay(run), RunSound(run),
         \A r \in Requests : actor'[r] = actor[r],
         \A other \in Runs \ {run} : actor[other].pc \in Resting
  PROVE  HeldSound' /\ StemsSound'
  <1>1. StemsSound'
    <2>1. ASSUME NEW other \in Runs \ {run} PROVE RunStems(other)'
      <3>1. actor'[other].pc \in Resting
        BY DEF OthersStay, Actors
      <3> QED BY <3>1 DEF RunStems, Resting
    <2> QED BY <2>1 DEF StemsSound, RunSound
  <1>2. HeldSound'
    <2>1. ASSUME NEW r \in Requests, actor'[r].read PROVE Sound(actor[r].held, view[actor[r].at].stems)' /\ actor'[r] = actor[r]
      <3>0. r \in Actors
        BY DEF Actors
      <3>1. actor[r].pc \notin Resting /\ actor[r].at \in Containers /\ actor[r].read
        BY <2>1, <3>0, HeldTyped DEF Placed
      <3>2. Grows(actor[r].at)
        BY <3>1 DEF RunSound, OthersSame, Grows, Placed, Resting
      <3> QED BY <2>1, <3>0, <3>1, <3>2 DEF HeldSound, Sound, Grows
    <2>2. ASSUME NEW other \in Runs \ {run} PROVE ~actor'[other].read
      BY DEF OthersStay, Placed, Actors
    <2>3. actor'[run].at = "runner"
      BY DEF Placed
    <2> QED BY <2>1, <2>2, <2>3 DEF HeldSound, Actors, RunSound, Sound
  <1> QED BY <1>1, <1>2

LEMMA RunStepSound ==
  ASSUME GpuWorkerTypeOK, GpuWorkerTypeOK', Placed, Placed', DirsSound, HeldSound, StemsSound, deployment' = deployment,
         NEW run \in Runs, RunWorks(run) \/ RunDies(run)
  PROVE  RunSound(run)
  <1> DEFINE held == actor[run].held
             stems == view["runner"].stems
  <1>0. run \in Actors /\ "runner" \in Containers /\ actor[run].at = "runner" /\ actor[run] \in ActorStates
    BY Pieces DEF Actors, Containers, Placed
  <1> USE <1>0
  <1>h. held \in StatusFiles /\ held \in [status : REPLAYABLE_JOB_STATES \cup {"none", "error", "torn"}, call : Runs \cup {NoCall}, stems : SUBSET Roles]
    BY HeldTyped DEF StatusFiles
  <1>r. actor[run].read => Sound(held, stems)
    BY DEF HeldSound
  <1>a. OutcomeStems \in SUBSET Roles /\ (actor[run].pc \notin Resting => OutcomeStems \subseteq stems)
    BY DEF OutcomeStems, StemsSound, RunStems
  <1>g. ASSUME NEW pc, Goto(run, pc) PROVE actor'[run].pc = pc /\ ~actor'[run].read
    BY <1>g, Pieces DEF Goto, ActorStates
  \* On with the stems that are there.
  <1>b. ASSUME NEW pc, Goto(run, pc), pc \notin {"publishing", "completing"}, branch' = branch,
               actor[run].pc \notin Resting, DirsSound', OthersSame("runner"), Grows("runner")
        PROVE  RunSound(run)
    <2>1. OutcomeStems' \subseteq view'["runner"].stems
      BY <1>a, <1>b DEF OutcomeStems, Grows
    <2> QED BY <1>b, <1>g, <2>1 DEF RunSound, RunStems
  <1>w. ASSUME NEW pc, NEW f \in StatusFiles, Sound(f, stems), UpdateStatus(run, f, pc),
               pc \notin {"publishing", "completing"}, branch' = branch, actor[run].pc \notin Resting
        PROVE  RunSound(run)
    <2>1. DirsSound' /\ OthersSame("runner") /\ Grows("runner")
      BY <1>w, WriteSound DEF UpdateStatus, Grows
    <2> QED BY <1>b, <1>w, <2>1 DEF UpdateStatus
  <1>v. ASSUME volume' = volume, view' = view
        PROVE  DirsSound' /\ OthersSame("runner") /\ Grows("runner")
    BY <1>v DEF DirsSound, Sound, OthersSame, Grows
  <1>1. CASE StartRun(run)
    <2>1. DirsSound' /\ OthersSame("runner") /\ Grows("runner")
      BY <1>1, ReloadSound DEF StartRun
    <2>2. OutcomeStems' = {}
      BY <1>1 DEF StartRun, OutcomeStems
    <2>3. actor'[run].pc \notin {"publishing", "completing"} /\ ~actor'[run].read
      <3>1. PICK pc \in {"committing", "failing", "input", "executing"} : Goto(run, pc)
        BY <1>1 DEF StartRun, Begun
      <3> QED BY <1>g, <3>1
    <2> QED BY <2>1, <2>2, <2>3 DEF RunSound, RunStems
  <1>2. CASE LoadsStatus(run) /\ LoadStatus(run)
    <2>1. actor' = [actor EXCEPT ![run].read = TRUE, ![run].held = view["runner"].file]
      BY <1>2 DEF LoadStatus, File
    <2>2. actor'[run].pc = actor[run].pc /\ actor'[run].held = view["runner"].file
      BY <2>1, Pieces DEF ActorStates
    <2>3. actor[run].pc \notin Resting /\ actor[run].pc # "publishing"
      BY <1>2 DEF LoadsStatus, Resting
    <2>4. DirsSound' /\ OthersSame("runner") /\ Grows("runner") /\ Sound(view["runner"].file, stems)
      BY <1>2, <1>v DEF LoadStatus, DirsSound
    <2> QED BY <1>2, <1>a, <2>2, <2>3, <2>4 DEF RunSound, RunStems, LoadStatus, Sound, OutcomeStems, StemsSound
  <1>3. CASE ExecuteModelTask(run)
    <2> DEFINE running == [held EXCEPT !.status = "running"]
    <2>1. PICK role \in Roles, succeeds \in BOOLEAN :
            /\ branch' = [branch EXCEPT ![role] = IF succeeds THEN "completed" ELSE "failed"]
            /\ view' = [view EXCEPT !["runner"] =
                            [file |-> running, dirty |-> TRUE,
                             stems |-> IF succeeds THEN @.stems \cup {role} ELSE @.stems]]
      BY <1>3 DEF ExecuteModelTask
    <2>2. Sound(running, stems)
      BY <1>3, <1>r, <1>h DEF ExecuteModelTask, Sound
    <2>3. /\ view'["runner"].file = running
          /\ view'["runner"].stems = IF succeeds THEN stems \cup {role} ELSE stems
      BY <2>1, Pieces
    <2>4. OthersSame("runner") /\ Grows("runner")
      BY <2>1, <2>3, Pieces DEF OthersSame, Grows
    <2>5. DirsSound'
      BY <1>3, <2>2, <2>3, <2>4 DEF DirsSound, Sound, OthersSame, ExecuteModelTask
    <2>6. OutcomeStems' \subseteq view'["runner"].stems
      BY <1>3, <1>a, <2>1, <2>3, Pieces DEF OutcomeStems, ExecuteModelTask, Resting
    <2> QED BY <1>3, <1>g, <2>4, <2>5, <2>6 DEF RunSound, RunStems, ExecuteModelTask
  <1>4. CASE MergeArtifacts(run)
    <2> DEFINE f == [held EXCEPT !.status = "running", !.stems = @ \cup OutcomeStems]
    <2>1. actor[run].read /\ actor[run].pc \notin Resting
      BY <1>4 DEF MergeArtifacts, UpdateStatus, Resting
    <2>2. Sound(f, stems) /\ f \in StatusFiles
      BY <1>a, <1>h, <1>r, <2>1 DEF Sound, StatusFiles, REPLAYABLE_JOB_STATES
    <2>3. UpdateStatus(run, f, "executing") /\ branch' = branch
      BY <1>4 DEF MergeArtifacts
    <2> HIDE DEF f
    <2> QED BY <1>w, <2>1, <2>2, <2>3
  <1>5. CASE AllTasksRun(run)
    BY <1>5, <1>b, <1>v DEF AllTasksRun, Resting
  <1>6. CASE MarkRunning(run)
    <2> DEFINE f == [held EXCEPT !.status = "running"]
    <2>1. Sound(f, stems) /\ f \in StatusFiles
      BY <1>6, <1>h, <1>r, HeldTyped DEF Sound, MarkRunning, UpdateStatus, REPLAYABLE_JOB_STATES
    <2>2. UpdateStatus(run, f, "spawning") /\ branch' = branch /\ actor[run].pc \notin Resting
      BY <1>6 DEF MarkRunning, Resting
    <2> HIDE DEF f
    <2> QED BY <1>w, <2>1, <2>2
  <1>7. CASE SpawnBranches(run)
    <2>1. DirsSound' /\ OthersSame("runner") /\ Grows("runner")
      BY <1>7, CommitSound DEF SpawnBranches, SameStems, Grows
    <2>2. OutcomeStems' = {}
      BY <1>7 DEF SpawnBranches, OutcomeStems
    <2>3. actor'[run].pc = "collecting" /\ ~actor'[run].read
      BY <1>7, <1>g DEF SpawnBranches
    <2> QED BY <2>1, <2>2, <2>3 DEF RunSound, RunStems
  <1>8. CASE CollectBranch(run)
    <2>0. actor' = actor /\ actor[run].pc = "collecting"
      BY <1>8 DEF CollectBranch
    <2>1. PICK role \in Roles :
             \/ MaterializeBranchObjects(role) \/ ValidateBranchArtifacts(role)
             \/ branch' = [branch EXCEPT ![role] = "failed"] /\ UNCHANGED <<volume, view>>
      BY <1>8 DEF CollectBranch
    <2>2. DirsSound' /\ OthersSame("runner") /\ Grows("runner")
      <3>1. CASE MaterializeBranchObjects(role)
        <4>1. view' = [view EXCEPT !["runner"] = [view["runner"] EXCEPT !.stems = @ \cup {role}]]
          BY <3>1, Pieces DEF MaterializeBranchObjects, Views
        <4>2. view'["runner"].stems = stems \cup {role} /\ view'["runner"].file = view["runner"].file
          BY <4>1, Pieces DEF Views
        <4>3. OthersSame("runner") /\ Grows("runner")
          BY <4>1, <4>2, Pieces DEF OthersSame, Grows
        <4> QED BY <3>1, <4>2, <4>3 DEF MaterializeBranchObjects, DirsSound, Sound, OthersSame
      <3>2. CASE ValidateBranchArtifacts(role)
        BY <3>2, ReloadSound DEF ValidateBranchArtifacts
      <3> QED BY <1>v, <2>1, <3>1, <3>2
    <2>3. OutcomeStems' \subseteq view'["runner"].stems
      <3>1. OutcomeStems \subseteq stems
        BY <1>a, <2>0 DEF Resting
      <3>2. CASE MaterializeBranchObjects(role)
        <4>1. role \in view'["runner"].stems
          BY <3>2, Pieces DEF MaterializeBranchObjects, Views
        <4>2. OutcomeStems' \subseteq OutcomeStems \cup {role}
          BY <3>2, Pieces DEF MaterializeBranchObjects, OutcomeStems
        <4> QED BY <2>2, <3>1, <4>1, <4>2 DEF Grows
      <3>3. CASE ValidateBranchArtifacts(role)
        <4>1. OutcomeStems' \subseteq OutcomeStems \cup {role}
              /\ (role \in OutcomeStems' => role \in view'["runner"].stems)
          BY <3>3, Pieces DEF ValidateBranchArtifacts, OutcomeStems
        <4> QED BY <2>2, <3>1, <4>1 DEF Grows
      <3>4. CASE branch' = [branch EXCEPT ![role] = "failed"]
        <4>1. OutcomeStems' \subseteq OutcomeStems
          BY <3>4, Pieces DEF OutcomeStems
        <4> QED BY <2>2, <3>1, <4>1 DEF Grows
      <3> QED BY <2>1, <3>2, <3>3, <3>4
    <2>4. actor[run].read => Sound(held, view'["runner"].stems)
      BY <1>r, <2>2 DEF Sound, Grows
    <2> QED BY <2>0, <2>2, <2>3, <2>4 DEF RunSound, RunStems, Sound
  <1>9. CASE CollectedAll(run)
    BY <1>9, <1>b, ReloadSound DEF CollectedAll, Resting
  <1>10. CASE ExceedBudget(run)
    <2>1. OutcomeStems' \subseteq OutcomeStems
      BY <1>10 DEF ExceedBudget, OutcomeStems
    <2>2. DirsSound' /\ OthersSame("runner") /\ view' = view
      BY <1>10, <1>v DEF ExceedBudget
    <2>3. actor'[run].pc = "overbudget" /\ ~actor'[run].read /\ actor[run].pc \notin Resting
      BY <1>10, <1>g DEF ExceedBudget, Resting
    <2> QED BY <1>a, <2>1, <2>2, <2>3 DEF RunSound, RunStems, Grows
  <1>11. CASE FinalizeJob(run)
    <2> DEFINE merged == [held EXCEPT !.stems = @ \cup OutcomeStems]
    <2>1. actor[run].read /\ actor[run].pc \notin Resting
      BY <1>11 DEF FinalizeJob, Resting
    <2>2. Sound(merged, stems) /\ merged \in StatusFiles /\ OutcomeStems \subseteq merged.stems
      BY <1>a, <1>h, <1>r, <2>1 DEF Sound, StatusFiles
    <2>3. WriteStatus("runner", merged) /\ branch' = branch
          /\ actor' = [actor EXCEPT ![run] = [actor[run] EXCEPT !.pc = "publishing", !.held = merged]]
      BY <1>11, Pieces DEF FinalizeJob, ActorStates
    <2>4. actor'[run].pc = "publishing" /\ actor'[run].held = merged /\ actor'[run].read
      BY <2>1, <2>3, Pieces DEF ActorStates
    <2> HIDE DEF merged
    <2>5. DirsSound' /\ OthersSame("runner") /\ view'["runner"].stems = stems
      BY <2>2, <2>3, WriteSound
    <2>6. OutcomeStems' = OutcomeStems
      BY <2>3 DEF OutcomeStems
    <2> QED BY <1>a, <2>1, <2>2, <2>4, <2>5, <2>6 DEF RunSound, RunStems, Grows, Sound
  <1>12. CASE PublishObjects(run)
    <2>1. actor[run].read /\ OutcomeStems \subseteq held.stems /\ actor[run].pc \notin Resting
      BY <1>12 DEF PublishObjects, StemsSound, RunStems, Resting
    <2>2. DirsSound' /\ OthersSame("runner") /\ view'["runner"].stems = stems /\ view'["runner"].file = held
      BY <1>12, <1>h, <1>r, <2>1, WriteSound DEF PublishObjects
    <2>3. OutcomeStems' = OutcomeStems /\ ~actor'[run].read /\ actor'[run].pc \in {"failing", "completing"}
          /\ (actor'[run].pc = "completing" => (deployment.parallel => FailedRoles = {}))
      BY <1>12, <1>g DEF PublishObjects, OutcomeStems
    <2>4. FailedRoles = {} => held.stems = Roles
      BY <1>h, <2>1 DEF FailedRoles
    <2> QED BY <1>a, <2>1, <2>2, <2>3, <2>4 DEF RunSound, RunStems, Grows
  <1>13. CASE CompleteJob(run)
    <2> DEFINE f == [held EXCEPT !.status = "completed"]
    <2>1. actor[run].read /\ actor[run].pc = "completing"
      BY <1>13 DEF CompleteJob, UpdateStatus
    <2>2. Sound(f, stems) /\ f \in StatusFiles
      BY <1>h, <1>r, <2>1, HeldTyped DEF Sound, StemsSound, RunStems, REPLAYABLE_JOB_STATES
    <2>3. UpdateStatus(run, f, "committing") /\ branch' = branch
      BY <1>13 DEF CompleteJob
    <2> HIDE DEF f
    <2> QED BY <1>w, <2>1, <2>2, <2>3 DEF Resting
  <1>14. CASE FailWorkerJob(run)
    <2> DEFINE f == [held EXCEPT !.status = "error"]
    <2>1. Sound(f, stems) /\ f \in StatusFiles
      BY <1>14, <1>h, <1>r, HeldTyped DEF Sound, FailWorkerJob, UpdateStatus
    <2>2. UpdateStatus(run, f, "committing") /\ branch' = branch /\ actor[run].pc \notin Resting
      BY <1>14 DEF FailWorkerJob, Resting
    <2> HIDE DEF f
    <2> QED BY <1>w, <2>1, <2>2
  <1>15. CASE EndRun(run)
    <2>1. DirsSound' /\ OthersSame("runner") /\ Grows("runner")
      BY <1>15, CommitSound DEF EndRun, SameStems, Grows
    <2> QED BY <1>15, <1>b, <2>1 DEF EndRun, Resting
  <1>16. CASE RunDies(run)
    <2>1. DirsSound' /\ OthersSame("runner") /\ (deployment.modal \/ view' = view)
      BY <1>16, TerminateSound DEF RunDies
    <2>2. actor'[run].pc = "stopped" /\ ~actor'[run].read
      BY <1>16, <1>g DEF RunDies
    <2> QED BY <2>1, <2>2 DEF RunSound, RunStems, Grows, Resting
  <1>17. CASE RecordInput(run)
    <2>1. UpdateStatus(run, held, "marking") /\ branch' = branch /\ actor[run].pc \notin Resting /\ actor[run].read
      BY <1>17 DEF RecordInput, UpdateStatus, Resting
    <2> HIDE DEF held
    <2> QED BY <1>h, <1>r, <1>w, <2>1
  <1>18. CASE SkipInput(run)
    BY <1>18, <1>b, <1>v DEF SkipInput, Resting
  <1> QED BY <1>1, <1>2, <1>3, <1>4, <1>5, <1>6, <1>7, <1>8, <1>9, <1>10, <1>11, <1>12, <1>13, <1>14, <1>15, <1>16,
             <1>17, <1>18
          DEF RunWorks

\* Branches that end, reads and background commits only add stems to a directory.
LEMMA OtherSound ==
  ASSUME GpuWorkerTypeOK, DirsSound, HeldSound, StemsSound, deployment' = deployment, actor' = actor,
         \/ \E role \in Roles : BranchEnds(role)
         \/ \E c \in ApiContainers : JobStatus(c)
         \/ \E v \in Containers : BackgroundCommit(v)
  PROVE  DirsSound' /\ HeldSound' /\ StemsSound'
  <1>0. "runner" \in Containers /\ \A a \in Actors : actor[a].at \in Containers
    BY HeldTyped DEF Containers
  <1>1. ASSUME \A v \in Containers : Grows(v), view'["runner"].file = view["runner"].file, OutcomeStems' \subseteq OutcomeStems
        PROVE  HeldSound' /\ StemsSound'
    <2>1. HeldSound'
      BY <1>0, <1>1 DEF HeldSound, Sound, Grows
    <2>2. StemsSound'
      BY <1>0, <1>1 DEF StemsSound, RunStems, Grows
    <2> QED BY <2>1, <2>2
  <1>2. ASSUME NEW role \in Roles, BranchEnds(role) PROVE DirsSound' /\ HeldSound' /\ StemsSound'
    <2>1. OutcomeStems' \subseteq OutcomeStems
      BY <1>2, Pieces DEF BranchEnds, BranchResult, OutcomeStems
    <2>2. volume'.file = volume.file /\ volume.stems \subseteq volume'.stems
      BY <1>2, Pieces DEF BranchEnds, Dirs
    <2>3. view' = view
      BY <1>2 DEF BranchEnds
    <2> QED BY <1>1, <2>1, <2>2, <2>3 DEF DirsSound, Sound, Grows
  <1>3. ASSUME NEW c \in ApiContainers, JobStatus(c) PROVE DirsSound' /\ HeldSound' /\ StemsSound'
    <2>1. DirsSound' /\ OthersSame(c) /\ Grows(c)
      BY <1>3, ReloadSound DEF JobStatus, Containers
    <2>2. c # "runner" /\ branch' = branch
      BY <1>3, CallsAssumption DEF JobStatus
    <2> QED BY <1>0, <1>1, <2>1, <2>2 DEF OthersSame, Grows, OutcomeStems
  <1>4. ASSUME NEW v \in Containers, BackgroundCommit(v) PROVE DirsSound' /\ HeldSound' /\ StemsSound'
    <2>1. DirsSound' /\ \A w \in Containers : SameStems(w)
      BY <1>4, CommitSound DEF BackgroundCommit
    <2> QED BY <1>0, <1>1, <1>4, <2>1 DEF SameStems, Grows, BackgroundCommit, OutcomeStems
  <1> QED BY <1>2, <1>3, <1>4

\* How the worker is deployed does not change.
LEMMA NextDeployment ==
  ASSUME GpuWorkerTypeOK, Placed, GpuWorkerNext PROVE deployment' = deployment
  BY OtherTyped, EnterTyped
  DEF GpuWorkerNext, Containers, TypedStep, RequestStep, LoadStatus, ReserveJob, ReceiveUpload,
      DispatchJob, RecordDispatch, Publish, CancelJob, ConfirmCancel, RunWorks, RunDies, StartRun,
      ExecuteModelTask, MergeArtifacts, AllTasksRun, RecordInput, SkipInput, MarkRunning, SpawnBranches, CollectBranch,
      CollectedAll, ExceedBudget, FinalizeJob, PublishObjects, CompleteJob, FailWorkerJob, EndRun

\* However views, background commits, deaths and parallel branches interleave, and with any number
\* of API containers, a status that says completed never lists a stem that is not there beside it
\* (_validate_parallel_branch_volume_artifacts, _finalize_parallel_job).
THEOREM CompletedIsWhole == GpuWorkerSpec => []CompletedHasStems
  <1> DEFINE Inv == OneActive /\ DirsSound /\ HeldSound /\ StemsSound
  <1>1. GpuWorkerInit => Inv
    <2> SUFFICES ASSUME GpuWorkerInit PROVE Inv
      OBVIOUS
    <2>1. OneActive
      BY CallsAssumption DEF GpuWorkerInit, OneActive, Resting
    <2>2. DirsSound /\ HeldSound
      BY DEF GpuWorkerInit, DirsSound, HeldSound, Sound, NoStatus, Containers, Actors
    <2>3. StemsSound
      BY CallsAssumption DEF GpuWorkerInit, StemsSound, RunStems, Resting
    <2> QED BY <2>1, <2>2, <2>3
  <1>2. GpuWorkerTypeOK /\ GpuWorkerTypeOK' /\ Placed /\ Placed' /\ Inv /\ [GpuWorkerNext]_workerVars => Inv'
    <2> SUFFICES ASSUME GpuWorkerTypeOK, GpuWorkerTypeOK', Placed, Placed', Inv, [GpuWorkerNext]_workerVars PROVE Inv'
      OBVIOUS
    <2>1. CASE UNCHANGED workerVars
      <3>1. OneActive'
        BY <2>1 DEF workerVars, OneActive
      <3>2. DirsSound' /\ HeldSound' /\ StemsSound'
        BY <2>1 DEF workerVars, DirsSound, HeldSound, StemsSound, RunStems, Sound, OutcomeStems
      <3> QED BY <3>1, <3>2
    <2>2. CASE GpuWorkerNext
      <3>0. OneActive'
        BY <2>2, OneActiveKept
      <3>1. deployment' = deployment
        BY <2>2, NextDeployment
      <3>2. ASSUME NEW r \in Requests, RequestStep(r) \/ \E c \in Containers : EnterContainer(r, c) PROVE Inv'
        BY <3>0, <3>1, <3>2, RequestDirs, RequestHeld, RequestStems
      <3>3. ASSUME NEW run \in Runs, RunWorks(run) \/ RunDies(run) PROVE Inv'
        <4>1. RunSound(run)
          BY <3>1, <3>3, RunStepSound
        <4>2. OthersStay(run)
          BY <3>3, RunsLeaveOthers
        <4>3. \A other \in Runs \ {run} : actor[other].pc \in Resting
          BY <3>3
          DEF RunWorks, RunDies, StartRun, LoadsStatus, ExecuteModelTask, MergeArtifacts, AllTasksRun, RecordInput, SkipInput, MarkRunning,
              SpawnBranches, CollectBranch, CollectedAll, ExceedBudget, FinalizeJob, PublishObjects, CompleteJob,
              FailWorkerJob, EndRun, Resting, OneActive, OthersRest
        <4>4. \A r \in Requests : actor'[r] = actor[r]
          BY <4>2, CallsAssumption DEF OthersStay, Actors
        <4> QED BY <3>0, <3>1, <4>1, <4>2, <4>3, <4>4, RunsFrame DEF RunSound
      <3>4. CASE \/ \E role \in Roles : BranchEnds(role)
                 \/ \E c \in ApiContainers : JobStatus(c)
                 \/ \E v \in Containers : BackgroundCommit(v)
        BY <3>0, <3>1, <3>4, OtherSound, OtherTyped
      <3> QED BY <2>2, <3>2, <3>3, <3>4 DEF GpuWorkerNext, Containers
    <2> QED BY <2>1, <2>2
  <1>3. GpuWorkerTypeOK /\ Inv => CompletedHasStems
    BY Pieces DEF DirsSound, Sound, CompletedHasStems
  <1> QED BY <1>1, <1>2, <1>3, WorkerTyping, PTL DEF GpuWorkerSpec

=============================================================================
