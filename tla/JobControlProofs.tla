-------------------------- MODULE JobControlProofs --------------------------
(***************************************************************************)
(* Theorems of JobControl, for every number of executions, clients,        *)
(* maintenance workers, attempts, faults and resumptions: the types, the   *)
(* exclusion that run_job's lease gives, and how a job ends.               *)
(***************************************************************************)
EXTENDS JobControl, TLAPS

----------------------------------------------------------------------------
(* Types.                                                                   *)

\* Every statement of PostgresJobStore leaves a row a row.
LEMMA RowClosed ==
  ASSUME NEW w \in Row, NEW o \in Runs
  PROVE  /\ UnbornRow \in Row /\ DeletedRow \in Row /\ Created(w) \in Row
         /\ \A s \in JobStatuses : Updated(w, s) \in Row
         /\ Acquired(w, o) \in Row /\ Released(w, o) \in Row
         /\ Abandoned(w, o) \in Row /\ CancelRequested(w) \in Row
         /\ [w EXCEPT !.lease = "expired"] \in Row
         /\ [w EXCEPT !.gpu_worker_job_id = TRUE] \in Row
  <1> USE DEF Row, JobStatuses, ACTIVE_JOB_STATES, TERMINAL_JOB_STATES, Owners
  <1>1. UnbornRow \in Row /\ DeletedRow \in Row
    BY DEF UnbornRow, DeletedRow
  <1>2. Created(w) \in Row /\ \A s \in JobStatuses : Updated(w, s) \in Row
    BY DEF Created, Updated
  <1>3. Acquired(w, o) \in Row
    <2>1. w.attempt + 1 \in Nat
      OBVIOUS
    <2>2. \A n \in Nat : [w EXCEPT !.lease_owner = o, !.lease = "live", !.attempt = n] \in Row
      OBVIOUS
    <2>3. Acquired(w, o) = [w EXCEPT !.lease_owner = o, !.lease = "live",
                                     !.attempt = w.attempt + 1]
      BY DEF Acquired
    <2> QED BY <2>1, <2>2, <2>3
  <1>4. Released(w, o) \in Row /\ Abandoned(w, o) \in Row
    BY DEF Released, Abandoned
  <1>5. CancelRequested(w) \in Row
    BY DEF CancelRequested, CancelTarget
  <1>6. /\ [w EXCEPT !.lease = "expired"] \in Row
        /\ [w EXCEPT !.gpu_worker_job_id = TRUE] \in Row
    OBVIOUS
  <1> QED BY <1>1, <1>2, <1>3, <1>4, <1>5, <1>6

\* A step of an execution, and its write of a status, keep the types they touch.
LEMMA StepType ==
  ASSUME TypeOK, NEW r \in Runs, NEW from, NEW to \in RunPcs, Step(r, from, to)
  PROVE  pc' \in [Runs -> RunPcs]
  BY DEF TypeOK, Step

LEMMA WriteType ==
  ASSUME TypeOK, NEW r \in Runs, NEW from, NEW status \in JobStatuses,
         NEW ok \in RunPcs, NEW rejected \in RunPcs,
         Write(r, from, status, ok, rejected)
  PROVE  row' \in Row /\ pc' \in [Runs -> RunPcs]
  <1>1. row \in Row
    BY DEF TypeOK
  <1>2. row' \in Row
    BY <1>1, RowClosed DEF Write
  <1>3. pc' \in [Runs -> RunPcs]
    BY DEF Write, Step, TypeOK
  <1> QED BY <1>2, <1>3

LEMMA NullContext == NoContext \in Context
  BY SystemAssumption DEF NoContext, Context, RqIds, RemoteStatuses

\* An execution that is over leaves nothing behind.
LEMMA ForgetType ==
  ASSUME TypeOK, NEW r \in Runs
  PROVE  /\ [pc EXCEPT ![r] = "idle"] \in [Runs -> RunPcs]
         /\ [ctx EXCEPT ![r] = NoContext] \in [Runs -> Context]
  BY NullContext DEF TypeOK, RunPcs

LEMMA FaultType ==
  ASSUME TypeOK, Fault PROVE faults' \in Nat
  BY DEF TypeOK, Fault

LEMMA RqType ==
  ASSUME TypeOK, NEW id \in RqIds, RqReturned(id) \/ RqRaised(id)
  PROVE  rq' \in [RqIds -> RqJob]
  BY DEF TypeOK, RqReturned, RqRaised, RqJob

\* The steps of an execution.
LEMMA RunStepType ==
  ASSUME TypeOK, NEW r \in Runs, RunStep(r)
  PROVE  TypeOK'
  <1> USE DEF RunPcs, PipelinePcs, HandlerPcs
  <1>1. ASSUME AcquireLease(r) PROVE TypeOK'
    <2> USE <1>1 DEF AcquireLease
    <2>1. row \in Row /\ ctx \in [Runs -> Context] /\ ctx[r].id \in RqIds
      BY DEF TypeOK, Context
    <2>2. row' \in Row /\ row'.attempt \in Nat
      <3>1. row' \in Row
        BY <2>1, RowClosed, ZenonT(30)
      <3> QED BY <3>1 DEF Row
    <2>3. ctx' \in [Runs -> Context]
      BY <2>1, <2>2, NullContext DEF Context
    <2>4. rq' \in [RqIds -> RqJob]
      BY <2>1, RqType DEF TypeOK
    <2> QED BY <2>2, <2>3, <2>4 DEF TypeOK
  <1>2. ASSUME SkipJob(r) PROVE TypeOK'
    BY <1>2, StepType DEF SkipJob, LeavesAll, TypeOK
  <1>3. ASSUME StartPipeline(r) PROVE TypeOK'
    BY <1>3, StepType DEF StartPipeline, TypeOK, Context
  <1>4. ASSUME AckCancel(r) PROVE TypeOK'
    BY <1>4, WriteType
    DEF AckCancel, LeavesOthers, TypeOK, JobStatuses, ACTIVE_JOB_STATES, TERMINAL_JOB_STATES
  <1>5. ASSUME ExhaustAttempts(r) PROVE TypeOK'
    BY <1>5, WriteType
    DEF ExhaustAttempts, LeavesOthers, TypeOK, JobStatuses, ACTIVE_JOB_STATES,
        TERMINAL_JOB_STATES
  <1>6. ASSUME EnterPipeline(r) PROVE TypeOK'
    BY <1>6, StepType DEF EnterPipeline, LeavesAll, TypeOK
  <1>7. ASSUME CheckCancel(r) PROVE TypeOK'
    BY <1>7, StepType DEF CheckCancel, LeavesAll, TypeOK
  <1>8. ASSUME AckBeforeSubmit(r) PROVE TypeOK'
    BY <1>8, WriteType
    DEF AckBeforeSubmit, LeavesOthers, TypeOK, JobStatuses, ACTIVE_JOB_STATES,
        TERMINAL_JOB_STATES
  <1>9. ASSUME Submit(r) PROVE TypeOK'
    <2> USE <1>9 DEF Submit
    <2>1. Reserved(remote) \in RemoteStatuses
      BY DEF TypeOK, Reserved, RemoteStatuses
    <2>2. ctx' \in [Runs -> Context]
      BY <2>1, ZenonT(30) DEF TypeOK, Context
    <2> QED BY <2>1, <2>2, StepType DEF TypeOK
  <1>10. ASSUME RecordSubmission(r) PROVE TypeOK'
    BY <1>10, StepType, RowClosed
    DEF RecordSubmission, LeavesOthers, TypeOK, JobStatuses, ACTIVE_JOB_STATES
  <1>11. ASSUME Poll(r) PROVE TypeOK'
    BY <1>11, StepType DEF Poll, TypeOK, Context, RemoteStatuses, Reserved
  <1>12. ASSUME SyncUpdate(r) PROVE TypeOK'
    BY <1>12, StepType DEF SyncUpdate, LeavesAll, TypeOK
  <1>13. ASSUME ApplyUpdate(r) PROVE TypeOK'
    BY <1>13, WriteType
    DEF ApplyUpdate, LeavesOthers, TypeOK, JobStatuses, ACTIVE_JOB_STATES, TERMINAL_JOB_STATES
  <1>14. ASSUME PublishRemote(r) PROVE TypeOK'
    BY <1>14, WriteType
    DEF PublishRemote, LeavesOthers, TypeOK, JobStatuses, ACTIVE_JOB_STATES, TERMINAL_JOB_STATES
  <1>15. ASSUME HandleGpuException(r) PROVE TypeOK'
    BY <1>15, StepType DEF HandleGpuException, LeavesAll, TypeOK
  <1>16. ASSUME CancelOwnRemote(r) PROVE TypeOK'
    BY <1>16, StepType DEF CancelOwnRemote, TypeOK, CancelledRemote, RemoteStatuses
  <1>17. ASSUME MarkCancelled(r) PROVE TypeOK'
    BY <1>17, WriteType
    DEF MarkCancelled, LeavesOthers, TypeOK, JobStatuses, ACTIVE_JOB_STATES, TERMINAL_JOB_STATES
  <1>18. ASSUME MarkCancelling(r) PROVE TypeOK'
    BY <1>18, WriteType
    DEF MarkCancelling, LeavesOthers, TypeOK, JobStatuses, ACTIVE_JOB_STATES,
        TERMINAL_JOB_STATES
  <1>19. ASSUME RecordGpuFailure(r) PROVE TypeOK'
    BY <1>19, StepType DEF RecordGpuFailure, LeavesAll, TypeOK
  <1>20. ASSUME StartLocal(r) PROVE TypeOK'
    BY <1>20, WriteType
    DEF StartLocal, LeavesOthers, TypeOK, JobStatuses, ACTIVE_JOB_STATES, TERMINAL_JOB_STATES
  <1>21. ASSUME PublishLocal(r) PROVE TypeOK'
    BY <1>21, WriteType
    DEF PublishLocal, LeavesOthers, TypeOK, JobStatuses, ACTIVE_JOB_STATES, TERMINAL_JOB_STATES
  <1>22. ASSUME HandlePipelineException(r) PROVE TypeOK'
    BY <1>22, WriteType
    DEF HandlePipelineException, LeavesOthers, TypeOK, JobStatuses, ACTIVE_JOB_STATES,
        TERMINAL_JOB_STATES
  <1>23. ASSUME CheckLeaseLost(r) PROVE TypeOK'
    BY <1>23, StepType DEF CheckLeaseLost, LeavesAll, TypeOK
  <1>24. ASSUME HandleJobException(r) PROVE TypeOK'
    BY <1>24, StepType DEF HandleJobException, LeavesAll, TypeOK
  <1>25. ASSUME RequeueJob(r) PROVE TypeOK'
    <2>1. row' \in Row /\ pc' \in [Runs -> RunPcs]
      BY <1>25, WriteType DEF RequeueJob, JobStatuses, ACTIVE_JOB_STATES
    <2>2. reopened' \in Nat
      BY <1>25 DEF RequeueJob, TypeOK
    <2> QED BY <1>25, <2>1, <2>2 DEF RequeueJob, TypeOK
  <1>26. ASSUME FailJob(r) PROVE TypeOK'
    BY <1>26, WriteType
    DEF FailJob, LeavesOthers, TypeOK, JobStatuses, ACTIVE_JOB_STATES, TERMINAL_JOB_STATES
  <1>27. ASSUME ReleaseLease(r) PROVE TypeOK'
    BY <1>27, ForgetType, RqType, RowClosed DEF ReleaseLease, TypeOK, Context
  <1> QED BY <1>1, <1>2, <1>3, <1>4, <1>5, <1>6, <1>7, <1>8, <1>9, <1>10, <1>11, <1>12, <1>13,
     <1>14, <1>15, <1>16, <1>17, <1>18, <1>19, <1>20, <1>21, <1>22, <1>23, <1>24, <1>25, <1>26,
     <1>27
  DEF RunStep

\* What a control-plane call writes into the row.
LEMMA CreatedType == TypeOK => Created(row) \in Row /\ DeletedRow \in Row
  BY DEF TypeOK, Row, Created, DeletedRow, UnbornRow, JobStatuses, ACTIVE_JOB_STATES

LEMMA CancelledType == TypeOK => CancelRequested(row) \in Row
  BY DEF TypeOK, Row, CancelRequested, CancelTarget, JobStatuses, ACTIVE_JOB_STATES,
         TERMINAL_JOB_STATES

LEMMA UpdatedType == ASSUME TypeOK, NEW s \in JobStatuses PROVE Updated(row, s) \in Row
  BY DEF TypeOK, Row, Updated

\* The steps of the control plane.
LEMMA CallGoes ==
  ASSUME TypeOK, NEW c \in Callers
  PROVE  /\ \A p \in CallPcs : GoTo(c, p) => call' \in [Callers -> Call]
         /\ \A id \in RqIds, kind \in {"none", "create", "outbox", "recover", "resume"} :
              BeginSubmit(c, kind, id) => call' \in [Callers -> Call]
         /\ Return(c) => call' \in [Callers -> Call]
         /\ AfterSubmitFailed(c) => call' \in [Callers -> Call]
  <1> USE SystemAssumption DEF TypeOK, Call
  <1>1. NoCall \in Call
    BY DEF NoCall, CallPcs, RqIds
  <1>2. Return(c) => call' \in [Callers -> Call]
    BY <1>1 DEF Return
  <1>3. \A p \in CallPcs : GoTo(c, p) => call' \in [Callers -> Call]
    BY DEF GoTo
  <1>4. AfterSubmitFailed(c) => call' \in [Callers -> Call]
    BY <1>2, <1>3 DEF AfterSubmitFailed, CallPcs
  <1>5. \A id \in RqIds, kind \in {"none", "create", "outbox", "recover", "resume"} :
          BeginSubmit(c, kind, id) => call' \in [Callers -> Call]
    BY DEF BeginSubmit, CallPcs
  <1> QED BY <1>2, <1>3, <1>4, <1>5

LEMMA CallStepType ==
  ASSUME TypeOK, NEW c \in Callers,
         CallBegins(c) \/ CallStep(c) \/ SubmitFails(c) \/ CallerCrashes(c)
  PROVE  TypeOK'
  <1> USE CallGoes DEF CallOnly
  <1>0. row \in Row /\ 0 \in RqIds /\ row.attempt \in Nat
    BY SystemAssumption DEF TypeOK, Row, RqIds
  <1>1. ASSUME Create(c) PROVE TypeOK'
    BY <1>1, <1>0, CreatedType DEF Create, TypeOK
  <1>2. ASSUME ClaimDispatch(c) PROVE TypeOK'
    BY <1>2, <1>0 DEF ClaimDispatch, TypeOK
  <1>3. ASSUME RequestCancel(c) PROVE TypeOK'
    BY <1>3, <1>0, CancelledType DEF RequestCancel, SetCancelFlag, TypeOK, CallPcs
  <1>4. ASSUME Reconcile(c) PROVE TypeOK'
    <2> USE <1>4 DEF Reconcile
    <2>1. CASE row.cancel_requested \/ row.attempt >= JOB_MAX_ATTEMPTS
      BY <2>1 DEF TypeOK, CallPcs
    <2>2. CASE ~row.cancel_requested /\ ~(row.attempt >= JOB_MAX_ATTEMPTS)
      <3>1. row.attempt + 1 \in RqIds
        BY <1>0, <2>2, SystemAssumption DEF RqIds
      <3> QED BY <2>2, <3>1 DEF TypeOK
    <2> QED BY <2>1, <2>2
  <1>5. ASSUME Resume(c) PROVE TypeOK'
    BY <1>5 DEF Resume, TypeOK, CallPcs
  <1>6. ASSUME BeginDelete(c) PROVE TypeOK'
    BY <1>6 DEF BeginDelete, TypeOK, CallPcs
  <1>7. ASSUME FetchRqJob(c) PROVE TypeOK'
    BY <1>7 DEF FetchRqJob, TypeOK, CallPcs
  <1>8. ASSUME PushRqJob(c) PROVE TypeOK'
    <2>1. call[c].id \in RqIds
      BY DEF TypeOK, Call
    <2>2. rq' \in [RqIds -> RqJob]
      BY <1>8, <2>1, SystemAssumption DEF PushRqJob, TypeOK, RqJob
    <2> QED BY <1>8, <2>2 DEF PushRqJob, TypeOK, CallPcs
  <1>9. ASSUME MarkDispatched(c) PROVE TypeOK'
    BY <1>9 DEF MarkDispatched, TypeOK, CallPcs
  <1>10. ASSUME StampDispatchId(c) PROVE TypeOK'
    BY <1>10 DEF StampDispatchId, TypeOK
  <1>11. ASSUME UndoDispatch(c) PROVE TypeOK'
    BY <1>11 DEF UndoDispatch, TypeOK, CallPcs
  <1>12. ASSUME RequeueUndispatched(c) PROVE TypeOK'
    BY <1>12, UpdatedType DEF RequeueUndispatched, TypeOK, JobStatuses, ACTIVE_JOB_STATES
  <1>13. ASSUME CancelRemote(c) PROVE TypeOK'
    BY <1>13 DEF CancelRemote, TypeOK, CancelledRemote, RemoteStatuses, CallPcs
  <1>14. ASSUME ConfirmCancelled(c) PROVE TypeOK'
    BY <1>14, UpdatedType DEF ConfirmCancelled, TypeOK, JobStatuses, TERMINAL_JOB_STATES, CallPcs
  <1>15. ASSUME StopStarted(c) PROVE TypeOK'
    <2>1. PICK r \in Runs : /\ row' = Abandoned(row, r)
                            /\ pc' = [pc EXCEPT ![r] = "idle"]
                            /\ ctx' = [ctx EXCEPT ![r] = NoContext]
      BY <1>15 DEF StopStarted
    <2>2. row' \in Row
      BY <1>0, <2>1, RowClosed
    <2>3. rq' \in [RqIds -> RqJob]
      BY <1>0, <1>15, RqType DEF StopStarted
    <2> QED BY <1>15, <2>1, <2>2, <2>3, ForgetType DEF StopStarted, TypeOK
  <1>16. ASSUME CancelQueued(c) PROVE TypeOK'
    <2>1. rq[0] \in RqJob /\ (IF rq[0].copies > 0 THEN rq[0].copies - 1 ELSE 0) \in Nat
      BY <1>0 DEF TypeOK, RqJob
    <2>2. \A n \in Nat, st \in {"absent", "done"} :
            [rq EXCEPT ![0].copies = n, ![0].state = st] \in [RqIds -> RqJob]
      BY DEF TypeOK, RqJob
    <2>3. rq' \in [RqIds -> RqJob]
      BY <1>16, <2>1, <2>2 DEF CancelQueued
    <2> QED BY <1>16, <2>3 DEF CancelQueued, TypeOK
  <1>17. ASSUME CancelAgain(c) PROVE TypeOK'
    BY <1>17, <1>0, CancelledType DEF CancelAgain, SetCancelFlag, TypeOK, CallPcs
  <1>18. ASSUME CancelMissingJob(c) PROVE TypeOK'
    BY <1>18 DEF CancelMissingJob, TypeOK
  <1>19. ASSUME Exhaust(c) PROVE TypeOK'
    BY <1>19, UpdatedType DEF Exhaust, TypeOK, JobStatuses, TERMINAL_JOB_STATES
  <1>20. ASSUME Revive(c) PROVE TypeOK'
    BY <1>20, <1>0, UpdatedType DEF Revive, TypeOK, JobStatuses, ACTIVE_JOB_STATES
  <1>21. ASSUME DeleteJob(c) PROVE TypeOK'
    BY <1>21, CreatedType DEF DeleteJob, TypeOK
  <1>22. ASSUME SubmitFails(c) PROVE TypeOK'
    BY <1>22, FaultType DEF SubmitFails, TypeOK
  <1>23. ASSUME CallerCrashes(c) PROVE TypeOK'
    BY <1>23, FaultType DEF CallerCrashes, TypeOK
  <1> QED
    BY <1>1, <1>2, <1>3, <1>4, <1>5, <1>6, <1>7, <1>8, <1>9, <1>10, <1>11, <1>12, <1>13, <1>14,
       <1>15, <1>16, <1>17, <1>18, <1>19, <1>20, <1>21, <1>22, <1>23
    DEF CallBegins, CallStep, CancelStep

\* The faults of an execution, its delivery, and what happens around it.
LEMMA RunFaultType ==
  ASSUME TypeOK, NEW r \in Runs, RunFault(r)
  PROVE  TypeOK'
  <1>0. row \in Row /\ ctx[r].id \in RqIds
    BY DEF TypeOK, Context
  <1>1. ASSUME SubmitAnswerLost(r) PROVE TypeOK'
    BY <1>1, StepType, FaultType
    DEF SubmitAnswerLost, TypeOK, Reserved, RemoteStatuses, RunPcs, PipelinePcs
  <1>2. ASSUME OwnCancelFails(r) PROVE TypeOK'
    BY <1>2, StepType, FaultType DEF OwnCancelFails, TypeOK, RunPcs, PipelinePcs
  <1>3. ASSUME Raise(r) PROVE TypeOK'
    <2>1. \A p : Handlers(p) \subseteq RunPcs
      BY DEF Handlers, RunPcs, PipelinePcs, HandlerPcs
    <2>2. pc' \in [Runs -> RunPcs]
      BY <1>3, <2>1, StepType DEF Raise
    <2> QED BY <1>3, <2>2, FaultType DEF Raise, TypeOK
  <1>4. ASSUME Crash(r) PROVE TypeOK'
    BY <1>0, <1>4, RowClosed, ForgetType, RqType, FaultType DEF Crash, TypeOK
  <1>5. ASSUME HeartbeatStops(r) PROVE TypeOK'
    <2>1. ctx' \in [Runs -> Context]
      BY <1>5 DEF HeartbeatStops, TypeOK, Context
    <2> QED BY <1>5, <2>1, FaultType DEF HeartbeatStops, TypeOK
  <1> QED BY <1>1, <1>2, <1>3, <1>4, <1>5 DEF RunFault

LEMMA DeliverType ==
  ASSUME TypeOK, NEW r \in Runs, NEW id \in RqIds, Deliver(r, id)
  PROVE  TypeOK'
  <1>1. rq[id].copies - 1 \in Nat
    BY DEF Deliver, TypeOK, RqJob
  <1>2. rq' \in [RqIds -> RqJob]
    <2>1. \A n \in Nat : [rq EXCEPT ![id].state = "started", ![id].copies = n]
                            \in [RqIds -> RqJob]
      BY DEF TypeOK, RqJob
    <2> QED BY <1>1, <2>1 DEF Deliver
  <1>3. ctx' \in [Runs -> Context]
    BY DEF Deliver, TypeOK, Context
  <1> QED BY <1>2, <1>3 DEF Deliver, TypeOK, RunPcs

LEMMA EnvironmentType ==
  ASSUME TypeOK, OutboxLockExpires \/ LeaseExpires \/ RemoteFinishes
  PROVE  TypeOK'
  <1>1. CASE OutboxLockExpires
    BY <1>1 DEF OutboxLockExpires, TypeOK
  <1>2. CASE LeaseExpires
    BY <1>2 DEF LeaseExpires, TypeOK, Row
  <1>3. CASE RemoteFinishes
    BY <1>3 DEF RemoteFinishes, TypeOK, RemoteStatuses
  <1> QED BY <1>1, <1>2, <1>3

LEMMA InitType == Init => TypeOK
  <1> SUFFICES ASSUME Init PROVE TypeOK
    OBVIOUS
  <1>1. row \in Row
    BY DEF Init, Row, UnbornRow
  <1>2. rq \in [RqIds -> RqJob]
    BY DEF Init, NoRqJob, RqJob
  <1>3. ctx \in [Runs -> Context]
    BY NullContext DEF Init
  <1>4. call \in [Callers -> Call]
    BY SystemAssumption DEF Init, NoCall, Call, CallPcs, RqIds
  <1> QED BY <1>1, <1>2, <1>3, <1>4 DEF Init, TypeOK, RunPcs, RemoteStatuses

\* Every variable of the system keeps the type its module gives it, whatever the
\* interleaving of executions, calls and faults.
THEOREM Typing == Spec => []TypeOK
  <1>1. TypeOK /\ [Next]_vars => TypeOK'
    <2> SUFFICES ASSUME TypeOK, [Next]_vars PROVE TypeOK'
      OBVIOUS
    <2>1. CASE \E r \in Runs : RunStep(r) \/ \E id \in RqIds : Deliver(r, id)
      BY <2>1, RunStepType, DeliverType
    <2>2. CASE \E c \in Callers : CallBegins(c) \/ CallStep(c)
      BY <2>2, CallStepType
    <2>3. CASE Environment
      BY <2>3, EnvironmentType, RunFaultType, CallStepType DEF Environment
    <2>4. CASE UNCHANGED vars
      BY <2>4 DEF vars, TypeOK
    <2> QED BY <2>1, <2>2, <2>3, <2>4 DEF Next
  <1> QED BY <1>1, InitType, PTL DEF Spec

----------------------------------------------------------------------------
(* Exclusion.                                                               *)

\* A step that leaves the lease columns alone and starts to cover nothing.
LEMMA LeaseFrame ==
  ASSUME LeaseInv,
         row'.lease_owner = row.lease_owner, row'.lease = row.lease,
         InTable(row)' <=> InTable(row), row'.status = "unborn" => row.status = "unborn",
         \A r \in Runs : Covered(r)' => Covered(r),
         \A r \in Runs : row.lease_owner = r => pc'[r] \notin {"idle", "acquire"}
  PROVE  LeaseInv'
  BY DEF LeaseInv, LeaseCovers, SingleHolder, OwnerIsHere, MissingIsFree, UnbornIsIdle

\* The same for a step of one execution, from one place in run_job to another.
LEMMA StepLease ==
  ASSUME TypeOK, LeaseInv, NEW r \in Runs, NEW from, NEW to, Step(r, from, to),
         row'.lease_owner = row.lease_owner, row'.lease = row.lease,
         InTable(row)' <=> InTable(row), row'.status = "unborn" => row.status = "unborn",
         from \in CoveredPcs \/ to \notin CoveredPcs,
         to \notin {"idle", "acquire"}
  PROVE  LeaseInv'
  <1>1. \A s \in Runs : pc'[s] = IF s = r THEN to ELSE pc[s]
    BY DEF Step, TypeOK
  <1>2. \A s \in Runs : Covered(s)' => Covered(s)
    BY <1>1 DEF Step, Covered
  <1>3. \A s \in Runs : row.lease_owner = s => pc'[s] \notin {"idle", "acquire"}
    BY <1>1 DEF LeaseInv, OwnerIsHere
  <1> QED BY <1>2, <1>3, LeaseFrame

\* A status written by an execution leaves its lease alone.
LEMMA UpdatedLease ==
  ASSUME TypeOK, NEW s \in JobStatuses, CanUpdate(row, s), row' = Updated(row, s)
  PROVE  /\ row'.lease_owner = row.lease_owner /\ row'.lease = row.lease
         /\ InTable(row) /\ InTable(row)' /\ row'.status # "unborn"
  BY DEF TypeOK, Row, Updated, CanUpdate, CanTouch, InTable, JobStatuses,
         ACTIVE_JOB_STATES, TERMINAL_JOB_STATES

LEMMA WriteLease ==
  ASSUME TypeOK, LeaseInv, NEW r \in Runs, NEW from, NEW status \in JobStatuses,
         NEW ok, NEW rejected, Write(r, from, status, ok, rejected),
         from \in CoveredPcs \/ (ok \notin CoveredPcs /\ rejected \notin CoveredPcs),
         ok \notin {"idle", "acquire"}, rejected \notin {"idle", "acquire"}
  PROVE  LeaseInv'
  <1>1. CASE CanUpdate(row, status)
    <2>1. Step(r, from, ok) /\ row' = Updated(row, status)
      BY <1>1 DEF Write
    <2> QED BY <1>1, <2>1, UpdatedLease, StepLease
  <1>2. CASE ~CanUpdate(row, status)
    <2>1. Step(r, from, rejected) /\ row' = row
      BY <1>2 DEF Write
    <2> QED BY <2>1, StepLease DEF InTable
  <1> QED BY <1>1, <1>2

\* The handlers, which go the same way whether the row takes their status or not.
LEMMA HandlerLease ==
  ASSUME TypeOK, LeaseInv, NEW r \in Runs, NEW from, NEW status \in JobStatuses, NEW to,
         Write(r, from, status, to, to), to \notin CoveredPcs, to \notin {"idle", "acquire"}
  PROVE  LeaseInv'
  <1>1. Step(r, from, to)
    BY DEF Write
  <1>2. CASE CanUpdate(row, status)
    BY <1>1, <1>2, UpdatedLease, StepLease DEF Write
  <1>3. CASE ~CanUpdate(row, status)
    BY <1>1, <1>3, StepLease DEF Write, InTable
  <1> QED BY <1>2, <1>3

\* acquire_lease: a row it takes is covered by no execution.
LEMMA AcquireTakesFree ==
  ASSUME LeaseInv, NEW r \in Runs, pc[r] = "acquire", CanAcquire(row, r), NEW s \in Runs
  PROVE  ~Covered(s)
  <1> SUFFICES ASSUME Covered(s) PROVE FALSE
    OBVIOUS
  <1>1. row.lease_owner = s /\ row.lease = "live"
    BY DEF LeaseInv, LeaseCovers, CanAcquire
  <1>2. row.lease_owner = r
    BY <1>1 DEF CanAcquire
  <1> QED BY <1>2 DEF LeaseInv, OwnerIsHere

LEMMA AcquireLeaseInv ==
  ASSUME TypeOK, LeaseInv, NEW r \in Runs, AcquireLease(r)
  PROVE  LeaseInv'
  <1>1. CASE CanAcquire(row, r)
    <2>1. /\ row' = Acquired(row, r) /\ pc' = [pc EXCEPT ![r] = "leased"]
          /\ pc[r] = "acquire" /\ InTable(row)
      BY <1>1 DEF AcquireLease, CanAcquire
    <2>2. \A s \in Runs : ~Covered(s)
      BY <1>1, <2>1, AcquireTakesFree
    <2>3. \A s \in Runs : pc'[s] = IF s = r THEN "leased" ELSE pc[s]
      BY <2>1 DEF TypeOK
    <2>4. /\ row'.lease_owner = r /\ row'.lease = "live" /\ InTable(row)'
          /\ row'.status # "unborn"
      BY <2>1 DEF TypeOK, Row, Acquired, InTable, JobStatuses, ACTIVE_JOB_STATES,
                  TERMINAL_JOB_STATES
    <2>5. \A s \in Runs : Covered(s)' => s = r
      BY <2>2, <2>3 DEF Covered
    <2> QED BY <2>3, <2>4, <2>5
            DEF LeaseInv, LeaseCovers, SingleHolder, OwnerIsHere, MissingIsFree, UnbornIsIdle
  <1>2. CASE ~CanAcquire(row, r)
    <2>1. row' = row /\ pc' = [pc EXCEPT ![r] = "idle"] /\ pc[r] = "acquire"
      BY <1>2 DEF AcquireLease
    <2>2. \A s \in Runs : pc'[s] = IF s = r THEN "idle" ELSE pc[s]
      BY <2>1 DEF TypeOK
    <2>3. \A s \in Runs : Covered(s)' => Covered(s)
      BY <2>2 DEF Covered, CoveredPcs, PipelinePcs
    <2>4. \A s \in Runs : row.lease_owner = s => pc'[s] \notin {"idle", "acquire"}
      BY <2>1, <2>2 DEF LeaseInv, OwnerIsHere
    <2> QED BY <2>1, <2>3, <2>4, LeaseFrame DEF InTable
  <1> QED BY <1>1, <1>2

\* The end of an execution, released or not: the row names it no more, and nobody
\* else is disturbed.
LEMMA EndLeaseInv ==
  ASSUME TypeOK, LeaseInv, NEW r \in Runs, pc' = [pc EXCEPT ![r] = "idle"],
         \/ row' = Abandoned(row, r)
         \/ row' = Released(row, r) /\ ~Covered(r)
  PROVE  LeaseInv'
  <1>1. \A s \in Runs : pc'[s] = IF s = r THEN "idle" ELSE pc[s]
    BY DEF TypeOK
  <1>2. \A s \in Runs : Covered(s)' => Covered(s) /\ s # r
    BY <1>1 DEF Covered, CoveredPcs, PipelinePcs
  <1>3. CASE HoldsLease(row, r)
    <2>1. \A s \in Runs : ~Covered(s)'
      BY <1>2, <1>3 DEF LeaseInv, LeaseCovers, HoldsLease
    <2>2. row'.lease_owner \in {Departed, NoOwner} /\ InTable(row)' /\ row'.status # "unborn"
      BY <1>3 DEF TypeOK, Row, Abandoned, Released, HoldsLease, InTable, JobStatuses,
                  ACTIVE_JOB_STATES, TERMINAL_JOB_STATES
    <2> QED BY <2>1, <2>2, OwnersAssumption
            DEF LeaseInv, LeaseCovers, SingleHolder, OwnerIsHere, MissingIsFree, UnbornIsIdle
  <1>4. CASE ~HoldsLease(row, r)
    <2>1. row' = row
      BY <1>4 DEF Abandoned, Released
    <2>2. row.lease_owner # r
      BY <1>4, OwnersAssumption DEF HoldsLease, LeaseInv, MissingIsFree
    <2>3. \A s \in Runs : row.lease_owner = s => pc'[s] \notin {"idle", "acquire"}
      BY <1>1, <2>2 DEF LeaseInv, OwnerIsHere
    <2> QED BY <1>2, <2>1, <2>3, LeaseFrame DEF InTable
  <1> QED BY <1>3, <1>4

LEMMA RunStepLease ==
  ASSUME TypeOK, LeaseInv, NEW r \in Runs, RunStep(r)
  PROVE  LeaseInv'
  <1> USE DEF CoveredPcs, PipelinePcs
  <1>0. /\ "queued" \in JobStatuses /\ "running" \in JobStatuses /\ "finalizing" \in JobStatuses
        /\ "cancelling" \in JobStatuses /\ "cancelled" \in JobStatuses
        /\ "completed" \in JobStatuses /\ "error" \in JobStatuses
        /\ "ack" \in CoveredPcs /\ "exhaust" \in CoveredPcs /\ "ackBefore" \in CoveredPcs
        /\ "apply" \in CoveredPcs /\ "publish" \in CoveredPcs
        /\ "markCancelled" \in CoveredPcs /\ "markCancelling" \in CoveredPcs
        /\ "localStart" \in CoveredPcs /\ "local" \in CoveredPcs
        /\ "jobExcept" \notin CoveredPcs /\ "reraise" \notin CoveredPcs
    BY DEF JobStatuses, ACTIVE_JOB_STATES, TERMINAL_JOB_STATES
  <1>1. ASSUME AcquireLease(r) PROVE LeaseInv'
    BY <1>1, AcquireLeaseInv
  <1>2. ASSUME SkipJob(r) PROVE LeaseInv'
    BY <1>2, StepLease DEF SkipJob, LeavesAll, InTable
  <1>3. ASSUME EnterPipeline(r) PROVE LeaseInv'
    BY <1>3, StepLease DEF EnterPipeline, LeavesAll, InTable
  <1>4. ASSUME CheckCancel(r) PROVE LeaseInv'
    BY <1>4, StepLease DEF CheckCancel, LeavesAll, InTable
  <1>5. ASSUME SyncUpdate(r) PROVE LeaseInv'
    BY <1>5, StepLease DEF SyncUpdate, LeavesAll, InTable
  <1>6. ASSUME HandleGpuException(r) PROVE LeaseInv'
    BY <1>6, StepLease DEF HandleGpuException, LeavesAll, InTable
  <1>7. ASSUME RecordGpuFailure(r) PROVE LeaseInv'
    BY <1>7, StepLease DEF RecordGpuFailure, LeavesAll, InTable
  <1>8. ASSUME CheckLeaseLost(r) PROVE LeaseInv'
    BY <1>8, StepLease DEF CheckLeaseLost, LeavesAll, InTable
  <1>9. ASSUME HandleJobException(r) PROVE LeaseInv'
    BY <1>9, StepLease DEF HandleJobException, LeavesAll, InTable
  <1>10. ASSUME StartPipeline(r) PROVE LeaseInv'
    BY <1>10, StepLease DEF StartPipeline, InTable
  <1>11. ASSUME Submit(r) PROVE LeaseInv'
    BY <1>11, StepLease DEF Submit, InTable
  <1>12. ASSUME Poll(r) PROVE LeaseInv'
    BY <1>12, StepLease DEF Poll, InTable
  <1>13. ASSUME CancelOwnRemote(r) PROVE LeaseInv'
    BY <1>13, StepLease DEF CancelOwnRemote, InTable
  <1> HIDE DEF CoveredPcs, PipelinePcs
  <1>14. ASSUME AckCancel(r) PROVE LeaseInv'
    BY <1>0, <1>14, WriteLease DEF AckCancel
  <1>15. ASSUME ExhaustAttempts(r) PROVE LeaseInv'
    BY <1>0, <1>15, WriteLease DEF ExhaustAttempts
  <1>16. ASSUME AckBeforeSubmit(r) PROVE LeaseInv'
    BY <1>0, <1>16, WriteLease DEF AckBeforeSubmit
  <1>17. ASSUME ApplyUpdate(r) PROVE LeaseInv'
    BY <1>0, <1>17, WriteLease DEF ApplyUpdate
  <1>18. ASSUME PublishRemote(r) PROVE LeaseInv'
    BY <1>0, <1>18, WriteLease DEF PublishRemote
  <1>19. ASSUME MarkCancelled(r) PROVE LeaseInv'
    BY <1>0, <1>19, WriteLease DEF MarkCancelled
  <1>20. ASSUME MarkCancelling(r) PROVE LeaseInv'
    BY <1>0, <1>20, WriteLease DEF MarkCancelling
  <1>21. ASSUME StartLocal(r) PROVE LeaseInv'
    BY <1>0, <1>21, WriteLease DEF StartLocal
  <1>22. ASSUME PublishLocal(r) PROVE LeaseInv'
    BY <1>0, <1>22, WriteLease DEF PublishLocal
  <1>23. ASSUME HandlePipelineException(r) PROVE LeaseInv'
    <2>1. Write(r, "pipeExcept", "error", "jobExcept", "jobExcept")
      BY <1>23 DEF HandlePipelineException
    <2> QED BY <1>0, <2>1, HandlerLease
  <1>24. ASSUME RequeueJob(r) PROVE LeaseInv'
    <2>1. Write(r, "requeue", "queued", "reraise", "reraise")
      BY <1>24 DEF RequeueJob
    <2> QED BY <1>0, <2>1, HandlerLease
  <1>25. ASSUME FailJob(r) PROVE LeaseInv'
    <2>1. Write(r, "fail", "error", "reraise", "reraise")
      BY <1>25 DEF FailJob
    <2> QED BY <1>0, <2>1, HandlerLease
  <1>26. ASSUME RecordSubmission(r) PROVE LeaseInv'
    <2>1. CASE CanUpdate(row, "running")
      <3>1. "running" \in JobStatuses
        BY DEF JobStatuses, ACTIVE_JOB_STATES
      <3>2. /\ InTable(row) /\ InTable(row)' /\ row'.status # "unborn"
            /\ row'.lease_owner = row.lease_owner /\ row'.lease = row.lease
        BY <1>26, <2>1, <3>1
        DEF RecordSubmission, TypeOK, Row, Updated, CanUpdate, CanTouch, InTable,
            JobStatuses, ACTIVE_JOB_STATES, TERMINAL_JOB_STATES
      <3> QED BY <1>26, <3>2, StepLease DEF RecordSubmission, CoveredPcs, PipelinePcs
    <2>2. CASE ~CanUpdate(row, "running")
      BY <1>26, <2>2, StepLease DEF RecordSubmission, InTable, CoveredPcs, PipelinePcs
    <2> QED BY <2>1, <2>2
  <1>27. ASSUME ReleaseLease(r) PROVE LeaseInv'
    BY <1>27, EndLeaseInv DEF ReleaseLease, Covered, CoveredPcs, PipelinePcs
  <1> QED
    BY <1>1, <1>2, <1>3, <1>4, <1>5, <1>6, <1>7, <1>8, <1>9, <1>10, <1>11, <1>12, <1>13, <1>14,
       <1>15, <1>16, <1>17, <1>18, <1>19, <1>20, <1>21, <1>22, <1>23, <1>24, <1>25, <1>26, <1>27
    DEF RunStep

LEMMA RunFaultLease ==
  ASSUME TypeOK, LeaseInv, NEW r \in Runs, RunFault(r)
  PROVE  LeaseInv'
  <1> USE DEF CoveredPcs, PipelinePcs
  <1>1. ASSUME SubmitAnswerLost(r) PROVE LeaseInv'
    BY <1>1, StepLease DEF SubmitAnswerLost, InTable
  <1>2. ASSUME OwnCancelFails(r) PROVE LeaseInv'
    BY <1>2, StepLease DEF OwnCancelFails, InTable
  <1>3. ASSUME Raise(r) PROVE LeaseInv'
    <2>1. PICK handler \in Handlers(pc[r]) : Step(r, pc[r], handler)
      BY <1>3 DEF Raise
    <2>2. /\ handler \notin {"idle", "acquire"}
          /\ pc[r] \in CoveredPcs \/ handler \notin CoveredPcs
      BY <2>1 DEF Handlers
    <2> QED BY <1>3, <2>1, <2>2, StepLease DEF Raise, InTable
  <1>4. ASSUME Crash(r) PROVE LeaseInv'
    BY <1>4, EndLeaseInv DEF Crash
  <1>5. ASSUME HeartbeatStops(r) PROVE LeaseInv'
    BY <1>5, LeaseFrame DEF HeartbeatStops, Covered, InTable, LeaseInv, OwnerIsHere
  <1> QED BY <1>1, <1>2, <1>3, <1>4, <1>5 DEF RunFault

LEMMA DeliverLease ==
  ASSUME TypeOK, LeaseInv, NEW r \in Runs, NEW id \in RqIds, Deliver(r, id)
  PROVE  LeaseInv'
  <1>1. \A s \in Runs : pc'[s] = IF s = r THEN "acquire" ELSE pc[s]
    BY DEF Deliver, TypeOK
  <1>2. \A s \in Runs : Covered(s)' => Covered(s)
    BY <1>1 DEF Covered, CoveredPcs, PipelinePcs
  <1>3. \A s \in Runs : row.lease_owner = s => pc'[s] \notin {"idle", "acquire"}
    BY <1>1 DEF Deliver, LeaseInv, OwnerIsHere
  <1> QED BY <1>2, <1>3, LeaseFrame DEF Deliver, InTable

\* The control plane moves the row and no execution, but for the ones it stops.
LEMMA CallLease ==
  ASSUME TypeOK, LeaseInv, NEW c \in Callers,
         CallBegins(c) \/ CallStep(c) \/ SubmitFails(c) \/ CallerCrashes(c)
  PROVE  LeaseInv'
  <1>0. JobStatuses = {"queued", "running", "finalizing", "cancelling", "completed", "error",
                       "failed", "cancelled"}
    BY DEF JobStatuses, ACTIVE_JOB_STATES, TERMINAL_JOB_STATES
  <1>1. ASSUME UNCHANGED <<row, pc>> PROVE LeaseInv'
    BY <1>1, LeaseFrame DEF Covered, InTable, LeaseInv, OwnerIsHere
  <1>2. ASSUME NEW s \in JobStatuses, CanUpdate(row, s), row' = Updated(row, s), pc' = pc
        PROVE  LeaseInv'
    BY <1>2, UpdatedLease, LeaseFrame DEF Covered, LeaseInv, OwnerIsHere
  <1>3. ASSUME Create(c) PROVE LeaseInv'
    <2>1. /\ row'.lease_owner = row.lease_owner /\ row'.lease = row.lease
          /\ InTable(row)' /\ row'.status # "unborn"
      BY <1>0, <1>3 DEF Create, Created, TypeOK, Row, InTable
    <2>2. \A r \in Runs : ~Covered(r)'
      BY <1>3 DEF Create, Covered, LeaseInv, UnbornIsIdle
    <2>3. \A r \in Runs : row'.lease_owner = r => pc'[r] \notin {"idle", "acquire"}
      BY <1>3, <2>1 DEF Create, LeaseInv, OwnerIsHere
    <2> QED BY <2>1, <2>2, <2>3
            DEF LeaseInv, LeaseCovers, SingleHolder, OwnerIsHere, MissingIsFree, UnbornIsIdle
  <1>4. ASSUME SetCancelFlag(c) PROVE LeaseInv'
    <2>1. row' = CancelRequested(row) /\ pc' = pc /\ InTable(row)
      BY <1>4 DEF SetCancelFlag
    <2>2. /\ row'.lease_owner = row.lease_owner /\ row'.lease = row.lease
          /\ InTable(row)' /\ row'.status # "unborn"
      BY <1>0, <2>1 DEF CancelRequested, CancelTarget, TypeOK, Row, InTable
    <2> QED BY <2>1, <2>2, LeaseFrame DEF Covered, LeaseInv, OwnerIsHere
  <1>5. ASSUME RequeueUndispatched(c) PROVE LeaseInv'
    BY <1>0, <1>1, <1>2, <1>5 DEF RequeueUndispatched
  <1>6. ASSUME ConfirmCancelled(c) PROVE LeaseInv'
    BY <1>0, <1>1, <1>2, <1>6 DEF ConfirmCancelled
  <1>7. ASSUME Exhaust(c) PROVE LeaseInv'
    BY <1>0, <1>1, <1>2, <1>7 DEF Exhaust
  <1>8. ASSUME Revive(c) PROVE LeaseInv'
    BY <1>0, <1>1, <1>2, <1>8 DEF Revive
  <1>9. ASSUME StopStarted(c) PROVE LeaseInv'
    <2>1. PICK r \in Runs : row' = Abandoned(row, r) /\ pc' = [pc EXCEPT ![r] = "idle"]
      BY <1>9 DEF StopStarted
    <2> QED BY <2>1, EndLeaseInv
  <1>10. ASSUME DeleteJob(c), InTable(row) PROVE LeaseInv'
    <2>1. row' = DeletedRow /\ pc' = pc
      BY <1>10 DEF DeleteJob
    <2>2. row'.lease_owner = NoOwner /\ ~InTable(row)' /\ row'.status # "unborn"
      BY <1>0, <2>1 DEF DeletedRow, UnbornRow, InTable
    <2> QED BY <2>1, <2>2, OwnersAssumption
            DEF Covered, LeaseInv, LeaseCovers, SingleHolder, OwnerIsHere, MissingIsFree,
                UnbornIsIdle
  <1>11. ASSUME DeleteJob(c), ~InTable(row) PROVE LeaseInv'
    BY <1>1, <1>11 DEF DeleteJob
  <1>12. ASSUME ClaimDispatch(c) \/ Resume(c) PROVE LeaseInv'
    BY <1>1, <1>12 DEF ClaimDispatch, Resume
  <1>13. ASSUME Reconcile(c) \/ BeginDelete(c) \/ CancelMissingJob(c) PROVE LeaseInv'
    BY <1>1, <1>13 DEF Reconcile, BeginDelete, CancelMissingJob, CallOnly
  <1>14. ASSUME FetchRqJob(c) \/ PushRqJob(c) \/ MarkDispatched(c) \/ StampDispatchId(c)
                \/ UndoDispatch(c)
         PROVE  LeaseInv'
    BY <1>1, <1>14 DEF FetchRqJob, PushRqJob, MarkDispatched, StampDispatchId, UndoDispatch
  <1>15. ASSUME CancelRemote(c) \/ CancelQueued(c) \/ SubmitFails(c) \/ CallerCrashes(c)
         PROVE  LeaseInv'
    BY <1>1, <1>15 DEF CancelRemote, CancelQueued, SubmitFails, CallerCrashes
  <1> QED
    BY <1>3, <1>4, <1>5, <1>6, <1>7, <1>8, <1>9, <1>10, <1>11, <1>12, <1>13, <1>14, <1>15
    DEF CallBegins, CallStep, CancelStep, RequestCancel, CancelAgain

\* A lease runs out only under an execution that is past the pipeline.
LEMMA ExpiryLease ==
  ASSUME LeaseOutlivesRun, TypeOK, LeaseInv, LeaseExpires
  PROVE  LeaseInv'
  <1>1. /\ row'.lease_owner = row.lease_owner /\ row'.status = row.status /\ pc' = pc
    BY DEF LeaseExpires, TypeOK, Row
  <1>2. ASSUME NEW r \in Runs, Covered(r), InTable(row) PROVE FALSE
    <2>1. pc[r] \in HandlerPcs
      BY <1>2 DEF LeaseExpires, LeaseInv, LeaseCovers
    <2> QED BY <1>2, <2>1 DEF Covered, CoveredPcs, PipelinePcs, HandlerPcs
  <1> QED BY <1>1, <1>2
          DEF Covered, InTable, LeaseInv, LeaseCovers, SingleHolder, OwnerIsHere,
              MissingIsFree, UnbornIsIdle

LEMMA InitLease == Init => LeaseInv
  BY OwnersAssumption
  DEF Init, LeaseInv, LeaseCovers, SingleHolder, OwnerIsHere, MissingIsFree, UnbornIsIdle,
      Covered, CoveredPcs, PipelinePcs, UnbornRow

\* Whatever is executed, retried, recovered, cancelled, stopped or deleted in
\* between: from acquire_lease until it leaves the pipeline an execution is the
\* only one, and the row, while there is one, names it with a lease that has not
\* run out.  The assumption is the deployment's: JOB_LEASE_SECONDS is at least
\* JOB_EXECUTION_TIMEOUT.
THEOREM LeaseExclusion ==
  ASSUME LeaseOutlivesRun
  PROVE  Spec => []LeaseInv
  <1>1. TypeOK /\ LeaseInv /\ [Next]_vars => LeaseInv'
    <2> SUFFICES ASSUME TypeOK, LeaseInv, [Next]_vars PROVE LeaseInv'
      OBVIOUS
    <2>1. CASE \E r \in Runs : RunStep(r) \/ \E id \in RqIds : Deliver(r, id)
      BY <2>1, RunStepLease, DeliverLease
    <2>2. CASE \E c \in Callers : CallBegins(c) \/ CallStep(c)
      BY <2>2, CallLease
    <2>3. ASSUME OutboxLockExpires \/ RemoteFinishes \/ UNCHANGED vars PROVE LeaseInv'
      BY <2>3, LeaseFrame
      DEF OutboxLockExpires, RemoteFinishes, vars, Covered, InTable, LeaseInv, OwnerIsHere
    <2>4. CASE Environment
      BY <2>3, <2>4, ExpiryLease, RunFaultLease, CallLease DEF Environment
    <2> QED BY <2>1, <2>2, <2>3, <2>4 DEF Next
  <1> QED BY <1>1, InitLease, Typing, PTL DEF Spec

\* No two workers are in the pipeline of a job at a time, however many deliveries,
\* retries and recoveries of it there are (run_job).
THEOREM OneExecution ==
  ASSUME LeaseOutlivesRun
  PROVE  Spec => []SingleExecution
  <1>1. LeaseInv => SingleExecution
    BY DEF LeaseInv, SingleHolder, SingleExecution, Executing, Covered, CoveredPcs
  <1> QED BY <1>1, LeaseExclusion, PTL

\* Who completes a job: an execution that publishes.
LEMMA WhoCompletes ==
  ASSUME TypeOK, [Next]_vars, row.status # "completed", row'.status = "completed"
  PROVE  CanUpdate(row, "completed") /\ \E r \in Runs : pc[r] \in {"publish", "local"}
  <1>0. row \in Row
    BY DEF TypeOK
  <1>1. /\ \A s : row' = Updated(row, s) => s = "completed"
        /\ row' # row /\ row' # Created(row) /\ row' # DeletedRow
        /\ row' # CancelRequested(row) /\ row' # [row EXCEPT !.lease = "expired"]
        /\ row' # [Updated(row, "running") EXCEPT !.gpu_worker_job_id = TRUE]
        /\ \A r \in Runs : row' # Acquired(row, r) /\ row' # Released(row, r)
                          /\ row' # Abandoned(row, r)
    BY <1>0 DEF Row, Updated, Created, DeletedRow, UnbornRow, CancelRequested, CancelTarget,
                Acquired, Released, Abandoned
  <1>2. ASSUME NEW r \in Runs, NEW from, NEW status, NEW ok, NEW rejected,
               Write(r, from, status, ok, rejected)
        PROVE  status = "completed" /\ CanUpdate(row, status) /\ pc[r] = from
    BY <1>1, <1>2 DEF Write, Step
  <1>3. ASSUME NEW r \in Runs, RunStep(r)
        PROVE  PublishRemote(r) \/ PublishLocal(r)
    <2>1. ~AcquireLease(r) /\ ~ReleaseLease(r) /\ ~RecordSubmission(r)
      BY <1>1 DEF AcquireLease, ReleaseLease, RecordSubmission
    <2>2. /\ ~SkipJob(r) /\ ~EnterPipeline(r) /\ ~CheckCancel(r) /\ ~SyncUpdate(r)
          /\ ~HandleGpuException(r) /\ ~RecordGpuFailure(r) /\ ~CheckLeaseLost(r)
          /\ ~HandleJobException(r)
      BY <1>1 DEF SkipJob, EnterPipeline, CheckCancel, SyncUpdate, HandleGpuException,
                  RecordGpuFailure, CheckLeaseLost, HandleJobException, LeavesAll
    <2>3. ~StartPipeline(r) /\ ~Submit(r) /\ ~Poll(r) /\ ~CancelOwnRemote(r)
      BY <1>1 DEF StartPipeline, Submit, Poll, CancelOwnRemote
    <2>4. ~AckCancel(r) /\ ~ExhaustAttempts(r) /\ ~AckBeforeSubmit(r) /\ ~ApplyUpdate(r)
      BY <1>2 DEF AckCancel, ExhaustAttempts, AckBeforeSubmit, ApplyUpdate
    <2>5. ~MarkCancelled(r) /\ ~MarkCancelling(r) /\ ~StartLocal(r)
      BY <1>2 DEF MarkCancelled, MarkCancelling, StartLocal
    <2>6. ~HandlePipelineException(r) /\ ~RequeueJob(r) /\ ~FailJob(r)
      BY <1>2 DEF HandlePipelineException, RequeueJob, FailJob
    <2> QED BY <1>3, <2>1, <2>2, <2>3, <2>4, <2>5, <2>6 DEF RunStep
  <1>4. ASSUME NEW r \in Runs, RunStep(r)
        PROVE  CanUpdate(row, "completed") /\ pc[r] \in {"publish", "local"}
    BY <1>2, <1>3, <1>4 DEF PublishRemote, PublishLocal
  <1>5. ~(\E r \in Runs : RunFault(r) \/ (\E id \in RqIds : Deliver(r, id)))
    BY <1>1 DEF RunFault, SubmitAnswerLost, OwnCancelFails, Raise, Crash, HeartbeatStops, Deliver
  <1>6. ~(OutboxLockExpires \/ LeaseExpires \/ RemoteFinishes \/ UNCHANGED vars)
    BY <1>1 DEF OutboxLockExpires, LeaseExpires, RemoteFinishes, vars
  <1>7. ASSUME NEW c \in Callers
        PROVE  ~(CallBegins(c) \/ SubmitFails(c) \/ CallerCrashes(c))
    BY <1>1 DEF CallBegins, Create, ClaimDispatch, RequestCancel, SetCancelFlag, Reconcile,
                Resume, BeginDelete, CallOnly, SubmitFails, CallerCrashes
  <1>8. ASSUME NEW c \in Callers
        PROVE  ~CallStep(c)
    <2>1. ~FetchRqJob(c) /\ ~PushRqJob(c) /\ ~MarkDispatched(c) /\ ~StampDispatchId(c)
          /\ ~UndoDispatch(c)
      BY <1>1 DEF FetchRqJob, PushRqJob, MarkDispatched, StampDispatchId, UndoDispatch
    <2>2. ~RequeueUndispatched(c) /\ ~Exhaust(c) /\ ~Revive(c) /\ ~DeleteJob(c)
      BY <1>1 DEF RequeueUndispatched, Exhaust, Revive, DeleteJob
    <2>3. ~CancelStep(c)
      BY <1>1 DEF CancelStep, CancelRemote, ConfirmCancelled, StopStarted, CancelQueued,
                  CancelAgain, SetCancelFlag, CancelMissingJob, CallOnly
    <2> QED BY <2>1, <2>2, <2>3 DEF CallStep
  <1> QED BY <1>4, <1>5, <1>6, <1>7, <1>8 DEF Next, Environment

\* A worker that was overtaken never publishes over its successor: the execution
\* that completes a job holds the job's lease (the final _update_status of both
\* pipelines).
THEOREM CompletionIsOwned ==
  ASSUME LeaseOutlivesRun
  PROVE  Spec => CompletedByOwner
  <1>1. TypeOK /\ LeaseInv /\ [Next]_vars
          => [row.status # "completed" /\ row'.status = "completed"
                => \E r \in Runs : Executing(r) /\ HoldsLease(row, r)]_vars
    <2> SUFFICES ASSUME TypeOK, LeaseInv, [Next]_vars, row.status # "completed",
                        row'.status = "completed"
                 PROVE  \E r \in Runs : Executing(r) /\ HoldsLease(row, r)
      OBVIOUS
    <2>1. PICK r \in Runs : InTable(row) /\ pc[r] \in {"publish", "local"}
      BY WhoCompletes DEF CanUpdate, CanTouch
    <2>2. Executing(r) /\ Covered(r)
      BY <2>1 DEF Executing, Covered, CoveredPcs, PipelinePcs
    <2> QED BY <2>1, <2>2 DEF LeaseInv, LeaseCovers, HoldsLease
  <1> QED BY <1>1, Typing, LeaseExclusion, PTL DEF Spec, CompletedByOwner

----------------------------------------------------------------------------
(* Attempts.  The row counts the attempts, and while it has not been deleted *)
(* no execution remembers, and none has used, a number it has not reached.   *)

Counted == row.status # "deleted" =>
  /\ \A n \in executed : n <= row.attempt
  /\ \A r \in Runs : ctx[r].attempt <= row.attempt

Leased(r) == pc[r] = "leased"

Fresh == \A r \in Runs : Leased(r) =>
  /\ ctx[r].attempt > 0 /\ ctx[r].attempt \notin executed
  /\ \A s \in Runs : Leased(s) /\ ctx[s].attempt = ctx[r].attempt => s = r

AttemptsInv == executed \subseteq 1 .. JOB_MAX_ATTEMPTS /\ Counted /\ Fresh

\* A step that counts no attempt and starts no pipeline.
LEMMA AttemptsFrame ==
  ASSUME AttemptsInv, executed' = executed,
         row'.status = "deleted" \/ (row.status # "deleted" /\ row'.attempt = row.attempt),
         \A r \in Runs : ctx'[r].attempt = ctx[r].attempt \/ ctx'[r] = NoContext,
         \A r \in Runs : Leased(r)' => Leased(r) /\ ctx'[r].attempt = ctx[r].attempt,
         row \in Row
  PROVE  AttemptsInv'
  <1>1. Counted'
    BY DEF AttemptsInv, Counted, NoContext, Row
  <1>2. Fresh'
    BY DEF AttemptsInv, Fresh
  <1> QED BY <1>1, <1>2 DEF AttemptsInv

\* What the statements do to the count.
LEMMA CountKept ==
  ASSUME NEW w \in Row
  PROVE  /\ \A s \in JobStatuses : /\ Updated(w, s).attempt = w.attempt
                                  /\ Updated(w, s).status # "deleted"
         /\ \A o \in Runs : /\ Released(w, o).attempt = w.attempt
                           /\ Released(w, o).status = w.status
                           /\ Abandoned(w, o).attempt = w.attempt
                           /\ Abandoned(w, o).status = w.status
         /\ Created(w).attempt = w.attempt
         /\ CancelRequested(w).attempt = w.attempt
         /\ [w EXCEPT !.lease = "expired"].attempt = w.attempt
         /\ [w EXCEPT !.lease = "expired"].status = w.status
  <1>1. "deleted" \notin JobStatuses
    BY DEF JobStatuses, ACTIVE_JOB_STATES, TERMINAL_JOB_STATES
  <1> QED BY <1>1 DEF Row, Updated, Released, Abandoned, Created, CancelRequested

\* A step of an execution from one place to another, not into "leased".
LEMMA StepAttempts ==
  ASSUME TypeOK, AttemptsInv, NEW r \in Runs, NEW from, NEW to, Step(r, from, to),
         to # "leased", executed' = executed,
         row'.attempt = row.attempt, row'.status = "deleted" <=> row.status = "deleted",
         \A s \in Runs : ctx'[s].attempt = ctx[s].attempt
  PROVE  AttemptsInv'
  <1>1. \A s \in Runs : Leased(s)' => Leased(s)
    BY DEF Step, Leased, TypeOK
  <1>2. row \in Row
    BY DEF TypeOK
  <1> QED BY <1>1, <1>2, AttemptsFrame

LEMMA WriteAttempts ==
  ASSUME TypeOK, AttemptsInv, NEW r \in Runs, NEW from, NEW status \in JobStatuses,
         NEW ok, NEW rejected, Write(r, from, status, ok, rejected),
         UNCHANGED <<ctx, executed>>, ok # "leased", rejected # "leased"
  PROVE  AttemptsInv'
  <1>1. executed' = executed /\ ctx' = ctx
    OBVIOUS
  <1>2. /\ row'.attempt = row.attempt
        /\ row'.status = "deleted" <=> row.status = "deleted"
    BY CountKept DEF Write, CanUpdate, CanTouch, InTable, JobStatuses, ACTIVE_JOB_STATES,
                     TERMINAL_JOB_STATES, TypeOK
  <1>3. Step(r, from, ok) \/ Step(r, from, rejected)
    BY DEF Write
  <1> QED BY <1>1, <1>2, <1>3, StepAttempts

LEMMA AcquireAttempts ==
  ASSUME TypeOK, AttemptsInv, NEW r \in Runs, AcquireLease(r)
  PROVE  AttemptsInv'
  <1>0. row \in Row /\ row.attempt \in Nat /\ \A s \in Runs : ctx[s].attempt \in Nat
    BY DEF TypeOK, Row, Context
  <1>1. CASE CanAcquire(row, r)
    <2>1. /\ row'.attempt = row.attempt + 1 /\ row'.status = row.status
          /\ row.status # "deleted"
      BY <1>0, <1>1 DEF AcquireLease, Acquired, CanAcquire, InTable, JobStatuses,
                        ACTIVE_JOB_STATES, TERMINAL_JOB_STATES, Row
    <2>2. \A s \in Runs : ctx'[s].attempt = IF s = r THEN row.attempt + 1 ELSE ctx[s].attempt
      BY <1>1, <2>1 DEF AcquireLease, TypeOK, Context
    <2>3. \A s \in Runs : Leased(s)' => s = r \/ Leased(s)
      BY <1>1 DEF AcquireLease, TypeOK, Leased
    <2>4. executed' = executed /\ executed \subseteq Nat
      BY DEF AcquireLease, TypeOK
    <2>5. Counted /\ Fresh
      BY DEF AttemptsInv
    <2>6. /\ \A n \in executed : n <= row.attempt
          /\ \A s \in Runs : ctx[s].attempt <= row.attempt
      BY <2>1, <2>5 DEF Counted
    <2>7. Counted'
      BY <1>0, <2>1, <2>2, <2>4, <2>6 DEF Counted
    <2>8. row.attempt + 1 > 0 /\ row.attempt + 1 \notin executed
      BY <1>0, <2>4, <2>6
    <2>9. \A s \in Runs : ctx[s].attempt # row.attempt + 1
      BY <1>0, <2>6
    <2>10. ASSUME NEW s \in Runs, Leased(s)'
           PROVE  /\ ctx'[s].attempt > 0 /\ ctx'[s].attempt \notin executed'
                  /\ \A t \in Runs : Leased(t)' /\ ctx'[t].attempt = ctx'[s].attempt => t = s
      <3>1. CASE s = r
        BY <2>2, <2>3, <2>4, <2>8, <2>9, <3>1
      <3>2. CASE s # r
        BY <2>2, <2>3, <2>4, <2>5, <2>9, <2>10, <3>2 DEF Fresh
      <3> QED BY <3>1, <3>2
    <2>11. Fresh'
      BY <2>10 DEF Fresh
    <2> QED BY <2>4, <2>7, <2>11 DEF AttemptsInv
  <1>2. CASE ~CanAcquire(row, r)
    <2>1. /\ row' = row /\ executed' = executed
          /\ pc' = [pc EXCEPT ![r] = "idle"] /\ ctx' = [ctx EXCEPT ![r] = NoContext]
      BY <1>2 DEF AcquireLease
    <2>2. \A s \in Runs : /\ ctx'[s] = ctx[s] \/ ctx'[s] = NoContext
                         /\ Leased(s)' => Leased(s) /\ ctx'[s] = ctx[s]
      BY <2>1 DEF TypeOK, Leased
    <2> QED BY <1>0, <2>1, <2>2, AttemptsFrame
  <1> QED BY <1>1, <1>2

\* The one place where an attempt is used.
LEMMA StartAttempts ==
  ASSUME TypeOK, AttemptsInv, NEW r \in Runs, StartPipeline(r)
  PROVE  AttemptsInv'
  <1>0. row.attempt \in Nat /\ ctx[r].attempt \in Nat /\ JOB_MAX_ATTEMPTS \in Nat
    BY SystemAssumption DEF TypeOK, Row, Context
  <1>1. /\ Leased(r) /\ row' = row /\ ctx' = ctx
        /\ executed' = executed \union {ctx[r].attempt} /\ row.attempt <= JOB_MAX_ATTEMPTS
        /\ row.status # "deleted"
    BY DEF StartPipeline, Step, Leased, InTable, JobStatuses, ACTIVE_JOB_STATES,
           TERMINAL_JOB_STATES
  <1>2. \A s \in Runs : Leased(s)' => Leased(s) /\ s # r
    BY DEF StartPipeline, Step, Leased, TypeOK
  <1>3. ctx[r].attempt <= row.attempt /\ ctx[r].attempt > 0
    BY <1>1 DEF AttemptsInv, Counted, Fresh
  <1>4. executed' \subseteq 1 .. JOB_MAX_ATTEMPTS
    <2>1. ctx[r].attempt \in 1 .. JOB_MAX_ATTEMPTS
      BY <1>0, <1>1, <1>3
    <2> QED BY <1>1, <2>1 DEF AttemptsInv
  <1>5. Counted'
    BY <1>1, <1>3 DEF AttemptsInv, Counted
  <1>6. Fresh'
    BY <1>1, <1>2 DEF AttemptsInv, Fresh
  <1> QED BY <1>4, <1>5, <1>6 DEF AttemptsInv

\* The end of an execution.
LEMMA EndAttempts ==
  ASSUME TypeOK, AttemptsInv, NEW r \in Runs, pc' = [pc EXCEPT ![r] = "idle"],
         ctx' = [ctx EXCEPT ![r] = NoContext], executed' = executed,
         row' = Abandoned(row, r) \/ row' = Released(row, r)
  PROVE  AttemptsInv'
  <1>1. row \in Row /\ row'.attempt = row.attempt /\ row'.status = row.status
    BY CountKept DEF TypeOK
  <1>2. \A s \in Runs : /\ ctx'[s] = ctx[s] \/ ctx'[s] = NoContext
                       /\ Leased(s)' => Leased(s) /\ ctx'[s] = ctx[s]
    BY DEF TypeOK, Leased
  <1> QED BY <1>1, <1>2, AttemptsFrame

LEMMA RunStepAttempts ==
  ASSUME TypeOK, AttemptsInv, NEW r \in Runs, RunStep(r)
  PROVE  AttemptsInv'
  <1>0. /\ "queued" \in JobStatuses /\ "running" \in JobStatuses /\ "finalizing" \in JobStatuses
        /\ "cancelling" \in JobStatuses /\ "cancelled" \in JobStatuses
        /\ "completed" \in JobStatuses /\ "error" \in JobStatuses
    BY DEF JobStatuses, ACTIVE_JOB_STATES, TERMINAL_JOB_STATES
  <1>1. ASSUME AcquireLease(r) PROVE AttemptsInv'
    BY <1>1, AcquireAttempts
  <1>2. ASSUME StartPipeline(r) PROVE AttemptsInv'
    BY <1>2, StartAttempts
  <1>3. ASSUME ReleaseLease(r) PROVE AttemptsInv'
    BY <1>3, EndAttempts DEF ReleaseLease
  <1>4. ASSUME RecordSubmission(r) PROVE AttemptsInv'
    <2>1. \E to \in {"gpuExcept", "sync", "poll"} : Step(r, "record", to)
      BY <1>4 DEF RecordSubmission
    <2>2. row'.attempt = row.attempt
      BY <1>4 DEF RecordSubmission, Updated, TypeOK, Row
    <2>3. row'.status = "deleted" <=> row.status = "deleted"
      BY <1>4 DEF RecordSubmission, Updated, CanUpdate, CanTouch, InTable, JobStatuses,
                  ACTIVE_JOB_STATES, TERMINAL_JOB_STATES, TypeOK, Row
    <2>4. executed' = executed /\ ctx' = ctx
      BY <1>4 DEF RecordSubmission, LeavesOthers
    <2> QED BY <2>1, <2>2, <2>3, <2>4, StepAttempts
  <1>5. ASSUME Submit(r) \/ Poll(r) PROVE AttemptsInv'
    <2>1. ctx \in [Runs -> Context]
      BY DEF TypeOK
    <2>2. CASE Submit(r)
      <3>1. \A s \in Runs : ctx'[s].attempt = ctx[s].attempt
        BY <2>1, <2>2 DEF Submit, Context
      <3> QED BY <2>2, <3>1, StepAttempts DEF Submit
    <2>3. CASE Poll(r)
      <3>1. \A s \in Runs : ctx'[s].attempt = ctx[s].attempt
        BY <2>1, <2>3 DEF Poll, Context
      <3> QED BY <2>3, <3>1, StepAttempts DEF Poll
    <2> QED BY <1>5, <2>2, <2>3
  <1>6. ASSUME CancelOwnRemote(r) PROVE AttemptsInv'
    BY <1>6, StepAttempts DEF CancelOwnRemote
  <1>7. ASSUME SkipJob(r) PROVE AttemptsInv'
    BY <1>7, StepAttempts DEF SkipJob, LeavesAll
  <1>8. ASSUME EnterPipeline(r) PROVE AttemptsInv'
    BY <1>8, StepAttempts DEF EnterPipeline, LeavesAll
  <1>9. ASSUME CheckCancel(r) PROVE AttemptsInv'
    BY <1>9, StepAttempts DEF CheckCancel, LeavesAll
  <1>10. ASSUME SyncUpdate(r) PROVE AttemptsInv'
    BY <1>10, StepAttempts DEF SyncUpdate, LeavesAll
  <1>11. ASSUME HandleGpuException(r) PROVE AttemptsInv'
    BY <1>11, StepAttempts DEF HandleGpuException, LeavesAll
  <1>12. ASSUME RecordGpuFailure(r) PROVE AttemptsInv'
    BY <1>12, StepAttempts DEF RecordGpuFailure, LeavesAll
  <1>13. ASSUME CheckLeaseLost(r) PROVE AttemptsInv'
    BY <1>13, StepAttempts DEF CheckLeaseLost, LeavesAll
  <1>14. ASSUME HandleJobException(r) PROVE AttemptsInv'
    BY <1>14, StepAttempts DEF HandleJobException, LeavesAll
  <1>15. ASSUME AckCancel(r) PROVE AttemptsInv'
    BY <1>0, <1>15, WriteAttempts DEF AckCancel, LeavesOthers
  <1>16. ASSUME ExhaustAttempts(r) PROVE AttemptsInv'
    BY <1>0, <1>16, WriteAttempts DEF ExhaustAttempts, LeavesOthers
  <1>17. ASSUME AckBeforeSubmit(r) PROVE AttemptsInv'
    BY <1>0, <1>17, WriteAttempts DEF AckBeforeSubmit, LeavesOthers
  <1>18. ASSUME ApplyUpdate(r) PROVE AttemptsInv'
    BY <1>0, <1>18, WriteAttempts DEF ApplyUpdate, LeavesOthers
  <1>19. ASSUME PublishRemote(r) PROVE AttemptsInv'
    BY <1>0, <1>19, WriteAttempts DEF PublishRemote, LeavesOthers
  <1>20. ASSUME MarkCancelled(r) PROVE AttemptsInv'
    BY <1>0, <1>20, WriteAttempts DEF MarkCancelled, LeavesOthers
  <1>21. ASSUME MarkCancelling(r) PROVE AttemptsInv'
    BY <1>0, <1>21, WriteAttempts DEF MarkCancelling, LeavesOthers
  <1>22. ASSUME StartLocal(r) PROVE AttemptsInv'
    BY <1>0, <1>22, WriteAttempts DEF StartLocal, LeavesOthers
  <1>23. ASSUME PublishLocal(r) PROVE AttemptsInv'
    BY <1>0, <1>23, WriteAttempts DEF PublishLocal, LeavesOthers
  <1>24. ASSUME HandlePipelineException(r) PROVE AttemptsInv'
    BY <1>0, <1>24, WriteAttempts DEF HandlePipelineException, LeavesOthers
  <1>25. ASSUME RequeueJob(r) PROVE AttemptsInv'
    BY <1>0, <1>25, WriteAttempts DEF RequeueJob
  <1>26. ASSUME FailJob(r) PROVE AttemptsInv'
    BY <1>0, <1>26, WriteAttempts DEF FailJob, LeavesOthers
  <1> QED
    BY <1>1, <1>2, <1>3, <1>4, <1>5, <1>6, <1>7, <1>8, <1>9, <1>10, <1>11, <1>12, <1>13, <1>14,
       <1>15, <1>16, <1>17, <1>18, <1>19, <1>20, <1>21, <1>22, <1>23, <1>24, <1>25, <1>26
    DEF RunStep

LEMMA RunFaultAttempts ==
  ASSUME TypeOK, AttemptsInv, NEW r \in Runs, RunFault(r)
  PROVE  AttemptsInv'
  <1>1. ASSUME SubmitAnswerLost(r) PROVE AttemptsInv'
    BY <1>1, StepAttempts DEF SubmitAnswerLost
  <1>2. ASSUME OwnCancelFails(r) PROVE AttemptsInv'
    BY <1>2, StepAttempts DEF OwnCancelFails
  <1>3. ASSUME Raise(r) PROVE AttemptsInv'
    <2>1. PICK handler \in Handlers(pc[r]) : Step(r, pc[r], handler)
      BY <1>3 DEF Raise
    <2>2. handler # "leased"
      BY <2>1 DEF Handlers
    <2> QED BY <1>3, <2>1, <2>2, StepAttempts DEF Raise
  <1>4. ASSUME Crash(r) PROVE AttemptsInv'
    BY <1>4, EndAttempts DEF Crash
  <1>5. ASSUME HeartbeatStops(r) PROVE AttemptsInv'
    <2>1. \A s \in Runs : ctx'[s].attempt = ctx[s].attempt
      BY <1>5 DEF HeartbeatStops, TypeOK, Context
    <2> QED BY <1>5, <2>1, AttemptsFrame DEF HeartbeatStops, Leased, TypeOK
  <1> QED BY <1>1, <1>2, <1>3, <1>4, <1>5 DEF RunFault

LEMMA DeliverAttempts ==
  ASSUME TypeOK, AttemptsInv, NEW r \in Runs, NEW id \in RqIds, Deliver(r, id)
  PROVE  AttemptsInv'
  <1>1. \A s \in Runs : ctx'[s].attempt = ctx[s].attempt
    BY DEF Deliver, TypeOK, Context
  <1>2. \A s \in Runs : Leased(s)' => Leased(s)
    BY DEF Deliver, TypeOK, Leased
  <1> QED BY <1>1, <1>2, AttemptsFrame DEF Deliver, TypeOK

\* The control plane writes statuses and never the count.
LEMMA CallAttempts ==
  ASSUME TypeOK, AttemptsInv, NEW c \in Callers,
         CallBegins(c) \/ CallStep(c) \/ SubmitFails(c) \/ CallerCrashes(c)
  PROVE  AttemptsInv'
  <1>0. /\ row \in Row /\ \A s \in JobStatuses : s # "deleted"
        /\ "queued" \in JobStatuses /\ "cancelled" \in JobStatuses /\ "error" \in JobStatuses
    BY DEF TypeOK, JobStatuses, ACTIVE_JOB_STATES, TERMINAL_JOB_STATES
  <1>1. ASSUME row' = row, pc' = pc, ctx' = ctx, executed' = executed PROVE AttemptsInv'
    BY <1>0, <1>1, AttemptsFrame DEF Leased
  <1>2. ASSUME NEW s \in JobStatuses, CanUpdate(row, s), row' = Updated(row, s),
               pc' = pc, ctx' = ctx, executed' = executed
        PROVE  AttemptsInv'
    BY <1>0, <1>2, CountKept, AttemptsFrame DEF Leased, CanUpdate, CanTouch, InTable
  <1>3. ASSUME Create(c) PROVE AttemptsInv'
    BY <1>0, <1>3, CountKept, AttemptsFrame DEF Create, Leased
  <1>4. ASSUME SetCancelFlag(c) PROVE AttemptsInv'
    BY <1>0, <1>4, CountKept, AttemptsFrame DEF SetCancelFlag, InTable, Leased
  <1>5. ASSUME RequeueUndispatched(c) PROVE AttemptsInv'
    BY <1>0, <1>1, <1>2, <1>5 DEF RequeueUndispatched
  <1>6. ASSUME ConfirmCancelled(c) PROVE AttemptsInv'
    BY <1>0, <1>1, <1>2, <1>6 DEF ConfirmCancelled
  <1>7. ASSUME Exhaust(c) PROVE AttemptsInv'
    BY <1>0, <1>1, <1>2, <1>7 DEF Exhaust
  <1>8. ASSUME Revive(c) PROVE AttemptsInv'
    BY <1>0, <1>1, <1>2, <1>8 DEF Revive
  <1>9. ASSUME StopStarted(c) PROVE AttemptsInv'
    <2>1. PICK r \in Runs : /\ row' = Abandoned(row, r) /\ pc' = [pc EXCEPT ![r] = "idle"]
                            /\ ctx' = [ctx EXCEPT ![r] = NoContext]
      BY <1>9 DEF StopStarted
    <2> QED BY <1>9, <2>1, EndAttempts DEF StopStarted
  <1>10. ASSUME DeleteJob(c), InTable(row) PROVE AttemptsInv'
    <2>1. row'.status = "deleted"
      BY <1>10 DEF DeleteJob, DeletedRow, UnbornRow
    <2> QED BY <1>0, <1>10, <2>1, AttemptsFrame DEF DeleteJob, Leased
  <1>11. ASSUME DeleteJob(c), ~InTable(row) PROVE AttemptsInv'
    BY <1>1, <1>11 DEF DeleteJob
  <1>12. ASSUME ClaimDispatch(c) \/ Resume(c) PROVE AttemptsInv'
    BY <1>1, <1>12 DEF ClaimDispatch, Resume
  <1>13. ASSUME Reconcile(c) \/ BeginDelete(c) \/ CancelMissingJob(c) PROVE AttemptsInv'
    BY <1>1, <1>13 DEF Reconcile, BeginDelete, CancelMissingJob, CallOnly
  <1>14. ASSUME FetchRqJob(c) \/ PushRqJob(c) \/ MarkDispatched(c) \/ StampDispatchId(c)
                \/ UndoDispatch(c)
         PROVE  AttemptsInv'
    BY <1>1, <1>14 DEF FetchRqJob, PushRqJob, MarkDispatched, StampDispatchId, UndoDispatch
  <1>15. ASSUME CancelRemote(c) \/ CancelQueued(c) \/ SubmitFails(c) \/ CallerCrashes(c)
         PROVE  AttemptsInv'
    BY <1>1, <1>15 DEF CancelRemote, CancelQueued, SubmitFails, CallerCrashes
  <1> QED
    BY <1>3, <1>4, <1>5, <1>6, <1>7, <1>8, <1>9, <1>10, <1>11, <1>12, <1>13, <1>14, <1>15
    DEF CallBegins, CallStep, CancelStep, RequestCancel, CancelAgain

\* A job enters the pipeline at most JOB_MAX_ATTEMPTS times, each time with a number
\* of its own, whatever RQ retries, reconcile_jobs recovers, clients resume and
\* callers crash, and whether or not leases outlive executions (run_job).
THEOREM AttemptsAreBounded == Spec => []AttemptsBounded
  <1>1. Init => AttemptsInv
    BY DEF Init, AttemptsInv, Counted, Fresh, Leased, UnbornRow, NoContext
  <1>2. TypeOK /\ AttemptsInv /\ [Next]_vars => AttemptsInv'
    <2> SUFFICES ASSUME TypeOK, AttemptsInv, [Next]_vars PROVE AttemptsInv'
      OBVIOUS
    <2>1. CASE \E r \in Runs : RunStep(r) \/ \E id \in RqIds : Deliver(r, id)
      BY <2>1, RunStepAttempts, DeliverAttempts
    <2>2. CASE \E c \in Callers : CallBegins(c) \/ CallStep(c)
      BY <2>2, CallAttempts
    <2>3. ASSUME OutboxLockExpires \/ RemoteFinishes \/ UNCHANGED vars PROVE AttemptsInv'
      BY <2>3, AttemptsFrame
      DEF OutboxLockExpires, RemoteFinishes, vars, Leased, TypeOK
    <2>4. ASSUME LeaseExpires PROVE AttemptsInv'
      BY <2>4, CountKept, AttemptsFrame DEF LeaseExpires, Leased, TypeOK
    <2>5. CASE Environment
      BY <2>3, <2>4, <2>5, RunFaultAttempts, CallAttempts DEF Environment
    <2> QED BY <2>1, <2>2, <2>3, <2>5 DEF Next
  <1>3. AttemptsInv => AttemptsBounded
    BY DEF AttemptsInv, Fresh, Leased, AttemptsBounded
  <1> QED BY <1>1, <1>2, <1>3, Typing, PTL DEF Spec

----------------------------------------------------------------------------
(***************************************************************************)
(* How a job ends, without the assumption that leases outlive executions:  *)
(* what follows holds however many workers execute the job.  A             *)
(* cancellation is lost only with a write of "queued" that reopens the     *)
(* job; and a job is completed only over a remote job that completed.      *)
(***************************************************************************)

(* Cancellation.  request_cancel moves a job out of the statuses it could   *)
(* be completed from, and only a write that reopens the job leads back.     *)

Open(status) == status \in {"queued", "running", "finalizing"}

CancelInv ==
  /\ row.cancel_requested /\ reopened = 0 => ~Open(row.status)
  /\ ~InTable(row) => ~row.cancel_requested
  /\ \A c \in Callers : At(c, "revive") => reopened > 0

\* A step that leaves the row as cancelled as it was.
LEMMA CancelFrame ==
  ASSUME CancelInv, row'.status = row.status, row'.cancel_requested = row.cancel_requested,
         reopened' = 0 => reopened = 0, reopened \in Nat, reopened' \in Nat,
         \A c \in Callers : At(c, "revive")' => At(c, "revive") \/ reopened' > 0
  PROVE  CancelInv'
  <1>1. (\A c \in Callers : At(c, "revive") => reopened > 0)'
    BY DEF CancelInv
  <1> QED BY <1>1 DEF CancelInv, Open, InTable

\* What the statements do to the flag.
LEMMA FlagKept ==
  ASSUME NEW w \in Row
  PROVE  /\ \A s : /\ Updated(w, s).status = s
                   /\ Updated(w, s).cancel_requested = w.cancel_requested
         /\ \A o \in Runs : /\ Acquired(w, o).status = w.status
                            /\ Acquired(w, o).cancel_requested = w.cancel_requested
                            /\ Released(w, o).status = w.status
                            /\ Released(w, o).cancel_requested = w.cancel_requested
                            /\ Abandoned(w, o).status = w.status
                            /\ Abandoned(w, o).cancel_requested = w.cancel_requested
         /\ CancelRequested(w).status = CancelTarget(w.status)
         /\ Created(w).status = "queued" /\ Created(w).cancel_requested = w.cancel_requested
         /\ ~DeletedRow.cancel_requested /\ DeletedRow.status = "deleted"
         /\ [w EXCEPT !.lease = "expired"].status = w.status
         /\ [w EXCEPT !.lease = "expired"].cancel_requested = w.cancel_requested
  BY DEF Row, Updated, Acquired, Released, Abandoned, CancelRequested, Created, DeletedRow,
         UnbornRow

\* The table of transitions: a job that is not open is opened only with "queued".
LEMMA OpenedByQueued ==
  ASSUME NEW s \in JobStatuses, CanUpdate(row, s), ~Open(row.status)
  PROVE  s # "completed" /\ (Open(s) => s = "queued")
  BY DEF CanUpdate, CanTouch, InTable, ValidTransition, JOB_TRANSITIONS, Open, JobStatuses,
         ACTIVE_JOB_STATES, TERMINAL_JOB_STATES

\* A write of a status that reopens nothing, or says so.
LEMMA WriteCancel ==
  ASSUME TypeOK, CancelInv, NEW s \in JobStatuses,
         IF CanUpdate(row, s) THEN /\ row'.status = s
                                   /\ row'.cancel_requested = row.cancel_requested
                              ELSE row' = row,
         s = "queued" /\ CanUpdate(row, s) /\ row.cancel_requested /\ row.status # "queued"
           => reopened' > 0,
         reopened' \in Nat, reopened' >= reopened,
         \A c \in Callers : At(c, "revive")' => At(c, "revive")
  PROVE  CancelInv'
  <1>0. reopened \in Nat /\ (\A c \in Callers : At(c, "revive")' => reopened' > 0)
    BY DEF TypeOK, CancelInv
  <1>1. CASE ~CanUpdate(row, s)
    BY <1>0, <1>1, CancelFrame
  <1>2. CASE CanUpdate(row, s)
    <2>1. InTable(row)' /\ InTable(row)
      BY <1>2 DEF InTable, CanUpdate, CanTouch
    <2>2. ASSUME row'.cancel_requested, reopened' = 0 PROVE ~Open(row'.status)
      <3>1. row.cancel_requested /\ reopened = 0 /\ ~Open(row.status)
        <4>1. reopened = 0
          BY <1>0, <2>2
        <4>2. row.cancel_requested
          BY <1>2, <2>2, Zenon
        <4> QED BY <4>1, <4>2 DEF CancelInv
      <3>2. s # "queued"
        BY <1>2, <2>2, <3>1 DEF Open
      <3> QED BY <1>2, <3>1, <3>2, OpenedByQueued
    <2> QED BY <1>0, <2>1, <2>2 DEF CancelInv
  <1> QED BY <1>1, <1>2

LEMMA RunStepCancel ==
  ASSUME TypeOK, CancelInv, NEW r \in Runs, RunStep(r)
  PROVE  CancelInv'
  <1>0. /\ "queued" \in JobStatuses /\ "running" \in JobStatuses /\ "finalizing" \in JobStatuses
        /\ "cancelling" \in JobStatuses /\ "cancelled" \in JobStatuses
        /\ "completed" \in JobStatuses /\ "error" \in JobStatuses
        /\ row \in Row /\ reopened \in Nat
    BY DEF JobStatuses, ACTIVE_JOB_STATES, TERMINAL_JOB_STATES, TypeOK
  <1>1. ASSUME row'.status = row.status, row'.cancel_requested = row.cancel_requested,
               UNCHANGED <<call, reopened>>
        PROVE  CancelInv'
    BY <1>0, <1>1, CancelFrame DEF At
  <1>2. ASSUME NEW from, NEW s \in JobStatuses \ {"queued"}, NEW ok, NEW rejected,
               Write(r, from, s, ok, rejected), UNCHANGED <<call, reopened>>
        PROVE  CancelInv'
    BY <1>0, <1>2, FlagKept, WriteCancel DEF Write, At
  <1>3. ASSUME AcquireLease(r) PROVE CancelInv'
    BY <1>0, <1>1, <1>3, FlagKept DEF AcquireLease
  <1>4. ASSUME ReleaseLease(r) PROVE CancelInv'
    BY <1>0, <1>1, <1>4, FlagKept DEF ReleaseLease
  <1>5. ASSUME SkipJob(r) \/ EnterPipeline(r) \/ CheckCancel(r) \/ SyncUpdate(r) \/ HandleGpuException(r)
               \/ RecordGpuFailure(r) \/ CheckLeaseLost(r) \/ HandleJobException(r)
        PROVE  CancelInv'
    BY <1>1, <1>5 DEF SkipJob, EnterPipeline, CheckCancel, SyncUpdate, HandleGpuException,
                      RecordGpuFailure, CheckLeaseLost, HandleJobException, LeavesAll
  <1>6. ASSUME StartPipeline(r) \/ Submit(r) \/ Poll(r) \/ CancelOwnRemote(r) PROVE CancelInv'
    BY <1>1, <1>6 DEF StartPipeline, Submit, Poll, CancelOwnRemote
  <1>7. ASSUME AckCancel(r) \/ ExhaustAttempts(r) \/ AckBeforeSubmit(r) \/ PublishRemote(r) PROVE CancelInv'
    BY <1>0, <1>2, <1>7 DEF AckCancel, ExhaustAttempts, AckBeforeSubmit, PublishRemote, LeavesOthers
  <1>8. ASSUME ApplyUpdate(r) PROVE CancelInv'
    BY <1>0, <1>2, <1>8 DEF ApplyUpdate, LeavesOthers
  <1>9. ASSUME MarkCancelled(r) \/ MarkCancelling(r) \/ StartLocal(r) \/ PublishLocal(r) PROVE CancelInv'
    BY <1>0, <1>2, <1>9 DEF MarkCancelled, MarkCancelling, StartLocal, PublishLocal, LeavesOthers
  <1>10. ASSUME HandlePipelineException(r) \/ FailJob(r) PROVE CancelInv'
    BY <1>0, <1>2, <1>10 DEF HandlePipelineException, FailJob, LeavesOthers
  <1>11. ASSUME RecordSubmission(r) PROVE CancelInv'
    <2>1. CanUpdate(row, "running") => /\ row'.status = "running"
                                       /\ row'.cancel_requested = row.cancel_requested
      BY <1>0, <1>11 DEF RecordSubmission, Updated, Row
    <2> QED BY <1>0, <1>11, <2>1, WriteCancel DEF RecordSubmission, LeavesOthers, At
  <1>12. ASSUME RequeueJob(r) PROVE CancelInv'
    <2>1. reopened' \in Nat /\ reopened' >= reopened
      BY <1>0, <1>12 DEF RequeueJob
    <2>2. CanUpdate(row, "queued") /\ row.cancel_requested => reopened' > 0
      BY <1>0, <1>12 DEF RequeueJob
    <2>3. IF CanUpdate(row, "queued") THEN /\ row'.status = "queued"
                                           /\ row'.cancel_requested = row.cancel_requested
                                      ELSE row' = row
      BY <1>0, <1>12, FlagKept DEF RequeueJob, Write
    <2>4. call' = call
      BY <1>12 DEF RequeueJob
    <2> QED BY <1>0, <2>1, <2>2, <2>3, <2>4, WriteCancel DEF At
  <1> QED BY <1>3, <1>4, <1>5, <1>6, <1>7, <1>8, <1>9, <1>10, <1>11, <1>12 DEF RunStep

LEMMA RunFaultCancel ==
  ASSUME TypeOK, CancelInv, NEW r \in Runs, RunFault(r) \/ \E id \in RqIds : Deliver(r, id)
  PROVE  CancelInv'
  <1>1. row' = row \/ row' = Abandoned(row, r)
    BY DEF RunFault, SubmitAnswerLost, OwnCancelFails, Raise, Crash, HeartbeatStops, Deliver
  <1>2. UNCHANGED <<call, reopened>>
    BY DEF RunFault, SubmitAnswerLost, OwnCancelFails, Raise, Crash, HeartbeatStops, Deliver
  <1>3. row \in Row /\ reopened \in Nat
    BY DEF TypeOK
  <1>4. row'.status = row.status /\ row'.cancel_requested = row.cancel_requested
    BY <1>1, <1>3, FlagKept
  <1> QED BY <1>2, <1>3, <1>4, CancelFrame DEF At

\* The control plane: whoever writes "queued" has counted it, or the row had it.
LEMMA CallCancel ==
  ASSUME TypeOK, CancelInv, NEW c \in Callers,
         CallBegins(c) \/ CallStep(c) \/ SubmitFails(c) \/ CallerCrashes(c)
  PROVE  CancelInv'
  <1>0. /\ row \in Row /\ reopened \in Nat
        /\ "queued" \in JobStatuses /\ "cancelled" \in JobStatuses /\ "error" \in JobStatuses
    BY DEF TypeOK, JobStatuses, ACTIVE_JOB_STATES, TERMINAL_JOB_STATES
  <1>1. \A p : p # "revive" /\ GoTo(c, p) => \A d \in Callers : At(d, "revive")' => At(d, "revive")
    BY DEF GoTo, At, TypeOK, Call
  <1>2. /\ Return(c) => \A d \in Callers : At(d, "revive")' => At(d, "revive")
        /\ \A k, i : BeginSubmit(c, k, i) => \A d \in Callers : At(d, "revive")' => At(d, "revive")
    BY DEF Return, BeginSubmit, NoCall, At, TypeOK, Call
  <1>3. AfterSubmitFailed(c) => \A d \in Callers : At(d, "revive")' => At(d, "revive")
    BY <1>1, <1>2 DEF AfterSubmitFailed
  <1>4. ASSUME row' = row, reopened' = reopened, \A d \in Callers : At(d, "revive")' => At(d, "revive")
        PROVE  CancelInv'
    BY <1>0, <1>4, CancelFrame
  <1>5. ASSUME Create(c) PROVE CancelInv'
    <2>1. ~row'.cancel_requested /\ row'.status = "queued" /\ reopened' = reopened
      BY <1>0, <1>5, FlagKept DEF Create, CancelInv, InTable, JobStatuses, ACTIVE_JOB_STATES,
                                  TERMINAL_JOB_STATES
    <2> QED BY <1>2, <1>5, <2>1 DEF Create, CancelInv, InTable, JobStatuses, ACTIVE_JOB_STATES
  <1>6. ASSUME SetCancelFlag(c) PROVE CancelInv'
    <2>1. row'.status = CancelTarget(row.status) /\ reopened' = reopened /\ InTable(row)
      BY <1>0, <1>6, FlagKept DEF SetCancelFlag
    <2>2. ~Open(row'.status) /\ InTable(row)'
      BY <2>1 DEF CancelTarget, Open, InTable, JobStatuses, ACTIVE_JOB_STATES, TERMINAL_JOB_STATES
    <2>3. \A d \in Callers : At(d, "revive")' => At(d, "revive")
      BY <1>1, <1>2, <1>6 DEF SetCancelFlag
    <2> QED BY <2>1, <2>2, <2>3 DEF CancelInv
  <1>7. ASSUME Resume(c) PROVE CancelInv'
    <2>1. reopened' > 0 /\ reopened' \in Nat /\ row' = row
      BY <1>0, <1>7 DEF Resume
    <2> QED BY <1>0, <2>1, CancelFrame
  <1>8. ASSUME RequeueUndispatched(c) PROVE CancelInv'
    <2>1. reopened' \in Nat /\ reopened' >= reopened
      BY <1>0, <1>8 DEF RequeueUndispatched
    <2>2. CanUpdate(row, "queued") /\ row.status # "queued" => reopened' > 0
      BY <1>0, <1>8 DEF RequeueUndispatched
    <2>3. IF CanUpdate(row, "queued") THEN /\ row'.status = "queued"
                                           /\ row'.cancel_requested = row.cancel_requested
                                      ELSE row' = row
      BY <1>0, <1>8, FlagKept DEF RequeueUndispatched
    <2>4. \A d \in Callers : At(d, "revive")' => At(d, "revive")
      BY <1>2, <1>8 DEF RequeueUndispatched
    <2> QED BY <1>0, <2>1, <2>2, <2>3, <2>4, WriteCancel
  <1>9. ASSUME Revive(c) PROVE CancelInv'
    <2>1. reopened' = reopened /\ reopened > 0
      BY <1>9 DEF Revive, CancelInv
    <2>2. IF CanUpdate(row, "queued") THEN /\ row'.status = "queued"
                                           /\ row'.cancel_requested = row.cancel_requested
                                      ELSE row' = row
      BY <1>0, <1>9, FlagKept DEF Revive
    <2>3. \A d \in Callers : At(d, "revive")' => At(d, "revive")
      BY <1>2, <1>9 DEF Revive
    <2> QED BY <1>0, <2>1, <2>2, <2>3, WriteCancel
  <1>10. ASSUME NEW s \in {"cancelled", "error"}, reopened' = reopened,
                row' = IF CanUpdate(row, s) THEN Updated(row, s) ELSE row,
                \A d \in Callers : At(d, "revive")' => At(d, "revive")
         PROVE  CancelInv'
    BY <1>0, <1>10, FlagKept, WriteCancel
  <1>11. ASSUME ConfirmCancelled(c) PROVE CancelInv'
    BY <1>1, <1>2, <1>10, <1>11 DEF ConfirmCancelled
  <1>12. ASSUME Exhaust(c) PROVE CancelInv'
    BY <1>2, <1>10, <1>12 DEF Exhaust
  <1>13. ASSUME StopStarted(c) PROVE CancelInv'
    <2>1. row'.status = row.status /\ row'.cancel_requested = row.cancel_requested
      BY <1>0, <1>13, FlagKept DEF StopStarted
    <2> QED BY <1>0, <1>2, <1>13, <2>1, CancelFrame DEF StopStarted
  <1>14. ASSUME DeleteJob(c) PROVE CancelInv'
    <2>1. CASE InTable(row)
      <3>1. row'.status = "deleted" /\ ~row'.cancel_requested /\ reopened' = reopened
        BY <1>0, <1>14, <2>1, FlagKept DEF DeleteJob
      <3> QED BY <1>2, <1>14, <3>1 DEF DeleteJob, CancelInv
    <2>2. CASE ~InTable(row)
      BY <1>2, <1>4, <1>14, <2>2 DEF DeleteJob
    <2> QED BY <2>1, <2>2
  <1>15. ASSUME ClaimDispatch(c) PROVE CancelInv'
    BY <1>2, <1>4, <1>15 DEF ClaimDispatch
  <1>16. ASSUME Reconcile(c) \/ BeginDelete(c) \/ CancelMissingJob(c) PROVE CancelInv'
    BY <1>1, <1>2, <1>4, <1>16 DEF Reconcile, BeginDelete, CancelMissingJob, CallOnly
  <1>17. ASSUME FetchRqJob(c) \/ PushRqJob(c) \/ MarkDispatched(c) \/ StampDispatchId(c)
                \/ UndoDispatch(c)
         PROVE  CancelInv'
    BY <1>1, <1>2, <1>3, <1>4, <1>17
    DEF FetchRqJob, PushRqJob, MarkDispatched, StampDispatchId, UndoDispatch
  <1>18. ASSUME CancelRemote(c) \/ CancelQueued(c) \/ SubmitFails(c) \/ CallerCrashes(c)
         PROVE  CancelInv'
    BY <1>1, <1>2, <1>3, <1>4, <1>18 DEF CancelRemote, CancelQueued, SubmitFails, CallerCrashes
  <1> QED
    BY <1>5, <1>6, <1>7, <1>8, <1>9, <1>11, <1>12, <1>13, <1>14, <1>15, <1>16, <1>17, <1>18
    DEF CallBegins, CallStep, CancelStep, RequestCancel, CancelAgain

LEMMA CancelKeeps == TypeOK /\ CancelInv /\ [Next]_vars => CancelInv'
  <1> SUFFICES ASSUME TypeOK, CancelInv, [Next]_vars PROVE CancelInv'
    OBVIOUS
  <1>0. row \in Row /\ reopened \in Nat
    BY DEF TypeOK
  <1>1. CASE \E r \in Runs : RunStep(r) \/ \E id \in RqIds : Deliver(r, id)
    BY <1>1, RunStepCancel, RunFaultCancel
  <1>2. CASE \E c \in Callers : CallBegins(c) \/ CallStep(c)
    BY <1>2, CallCancel
  <1>3. ASSUME OutboxLockExpires \/ RemoteFinishes \/ UNCHANGED vars PROVE CancelInv'
    BY <1>0, <1>3, CancelFrame DEF OutboxLockExpires, RemoteFinishes, vars, At
  <1>4. ASSUME LeaseExpires PROVE CancelInv'
    <2>1. row'.status = row.status /\ row'.cancel_requested = row.cancel_requested
      BY <1>0, <1>4, FlagKept DEF LeaseExpires
    <2> QED BY <1>0, <1>4, <2>1, CancelFrame DEF LeaseExpires, At
  <1>5. CASE Environment
    BY <1>3, <1>4, <1>5, RunFaultCancel, CallCancel DEF Environment
  <1> QED BY <1>1, <1>2, <1>3, <1>5 DEF Next

\* A job that cancel_job has marked is never completed, by however many executions, as long as
\* nothing writes "queued" over it (request_cancel, _validate_transition, run_job's handlers).
THEOREM CancellationHolds == Spec => CancelWins
  <1>1. Init => CancelInv
    BY DEF Init, CancelInv, UnbornRow, At, NoCall, InTable
  <1>2. TypeOK /\ CancelInv /\ [Next]_vars
          => [reopened = 0 /\ row.cancel_requested /\ row.status # "completed"
                => row'.status # "completed"]_vars
    <2> SUFFICES ASSUME TypeOK, CancelInv, [Next]_vars, reopened = 0, row.cancel_requested,
                        row.status # "completed", row'.status = "completed"
                 PROVE  FALSE
      OBVIOUS
    <2>1. ~Open(row.status)
      BY DEF CancelInv
    <2>2. CanUpdate(row, "completed")
      BY WhoCompletes
    <2> QED BY <2>1, <2>2, OpenedByQueued DEF JobStatuses, TERMINAL_JOB_STATES
  <1> QED BY <1>1, <1>2, CancelKeeps, Typing, PTL DEF Spec, CancelWins

----------------------------------------------------------------------------
(* The remote job.  A remote job that completed stays so, and an execution  *)
(* publishes only what it has seen completed.                               *)

RemoteOnly == UseGpuWorker /\ ~AllowLocalFallback

RemoteInv ==
  RemoteOnly =>
    /\ row.status = "completed" => remote = "completed"
    /\ \A r \in Runs : /\ ctx[r].seen = "completed" => remote = "completed"
                       /\ pc[r] = "publish" => remote = "completed"
                       /\ pc[r] \notin {"localStart", "local"}

\* A step keeps this if no execution goes on to publish what it has not seen, or locally.
Cautious(r) ==
  /\ pc'[r] = "publish" => pc[r] = "publish" \/ ctx[r].seen = "completed"
  /\ pc'[r] \in {"localStart", "local"} => pc[r] \in {"localStart", "local"}
  /\ ctx'[r].seen = "completed" => ctx[r].seen = "completed" \/ remote' = "completed"

Lasting == remote = "completed" => remote' = "completed"

LEMMA RemoteFrame ==
  ASSUME TypeOK, RemoteInv, [Next]_vars, RemoteOnly => Lasting /\ \A r \in Runs : Cautious(r)
  PROVE  RemoteInv'
  <1> SUFFICES ASSUME RemoteOnly PROVE RemoteInv'
    BY DEF RemoteInv, RemoteOnly
  <1>1. \A r \in Runs : /\ ctx'[r].seen = "completed" => remote' = "completed"
                        /\ pc'[r] = "publish" => remote' = "completed"
                        /\ pc'[r] \notin {"localStart", "local"}
    BY DEF RemoteInv, Lasting, Cautious
  <1>2. row'.status = "completed" => remote' = "completed"
    <2>1. CASE row.status = "completed"
      BY <2>1 DEF RemoteInv, Lasting
    <2>2. CASE row.status # "completed" /\ row'.status = "completed"
      BY <2>2, WhoCompletes DEF RemoteInv, Lasting
    <2> QED BY <2>1, <2>2
  <1> QED BY <1>1, <1>2 DEF RemoteInv

\* A step of an execution that leaves what was seen and goes neither to publish nor on locally.
LEMMA CautiousStep ==
  ASSUME TypeOK, NEW r \in Runs, NEW from, NEW to, to \notin {"publish", "localStart", "local"},
         Step(r, from, to), UNCHANGED <<ctx, remote>>
  PROVE  Lasting /\ \A s \in Runs : Cautious(s)
  BY DEF Step, TypeOK, Cautious, Lasting

\* An execution that is over.
LEMMA CautiousEnd ==
  ASSUME TypeOK, NEW r \in Runs, remote' = remote,
         pc' = [pc EXCEPT ![r] = "idle"], ctx' = [ctx EXCEPT ![r] = NoContext]
  PROVE  Lasting /\ \A s \in Runs : Cautious(s)
  BY DEF TypeOK, Cautious, Lasting, NoContext

LEMMA RunStepCautious ==
  ASSUME TypeOK, RemoteInv, RemoteOnly, NEW r \in Runs, RunStep(r)
  PROVE  Lasting /\ \A s \in Runs : Cautious(s)
  <1> DEFINE goal == Lasting /\ \A s \in Runs : Cautious(s)
  <1>0. pc[r] \notin {"localStart", "local"}
    BY DEF RemoteInv
  <1>1. ASSUME NEW from, NEW s, NEW ok, ok \notin {"publish", "localStart", "local"},
               NEW rejected, rejected \notin {"publish", "localStart", "local"},
               Write(r, from, s, ok, rejected), UNCHANGED <<ctx, remote>>
        PROVE  goal
    BY <1>1, CautiousStep DEF Write
  <1>2. ASSUME AcquireLease(r) PROVE goal
    <2>1. CASE CanAcquire(row, r)
      BY <1>2, <2>1 DEF AcquireLease, TypeOK, Context, Cautious, Lasting
    <2>2. CASE ~CanAcquire(row, r)
      BY <1>2, <2>2, CautiousEnd DEF AcquireLease
    <2> QED BY <2>1, <2>2
  <1>3. ASSUME ReleaseLease(r) PROVE goal
    BY <1>3, CautiousEnd DEF ReleaseLease
  <1>4. ASSUME SkipJob(r) \/ CheckCancel(r) \/ SyncUpdate(r) \/ HandleGpuException(r) PROVE goal
    BY <1>4, CautiousStep DEF SkipJob, CheckCancel, SyncUpdate, HandleGpuException, LeavesAll
  <1>5. ASSUME CheckLeaseLost(r) \/ HandleJobException(r) \/ StartPipeline(r) PROVE goal
    BY <1>5, CautiousStep DEF CheckLeaseLost, HandleJobException, StartPipeline, LeavesAll
  <1>6. ASSUME EnterPipeline(r) \/ RecordGpuFailure(r) PROVE goal
    BY <1>6, CautiousStep DEF EnterPipeline, RecordGpuFailure, LeavesAll, RemoteOnly
  <1>7. ASSUME Submit(r) PROVE goal
    <2>1. remote = "completed" => remote' = "completed"
      BY <1>7 DEF Submit, Reserved
    <2>2. ctx'[r].seen = remote' /\ \A s \in Runs : s # r => ctx'[s] = ctx[s]
      BY <1>7 DEF Submit, TypeOK, Context
    <2>3. pc'[r] = "record" /\ \A s \in Runs : s # r => pc'[s] = pc[s]
      BY <1>7 DEF Submit, Step, TypeOK
    <2> QED BY <2>1, <2>2, <2>3 DEF Cautious, Lasting
  <1>8. ASSUME Poll(r) PROVE goal
    <2>1. remote' = remote
      BY <1>8 DEF Poll
    <2>2. ctx'[r].seen = remote' /\ \A s \in Runs : s # r => ctx'[s] = ctx[s]
      BY <1>8 DEF Poll, TypeOK, Context
    <2>3. pc'[r] = "sync" /\ \A s \in Runs : s # r => pc'[s] = pc[s]
      BY <1>8 DEF Poll, Step, TypeOK
    <2> QED BY <2>1, <2>2, <2>3 DEF Cautious, Lasting
  <1>9. ASSUME CancelOwnRemote(r) PROVE goal
    BY <1>9 DEF CancelOwnRemote, CancelledRemote, Step, TypeOK, Cautious, Lasting
  <1>10. ASSUME RecordSubmission(r) PROVE goal
    BY <1>10, CautiousStep DEF RecordSubmission, LeavesOthers
  <1>11. ASSUME ApplyUpdate(r) PROVE goal
    <2>1. CASE ctx[r].seen = "completed"
      BY <1>11, <2>1 DEF ApplyUpdate, LeavesOthers, Write, Step, TypeOK, Cautious, Lasting
    <2>2. CASE ctx[r].seen # "completed"
      BY <1>1, <1>11, <2>2 DEF ApplyUpdate, LeavesOthers
    <2> QED BY <2>1, <2>2
  <1>12. ASSUME AckCancel(r) \/ ExhaustAttempts(r) \/ AckBeforeSubmit(r) \/ PublishRemote(r) PROVE goal
    BY <1>1, <1>12 DEF AckCancel, ExhaustAttempts, AckBeforeSubmit, PublishRemote, LeavesOthers
  <1>13. ASSUME MarkCancelled(r) \/ MarkCancelling(r) \/ HandlePipelineException(r) \/ FailJob(r)
         PROVE  goal
    BY <1>1, <1>13 DEF MarkCancelled, MarkCancelling, HandlePipelineException, FailJob, LeavesOthers
  <1>14. ASSUME RequeueJob(r) PROVE goal
    BY <1>1, <1>14 DEF RequeueJob
  <1>15. ~StartLocal(r) /\ ~PublishLocal(r)
    BY <1>0 DEF StartLocal, PublishLocal, Write, Step
  <1> QED
    BY <1>2, <1>3, <1>4, <1>5, <1>6, <1>7, <1>8, <1>9, <1>10, <1>11, <1>12, <1>13, <1>14, <1>15
    DEF RunStep

LEMMA OtherCautious ==
  ASSUME TypeOK, \/ \E r \in Runs : RunFault(r) \/ \E id \in RqIds : Deliver(r, id)
                 \/ \E c \in Callers : CallBegins(c) \/ CallStep(c) \/ SubmitFails(c) \/ CallerCrashes(c)
                 \/ OutboxLockExpires \/ LeaseExpires \/ RemoteFinishes \/ UNCHANGED vars
  PROVE  Lasting /\ \A s \in Runs : Cautious(s)
  <1> DEFINE goal == Lasting /\ \A s \in Runs : Cautious(s)
  <1>1. ASSUME NEW r \in Runs, RunFault(r) PROVE goal
    <2>1. ASSUME SubmitAnswerLost(r) PROVE goal
      BY <2>1 DEF SubmitAnswerLost, Reserved, Step, TypeOK, Cautious, Lasting
    <2>2. ASSUME OwnCancelFails(r) PROVE goal
      BY <2>2, CautiousStep DEF OwnCancelFails
    <2>3. ASSUME Raise(r) PROVE goal
      <3>1. PICK handler \in Handlers(pc[r]) : Step(r, pc[r], handler)
        BY <2>3 DEF Raise
      <3>2. handler \notin {"publish", "localStart", "local"}
        BY <3>1 DEF Handlers
      <3> QED BY <2>3, <3>1, <3>2, CautiousStep DEF Raise
    <2>4. ASSUME Crash(r) PROVE goal
      BY <2>4, CautiousEnd DEF Crash
    <2>5. ASSUME HeartbeatStops(r) PROVE goal
      BY <2>5 DEF HeartbeatStops, TypeOK, Context, Cautious, Lasting
    <2> QED BY <1>1, <2>1, <2>2, <2>3, <2>4, <2>5 DEF RunFault
  <1>2. ASSUME NEW r \in Runs, NEW id \in RqIds, Deliver(r, id) PROVE goal
    BY <1>2 DEF Deliver, TypeOK, Context, Cautious, Lasting
  <1>3. ASSUME UNCHANGED <<pc, ctx>>, Lasting PROVE goal
    BY <1>3 DEF Cautious
  <1>4. ASSUME NEW c \in Callers, CallBegins(c) \/ SubmitFails(c) \/ CallerCrashes(c) PROVE goal
    BY <1>3, <1>4 DEF CallBegins, Create, ClaimDispatch, RequestCancel, SetCancelFlag, Reconcile,
                      Resume, BeginDelete, CallOnly, SubmitFails, CallerCrashes, Lasting
  <1>5. ASSUME NEW c \in Callers, CallStep(c) PROVE goal
    <2>1. ASSUME StopStarted(c) PROVE goal
      BY <2>1, CautiousEnd DEF StopStarted
    <2>2. ASSUME CancelRemote(c) PROVE goal
      BY <1>3, <2>2 DEF CancelRemote, CancelledRemote, Lasting
    <2>3. ASSUME FetchRqJob(c) \/ PushRqJob(c) \/ MarkDispatched(c) \/ StampDispatchId(c)
                 \/ UndoDispatch(c)
          PROVE  goal
      BY <1>3, <2>3 DEF FetchRqJob, PushRqJob, MarkDispatched, StampDispatchId, UndoDispatch, Lasting
    <2>4. ASSUME RequeueUndispatched(c) \/ Exhaust(c) \/ Revive(c) \/ DeleteJob(c) PROVE goal
      BY <1>3, <2>4 DEF RequeueUndispatched, Exhaust, Revive, DeleteJob, Lasting
    <2>5. ASSUME ConfirmCancelled(c) \/ CancelQueued(c) \/ CancelAgain(c) \/ CancelMissingJob(c)
          PROVE  goal
      BY <1>3, <2>5 DEF ConfirmCancelled, CancelQueued, CancelAgain, SetCancelFlag, CancelMissingJob,
                        CallOnly, Lasting
    <2> QED BY <1>5, <2>1, <2>2, <2>3, <2>4, <2>5 DEF CallStep, CancelStep
  <1>6. ASSUME OutboxLockExpires \/ LeaseExpires \/ RemoteFinishes \/ UNCHANGED vars PROVE goal
    BY <1>3, <1>6 DEF OutboxLockExpires, LeaseExpires, RemoteFinishes, vars, Lasting
  <1> QED BY <1>1, <1>2, <1>4, <1>5, <1>6

\* A GPU job without fallback is completed only over a remote job that completed and stays so,
\* for any number of attempts, resubmissions and lost answers (_run_gpu_worker_job, _reserve_job).
THEOREM CompletionIsRemote == Spec => []CompletedMeansRemoteDone
  <1>1. Init => RemoteInv
    BY DEF Init, RemoteInv, UnbornRow, NoContext
  <1>2. TypeOK /\ RemoteInv /\ [Next]_vars => RemoteInv'
    <2> SUFFICES ASSUME TypeOK, RemoteInv, [Next]_vars PROVE RemoteInv'
      OBVIOUS
    <2>1. RemoteOnly => Lasting /\ \A r \in Runs : Cautious(r)
      BY RunStepCautious, OtherCautious DEF Next, Environment
    <2> QED BY <2>1, RemoteFrame
  <1>3. RemoteInv => CompletedMeansRemoteDone
    BY DEF RemoteInv, RemoteOnly, CompletedMeansRemoteDone
  <1> QED BY <1>1, <1>2, <1>3, Typing, PTL DEF Spec

=============================================================================
