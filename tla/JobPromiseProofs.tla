------------------------- MODULE JobPromiseProofs -------------------------
(***************************************************************************)
(* That JobControl implements JobPromise: every statement of the code is a *)
(* step of the promise or leaves what a client sees alone.  What a status  *)
(* is written over is in the table of transitions; that an execution       *)
(* starts only on a job that is still to be executed needs the lease, and  *)
(* so the assumption that it outlives an execution.                        *)
(***************************************************************************)
EXTENDS JobControlProofs, FiniteSetTheorems

----------------------------------------------------------------------------
(* What steps do to the row.                                                *)

\* An execution acts on a cancellation that it read, and so does a call.
FlagPcs == {"ack", "ackBefore", "gpuCancel", "markCancelled", "markCancelling"}

FlagCalls == {"remoteCancel", "confirm"}

RowKept == row'.status = row.status /\ row'.cancel_requested = row.cancel_requested

RowWritten ==
  \E s \in JobStatuses :
    /\ CanUpdate(row, s) /\ row'.status = s /\ row'.cancel_requested = row.cancel_requested
    /\ s \in {"cancelling", "cancelled"} =>
         \/ \E r \in Runs : pc[r] \in FlagPcs
         \/ \E c \in Callers : call[c].pc \in FlagCalls

RowCreated ==
  row.status = "unborn" /\ row'.status = "queued" /\ row'.cancel_requested = row.cancel_requested

RowCancelled ==
  InTable(row) /\ row'.status = CancelTarget(row.status) /\ row'.cancel_requested

RowDeleted == InTable(row) /\ row'.status = "deleted"

RowMove == RowKept \/ RowWritten \/ RowCreated \/ RowCancelled \/ RowDeleted

\* A step of the execution r.
RunMove(r) ==
  /\ RowMove /\ call' = call
  /\ executed' = executed \/ StartPipeline(r)
  /\ \A s \in Runs : s # r => pc'[s] = pc[s]
  /\ pc'[r] \in FlagPcs => pc[r] \in FlagPcs \/ CancelSeen
  /\ pc'[r] = "leased" => \/ pc[r] = "leased"
                          \/ row.status \notin TERMINAL_JOB_STATES /\ row'.status = row.status

\* A step of the call c.
CallMove(c) ==
  /\ RowMove /\ executed' = executed
  /\ \A r \in Runs : pc'[r] = pc[r] \/ pc'[r] = "idle"
  /\ \A d \in Callers : call'[d].pc \in FlagCalls => call[d].pc \in FlagCalls \/ row'.cancel_requested

\* What the statements do to the columns that are looked at.
LEMMA ColumnsKept ==
  ASSUME NEW w \in Row
  PROVE  /\ \A s : /\ Updated(w, s).status = s
                   /\ Updated(w, s).cancel_requested = w.cancel_requested
         /\ \A o \in Runs : /\ Acquired(w, o).status = w.status
                            /\ Acquired(w, o).cancel_requested = w.cancel_requested
                            /\ Released(w, o).status = w.status
                            /\ Released(w, o).cancel_requested = w.cancel_requested
                            /\ Abandoned(w, o).status = w.status
                            /\ Abandoned(w, o).cancel_requested = w.cancel_requested
         /\ CancelRequested(w).status = CancelTarget(w.status)
         /\ CancelRequested(w).cancel_requested
         /\ Created(w).status = "queued" /\ Created(w).cancel_requested = w.cancel_requested
         /\ DeletedRow.status = "deleted"
         /\ [w EXCEPT !.lease = "expired"].status = w.status
         /\ [w EXCEPT !.lease = "expired"].cancel_requested = w.cancel_requested
  BY DEF Row, Updated, Acquired, Released, Abandoned, CancelRequested, Created, DeletedRow,
         UnbornRow

----------------------------------------------------------------------------
(* The steps of an execution.                                               *)

\* A step that leaves the row alone.
LEMMA StepMove ==
  ASSUME TypeOK, NEW r \in Runs, NEW from, NEW to, Step(r, from, to), RowKept,
         to \notin FlagPcs \/ from \in FlagPcs \/ CancelSeen, to # "leased",
         UNCHANGED <<call, executed>>
  PROVE  RunMove(r)
  BY DEF Step, TypeOK, RunMove, RowMove

\* A statement that writes a status.
LEMMA WriteMove ==
  ASSUME TypeOK, NEW r \in Runs, NEW from, NEW s \in JobStatuses, NEW ok, NEW rejected,
         Write(r, from, s, ok, rejected),
         s \in {"cancelling", "cancelled"} => from \in FlagPcs,
         ok \notin FlagPcs, rejected \notin FlagPcs, ok # "leased", rejected # "leased",
         UNCHANGED <<call, executed>>
  PROVE  RunMove(r)
  <1>0. row \in Row
    BY DEF TypeOK
  <1>1. pc[r] = from /\ (pc'[r] = ok \/ pc'[r] = rejected) /\ \A x \in Runs : x # r => pc'[x] = pc[x]
    BY DEF Write, Step, TypeOK
  <1>2. RowMove
    <2>1. CASE CanUpdate(row, s)
      <3>1. row'.status = s /\ row'.cancel_requested = row.cancel_requested
        BY <1>0, <2>1, ColumnsKept DEF Write
      <3>2. RowWritten
        BY <1>1, <2>1, <3>1 DEF RowWritten
      <3> QED BY <3>2 DEF RowMove
    <2>2. CASE ~CanUpdate(row, s)
      BY <2>2 DEF Write, RowMove, RowKept
    <2> QED BY <2>1, <2>2
  <1> QED BY <1>1, <1>2 DEF RunMove

\* The end of an execution.
LEMMA EndMove ==
  ASSUME TypeOK, NEW r \in Runs, pc' = [pc EXCEPT ![r] = "idle"],
         row' = row \/ row' = Released(row, r) \/ row' = Abandoned(row, r),
         UNCHANGED <<call, executed>>
  PROVE  RunMove(r)
  <1>1. row \in Row
    BY DEF TypeOK
  <1>2. RowKept
    BY <1>1, ColumnsKept DEF RowKept
  <1>3. pc'[r] = "idle" /\ \A s \in Runs : s # r => pc'[s] = pc[s]
    BY DEF TypeOK
  <1> QED BY <1>2, <1>3 DEF RunMove, RowMove, FlagPcs

LEMMA RunStepMove ==
  ASSUME TypeOK, NEW r \in Runs, RunStep(r)
  PROVE  RunMove(r)
  <1>0. /\ "queued" \in JobStatuses /\ "running" \in JobStatuses /\ "finalizing" \in JobStatuses
        /\ "cancelling" \in JobStatuses /\ "cancelled" \in JobStatuses
        /\ "completed" \in JobStatuses /\ "error" \in JobStatuses /\ row \in Row
    BY DEF JobStatuses, ACTIVE_JOB_STATES, TERMINAL_JOB_STATES, TypeOK
  <1>1. ASSUME AcquireLease(r) PROVE RunMove(r)
    <2>1. CASE CanAcquire(row, r)
      <3>1. RowKept /\ row.status \notin TERMINAL_JOB_STATES
        BY <1>0, <1>1, <2>1, ColumnsKept DEF AcquireLease, RowKept, CanAcquire
      <3>2. pc'[r] = "leased" /\ \A s \in Runs : s # r => pc'[s] = pc[s]
        BY <1>1, <2>1 DEF AcquireLease, TypeOK
      <3> QED BY <1>1, <3>1, <3>2 DEF AcquireLease, RunMove, RowMove, RowKept, FlagPcs
    <2>2. CASE ~CanAcquire(row, r)
      BY <1>1, <2>2, EndMove DEF AcquireLease
    <2> QED BY <2>1, <2>2
  <1>2. ASSUME ReleaseLease(r) PROVE RunMove(r)
    BY <1>2, EndMove DEF ReleaseLease
  <1>3. ASSUME SkipJob(r) \/ CheckCancel(r) \/ SyncUpdate(r) \/ HandleGpuException(r) PROVE RunMove(r)
    BY <1>3, StepMove DEF SkipJob, CheckCancel, SyncUpdate, HandleGpuException, LeavesAll, RowKept, FlagPcs
  <1>4. ASSUME EnterPipeline(r) \/ RecordGpuFailure(r) \/ CheckLeaseLost(r) \/ HandleJobException(r)
        PROVE  RunMove(r)
    BY <1>4, StepMove DEF EnterPipeline, RecordGpuFailure, CheckLeaseLost, HandleJobException, LeavesAll,
                          RowKept, FlagPcs
  <1>5. ASSUME StartPipeline(r) PROVE RunMove(r)
    <2>1. pc'[r] = "pipeline" /\ \A s \in Runs : s # r => pc'[s] = pc[s]
      BY <1>5 DEF StartPipeline, Step, TypeOK
    <2>2. RowKept /\ call' = call
      BY <1>5 DEF StartPipeline, RowKept
    <2> QED BY <1>5, <2>1, <2>2 DEF RunMove, RowMove, FlagPcs
  <1>6. ASSUME Submit(r) \/ Poll(r) PROVE RunMove(r)
    BY <1>6, StepMove DEF Submit, Poll, RowKept, FlagPcs
  <1>7. ASSUME CancelOwnRemote(r) PROVE RunMove(r)
    BY <1>7, StepMove DEF CancelOwnRemote, RowKept, FlagPcs
  <1>8. ASSUME AckCancel(r) \/ ExhaustAttempts(r) \/ AckBeforeSubmit(r) \/ PublishRemote(r) PROVE RunMove(r)
    BY <1>0, <1>8, WriteMove
    DEF AckCancel, ExhaustAttempts, AckBeforeSubmit, PublishRemote, LeavesOthers, FlagPcs
  <1>9. ASSUME MarkCancelled(r) \/ MarkCancelling(r) \/ StartLocal(r) \/ PublishLocal(r) PROVE RunMove(r)
    BY <1>0, <1>9, WriteMove
    DEF MarkCancelled, MarkCancelling, StartLocal, PublishLocal, LeavesOthers, FlagPcs
  <1>10. ASSUME HandlePipelineException(r) \/ FailJob(r) PROVE RunMove(r)
    BY <1>0, <1>10, WriteMove DEF HandlePipelineException, FailJob, LeavesOthers, FlagPcs
  <1>11. ASSUME RequeueJob(r) PROVE RunMove(r)
    BY <1>0, <1>11, WriteMove DEF RequeueJob, FlagPcs
  <1>12. ASSUME ApplyUpdate(r) PROVE RunMove(r)
    <2>1. CASE ctx[r].seen = "completed"
      BY <1>0, <1>12, <2>1, WriteMove DEF ApplyUpdate, LeavesOthers, FlagPcs
    <2>2. CASE ctx[r].seen # "completed"
      BY <1>0, <1>12, <2>2, WriteMove DEF ApplyUpdate, LeavesOthers, FlagPcs
    <2> QED BY <2>1, <2>2
  <1>13. ASSUME RecordSubmission(r) PROVE RunMove(r)
    <2>1. CASE CanUpdate(row, "running")
      <3>1. row'.status = "running" /\ row'.cancel_requested = row.cancel_requested
        BY <1>0, <1>13, <2>1 DEF RecordSubmission, Updated, Row
      <3>2. RowWritten
        BY <1>0, <2>1, <3>1 DEF RowWritten
      <3>3. pc'[r] \in {"sync", "poll"} /\ \A s \in Runs : s # r => pc'[s] = pc[s]
        BY <1>13, <2>1 DEF RecordSubmission, Step, TypeOK
      <3> QED BY <1>13, <3>2, <3>3 DEF RecordSubmission, LeavesOthers, RunMove, RowMove, FlagPcs
    <2>2. CASE ~CanUpdate(row, "running")
      BY <1>13, <2>2, StepMove DEF RecordSubmission, LeavesOthers, RowKept, FlagPcs
    <2> QED BY <2>1, <2>2
  <1> QED
    BY <1>1, <1>2, <1>3, <1>4, <1>5, <1>6, <1>7, <1>8, <1>9, <1>10, <1>11, <1>12, <1>13 DEF RunStep

LEMMA RunFaultMove ==
  ASSUME TypeOK, NEW r \in Runs, RunFault(r) \/ \E id \in RqIds : Deliver(r, id)
  PROVE  RunMove(r)
  <1>1. ASSUME SubmitAnswerLost(r) \/ OwnCancelFails(r) PROVE RunMove(r)
    BY <1>1, StepMove DEF SubmitAnswerLost, OwnCancelFails, RowKept, FlagPcs
  <1>2. ASSUME Raise(r) PROVE RunMove(r)
    <2>1. PICK handler \in Handlers(pc[r]) : Step(r, pc[r], handler)
      BY <1>2 DEF Raise
    <2>2. handler \notin FlagPcs /\ handler # "leased"
      BY <2>1 DEF Handlers, FlagPcs
    <2> QED BY <1>2, <2>1, <2>2, StepMove DEF Raise, RowKept
  <1>3. ASSUME Crash(r) PROVE RunMove(r)
    BY <1>3, EndMove DEF Crash
  <1>4. ASSUME HeartbeatStops(r) PROVE RunMove(r)
    BY <1>4 DEF HeartbeatStops, RunMove, RowMove, RowKept
  <1>5. ASSUME NEW id \in RqIds, Deliver(r, id) PROVE RunMove(r)
    <2>1. pc'[r] = "acquire" /\ \A s \in Runs : s # r => pc'[s] = pc[s]
      BY <1>5 DEF Deliver, TypeOK
    <2> QED BY <1>5, <2>1 DEF Deliver, RunMove, RowMove, RowKept, FlagPcs
  <1> QED BY <1>1, <1>2, <1>3, <1>4, <1>5 DEF RunFault

----------------------------------------------------------------------------
(* The steps of a call.                                                     *)

LEMMA CallsGo ==
  ASSUME TypeOK, NEW c \in Callers
  PROVE  /\ \A p : GoTo(c, p) /\ (p \notin FlagCalls \/ row'.cancel_requested \/ call[c].pc \in FlagCalls) =>
              \A d \in Callers : call'[d].pc \in FlagCalls => call[d].pc \in FlagCalls \/ row'.cancel_requested
         /\ Return(c) =>
              \A d \in Callers : call'[d].pc \in FlagCalls => call[d].pc \in FlagCalls \/ row'.cancel_requested
         /\ \A k, i : BeginSubmit(c, k, i) =>
              \A d \in Callers : call'[d].pc \in FlagCalls => call[d].pc \in FlagCalls \/ row'.cancel_requested
  BY DEF GoTo, Return, BeginSubmit, NoCall, TypeOK, Call, FlagCalls

\* A write of a status by a call.
LEMMA CallWrites ==
  ASSUME TypeOK, NEW c \in Callers, NEW s \in JobStatuses,
         row' = IF CanUpdate(row, s) THEN Updated(row, s) ELSE row,
         s \in {"cancelling", "cancelled"} => call[c].pc \in FlagCalls
  PROVE  RowMove
  <1>0. row \in Row
    BY DEF TypeOK
  <1>1. CASE CanUpdate(row, s)
    <2>1. row'.status = s /\ row'.cancel_requested = row.cancel_requested
      BY <1>0, <1>1, ColumnsKept
    <2>2. RowWritten
      BY <1>1, <2>1 DEF RowWritten
    <2> QED BY <2>2 DEF RowMove
  <1>2. CASE ~CanUpdate(row, s)
    BY <1>2 DEF RowMove, RowKept
  <1> QED BY <1>1, <1>2

LEMMA CallsMove ==
  ASSUME TypeOK, NEW c \in Callers,
         CallBegins(c) \/ CallStep(c) \/ SubmitFails(c) \/ CallerCrashes(c)
  PROVE  CallMove(c)
  <1> DEFINE quiet == \A d \in Callers : call'[d].pc \in FlagCalls => call[d].pc \in FlagCalls \/ row'.cancel_requested
  <1>0. /\ row \in Row
        /\ "queued" \in JobStatuses /\ "cancelled" \in JobStatuses /\ "error" \in JobStatuses
    BY DEF TypeOK, JobStatuses, ACTIVE_JOB_STATES, TERMINAL_JOB_STATES
  <1>1. /\ \A p : p \notin FlagCalls /\ GoTo(c, p) => quiet
        /\ Return(c) => quiet
        /\ \A k, i : BeginSubmit(c, k, i) => quiet
    BY CallsGo
  <1>2. AfterSubmitFailed(c) => quiet
    BY <1>1 DEF AfterSubmitFailed, FlagCalls
  <1>3. ASSUME UNCHANGED <<row, pc, executed>>, quiet PROVE CallMove(c)
    BY <1>3 DEF CallMove, RowMove, RowKept
  <1>4. ASSUME NEW s \in {"queued", "cancelled", "error"}, UNCHANGED <<pc, executed>>, quiet,
               row' = IF CanUpdate(row, s) THEN Updated(row, s) ELSE row,
               s = "cancelled" => call[c].pc \in FlagCalls
        PROVE  CallMove(c)
    <2>1. RowMove
      BY <1>0, <1>4, CallWrites
    <2> QED BY <1>4, <2>1 DEF CallMove
  <1>5. ASSUME Create(c) PROVE CallMove(c)
    <2>1. RowCreated
      BY <1>0, <1>5, ColumnsKept DEF Create, RowCreated
    <2> QED BY <1>1, <1>5, <2>1 DEF Create, CallMove, RowMove
  <1>6. ASSUME SetCancelFlag(c) PROVE CallMove(c)
    <2>1. RowCancelled
      BY <1>0, <1>6, ColumnsKept DEF SetCancelFlag, RowCancelled
    <2>2. quiet
      BY <1>1, <1>6, <2>1, CallsGo DEF SetCancelFlag, RowCancelled
    <2> QED BY <1>6, <2>1, <2>2 DEF SetCancelFlag, CallMove, RowMove
  <1>7. ASSUME StopStarted(c) PROVE CallMove(c)
    <2>1. PICK r \in Runs : row' = Abandoned(row, r) /\ pc' = [pc EXCEPT ![r] = "idle"]
      BY <1>7 DEF StopStarted
    <2>2. RowKept
      BY <1>0, <2>1, ColumnsKept DEF RowKept
    <2>3. \A s \in Runs : pc'[s] = pc[s] \/ pc'[s] = "idle"
      BY <2>1 DEF TypeOK
    <2> QED BY <1>1, <1>7, <2>2, <2>3 DEF StopStarted, CallMove, RowMove
  <1>8. ASSUME DeleteJob(c) PROVE CallMove(c)
    <2>1. RowDeleted \/ row' = row
      BY <1>8, <1>0, ColumnsKept DEF DeleteJob, RowDeleted
    <2> QED BY <1>1, <1>8, <2>1 DEF DeleteJob, CallMove, RowMove, RowKept
  <1>9. ASSUME ConfirmCancelled(c) PROVE CallMove(c)
    <2>1. quiet /\ call[c].pc \in FlagCalls
      BY <1>1, <1>9 DEF ConfirmCancelled, FlagCalls, At
    <2> QED BY <1>4, <1>9, <2>1 DEF ConfirmCancelled
  <1>10. ASSUME Exhaust(c) \/ RequeueUndispatched(c) \/ Revive(c) PROVE CallMove(c)
    BY <1>1, <1>4, <1>10 DEF Exhaust, RequeueUndispatched, Revive
  <1>11. ASSUME CancelRemote(c) PROVE CallMove(c)
    <2>1. quiet
      BY <1>1, <1>11, CallsGo DEF CancelRemote, At, FlagCalls
    <2> QED BY <1>3, <1>11, <2>1 DEF CancelRemote
  <1>12. ASSUME ClaimDispatch(c) \/ Reconcile(c) \/ BeginDelete(c) \/ CancelMissingJob(c) \/ Resume(c)
         PROVE  CallMove(c)
    BY <1>1, <1>3, <1>12
    DEF ClaimDispatch, Reconcile, BeginDelete, CancelMissingJob, Resume, CallOnly, FlagCalls
  <1>13. ASSUME FetchRqJob(c) \/ PushRqJob(c) \/ MarkDispatched(c) \/ StampDispatchId(c) \/ UndoDispatch(c)
         PROVE  CallMove(c)
    BY <1>1, <1>2, <1>3, <1>13
    DEF FetchRqJob, PushRqJob, MarkDispatched, StampDispatchId, UndoDispatch, FlagCalls
  <1>14. ASSUME CancelQueued(c) \/ SubmitFails(c) \/ CallerCrashes(c) PROVE CallMove(c)
    BY <1>1, <1>2, <1>3, <1>14 DEF CancelQueued, SubmitFails, CallerCrashes
  <1> QED
    BY <1>5, <1>6, <1>7, <1>8, <1>9, <1>10, <1>11, <1>12, <1>13, <1>14
    DEF CallBegins, CallStep, CancelStep, RequestCancel, CancelAgain

\* Every step is a step of an execution, a step of a call, or leaves all that is looked at.
LEMMA Moves ==
  ASSUME TypeOK, [Next]_vars
  PROVE  \/ \E r \in Runs : RunMove(r)
         \/ \E c \in Callers : CallMove(c)
         \/ RowKept /\ UNCHANGED <<pc, call, executed>>
  <1>1. LeaseExpires => RowKept
    BY ColumnsKept DEF LeaseExpires, RowKept, TypeOK
  <1>2. ASSUME OutboxLockExpires \/ LeaseExpires \/ RemoteFinishes \/ UNCHANGED vars
        PROVE  RowKept /\ UNCHANGED <<pc, call, executed>>
    BY <1>1, <1>2 DEF OutboxLockExpires, LeaseExpires, RemoteFinishes, vars, RowKept
  <1> QED BY <1>2, RunStepMove, RunFaultMove, CallsMove DEF Next, Environment

----------------------------------------------------------------------------
(* Why an execution starts only on a job that is to be executed.            *)

\* Who acts on a cancellation was asked to, and its mark stays in the row.
Flagged == row.status = "deleted" \/ row.cancel_requested

FlagInv ==
  /\ row.status \in {"cancelling", "cancelled"} => row.cancel_requested
  /\ \A r \in Runs : pc[r] \in FlagPcs => Flagged
  /\ \A c \in Callers : call[c].pc \in FlagCalls => Flagged

\* Nobody completes the job under an execution that has just acquired its lease.
LeasedOpen == \A r \in Runs : pc[r] = "leased" => row.status # "completed"

LEMMA FlaggedStays ==
  ASSUME TypeOK, FlagInv, RowMove
  PROVE  /\ Flagged => Flagged'
         /\ row'.status \in {"cancelling", "cancelled"} => row'.cancel_requested
         /\ InTable(row) /\ row.cancel_requested => Flagged'
  <1> USE DEF Flagged, InTable, JobStatuses, ACTIVE_JOB_STATES, TERMINAL_JOB_STATES
  <1>1. CASE RowKept
    BY <1>1 DEF RowKept, FlagInv
  <1>2. CASE RowWritten
    BY <1>2 DEF RowWritten, FlagInv, CanUpdate, CanTouch
  <1>3. CASE RowCreated
    BY <1>3 DEF RowCreated
  <1>4. CASE RowCancelled \/ RowDeleted
    BY <1>4 DEF RowCancelled, RowDeleted
  <1> QED BY <1>1, <1>2, <1>3, <1>4 DEF RowMove

LEMMA FlagKeeps ==
  ASSUME TypeOK, FlagInv, [Next]_vars
  PROVE  FlagInv'
  <1>1. ASSUME NEW r \in Runs, RunMove(r) PROVE FlagInv'
    BY <1>1, FlaggedStays DEF RunMove, FlagInv, CancelSeen
  <1>2. ASSUME NEW c \in Callers, CallMove(c) PROVE FlagInv'
    <2>1. "idle" \notin FlagPcs
      BY DEF FlagPcs
    <2> QED BY <1>2, <2>1, FlaggedStays DEF CallMove, FlagInv, Flagged
  <1>3. ASSUME RowKept, UNCHANGED <<pc, call, executed>> PROVE FlagInv'
    BY <1>3 DEF RowKept, FlagInv, Flagged
  <1> QED BY <1>1, <1>2, <1>3, Moves

LEMMA LeasedKeeps ==
  ASSUME TypeOK, LeaseInv, LeasedOpen, [Next]_vars
  PROVE  LeasedOpen'
  <1> SUFFICES ASSUME NEW r \in Runs, pc'[r] = "leased", row'.status = "completed" PROVE FALSE
    BY DEF LeasedOpen
  <1>1. CASE pc[r] = "leased"
    <2>1. row.status # "completed"
      BY <1>1 DEF LeasedOpen
    <2>2. PICK s \in Runs : pc[s] \in {"publish", "local"}
      BY <2>1, WhoCompletes
    <2>3. Covered(r) /\ Covered(s)
      BY <1>1, <2>2 DEF Covered, CoveredPcs, PipelinePcs
    <2> QED BY <1>1, <2>2, <2>3 DEF LeaseInv, SingleHolder
  <1>2. CASE pc[r] # "leased"
    <2>1. row.status \notin TERMINAL_JOB_STATES /\ row'.status = row.status
      BY <1>2, Moves DEF RunMove, CallMove
    <2> QED BY <2>1 DEF TERMINAL_JOB_STATES
  <1> QED BY <1>1, <1>2

----------------------------------------------------------------------------
(* The promise.                                                             *)

LEMMA Outcomes ==
  ASSUME TypeOK
  PROVE  /\ row.status = "unborn" => Outcome = "none"
         /\ row.status \in {"queued", "running", "finalizing"} => Outcome = "open"
         /\ row.status \in {"error", "failed"} => Outcome = "failed"
         /\ row.status = "deleted" => Outcome = "gone"
         /\ row.status \in {"completed", "cancelled", "cancelling"} => Outcome = row.status
  BY DEF Outcome

LEMMA OutcomesNext ==
  ASSUME TypeOK'
  PROVE  /\ row'.status = "unborn" => Outcome' = "none"
         /\ row'.status \in {"queued", "running", "finalizing"} => Outcome' = "open"
         /\ row'.status \in {"error", "failed"} => Outcome' = "failed"
         /\ row'.status = "deleted" => Outcome' = "gone"
         /\ row'.status \in {"completed", "cancelled", "cancelling"} => Outcome' = row'.status
  BY DEF Outcome

\* Whatever a statement does to the row, the promise allows.
LEMMA RowMovePromised ==
  ASSUME TypeOK, TypeOK', RowMove, executed' = executed
  PROVE  Promise!Next \/ UNCHANGED Promise!promise
  <1> USE DEF Promise!Next, Promise!Becomes, Promise!promise, Promise!Accept, Promise!Complete, Promise!Fail,
              Promise!Retry, Promise!BeginCancel, Promise!Cancel, Promise!Forget
  <1>0. UNCHANGED Cardinality(executed)
    OBVIOUS
  <1>1. CASE RowKept
    <2>1. Outcome' = Outcome
      BY <1>1 DEF RowKept, Outcome
    <2> QED BY <1>0, <2>1
  <1>2. CASE RowWritten
    BY <1>0, <1>2, Outcomes, OutcomesNext
    DEF RowWritten, CanUpdate, CanTouch, InTable, ValidTransition, JOB_TRANSITIONS, JobStatuses,
        ACTIVE_JOB_STATES, TERMINAL_JOB_STATES
  <1>3. CASE RowCreated
    BY <1>0, <1>3, Outcomes, OutcomesNext DEF RowCreated
  <1>4. CASE RowCancelled
    BY <1>0, <1>4, Outcomes, OutcomesNext
    DEF RowCancelled, CancelTarget, InTable, JobStatuses, ACTIVE_JOB_STATES, TERMINAL_JOB_STATES
  <1>5. CASE RowDeleted
    BY <1>0, <1>5, Outcomes, OutcomesNext
    DEF RowDeleted, InTable, JobStatuses, ACTIVE_JOB_STATES, TERMINAL_JOB_STATES, Promise!Outcomes
  <1> QED BY <1>1, <1>2, <1>3, <1>4, <1>5 DEF RowMove

\* An execution that starts is one more, within the limit, of an open or failed job.
LEMMA StartPromised ==
  ASSUME TypeOK, FlagInv, LeasedOpen, AttemptsBounded, AttemptsBounded',
         NEW r \in Runs, StartPipeline(r)
  PROVE  Promise!Execute
  <1>1. row.status \in {"queued", "running", "finalizing", "error", "failed"}
    BY DEF StartPipeline, Step, InTable, FlagInv, LeasedOpen, JobStatuses, ACTIVE_JOB_STATES,
           TERMINAL_JOB_STATES
  <1>2. Outcome \in {"open", "failed"} /\ Outcome' = Outcome
    BY <1>1, Outcomes DEF StartPipeline, Outcome
  <1>3. IsFiniteSet(executed) /\ Cardinality(executed) + 1 = Cardinality(executed') /\ Cardinality(executed) \in Nat
    <2>1. IsFiniteSet(executed)
      <3>1. IsFiniteSet(1 .. JOB_MAX_ATTEMPTS)
        BY FS_Interval, SystemAssumption
      <3> QED BY <3>1, FS_Subset DEF AttemptsBounded
    <2>2. ctx[r].attempt \notin executed /\ executed' = executed \union {ctx[r].attempt}
      BY DEF StartPipeline, Step, AttemptsBounded
    <2> QED BY <2>1, <2>2, FS_AddElement, FS_CardinalityType
  <1>4. Cardinality(executed') <= JOB_MAX_ATTEMPTS
    <2>1. IsFiniteSet(1 .. JOB_MAX_ATTEMPTS) /\ Cardinality(1 .. JOB_MAX_ATTEMPTS) = JOB_MAX_ATTEMPTS
      BY FS_Interval, SystemAssumption
    <2> QED BY <2>1, FS_Subset DEF AttemptsBounded
  <1>5. Cardinality(executed) < JOB_MAX_ATTEMPTS
    BY <1>3, <1>4, SystemAssumption
  <1> QED BY <1>2, <1>3, <1>5 DEF Promise!Execute

\* Where leases outlive executions, whatever executions, retries, recoveries, cancellations and
\* deletions do, a client sees what JobPromise allows (cancel_job, reconcile_jobs,
\* resume_remote_job, delete_job, run_job).
THEOREM PromiseIsKept ==
  ASSUME LeaseOutlivesRun
  PROVE  Spec => KeepsPromise
  <1>1. Init => FlagInv /\ LeasedOpen /\ Promise!Init
    BY FS_EmptySet DEF Init, FlagInv, LeasedOpen, FlagPcs, FlagCalls, NoCall, UnbornRow, Outcome, Promise!Init
  <1>2. TypeOK /\ LeaseInv /\ FlagInv /\ LeasedOpen /\ [Next]_vars => FlagInv' /\ LeasedOpen'
    BY FlagKeeps, LeasedKeeps
  <1>3. TypeOK /\ TypeOK' /\ FlagInv /\ LeasedOpen /\ AttemptsBounded /\ AttemptsBounded' /\ [Next]_vars
          => [Promise!Next]_Promise!promise
    <2> SUFFICES ASSUME TypeOK, TypeOK', FlagInv, LeasedOpen, AttemptsBounded, AttemptsBounded', [Next]_vars
                 PROVE  Promise!Next \/ UNCHANGED Promise!promise
      OBVIOUS
    <2>1. RowMove /\ (executed' = executed \/ \E r \in Runs : StartPipeline(r))
      BY Moves DEF RunMove, CallMove, RowMove
    <2>2. CASE executed' = executed
      BY <2>1, <2>2, RowMovePromised
    <2>3. CASE \E r \in Runs : StartPipeline(r)
      BY <2>3, StartPromised DEF Promise!Next
    <2> QED BY <2>1, <2>2, <2>3
  <1> QED
    BY <1>1, <1>2, <1>3, Typing, LeaseExclusion, AttemptsAreBounded, PTL DEF Spec, KeepsPromise, Promise!Spec

=============================================================================
