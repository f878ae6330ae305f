------------------------ MODULE GpuReservationProofs ------------------------
(***************************************************************************)
(* ReservedOnce and CancelledStays for any number of submissions and       *)
(* cancellations, with one API container.  A submission dispatches a run   *)
(* only if it has found no status that stands for a job, so the argument is*)
(* about which copies of the status do while a run is under way or a       *)
(* submission on its way to one: the API's view, the volume it is reloaded *)
(* from, the runner's view, which may still be committed, and what an actor*)
(* has read and is about to write back.                                    *)
(***************************************************************************)
EXTENDS GpuWorkerProofs

OneApi == \A c, d \in ApiContainers : c = d

\* A status that a submission is answered with.
Fresh(file) == file.status \in REPLAYABLE_JOB_STATES

\* Where requests see the status.
ApiViews == IF deployment.modal THEN ApiContainers ELSE {"runner"}

ApiFresh == \A v \in ApiViews : Fresh(view[v].file)
VolumeFresh == deployment.modal => Fresh(volume.file)

Reserving(r) == actor[r].pc \in {"upload", "send"}
NoneReserves == \A r \in Requests : ~Reserving(r)
NoneLive == \A run \in Runs : ~Live(run)

\* A container serves one request, and a local worker's loop switches at an upload only.
Busy(r) == IF deployment.modal THEN actor[r].pc \notin Resting ELSE InLoop(r)
Exclusive == \A r, q \in Requests : Busy(r) /\ Busy(q) => r = q

\* From a reservation to the dispatch nobody else reserves, nothing runs, and the API sees
\* the reservation; once it has nothing left to commit, so does everybody else.
ReservedFresh ==
    \A r \in Requests : Reserving(r) =>
        /\ \A q \in Requests : Reserving(q) => q = r
        /\ NoneLive /\ ApiFresh
        /\ actor[r].read => Fresh(actor[r].held)
        /\ (\E v \in ApiViews : ~view[v].dirty) => VolumeFresh

\* What is recorded of a dispatch does not hide a job, except one that has ended.
RecordFresh ==
    \A r \in Requests : actor[r].pc = "record" =>
        /\ NoneReserves
        /\ deployment.modal => ApiFresh
        /\ actor[r].read => \/ Fresh(actor[r].held)
                            \/ ~deployment.modal /\ NoneLive

\* While a run is under way, every copy of the status stands for it.
LiveFresh ==
    \A run \in Runs : Live(run) =>
        /\ \A other \in Runs : Live(other) => other = run
        /\ ApiFresh /\ VolumeFresh
        /\ actor[run].pc # "pending" =>
              /\ Fresh(view["runner"].file)
              /\ actor[run].read \/ actor[run].pc = "publishing" => Fresh(actor[run].held)

\* The runner is left with an end to commit only until the next submission is looked at.
DirtyFresh ==
    deployment.modal /\ view["runner"].dirty /\ ~Fresh(view["runner"].file)
        => NoneLive /\ NoneReserves /\ VolumeFresh /\ ApiFresh

ReservationInv == Exclusive /\ ReservedFresh /\ RecordFresh /\ LiveFresh /\ DirtyFresh

Typed == GpuWorkerTypeOK /\ Placed /\ Unstarted /\ OneActive

----------------------------------------------------------------------------

LEMMA ApiPlaces ==
  ASSUME OneApi, GpuWorkerTypeOK, Placed
  PROVE  /\ ApiViews \subseteq Containers /\ \A v, w \in ApiViews : v = w
         /\ deployment.modal => "runner" \notin ApiViews
         /\ \A r \in Requests : actor[r].pc # "new" => actor[r].at \in ApiViews
  <1>1. \A r \in Requests : actor[r].at \in Containers
    BY HeldTyped DEF Actors
  <1>2. \A r \in Requests : actor[r].pc # "new" => (deployment.modal <=> actor[r].at # "runner")
    BY DEF Placed
  <1> QED BY <1>1, <1>2, CallsAssumption DEF OneApi, ApiViews, Containers

\* What a commit, a reload and a lost container do to the files.
Settled(v) ==
    /\ OthersSame(v)
    /\ ~deployment.modal => view'[v].file = view[v].file
    /\ deployment.modal =>
          /\ ~view'[v].dirty
          /\ volume'.file # volume.file => view[v].dirty /\ volume'.file = view[v].file

\* The view's own file stays, and is what is committed.
Stays(v) == view'[v].file = view[v].file /\ (deployment.modal /\ view[v].dirty => volume'.file = view[v].file)

\* The view shows what is committed.
Shows(v) == deployment.modal => view'[v].file = volume'.file

LEMMA CommitFiles ==
  ASSUME GpuWorkerTypeOK, NEW v \in Containers, Commit(v)
  PROVE  Settled(v) /\ Stays(v)
  <1>1. view' = [view EXCEPT ![v].dirty = FALSE] /\ view \in [Containers -> Views]
    BY Pieces DEF Commit
  <1>2. OthersSame(v) /\ ~view'[v].dirty /\ view'[v].file = view[v].file
    BY <1>1 DEF OthersSame, Views
  <1>3. deployment.modal => volume'.file = IF view[v].dirty THEN view[v].file ELSE volume.file
    BY DEF Commit, Committed
  <1> QED BY <1>2, <1>3 DEF Settled, Stays

LEMMA FetchFiles ==
  ASSUME GpuWorkerTypeOK, NEW v \in Containers, Reload(v)
  PROVE  Settled(v) /\ Shows(v)
  <1>1. CASE deployment.modal
    <2>1. PICK dir \in {volume, Committed(v)} : volume' = dir /\ Show(v, dir)
      BY <1>1 DEF Reload
    <2>2. view'[v] = [file |-> dir.file, stems |-> dir.stems, dirty |-> FALSE] /\ OthersSame(v)
      BY <2>1, Pieces DEF Show, OthersSame
    <2>3. dir.file = volume.file \/ (view[v].dirty /\ dir.file = view[v].file)
      BY DEF Committed
    <2> QED BY <1>1, <2>1, <2>2, <2>3 DEF Settled, Shows
  <1>2. CASE ~deployment.modal
    BY <1>2 DEF Reload, Settled, Shows, OthersSame
  <1> QED BY <1>1, <1>2

\* A container that was lost left the status it was writing cut short.
Tore(v) == deployment.modal /\ OthersSame(v) /\ ~view'[v].dirty /\ volume'.file = TornStatus

LEMMA LostFiles ==
  ASSUME GpuWorkerTypeOK, NEW v \in Containers, NEW writing, Terminate(v, writing)
  PROVE  (Settled(v) /\ Shows(v)) \/ (writing /\ Tore(v))
  <1>1. CASE deployment.modal
    <2>1. PICK dir \in Left(v, writing) : volume' = dir /\ Show(v, dir)
      BY <1>1 DEF Terminate
    <2>2. view'[v] = [file |-> dir.file, stems |-> dir.stems, dirty |-> FALSE] /\ OthersSame(v)
      BY <2>1, Pieces DEF Show, OthersSame
    <2>3. CASE dir \in {volume, Committed(v)}
      <3>1. dir.file = volume.file \/ (view[v].dirty /\ dir.file = view[v].file)
        BY <2>3 DEF Committed
      <3> QED BY <1>1, <2>1, <2>2, <3>1 DEF Settled, Shows
    <2>4. CASE writing /\ dir = [Committed(v) EXCEPT !.file = TornStatus]
      <3>1. dir.file = TornStatus
        BY <2>4 DEF Committed
      <3> QED BY <1>1, <2>1, <2>2, <2>4, <3>1 DEF Tore
    <2> QED BY <2>1, <2>3, <2>4 DEF Left
  <1>2. CASE ~deployment.modal
    BY <1>2 DEF Terminate, Settled, Shows, OthersSame
  <1> QED BY <1>1, <1>2

\* A run that is about to write its status is live.
LEMMA WritesLive ==
  ASSUME Typed, NEW run \in Runs, actor[run].pc \notin Resting, Writing(run)
  PROVE  Live(run)
  BY DEF Typed, Placed, Writing, Live, Resting, Actors

LEMMA WriteFiles ==
  ASSUME GpuWorkerTypeOK, NEW v \in Containers, NEW f, WriteStatus(v, f)
  PROVE  view'[v].file = f /\ view'[v].dirty /\ OthersSame(v) /\ volume' = volume
  <1>1. /\ view \in [Containers -> Views]
        /\ view' = [view EXCEPT ![v] = [view[v] EXCEPT !.file = f, !.dirty = TRUE]]
    BY Pieces DEF WriteStatus
  <1>2. view'[v].file = f /\ view'[v].dirty
    BY <1>1 DEF Views
  <1> QED BY <1>1, <1>2 DEF OthersSame, WriteStatus

\* A run that goes on sees a status that stands for it, and holds one.
Ahead(run) ==
    /\ Fresh(view'["runner"].file)
    /\ actor'[run].read \/ actor'[run].pc = "publishing" => Fresh(actor'[run].held)

\* Runs go on or end, so do submissions, and none begins.
Fewer ==
    /\ \A r \in Requests : actor'[r].pc \in {"upload", "send", "record"} =>
          actor'[r].pc = actor[r].pc /\ actor'[r].read = actor[r].read /\ actor'[r].held = actor[r].held
    /\ \A run \in Runs : Live(run)' => /\ Live(run)
                                       /\ actor'[run] = actor[run] \/ Ahead(run)

LEMMA SettledKept ==
  ASSUME OneApi, Typed, GpuWorkerTypeOK', ReservationInv, Exclusive', deployment' = deployment, Fewer,
         NEW v \in Containers,
         Settled(v), Stays(v) \/ Shows(v),
         v \in ApiViews /\ ~Stays(v) /\ deployment.modal => \A r \in Requests : actor'[r].pc \notin {"upload", "send", "record"}
  PROVE  ReservationInv'
  <1> USE DEF Typed
  <1>0. ApiViews' = ApiViews /\ ApiViews \subseteq Containers /\ "runner" \in Containers
        /\ (\A a, b \in ApiViews : a = b) /\ (deployment.modal => "runner" \notin ApiViews)
        /\ (~deployment.modal => ApiViews = {"runner"})
    BY ApiPlaces DEF ApiViews, Containers
  <1>1. /\ NoneLive => NoneLive'
        /\ NoneReserves => NoneReserves'
        /\ \A r \in Requests : Reserving(r)' => Reserving(r)
        /\ \A run \in Runs : Live(run)' => Live(run)
    BY DEF Fewer, NoneLive, NoneReserves, Reserving, Live
  <1>2. CASE ~deployment.modal
    <2>1. \A w \in Containers : view'[w].file = view[w].file
      BY <1>2 DEF Settled, OthersSame
    <2>2. ApiFresh' = ApiFresh /\ VolumeFresh /\ VolumeFresh'
      BY <1>0, <1>2, <2>1 DEF ApiFresh, VolumeFresh, Fresh
    <2>3. ReservedFresh'
      BY <1>1, <2>2 DEF ReservationInv, ReservedFresh, Fewer, Reserving, Fresh
    <2>4. RecordFresh'
      BY <1>1, <1>2, <2>2 DEF ReservationInv, RecordFresh, Fewer, Fresh
    <2>5. LiveFresh'
      BY <1>0, <1>1, <2>1, <2>2 DEF ReservationInv, LiveFresh, Fewer, Ahead, Fresh
    <2> QED BY <1>2, <2>3, <2>4, <2>5 DEF ReservationInv, DirtyFresh
  <1>3. CASE deployment.modal /\ v \notin ApiViews
    <2>1. v = "runner" /\ \A w \in ApiViews : view'[w] = view[w]
      BY <1>0, <1>3 DEF Settled, OthersSame, ApiViews, Containers
    <2>2. ApiFresh' = ApiFresh
      BY <1>0, <2>1 DEF ApiFresh, Fresh
    <2>3. ~(view["runner"].dirty /\ ~Fresh(view["runner"].file)) /\ VolumeFresh => VolumeFresh'
      BY <1>3, <2>1 DEF Settled, VolumeFresh, Fresh
    <2>4. ReservedFresh'
      BY <1>0, <1>1, <1>3, <2>1, <2>2, <2>3
      DEF ReservationInv, ReservedFresh, DirtyFresh, NoneReserves, Fewer, Reserving, Fresh
    <2>5. RecordFresh'
      BY <1>1, <1>3, <2>2 DEF ReservationInv, RecordFresh, Fewer, Fresh
    <2>6. LiveFresh'
      <3> SUFFICES ASSUME NEW run \in Runs, Live(run)'
                   PROVE  /\ \A other \in Runs : Live(other)' => other = run
                          /\ ApiFresh' /\ VolumeFresh'
                          /\ actor'[run].pc # "pending" =>
                                /\ Fresh(view'["runner"].file)
                                /\ actor'[run].read \/ actor'[run].pc = "publishing" => Fresh(actor'[run].held)
        BY DEF LiveFresh, Fresh
      <3>1. Live(run) /\ (actor'[run] = actor[run] \/ Ahead(run))
        BY DEF Fewer
      <3>2. ApiFresh' /\ VolumeFresh'
        BY <1>3, <2>2, <2>3, <3>1 DEF ReservationInv, LiveFresh, DirtyFresh, NoneLive
      <3>3. actor[run].pc # "pending" \/ Ahead(run) => Fresh(view'["runner"].file)
        BY <1>3, <2>1, <3>1, <3>2 DEF ReservationInv, LiveFresh, Stays, Shows, VolumeFresh, Fresh, Ahead
      <3> QED BY <1>1, <3>1, <3>2, <3>3 DEF ReservationInv, LiveFresh, Fresh, Ahead
    <2> QED BY <1>3, <2>1, <2>4, <2>5, <2>6 DEF ReservationInv, DirtyFresh, Settled
  <1>4. CASE deployment.modal /\ v \in ApiViews
    <2>1. view'["runner"] = view["runner"]
      BY <1>0, <1>4 DEF Settled, OthersSame
    <2>2. ApiFresh /\ VolumeFresh => ApiFresh' /\ VolumeFresh'
      BY <1>0, <1>4 DEF ApiFresh, VolumeFresh, Settled, Stays, Shows, Fresh
    <2>4. Stays(v) /\ ApiFresh /\ view[v].dirty => VolumeFresh'
      BY <1>0, <1>4 DEF ApiFresh, VolumeFresh, Stays, Fresh
    <2>5. Stays(v) /\ ApiFresh => ApiFresh'
      BY <1>0, <1>4 DEF ApiFresh, Stays, Fresh
    <2>6. ReservedFresh'
      BY <1>0, <1>1, <1>4, <2>2, <2>4, <2>5 DEF ReservationInv, ReservedFresh, Fewer, Reserving, Fresh
    <2>7. RecordFresh'
      BY <1>1, <1>4, <2>5 DEF ReservationInv, RecordFresh, Fewer, Fresh
    <2>8. LiveFresh'
      BY <1>1, <2>1, <2>2 DEF ReservationInv, LiveFresh, Fewer, Ahead, Fresh
    <2>9. DirtyFresh'
      BY <1>1, <1>4, <2>1, <2>2 DEF ReservationInv, DirtyFresh, Fresh
    <2> QED BY <2>6, <2>7, <2>8, <2>9 DEF ReservationInv
  <1> QED BY <1>2, <1>3, <1>4

\* What a live run leaves cut short stands for nothing, and nobody else is under way.
LEMMA TornKept ==
  ASSUME OneApi, Typed, ReservationInv, Exclusive', deployment' = deployment, Fewer,
         NEW run \in Runs, Live(run), ~Live(run)', Tore("runner")
  PROVE  ReservationInv'
  <1> USE DEF Typed
  <1>1. NoneReserves /\ NoneLive'
    BY DEF ReservationInv, ReservedFresh, LiveFresh, NoneReserves, NoneLive, Fewer
  <1>2. NoneReserves'
    BY <1>1 DEF NoneReserves, Reserving, Fewer
  <1>3. ApiFresh'
    BY ApiPlaces DEF ReservationInv, LiveFresh, ApiFresh, ApiViews, Tore, OthersSame, Fresh
  <1>4. ReservedFresh' /\ LiveFresh' /\ DirtyFresh'
    BY <1>1, <1>2 DEF ReservedFresh, LiveFresh, DirtyFresh, NoneReserves, NoneLive, Tore
  <1>5. RecordFresh'
    BY <1>2, <1>3 DEF ReservationInv, RecordFresh, Fewer, Tore, Fresh
  <1> QED BY <1>4, <1>5 DEF ReservationInv

\* Writing a status that stands for a job disturbs nobody.
LEMMA FreshWritten ==
  ASSUME OneApi, Typed, ReservationInv, Exclusive', deployment' = deployment, Fewer, NEW v \in Containers,
         OthersSame(v), volume'.file = volume.file,
         Fresh(view'[v].file), view'[v].dirty
  PROVE  ReservationInv'
  <1> USE DEF Typed
  <1>0. ApiViews' = ApiViews /\ ApiViews \subseteq Containers /\ "runner" \in Containers
        /\ (\A a, b \in ApiViews : a = b) /\ (deployment.modal => "runner" \notin ApiViews)
    BY ApiPlaces DEF ApiViews, Containers
  <1>1. /\ NoneLive => NoneLive'
        /\ NoneReserves => NoneReserves'
        /\ \A r \in Requests : Reserving(r)' => Reserving(r)
        /\ \A run \in Runs : Live(run)' => Live(run)
    BY DEF Fewer, NoneLive, NoneReserves, Reserving, Live
  <1>2. ApiFresh => ApiFresh'
    BY <1>0 DEF ApiFresh, OthersSame, Fresh
  <1>3. VolumeFresh' = VolumeFresh
    BY DEF VolumeFresh, Fresh
  <1>4. \A w \in ApiViews : ~view'[w].dirty => ~view[w].dirty
    BY <1>0 DEF OthersSame
  <1>5. ReservedFresh'
    BY <1>0, <1>1, <1>2, <1>3, <1>4 DEF ReservationInv, ReservedFresh, Fewer, Reserving, Fresh
  <1>6. RecordFresh'
    BY <1>1, <1>2 DEF ReservationInv, RecordFresh, Fewer, Fresh
  <1>7. Fresh(view["runner"].file) => Fresh(view'["runner"].file)
    BY <1>0 DEF OthersSame
  <1>8. LiveFresh'
    BY <1>1, <1>2, <1>3, <1>7 DEF ReservationInv, LiveFresh, Fewer, Ahead, Fresh
  <1>9. DirtyFresh'
    BY <1>0, <1>1, <1>2, <1>3 DEF ReservationInv, DirtyFresh, OthersSame, Fresh
  <1> QED BY <1>5, <1>6, <1>8, <1>9 DEF ReservationInv

----------------------------------------------------------------------------
(* Requests.                                                                *)

LEMMA ExclusiveKept ==
  ASSUME OneApi, Typed, Exclusive, deployment' = deployment,
         NEW r \in Requests, RequestStep(r) \/ \E c \in Containers : EnterContainer(r, c)
  PROVE  Exclusive'
  <1> USE DEF Typed
  <1>1. \A q \in Requests \ {r} : actor'[q] = actor[q]
    BY RequestsLeaveRuns
  <1>2. \A q \in Requests \ {r} : Busy(q)' = Busy(q)
    BY <1>1 DEF Busy, InLoop
  <1>3. \A q \in Requests \ {r} : ~Busy(q) \/ ~Busy(r)'
    <2>1. CASE ~deployment.modal
      BY <2>1 DEF Busy, RequestStep, EnterContainer, MayStep
    <2>2. CASE deployment.modal /\ RequestStep(r)
      <3>1. actor[r].pc \notin Resting
        BY <2>2 DEF RequestStep, LoadStatus, ReserveJob, ReceiveUpload, DispatchJob, RecordDispatch, Publish,
                    CancelJob, ConfirmCancel, Resting
      <3> QED BY <2>2, <3>1 DEF Busy, Exclusive
    <2>3. ASSUME deployment.modal, NEW c \in Containers, EnterContainer(r, c), NEW q \in Requests
          PROVE  ~Busy(q)
      <3>1. c \in ApiViews
        BY <2>3 DEF EnterContainer, ApiViews, Containers
      <3>2. actor[q].pc # "new" => actor[q].at = c
        BY <3>1, ApiPlaces
      <3> QED BY <2>3, <3>2 DEF EnterContainer, Busy, Resting
    <2> QED BY <2>1, <2>2, <2>3
  <1> QED BY <1>2, <1>3 DEF Exclusive

\* While a request is recording a dispatch or about to reserve, it alone is served.
LEMMA ReservesAlone ==
  ASSUME OneApi, Typed, Exclusive, NEW r \in Requests, MayStep(r), actor[r].pc = "entered",
         NEW q \in Requests, actor[q].pc = "record"
  PROVE  FALSE
  BY DEF Exclusive, Busy, MayStep, InLoop, Resting

LEMMA EnterReserves ==
  ASSUME OneApi, Typed, GpuWorkerTypeOK', ReservationInv, NEW r \in Requests, NEW c \in Containers,
         EnterContainer(r, c)
  PROVE  ReservationInv'
  <1> USE DEF Typed
  <1>0. r \in Actors /\ \A run \in Runs : run # r /\ run \in Actors
    BY CallsAssumption DEF Actors
  <1>1. deployment' = deployment
    BY DEF EnterContainer
  <1>2. Exclusive'
    BY <1>1, ExclusiveKept DEF ReservationInv
  <1>3. Settled(c) /\ Shows(c)
    BY FetchFiles DEF EnterContainer
  <1>4. actor'[r].pc = "entered" /\ \A a \in Actors \ {r} : actor'[a] = actor[a]
    BY <1>0, Pieces DEF EnterContainer, ActorStates
  <1>5. Fewer
    <2>1. \A q \in Requests : q \in Actors
      BY DEF Actors
    <2>2. \A run \in Runs : actor'[run] = actor[run]
      BY <1>0, <1>4
    <2> QED BY <1>4, <2>1, <2>2 DEF Fewer, Live
  <1>6. deployment.modal => \A q \in Requests : actor'[q].pc \notin {"upload", "send", "record"}
    <2> SUFFICES ASSUME deployment.modal, NEW q \in Requests, q # r
                 PROVE  actor[q].pc \notin {"upload", "send", "record"}
      BY <1>4 DEF Actors
    <2>1. c \in ApiViews
      BY DEF EnterContainer, ApiViews, Containers
    <2>2. actor[q].pc # "new" => actor[q].at = c
      BY <2>1, ApiPlaces
    <2> QED BY <2>2 DEF EnterContainer, Resting
  <1> QED BY <1>1, <1>2, <1>3, <1>5, <1>6, SettledKept

LEMMA GoesOn ==
  ASSUME Typed, NEW r \in Requests, NEW pc, Goto(r, pc)
  PROVE  /\ actor'[r].pc = pc /\ ~actor'[r].read
         /\ \A q \in Requests \ {r} : actor'[q] = actor[q]
         /\ \A run \in Runs : actor'[run] = actor[run]
         /\ pc \notin {"upload", "send", "record"} => Fewer
  <1>0. r \in Actors /\ (\A q \in Requests : q \in Actors) /\ \A run \in Runs : run # r /\ run \in Actors
    BY CallsAssumption DEF Actors
  <1>1. actor' = [actor EXCEPT ![r] = [actor[r] EXCEPT !.pc = pc, !.read = FALSE, !.held = NoStatus]]
    BY <1>0, Pieces DEF Typed, Goto, ActorStates
  <1>2. \A a \in Actors \ {r} : actor'[a] = actor[a]
    BY <1>1, Pieces DEF Typed
  <1>3. actor'[r].pc = pc /\ ~actor'[r].read
    BY <1>0, <1>1, Pieces DEF Typed, ActorStates
  <1>4. pc \notin {"upload", "send", "record"} => Fewer
    BY <1>0, <1>2, <1>3 DEF Fewer, Live
  <1> QED BY <1>0, <1>2, <1>3, <1>4

LEMMA LoadReserves ==
  ASSUME OneApi, Typed, ReservationInv, Exclusive', deployment' = deployment,
         NEW r \in Requests, actor[r].pc \in {"upload", "record", "confirm"}, LoadStatus(r)
  PROVE  ReservationInv'
  <1> USE DEF Typed
  <1>0. r \in Actors /\ (\A q \in Requests : q \in Actors) /\ \A run \in Runs : run # r /\ run \in Actors
    BY CallsAssumption DEF Actors
  <1>1. actor' = [actor EXCEPT ![r] = [actor[r] EXCEPT !.read = TRUE, !.held = File(r)]]
    BY <1>0, Pieces DEF LoadStatus, ActorStates
  <1>2. /\ \A a \in Actors \ {r} : actor'[a] = actor[a]
        /\ actor'[r].pc = actor[r].pc /\ actor'[r].held = File(r)
    BY <1>0, <1>1, Pieces DEF ActorStates
  <1>3. volume' = volume /\ view' = view
    BY DEF LoadStatus
  <1>4. ApiFresh => Fresh(File(r))
    BY ApiPlaces DEF ApiFresh, File
  <1>5. /\ ApiFresh' = ApiFresh /\ VolumeFresh' = VolumeFresh /\ NoneLive' = NoneLive
        /\ NoneReserves' = NoneReserves
        /\ (\A q \in Requests : Reserving(q)' = Reserving(q)) /\ \A run \in Runs : actor'[run] = actor[run]
    BY <1>0, <1>2, <1>3 DEF ApiFresh, VolumeFresh, NoneLive, NoneReserves, Reserving, Live, ApiViews, Fresh
  <1>6. ReservedFresh'
    BY <1>0, <1>2, <1>3, <1>4, <1>5 DEF ReservationInv, ReservedFresh, ApiViews, Fresh
  <1>7. RecordFresh'
    <2>1. ~ApiFresh => NoneLive
      BY DEF ReservationInv, LiveFresh, NoneLive
    <2> QED BY <1>0, <1>2, <1>4, <1>5, <2>1 DEF ReservationInv, RecordFresh, Fresh
  <1>8. LiveFresh'
    BY <1>3, <1>5 DEF ReservationInv, LiveFresh, Live, Fresh
  <1>9. DirtyFresh'
    BY <1>3, <1>5 DEF ReservationInv, DirtyFresh, Fresh
  <1> QED BY <1>6, <1>7, <1>8, <1>9 DEF ReservationInv

LEMMA ReserveReserves ==
  ASSUME OneApi, Typed, ReservationInv, Exclusive', deployment' = deployment,
         NEW r \in Requests, MayStep(r), ReserveJob(r)
  PROVE  ReservationInv'
  <1> USE DEF Typed
  <1> DEFINE at == actor[r].at
  <1>0. at \in ApiViews /\ ApiViews' = ApiViews /\ ApiViews \subseteq Containers /\ actor[r].pc = "entered"
        /\ (\A a, b \in ApiViews : a = b) /\ (deployment.modal => "runner" \notin ApiViews)
    BY ApiPlaces DEF ReserveJob, ApiViews
  <1>1. CASE \E pc \in {"answered", "failed"} : Goto(r, pc) /\ UNCHANGED <<volume, view>>
    <2>1. Fewer
      BY <1>1, GoesOn
    <2>2. /\ ApiFresh' = ApiFresh /\ VolumeFresh' = VolumeFresh /\ (NoneLive => NoneLive')
          /\ (NoneReserves => NoneReserves')
      BY <1>0, <1>1, <2>1 DEF ApiFresh, VolumeFresh, NoneLive, NoneReserves, Reserving, Fewer, Fresh
    <2>3. ReservedFresh' /\ RecordFresh' /\ DirtyFresh'
      BY <1>0, <1>1, <2>1, <2>2
      DEF ReservationInv, ReservedFresh, RecordFresh, DirtyFresh, Fewer, Reserving, Fresh
    <2>4. LiveFresh'
      BY <1>1, <2>1, <2>2 DEF ReservationInv, LiveFresh, Fewer, Ahead, Fresh
    <2> QED BY <2>3, <2>4 DEF ReservationInv
  <1>2. CASE /\ File(r).status \notin REPLAYABLE_JOB_STATES \cup {"torn"}
             /\ WriteStatus(at, NewStatus)
             /\ \E next \in {"upload", "send"} : Goto(r, next)
    <2>1. ~ApiFresh
      BY <1>0, <1>2 DEF ApiFresh, File, Fresh
    <2>2. /\ NoneLive /\ NoneReserves
          /\ ~(deployment.modal /\ view["runner"].dirty /\ ~Fresh(view["runner"].file))
      BY <2>1 DEF ReservationInv, LiveFresh, ReservedFresh, DirtyFresh, NoneLive, NoneReserves
    <2>3. view'[at].file = NewStatus /\ view'[at].dirty /\ OthersSame(at) /\ volume' = volume
      BY <1>0, <1>2, WriteFiles
    <2>4. ApiFresh' /\ \A v \in ApiViews : view'[v].dirty
      BY <1>0, <2>3 DEF ApiFresh, Fresh, NewStatus, REPLAYABLE_JOB_STATES
    <2>5. /\ ~actor'[r].read
          /\ \A q \in Requests \ {r} : actor'[q] = actor[q]
          /\ \A run \in Runs : actor'[run] = actor[run]
          /\ actor'[r].pc # "record"
      BY <1>2, GoesOn
    <2>6. NoneLive' /\ \A q \in Requests : Reserving(q)' => q = r
      BY <2>2, <2>5 DEF NoneLive, NoneReserves, Live, Reserving
    <2>7. ReservedFresh'
      BY <1>0, <2>4, <2>5, <2>6 DEF ReservedFresh
    <2>8. RecordFresh'
      BY <1>0, <2>5, ReservesAlone DEF RecordFresh, ReservationInv
    <2>9. LiveFresh'
      BY <2>6 DEF LiveFresh, NoneLive
    <2>10. deployment.modal => view'["runner"] = view["runner"]
      BY <1>0, <2>3 DEF OthersSame, Containers
    <2>11. DirtyFresh'
      BY <2>2, <2>10 DEF DirtyFresh, Fresh
    <2> QED BY <2>7, <2>8, <2>9, <2>11 DEF ReservationInv
  <1> QED BY <1>1, <1>2 DEF ReserveJob

LEMMA UploadReserves ==
  ASSUME OneApi, Typed, ReservationInv, Exclusive', deployment' = deployment,
         NEW r \in Requests, ReceiveUpload(r)
  PROVE  ReservationInv'
  <1> USE DEF Typed
  <1> DEFINE at == actor[r].at
             held == actor[r].held
  <1>0. at \in ApiViews /\ ApiViews' = ApiViews /\ ApiViews \subseteq Containers
        /\ (\A a, b \in ApiViews : a = b) /\ (deployment.modal => "runner" \notin ApiViews)
    BY ApiPlaces DEF ReceiveUpload, ApiViews
  <1>1. /\ Reserving(r) /\ Fresh(held) /\ NoneLive /\ ApiFresh
        /\ \A q \in Requests : Reserving(q) => q = r
    BY DEF ReceiveUpload, UpdateStatus, ReservationInv, ReservedFresh, Reserving
  <1>2. (\A q \in Requests : actor[q].pc # "record")
        /\ ~(deployment.modal /\ view["runner"].dirty /\ ~Fresh(view["runner"].file))
    BY <1>1 DEF ReservationInv, RecordFresh, DirtyFresh, NoneReserves
  <1>3. PICK pc \in {"send", "failed"} : \E f : /\ WriteStatus(at, f) /\ Goto(r, pc)
                                                /\ pc = "send" => f = held
    BY DEF ReceiveUpload, UpdateStatus
  <1>f. PICK f : WriteStatus(at, f) /\ Goto(r, pc) /\ (pc = "send" => f = held)
    BY <1>3
  <1>4. view'[at].file = f /\ view'[at].dirty /\ OthersSame(at) /\ volume' = volume
    BY <1>0, <1>f, WriteFiles
  <1>5. /\ actor'[r].pc = pc /\ ~actor'[r].read
        /\ \A q \in Requests \ {r} : actor'[q] = actor[q]
        /\ \A run \in Runs : actor'[run] = actor[run]
    BY <1>f, GoesOn
  <1>6. NoneLive' /\ \A q \in Requests : Reserving(q)' => q = r /\ pc = "send"
    BY <1>1, <1>5 DEF NoneLive, Live, Reserving
  <1>7. ReservedFresh'
    <2>1. pc = "send" => ApiFresh'
      BY <1>0, <1>1, <1>f, <1>4 DEF ApiFresh, Fresh
    <2>2. \A v \in ApiViews : view'[v].dirty
      BY <1>0, <1>4
    <2> QED BY <1>0, <1>5, <1>6, <2>1, <2>2 DEF ReservedFresh
  <1>8. RecordFresh'
    BY <1>2, <1>5 DEF RecordFresh
  <1>9. LiveFresh'
    BY <1>6 DEF LiveFresh, NoneLive
  <1>10. deployment.modal => view'["runner"] = view["runner"]
    BY <1>0, <1>4 DEF OthersSame, Containers
  <1>11. DirtyFresh'
    BY <1>2, <1>10 DEF DirtyFresh, Fresh
  <1> QED BY <1>7, <1>8, <1>9, <1>11 DEF ReservationInv

LEMMA DispatchReserves ==
  ASSUME OneApi, Typed, GpuWorkerTypeOK', ReservationInv, Exclusive', deployment' = deployment,
         NEW r \in Requests, DispatchJob(r)
  PROVE  ReservationInv'
  <1> USE DEF Typed
  <1> DEFINE at == actor[r].at
             run == RunOf(r)
  <1>0. at \in ApiViews /\ ApiViews' = ApiViews /\ ApiViews \subseteq Containers
        /\ (\A a, b \in ApiViews : a = b) /\ (deployment.modal => "runner" \notin ApiViews)
    BY ApiPlaces DEF DispatchJob, ApiViews
  <1>1. Settled(at) /\ Stays(at)
    BY <1>0, CommitFiles DEF DispatchJob
  <1>2. CASE Goto(r, "failed")
    BY <1>0, <1>1, <1>2, GoesOn, SettledKept
  <1>3. CASE actor' = [actor EXCEPT ![r].pc = "record", ![RunOf(r)].pc = "pending"]
    <2>1. r \in Submissions /\ run \in Runs /\ r # run /\ r \in Actors /\ run \in Actors
          /\ (\A q \in Requests : q \in Actors /\ q # run) /\ \A other \in Runs : other \in Actors /\ other # r
      BY CallsAssumption DEF DispatchJob, Placed, Requests, Runs, Actors
    <2>2. /\ actor'[r].pc = "record" /\ actor'[r].read = actor[r].read /\ actor'[r].held = actor[r].held
          /\ actor'[run].pc = "pending"
          /\ \A q \in Requests \ {r} : actor'[q] = actor[q]
          /\ \A other \in Runs \ {run} : actor'[other] = actor[other]
      BY <1>3, <2>1, Pieces DEF ActorStates
    <2>3. /\ NoneLive /\ ApiFresh /\ (actor[r].read => Fresh(actor[r].held))
          /\ \A q \in Requests : Reserving(q) => q = r
          /\ (\E v \in ApiViews : ~view[v].dirty) => VolumeFresh
      BY DEF DispatchJob, ReservationInv, ReservedFresh, Reserving
    <2>4. (\A q \in Requests : actor[q].pc # "record")
          /\ ~(deployment.modal /\ view["runner"].dirty /\ ~Fresh(view["runner"].file))
      <3>1. Reserving(r)
        BY DEF DispatchJob, Reserving
      <3> QED BY <3>1 DEF ReservationInv, RecordFresh, DirtyFresh, NoneReserves
    <2>5. NoneReserves'
      BY <2>2, <2>3 DEF NoneReserves, Reserving
    <2>6. ApiFresh' /\ VolumeFresh'
      <3>1. ApiFresh'
        BY <1>0, <1>1, <2>3 DEF ApiFresh, Stays, Fresh
      <3>2. CASE deployment.modal /\ view[at].dirty
        BY <1>0, <1>1, <2>3, <3>1, <3>2 DEF ApiFresh, VolumeFresh, Stays, Fresh
      <3>3. CASE deployment.modal /\ ~view[at].dirty
        <4>1. VolumeFresh
          BY <1>0, <2>3, <3>3
        <4>2. volume'.file = volume.file
          BY <1>1, <3>3 DEF Settled
        <4> QED BY <3>1, <3>3, <4>1, <4>2 DEF VolumeFresh, Fresh
      <3> QED BY <3>1, <3>2, <3>3 DEF VolumeFresh
    <2>7. \A other \in Runs : Live(other)' => other = run
      BY <2>2, <2>3 DEF NoneLive, Live
    <2>8. LiveFresh'
      BY <2>2, <2>6, <2>7 DEF LiveFresh
    <2>9. RecordFresh'
      BY <2>2, <2>3, <2>4, <2>5, <2>6 DEF RecordFresh, Fresh
    <2>10. ReservedFresh'
      BY <2>5 DEF ReservedFresh, NoneReserves
    <2>11. deployment.modal => view'["runner"] = view["runner"]
      BY <1>0, <1>1 DEF Settled, OthersSame, Containers
    <2>12. DirtyFresh'
      BY <2>4, <2>11 DEF DirtyFresh, Fresh
    <2> QED BY <2>8, <2>9, <2>10, <2>12 DEF ReservationInv
  <1> QED BY <1>2, <1>3 DEF DispatchJob

LEMMA RecordReserves ==
  ASSUME OneApi, Typed, ReservationInv, Exclusive', deployment' = deployment,
         NEW r \in Requests, RecordDispatch(r)
  PROVE  ReservationInv'
  <1> USE DEF Typed
  <1> DEFINE at == actor[r].at
  <1>0. at \in ApiViews /\ ApiViews' = ApiViews /\ ApiViews \subseteq Containers
        /\ (\A a, b \in ApiViews : a = b) /\ (deployment.modal => "runner" \notin ApiViews)
        /\ (~deployment.modal => ApiViews = {"runner"})
    BY ApiPlaces DEF RecordDispatch, ApiViews
  <1>1. PICK f : WriteStatus(at, f) /\ Goto(r, "publish") /\ f.status = actor[r].held.status
    <2>1. actor[r].held \in [status : REPLAYABLE_JOB_STATES \cup {"none", "error", "torn"}, call : Runs \cup {NoCall}, stems : SUBSET Roles]
      BY HeldTyped DEF StatusFiles, Actors
    <2> QED BY <2>1 DEF RecordDispatch, UpdateStatus
  <1>2. view'[at].file = f /\ view'[at].dirty /\ OthersSame(at) /\ volume' = volume
    BY <1>0, <1>1, WriteFiles
  <1>3. Fewer
    BY <1>1, GoesOn
  <1>4. CASE Fresh(f)
    BY <1>0, <1>2, <1>3, <1>4, FreshWritten
  <1>5. CASE ~Fresh(f)
    <2>1. ~deployment.modal /\ NoneLive /\ NoneReserves
      BY <1>1, <1>5 DEF ReservationInv, RecordFresh, RecordDispatch, UpdateStatus, Fresh
    <2>2. NoneLive' /\ NoneReserves'
      BY <1>3, <2>1 DEF Fewer, NoneLive, NoneReserves, Reserving
    <2>3. ReservedFresh' /\ LiveFresh' /\ DirtyFresh'
      BY <2>1, <2>2 DEF ReservedFresh, LiveFresh, DirtyFresh, NoneLive, NoneReserves
    <2>4. RecordFresh'
      BY <1>3, <2>1, <2>2 DEF RecordFresh
    <2> QED BY <2>3, <2>4 DEF ReservationInv
  <1> QED BY <1>4, <1>5

\* A cancellation ends runs.
LEMMA CancelReserves ==
  ASSUME OneApi, Typed, GpuWorkerTypeOK', ReservationInv, Exclusive', deployment' = deployment,
         NEW r \in Requests, CancelJob(r) \/ ConfirmCancel(r) \/ Publish(r)
  PROVE  ReservationInv'
  <1> USE DEF Typed
  <1> DEFINE at == actor[r].at
  <1>0. at \in ApiViews /\ at \in Containers /\ r \in Actors
    BY ApiPlaces, HeldTyped DEF CancelJob, ConfirmCancel, Publish, Actors
  <1>n. ASSUME Fewer, UNCHANGED <<volume, view>> PROVE ReservationInv'
    <2>1. /\ ApiFresh' = ApiFresh /\ VolumeFresh' = VolumeFresh /\ (NoneLive => NoneLive')
          /\ (NoneReserves => NoneReserves')
          /\ (\A q \in Requests : Reserving(q)' => Reserving(q)) /\ (\A run \in Runs : Live(run)' => Live(run))
      BY <1>n DEF ApiFresh, VolumeFresh, NoneLive, NoneReserves, Reserving, Fewer, Fresh, ApiViews
    <2>2. ReservedFresh'
      BY <1>n, <2>1 DEF ReservationInv, ReservedFresh, Fewer, Reserving, ApiViews, Fresh
    <2>3. RecordFresh' /\ DirtyFresh'
      BY <1>n, <2>1 DEF ReservationInv, RecordFresh, DirtyFresh, Fewer, Fresh
    <2>4. LiveFresh'
      BY <1>n, <2>1 DEF ReservationInv, LiveFresh, Fewer, Ahead, Fresh
    <2> QED BY <2>2, <2>3, <2>4 DEF ReservationInv
  <1>1. CASE Publish(r)
    <2>1. Settled(at) /\ Stays(at) /\ Fewer
      BY <1>0, <1>1, CommitFiles, GoesOn DEF Publish
    <2> QED BY <1>0, <2>1, SettledKept
  <1>2. CASE ConfirmCancel(r)
    <2>1. PICK f : WriteStatus(at, f) /\ Goto(r, "publish") /\ f.status = "cancelled"
      <3>1. actor[r].held \in [status : REPLAYABLE_JOB_STATES \cup {"none", "error", "torn"}, call : Runs \cup {NoCall}, stems : SUBSET Roles]
        BY <1>0, HeldTyped DEF StatusFiles
      <3> QED BY <1>2, <3>1 DEF ConfirmCancel, UpdateStatus
    <2>2. view'[at].file = f /\ view'[at].dirty /\ OthersSame(at) /\ volume' = volume
      BY <1>0, <2>1, WriteFiles
    <2>3. Fewer /\ Fresh(f)
      BY <2>1, GoesOn DEF Fresh, REPLAYABLE_JOB_STATES
    <2> QED BY <1>0, <2>2, <2>3, FreshWritten
  <1>3. CASE CancelJob(r)
    <2>0. \A run \in Runs : run # r /\ run \in Actors
      BY CallsAssumption DEF Actors
    <2>1. ASSUME NEW pc \in {"answered", "failed"}, Goto(r, pc), UNCHANGED <<volume, view>>
          PROVE  ReservationInv'
      BY <1>n, <2>1, GoesOn
    <2>2. StopFuture(r) \/ (\E run \in Runs : StopRun(r, run)) => Fewer
      <3>1. ASSUME StopFuture(r) \/ \E run \in Runs : StopRun(r, run) PROVE Fewer
        <4>1. actor'[r].pc = "confirm"
          <5>1. CASE StopFuture(r)
            BY <1>0, <2>0, <5>1, Pieces DEF StopFuture, ActorStates
          <5>2. ASSUME NEW run \in Runs, StopRun(r, run) PROVE actor'[r].pc = "confirm"
            BY <1>0, <2>0, <5>2, Pieces DEF StopRun, ActorStates
          <5> QED BY <3>1, <5>1, <5>2
        <4>2. \A run \in Runs : actor'[run] = actor[run] \/ actor'[run].pc = "stopped"
          <5>1. CASE StopFuture(r)
            BY <2>0, <5>1, Pieces DEF StopFuture, ActorStates
          <5>2. ASSUME NEW run \in Runs, StopRun(r, run)
                PROVE  \A other \in Runs : actor'[other] = actor[other] \/ actor'[other].pc = "stopped"
            BY <2>0, <5>2, Pieces DEF StopRun, ActorStates
          <5> QED BY <3>1, <5>1, <5>2
        <4>3. \A q \in Requests \ {r} : actor'[q] = actor[q]
          <5>0. \A q \in Requests : q \in Actors /\ q \notin Runs
            BY CallsAssumption DEF Actors
          <5>1. CASE StopFuture(r)
            BY <5>0, <5>1, Pieces DEF StopFuture
          <5>2. ASSUME NEW run \in Runs,
                       StopRun(r, run) PROVE \A q \in Requests \ {r} : actor'[q] = actor[q]
            BY <5>0, <5>2, Pieces DEF StopRun
          <5> QED BY <3>1, <5>1, <5>2
        <4> QED BY <4>1, <4>2, <4>3 DEF Fewer, Live
      <3> QED BY <3>1
    <2>4. ASSUME NEW run \in Runs, StopRun(r, run), actor[run].pc \notin Resting PROVE ReservationInv'
      <3>1. "runner" \in Containers /\ (deployment.modal => "runner" \notin ApiViews)
        BY ApiPlaces DEF Containers
      <3>2. Fewer /\ Terminate("runner", Writing(run))
        BY <2>2, <2>4 DEF StopRun
      <3>3. CASE Settled("runner") /\ Shows("runner")
        BY <3>1, <3>2, <3>3, SettledKept
      <3>4. CASE Writing(run) /\ Tore("runner")
        <4>1. actor'[run].pc = "stopped"
          BY <1>0, <2>0, <2>4, Pieces DEF StopRun, ActorStates
        <4> QED BY <2>4, <3>2, <3>4, <4>1, WritesLive, TornKept DEF Live
      <3> QED BY <3>1, <3>2, <3>3, <3>4, LostFiles
    <2>5. CASE StopFuture(r)
      BY <1>n, <2>2, <2>5 DEF StopFuture
    <2>6. ASSUME NEW run \in Runs, StopRun(r, run) PROVE ReservationInv'
      BY <1>n, <2>2, <2>4, <2>6 DEF StopRun
    <2>7. File(r).call \in Runs \cup {NoCall}
      BY <1>0, HeldTyped DEF StatusFiles
    <2> QED BY <1>3, <2>1, <2>5, <2>6, <2>7 DEF CancelJob
  <1> QED BY <1>1, <1>2, <1>3

----------------------------------------------------------------------------
(* Runs, and what goes on beside them.                                      *)

\* Every status is as it was, and so is what is left to commit.
FilesSame ==
    /\ volume'.file = volume.file
    /\ \A w \in Containers : view'[w].file = view[w].file /\ view'[w].dirty = view[w].dirty

LEMMA QuietKept ==
  ASSUME OneApi, Typed, ReservationInv, Exclusive', deployment' = deployment, Fewer, FilesSame
  PROVE  ReservationInv'
  <1> USE DEF Typed
  <1>0. ApiViews' = ApiViews /\ ApiViews \subseteq Containers /\ "runner" \in Containers
    BY ApiPlaces DEF ApiViews, Containers
  <1>1. /\ ApiFresh' = ApiFresh /\ VolumeFresh' = VolumeFresh /\ (NoneLive => NoneLive') /\ (NoneReserves => NoneReserves')
        /\ (\A q \in Requests : Reserving(q)' => Reserving(q)) /\ (\A run \in Runs : Live(run)' => Live(run))
    BY <1>0 DEF ApiFresh, VolumeFresh, NoneLive, NoneReserves, Reserving, Fewer, Fresh, FilesSame
  <1>2. ReservedFresh'
    BY <1>0, <1>1 DEF ReservationInv, ReservedFresh, Fewer, Reserving, FilesSame, Fresh
  <1>3. RecordFresh' /\ DirtyFresh'
    BY <1>0, <1>1 DEF ReservationInv, RecordFresh, DirtyFresh, Fewer, FilesSame, Fresh
  <1>4. LiveFresh'
    BY <1>0, <1>1 DEF ReservationInv, LiveFresh, Fewer, Ahead, FilesSame, Fresh
  <1> QED BY <1>2, <1>3, <1>4 DEF ReservationInv

\* What a run that goes on commits or fetches still stands for it.
LEMMA FetchAhead ==
  ASSUME OneApi, Typed, ReservationInv, NEW run \in Runs, Live(run), Settled("runner"),
         Shows("runner") \/ (Stays("runner") /\ actor[run].pc # "pending")
  PROVE  Fresh(view'["runner"].file)
  <1>0. deployment.modal \/ "runner" \in ApiViews
    BY DEF ApiViews
  <1>1. ApiFresh /\ VolumeFresh /\ (actor[run].pc # "pending" => Fresh(view["runner"].file))
    BY DEF ReservationInv, LiveFresh
  <1>2. deployment.modal => ~(view["runner"].dirty /\ ~Fresh(view["runner"].file))
    BY DEF ReservationInv, DirtyFresh, NoneLive
  <1>3. CASE ~deployment.modal
    BY <1>0, <1>1, <1>3 DEF ApiFresh, Settled, Fresh
  <1>4. CASE deployment.modal /\ Shows("runner")
    BY <1>1, <1>2, <1>4 DEF VolumeFresh, Settled, Shows, Fresh
  <1>5. CASE Stays("runner") /\ actor[run].pc # "pending"
    BY <1>1, <1>5 DEF Stays, Fresh
  <1> QED BY <1>3, <1>4, <1>5

LEMMA OtherReserves ==
  ASSUME OneApi, Typed, ReservationInv, deployment' = deployment,
         \/ \E role \in Roles : BranchEnds(role)
         \/ \E c \in ApiContainers : JobStatus(c)
         \/ \E v \in Containers : BackgroundCommit(v)
  PROVE  ReservationInv'
  <1> USE DEF Typed
  <1>1. actor' = actor /\ TypedStep
    BY OtherTyped
  <1>2. Exclusive' /\ Fewer /\ GpuWorkerTypeOK'
    BY <1>1, TypedSteps DEF ReservationInv, Exclusive, Busy, InLoop, Fewer, Live
  <1>3. ASSUME NEW role \in Roles, BranchEnds(role) PROVE ReservationInv'
    <2>1. FilesSame
      BY <1>3, Pieces DEF FilesSame, BranchEnds, Dirs
    <2> QED BY <1>2, <2>1, QuietKept
  <1>4. ASSUME NEW c \in ApiContainers, JobStatus(c) PROVE ReservationInv'
    <2>1. c \in Containers /\ c \in ApiViews /\ deployment.modal
      BY <1>4 DEF JobStatus, Containers, ApiViews
    <2>2. Settled(c) /\ Shows(c)
      BY <1>4, <2>1, FetchFiles DEF JobStatus
    <2>3. \A r \in Requests : actor[r].pc \notin {"upload", "send", "record"}
      <3>1. \A r \in Requests : actor[r].pc # "new" => actor[r].at = c
        BY <2>1, ApiPlaces
      <3> QED BY <1>4, <3>1 DEF JobStatus, Resting
    <2> QED BY <1>1, <1>2, <2>1, <2>2, <2>3, SettledKept
  <1>5. ASSUME NEW v \in Containers, BackgroundCommit(v) PROVE ReservationInv'
    <2>1. Settled(v) /\ Stays(v)
      BY <1>5, CommitFiles DEF BackgroundCommit
    <2> QED BY <1>2, <2>1, SettledKept
  <1> QED BY <1>3, <1>4, <1>5

\* A run ends, or goes on with a status that stands for it.
LEMMA RunFewer ==
  ASSUME Typed, Exclusive, deployment' = deployment, NEW run \in Runs, OthersStay(run),
         Live(run)' => Live(run) /\ (actor'[run] = actor[run] \/ Ahead(run))
  PROVE  Fewer /\ Exclusive'
  <1>1. \A r \in Requests : actor'[r] = actor[r]
    BY CallsAssumption DEF OthersStay, Actors
  <1>2. \A other \in Runs \ {run} : actor'[other] = actor[other]
    BY DEF OthersStay, Actors
  <1>3. Fewer
    BY <1>1, <1>2 DEF Fewer, Live
  <1>4. Exclusive'
    BY <1>1 DEF Exclusive, Busy, InLoop
  <1> QED BY <1>3, <1>4

\* The end a run writes is the only one that need not stand for a job.
LEMMA FailReserves ==
  ASSUME OneApi, Typed, ReservationInv, deployment' = deployment,
         NEW run \in Runs, FailWorkerJob(run)
  PROVE  ReservationInv'
  <1> USE DEF Typed
  <1>0. run \in Actors /\ actor[run].at = "runner" /\ "runner" \in Containers
    BY DEF Actors, Placed, Containers
  <1>1. PICK f : WriteStatus("runner", f) /\ Goto(run, "committing")
    BY <1>0 DEF FailWorkerJob, UpdateStatus
  <1>2. view'["runner"].file = f /\ view'["runner"].dirty /\ OthersSame("runner") /\ volume' = volume
    BY <1>0, <1>1, WriteFiles
  <1>3. actor'[run].pc = "committing"
    BY <1>0, <1>1, Pieces DEF Goto, ActorStates
  <1>4. OthersStay(run)
    BY RunsLeaveOthers DEF RunWorks
  <1>5. Fewer /\ Exclusive'
    BY <1>3, <1>4, RunFewer DEF ReservationInv, Live
  <1>6. Live(run)
    BY DEF FailWorkerJob, Live
  <1>7. ApiFresh /\ VolumeFresh /\ NoneReserves /\ NoneLive'
    <2>1. \A other \in Runs : Live(other) => other = run
      BY <1>6 DEF ReservationInv, LiveFresh
    <2>2. ~Live(run)'
      BY <1>3 DEF Live
    <2> QED BY <1>5, <1>6, <2>1, <2>2
            DEF ReservationInv, LiveFresh, ReservedFresh, NoneLive, NoneReserves, Fewer
  <1>8. NoneReserves'
    BY <1>5, <1>7 DEF NoneReserves, Reserving, Fewer
  <1>9. deployment.modal => ApiFresh' /\ VolumeFresh'
    BY <1>0, <1>2, <1>7, ApiPlaces DEF ApiFresh, VolumeFresh, ApiViews, OthersSame, Fresh
  <1>10. RecordFresh'
    BY <1>5, <1>7, <1>8, <1>9 DEF ReservationInv, RecordFresh, Fewer, Fresh
  <1>11. ReservedFresh' /\ LiveFresh' /\ DirtyFresh'
    BY <1>7, <1>8, <1>9 DEF ReservedFresh, LiveFresh, DirtyFresh, NoneReserves, NoneLive
  <1> QED BY <1>5, <1>10, <1>11 DEF ReservationInv

LEMMA RunReserves ==
  ASSUME OneApi, Typed, GpuWorkerTypeOK', ReservationInv, deployment' = deployment,
         NEW run \in Runs, RunWorks(run) \/ RunDies(run)
  PROVE  ReservationInv'
  <1> USE DEF Typed
  <1> DEFINE held == actor[run].held
             seen == view["runner"].file
  <1>0. /\ run \in Actors /\ actor[run].at = "runner" /\ "runner" \in Containers
        /\ (deployment.modal => "runner" \notin ApiViews)
    BY ApiPlaces DEF Actors, Placed, Containers
  <1>s. OthersStay(run) /\ Exclusive
    BY RunsLeaveOthers DEF ReservationInv
  <1>g. ASSUME NEW pc, Goto(run, pc) PROVE actor'[run].pc = pc /\ ~actor'[run].read
    BY <1>0, <1>g, Pieces DEF Goto, ActorStates
  <1>l. ASSUME Live(run), actor[run].pc # "pending"
        PROVE  Fresh(seen) /\ (actor[run].read \/ actor[run].pc = "publishing" => Fresh(held))
    BY <1>l DEF ReservationInv, LiveFresh
  \* It commits or fetches, and goes on.
  <1>c. ASSUME NEW pc, Goto(run, pc), pc # "publishing", Live(run) \/ pc \in {"ended", "stopped"},
               \/ Commit("runner") /\ actor[run].pc # "pending"
               \/ Reload("runner")
               \/ Settled("runner") /\ Shows("runner")
        PROVE  ReservationInv'
    <2>1. /\ Settled("runner")
          /\ Shows("runner") \/ (Stays("runner") /\ actor[run].pc # "pending")
      BY <1>0, <1>c, CommitFiles, FetchFiles
    <2>2. Live(run) => Ahead(run)
      BY <1>c, <1>g, <2>1, FetchAhead DEF Ahead
    <2>3. Fewer /\ Exclusive'
      BY <1>c, <1>g, <1>s, <2>2, RunFewer DEF Live
    <2> QED BY <1>0, <2>1, <2>3, SettledKept
  \* It writes a status that stands for it, and goes on.
  <1>w. ASSUME NEW f, WriteStatus("runner", f), Fresh(f), Live(run),
               actor'[run].read \/ actor'[run].pc = "publishing" => Fresh(actor'[run].held)
        PROVE  ReservationInv'
    <2>1. view'["runner"].file = f /\ view'["runner"].dirty /\ OthersSame("runner") /\ volume' = volume
      BY <1>0, <1>w, WriteFiles
    <2>2. Fewer /\ Exclusive'
      BY <1>s, <1>w, <2>1, RunFewer DEF Ahead
    <2> QED BY <1>0, <1>w, <2>1, <2>2, FreshWritten
  \* It changes no status.
  <1>q. ASSUME FilesSame, Live(run), actor[run].pc # "pending",
               \/ actor'[run] = actor[run]
               \/ actor'[run].read \/ actor'[run].pc = "publishing" => Fresh(actor'[run].held)
        PROVE  ReservationInv'
    <2>1. actor'[run] = actor[run] \/ Ahead(run)
      BY <1>0, <1>l, <1>q DEF Ahead, FilesSame, Fresh
    <2>2. Fewer /\ Exclusive'
      BY <1>s, <1>q, <2>1, RunFewer
    <2> QED BY <1>q, <2>2, QuietKept
  <1>u. UNCHANGED <<volume, view>> => FilesSame
    BY DEF FilesSame
  <1>1. CASE StartRun(run)
    <2>1. PICK pc \in {"committing", "failing", "input", "executing"} : Goto(run, pc)
      BY <1>1 DEF StartRun, Begun
    <2> QED BY <1>1, <1>c, <2>1 DEF StartRun, Live
  <1>2. CASE LoadsStatus(run) /\ LoadStatus(run)
    <2>1. Live(run) /\ actor[run].pc # "pending" /\ actor[run].pc # "publishing"
      BY <1>2 DEF LoadsStatus, Live
    <2>2. actor' = [actor EXCEPT ![run] = [actor[run] EXCEPT !.read = TRUE, !.held = seen]]
      BY <1>0, <1>2, Pieces DEF LoadStatus, File, ActorStates
    <2>3. actor'[run].held = seen
      BY <1>0, <2>2, Pieces DEF ActorStates
    <2> QED BY <1>2, <1>l, <1>q, <1>u, <2>1, <2>3 DEF LoadStatus
  <1>3. CASE ExecuteModelTask(run)
    <2>1. Live(run) /\ Goto(run, "merging") /\ volume' = volume
      BY <1>3 DEF ExecuteModelTask, Live
    <2>2. PICK stems : view' = [view EXCEPT !["runner"] = [file |-> [held EXCEPT !.status = "running"], dirty |-> TRUE, stems |-> stems]]
      BY <1>3 DEF ExecuteModelTask
    <2>3. held \in [status : REPLAYABLE_JOB_STATES \cup {"none", "error", "torn"}, call : Runs \cup {NoCall}, stems : SUBSET Roles]
      BY <1>0, HeldTyped DEF StatusFiles
    <2>4. Fresh(view'["runner"].file) /\ view'["runner"].dirty /\ OthersSame("runner")
      BY <1>0, <2>2, <2>3, Pieces DEF Fresh, OthersSame, REPLAYABLE_JOB_STATES
    <2>5. Fewer /\ Exclusive'
      BY <1>g, <1>s, <2>1, <2>4, RunFewer DEF Ahead
    <2> QED BY <1>0, <2>1, <2>4, <2>5, FreshWritten
  <1>h. held \in [status : REPLAYABLE_JOB_STATES \cup {"none", "error", "torn"}, call : Runs \cup {NoCall}, stems : SUBSET Roles]
    BY <1>0, HeldTyped DEF StatusFiles
  <1>4. CASE MergeArtifacts(run) \/ MarkRunning(run) \/ CompleteJob(run)
    <2> DEFINE merged == [held EXCEPT !.status = "running", !.stems = @ \cup OutcomeStems]
               running == [held EXCEPT !.status = "running"]
               completed == [held EXCEPT !.status = "completed"]
    <2>0. merged.status = "running" /\ running.status = "running" /\ completed.status = "completed"
      BY <1>h
    <2>a. \/ WriteStatus("runner", merged) /\ Goto(run, "executing")
          \/ WriteStatus("runner", running) /\ Goto(run, "spawning")
          \/ WriteStatus("runner", completed) /\ Goto(run, "committing")
      BY <1>0, <1>4 DEF MergeArtifacts, MarkRunning, CompleteJob, UpdateStatus
    <2> HIDE DEF merged, running, completed
    <2>1. Live(run)
      BY <1>4 DEF MergeArtifacts, MarkRunning, CompleteJob, Live
    <2>2. ASSUME NEW f, NEW pc, WriteStatus("runner", f), Goto(run, pc), pc # "publishing",
                 f.status \in {"running", "completed"}
          PROVE  ReservationInv'
      BY <1>g, <1>w, <2>1, <2>2 DEF Fresh, REPLAYABLE_JOB_STATES
    <2> QED BY <2>0, <2>a, <2>2
  <1>13. CASE RecordInput(run)
    <2>1. Live(run) /\ actor[run].pc # "pending" /\ actor[run].read /\ WriteStatus("runner", held) /\ Goto(run, "marking")
      BY <1>0, <1>13 DEF RecordInput, UpdateStatus, Live
    <2> QED BY <1>g, <1>l, <1>w, <2>1
  <1>5. CASE AllTasksRun(run) \/ ExceedBudget(run) \/ SkipInput(run)
    <2>1. PICK pc \in {"finalizing", "overbudget", "marking", "failing"} : Goto(run, pc)
      BY <1>5 DEF AllTasksRun, ExceedBudget, SkipInput
    <2>2. Live(run) /\ actor[run].pc # "pending" /\ UNCHANGED <<volume, view>>
      BY <1>5 DEF AllTasksRun, ExceedBudget, SkipInput, Live
    <2> QED BY <1>g, <1>q, <1>u, <2>1, <2>2
  <1>6. CASE SpawnBranches(run)
    BY <1>6, <1>c DEF SpawnBranches, Live
  <1>7. CASE CollectBranch(run)
    <2>1. actor' = actor /\ Live(run) /\ actor[run].pc # "pending"
      BY <1>7 DEF CollectBranch, Live
    <2>2. PICK role \in Roles : \/ MaterializeBranchObjects(role) \/ ValidateBranchArtifacts(role)
                                \/ UNCHANGED <<volume, view>>
      BY <1>7 DEF CollectBranch
    <2>3. CASE ValidateBranchArtifacts(role)
      <3>1. Settled("runner") /\ Shows("runner")
        BY <1>0, <2>3, FetchFiles DEF ValidateBranchArtifacts
      <3>2. Fewer /\ Exclusive'
        BY <1>s, <2>1, RunFewer
      <3> QED BY <1>0, <3>1, <3>2, SettledKept
    <2>4. CASE MaterializeBranchObjects(role)
      <3>1. FilesSame
        BY <2>4, Pieces DEF FilesSame, MaterializeBranchObjects, Views
      <3> QED BY <1>q, <2>1, <3>1
    <2> QED BY <1>q, <1>u, <2>1, <2>2, <2>3, <2>4
  <1>8. CASE CollectedAll(run)
    BY <1>8, <1>c DEF CollectedAll, Live
  <1>9. CASE FinalizeJob(run)
    <2> DEFINE merged == [held EXCEPT !.stems = @ \cup OutcomeStems]
    <2>1. Live(run) /\ actor[run].pc # "pending" /\ actor[run].read /\ WriteStatus("runner", merged)
      BY <1>9 DEF FinalizeJob, Live
    <2>2. actor' = [actor EXCEPT ![run] = [actor[run] EXCEPT !.pc = "publishing", !.held = merged]]
      BY <1>0, <1>9, Pieces DEF FinalizeJob, ActorStates
    <2>3. actor'[run].held = merged
      BY <1>0, <2>2, Pieces DEF ActorStates
    <2>4. Fresh(merged)
      BY <1>h, <1>l, <2>1 DEF Fresh
    <2> HIDE DEF merged
    <2> QED BY <1>w, <2>1, <2>3, <2>4
  <1>10. CASE PublishObjects(run)
    <2>1. Live(run) /\ actor[run].pc = "publishing" /\ WriteStatus("runner", held)
      BY <1>10 DEF PublishObjects, Live
    <2>2. PICK pc \in {"failing", "completing"} : Goto(run, pc)
      BY <1>10 DEF PublishObjects
    <2> QED BY <1>g, <1>l, <1>w, <2>1, <2>2
  <1>11. CASE EndRun(run)
    BY <1>11, <1>c DEF EndRun
  <1>12. CASE RunDies(run)
    <2>1. Goto(run, "stopped") /\ actor[run].pc \notin Resting /\ Terminate("runner", Writing(run))
      BY <1>12 DEF RunDies
    <2>2. CASE Settled("runner") /\ Shows("runner")
      BY <1>c, <2>1, <2>2
    <2>3. CASE Writing(run) /\ Tore("runner")
      <3>1. Live(run) /\ ~Live(run)'
        BY <1>g, <2>1, <2>3, WritesLive DEF Live
      <3> QED BY <1>s, <2>3, <3>1, RunFewer, TornKept
    <2> QED BY <1>0, <2>1, <2>2, <2>3, LostFiles
  <1> QED BY <1>1, <1>2, <1>3, <1>4, <1>5, <1>6, <1>7, <1>8, <1>9, <1>10, <1>11, <1>12, <1>13, FailReserves
          DEF RunWorks

----------------------------------------------------------------------------

LEMMA ReservationBegins == ASSUME GpuWorkerInit PROVE OneActive /\ ReservationInv
  <1>1. /\ \A r \in Requests : actor[r].pc = "new" /\ ~actor[r].read
        /\ \A run \in Runs : actor[run].pc = "none"
    BY CallsAssumption DEF GpuWorkerInit
  <1>2. OneActive
    BY <1>1 DEF OneActive, Resting
  <1>3. Exclusive /\ ReservedFresh /\ RecordFresh /\ LiveFresh
    BY <1>1 DEF Exclusive, Busy, InLoop, Resting, ReservedFresh, RecordFresh, LiveFresh, Reserving, Live
  <1>4. DirtyFresh
    BY DEF GpuWorkerInit, DirtyFresh
  <1> QED BY <1>2, <1>3, <1>4 DEF ReservationInv

LEMMA ReservationKept ==
  ASSUME GpuWorkerTypeOK, GpuWorkerTypeOK', Placed, Unstarted, OneActive, OneApi => ReservationInv,
         [GpuWorkerNext]_workerVars
  PROVE  OneActive' /\ (OneApi => ReservationInv')
  <1>1. OneActive'
    BY OneActiveKept DEF workerVars, OneActive
  <1>2. ASSUME OneApi PROVE ReservationInv'
    <2>1. CASE UNCHANGED workerVars
      <3>1. Fewer /\ FilesSame /\ Exclusive' /\ deployment' = deployment
        BY <1>2, <2>1 DEF workerVars, Fewer, FilesSame, Live, ReservationInv, Exclusive, Busy, InLoop
      <3> QED BY <1>2, <3>1, QuietKept DEF Typed
    <2>2. CASE GpuWorkerNext
      <3>1. deployment' = deployment
        BY <2>2, NextDeployment
      <3>2. ASSUME NEW r \in Requests, RequestStep(r) PROVE ReservationInv'
        BY <1>2, <3>1, <3>2, ExclusiveKept, LoadReserves, ReserveReserves, UploadReserves,
           DispatchReserves, RecordReserves,
           CancelReserves DEF RequestStep, Typed, ReservationInv
      <3>3. ASSUME NEW r \in Requests, NEW c \in Containers, EnterContainer(r, c) PROVE ReservationInv'
        BY <1>2, <3>3, EnterReserves DEF Typed
      <3>4. ASSUME NEW run \in Runs, RunWorks(run) \/ RunDies(run) PROVE ReservationInv'
        BY <1>2, <3>1, <3>4, RunReserves DEF Typed
      <3>5. CASE \/ \E role \in Roles : BranchEnds(role)
                 \/ \E c \in ApiContainers : JobStatus(c)
                 \/ \E v \in Containers : BackgroundCommit(v)
        BY <1>2, <3>1, <3>5, OtherReserves DEF Typed
      <3> QED BY <2>2, <3>2, <3>3, <3>4, <3>5 DEF GpuWorkerNext, Containers
    <2> QED BY <2>1, <2>2
  <1> QED BY <1>1, <1>2

\* However submissions, cancellations, uploads, background commits, failed dispatches and deaths of a
\* container interleave, a job id that one API container serves is never executed by two calls at a
\* time (_reserve_job, _update_status, _dispatch_job): a second one is dispatched only after the first
\* has written its end or lost its container.
THEOREM OneRunPerReservation == GpuWorkerSpec => []ReservedOnce
  <1> DEFINE Inv == OneActive /\ (OneApi => ReservationInv)
  <1>1. GpuWorkerInit => Inv
    BY ReservationBegins
  <1>2. /\ GpuWorkerTypeOK /\ GpuWorkerTypeOK' /\ Placed /\ Unstarted /\ Inv /\ [GpuWorkerNext]_workerVars
        => Inv'
    BY ReservationKept
  <1>3. Inv => ReservedOnce
    <2>1. Cardinality(ApiContainers) = 1 => OneApi
      BY ContainersAssumption, FS_Singleton DEF OneApi
    <2>2. ReservationInv => \A x, y \in Runs : Live(x) /\ Live(y) => x = y
      BY DEF ReservationInv, LiveFresh
    <2> QED BY <2>1, <2>2 DEF ReservedOnce, ReservedAtomically
  <1> QED BY <1>1, <1>2, <1>3, WorkerTyping, PTL DEF GpuWorkerSpec

----------------------------------------------------------------------------
(* CancelledStays.  What could take a cancelled status back is a view      *)
(* that has something else to commit, so the argument is about who may     *)
(* have written a view that is not committed yet, and what it had read.    *)

Cancelled(file) == file.status = "cancelled"

\* A request that has written its container's view is not answered before it commits.
Unpublished == {"upload", "send", "record", "confirm", "publish"}

\* Between runs the runner has nothing to commit, and a run that ends has written an end of its own.
RunnerClean == (\A run \in Runs : actor[run].pc \in Resting) => ~view["runner"].dirty
EndWritten == \A run \in Runs : actor[run].pc = "committing" => ~Cancelled(view["runner"].file)

\* The API has seen the job that is cancelled: what it may write over one is not one.
CancelSeen == \A v \in ApiContainers : ~Fresh(view[v].file) => ~Cancelled(volume.file)

\* A submission under way is not of a cancelled job.
ReservesNone ==
    \A r \in Requests : Reserving(r) =>
        /\ ~Cancelled(volume.file) /\ ~Cancelled(view[actor[r].at].file)
        /\ actor[r].read => ~Cancelled(actor[r].held)

\* A status that stands for a job is left uncommitted by a request under way only.
WrittenBy ==
    \A v \in ApiContainers : view[v].dirty /\ Fresh(view[v].file) => \E r \in Requests : actor[r].pc \in Unpublished

CancelInv == RunnerClean /\ EndWritten /\ CancelSeen /\ ReservesNone /\ WrittenBy

LEMMA ModalPlaces ==
  ASSUME OneApi, Typed, deployment.modal
  PROVE  /\ ApiViews = ApiContainers /\ ApiContainers \subseteq Containers /\ "runner" \in Containers \ ApiContainers
         /\ \A v, w \in ApiContainers : v = w
         /\ \A r \in Requests : actor[r].pc # "new" => actor[r].at \in ApiContainers
         /\ \A file : Cancelled(file) => Fresh(file)
  <1>1. /\ ApiViews = ApiContainers /\ ApiContainers \subseteq Containers
        /\ "runner" \in Containers \ ApiContainers
    BY CallsAssumption DEF ApiViews, Containers
  <1> QED BY <1>1, ApiPlaces DEF Typed, OneApi, Cancelled, Fresh, REPLAYABLE_JOB_STATES

\* A runner that is about to commit a cancellation goes on.
LEMMA RunnerGoesOn ==
  ASSUME CancelInv, view["runner"].dirty, Cancelled(view["runner"].file)
  PROVE  \E run \in Runs : Live(run)
  <1>1. PICK run \in Runs : actor[run].pc \notin Resting
    BY DEF CancelInv, RunnerClean
  <1>2. actor[run].pc # "committing"
    BY DEF CancelInv, EndWritten
  <1> QED BY <1>1, <1>2 DEF Live, Resting

\* An API container commits what it has written, or fetches.
LEMMA ApiSettles ==
  ASSUME OneApi, Typed, CancelInv, deployment.modal, NEW v \in ApiContainers, Settled(v),
         Stays(v) \/ (Shows(v) /\ NoneReserves'),
         \A r \in Requests : Reserving(r)' => actor'[r] = actor[r],
         \A run \in Runs : actor'[run] = actor[run] \/ (actor[run].pc = "none" /\ actor'[run].pc = "pending")
  PROVE  CancelInv'
  <1>1. view'["runner"] = view["runner"] /\ ~view'[v].dirty
    BY ModalPlaces DEF Settled, OthersSame
  <1>2. RunnerClean' /\ EndWritten'
    BY <1>1 DEF CancelInv, RunnerClean, EndWritten, Resting
  <1>3. \A w \in ApiContainers : w = v
    BY ModalPlaces
  <1>4. WrittenBy'
    BY <1>1, <1>3 DEF WrittenBy
  <1>5. ASSUME Stays(v), ~Cancelled(volume.file), ~Cancelled(view[v].file) PROVE ~Cancelled(volume'.file)
    BY <1>5 DEF Settled
  <1>6. CancelSeen'
    <2>1. CASE Stays(v)
      <3>1. view'[v].file = view[v].file
        BY <2>1 DEF Stays
      <3> QED BY <1>3, <1>5, <2>1, <3>1, ModalPlaces DEF CancelInv, CancelSeen, Fresh
    <2>2. CASE Shows(v)
      BY <1>3, <2>2, ModalPlaces DEF CancelSeen, Shows, Fresh
    <2> QED BY <2>1, <2>2
  <1>7. ReservesNone'
    <2> SUFFICES ASSUME NEW r \in Requests, Reserving(r)'
                 PROVE  /\ ~Cancelled(volume'.file) /\ ~Cancelled(view'[actor'[r].at].file)
                        /\ actor'[r].read => ~Cancelled(actor'[r].held)
      BY DEF ReservesNone, Cancelled
    <2>1. actor'[r] = actor[r] /\ Reserving(r) /\ Stays(v)
      BY DEF Reserving, NoneReserves
    <2>2. actor[r].at = v
      BY <1>3, <2>1, ModalPlaces DEF Reserving
    <2>3. /\ ~Cancelled(volume.file) /\ ~Cancelled(view[v].file)
          /\ actor[r].read => ~Cancelled(actor[r].held)
      BY <2>1, <2>2 DEF CancelInv, ReservesNone
    <2> QED BY <1>5, <2>1, <2>2, <2>3 DEF Stays
  <1> QED BY <1>2, <1>4, <1>6, <1>7 DEF CancelInv

\* The runner commits, fetches or is lost.
LEMMA RunnerSettles ==
  ASSUME OneApi, Typed, ReservationInv, CancelInv, deployment.modal, Settled("runner"),
         \A r \in Requests : actor'[r] = actor[r] \/ (actor[r].pc = "entered" /\ actor'[r].pc = "confirm"),
         \A run \in Runs : actor'[run].pc = "committing" =>
            \/ actor[run].pc = "committing" /\ Stays("runner")
            \/ ~Cancelled(view'["runner"].file)
  PROVE  CancelInv'
  <1>1. RunnerClean'
    BY DEF Settled, RunnerClean
  <1>2. EndWritten'
    BY DEF CancelInv, EndWritten, Stays, Cancelled
  <1>3. \A v \in ApiContainers : view'[v] = view[v]
    BY ModalPlaces DEF Settled, OthersSame
  <1>4. ASSUME ~Cancelled(volume.file), Cancelled(volume'.file) PROVE \E run \in Runs : Live(run)
    <2>1. view["runner"].dirty /\ volume'.file = view["runner"].file
      BY <1>4 DEF Settled
    <2> QED BY <1>4, <2>1, RunnerGoesOn
  <1>5. CancelSeen'
    <2> SUFFICES ASSUME NEW v \in ApiContainers, ~Fresh(view[v].file), Cancelled(volume'.file) PROVE FALSE
      BY <1>3 DEF CancelSeen, Cancelled, Fresh
    <2>1. ~Cancelled(volume.file) /\ ~ApiFresh
      BY ModalPlaces DEF CancelInv, CancelSeen, ApiFresh
    <2> QED BY <1>4, <2>1 DEF ReservationInv, LiveFresh
  <1>6. ReservesNone'
    <2> SUFFICES ASSUME NEW r \in Requests, Reserving(r)'
                 PROVE  /\ ~Cancelled(volume'.file) /\ ~Cancelled(view'[actor'[r].at].file)
                        /\ actor'[r].read => ~Cancelled(actor'[r].held)
      BY DEF ReservesNone, Cancelled
    <2>1. actor'[r] = actor[r] /\ Reserving(r)
      BY DEF Reserving
    <2>2. actor[r].at \in ApiContainers
      BY <2>1, ModalPlaces DEF Reserving
    <2>3. NoneLive /\ ~Cancelled(volume.file) /\ ~Cancelled(view[actor[r].at].file)
          /\ (actor[r].read => ~Cancelled(actor[r].held))
      BY <2>1 DEF ReservationInv, ReservedFresh, CancelInv, ReservesNone
    <2> QED BY <1>3, <1>4, <2>1, <2>2, <2>3 DEF NoneLive
  <1>7. WrittenBy'
    BY <1>3 DEF CancelInv, WrittenBy, Unpublished, Fresh
  <1> QED BY <1>1, <1>2, <1>5, <1>6, <1>7 DEF CancelInv

\* A runner that is lost while it writes leaves nothing cancelled.
LEMMA RunnerTorn ==
  ASSUME OneApi, Typed, CancelInv, Tore("runner"),
         \A r \in Requests : actor'[r] = actor[r] \/ (actor[r].pc = "entered" /\ actor'[r].pc = "confirm"),
         \A run \in Runs : actor'[run].pc # "committing"
  PROVE  CancelInv'
  <1>1. RunnerClean' /\ EndWritten'
    BY DEF Tore, RunnerClean, EndWritten
  <1>2. ~Cancelled(volume'.file) /\ \A v \in ApiContainers : view'[v] = view[v]
    BY ModalPlaces DEF Tore, TornStatus, Cancelled, OthersSame
  <1>3. CancelSeen'
    BY <1>2 DEF CancelSeen, Cancelled
  <1>4. ReservesNone'
    <2> SUFFICES ASSUME NEW r \in Requests, Reserving(r)'
                 PROVE  /\ ~Cancelled(volume'.file) /\ ~Cancelled(view'[actor'[r].at].file)
                        /\ actor'[r].read => ~Cancelled(actor'[r].held)
      BY DEF ReservesNone, Cancelled
    <2>1. actor'[r] = actor[r] /\ Reserving(r) /\ actor[r].at \in ApiContainers
      BY ModalPlaces DEF Reserving, Tore
    <2> QED BY <1>2, <2>1 DEF CancelInv, ReservesNone
  <1>5. WrittenBy'
    BY <1>2 DEF CancelInv, WrittenBy, Unpublished, Fresh
  <1> QED BY <1>1, <1>3, <1>4, <1>5 DEF CancelInv

\* Nothing but the runner's view changes.
LEMMA RunnerWrites ==
  ASSUME OneApi, Typed, CancelInv, deployment.modal, volume'.file = volume.file,
         \A v \in ApiContainers : view'[v] = view[v],
         \A r \in Requests : actor'[r] = actor[r],
         RunnerClean', EndWritten'
  PROVE  CancelInv'
  <1>1. CancelSeen' /\ WrittenBy'
    BY DEF CancelInv, CancelSeen, WrittenBy, Cancelled, Fresh
  <1>2. ReservesNone'
    <2> SUFFICES ASSUME NEW r \in Requests, Reserving(r)'
                 PROVE  /\ ~Cancelled(volume'.file) /\ ~Cancelled(view'[actor'[r].at].file)
                        /\ actor'[r].read => ~Cancelled(actor'[r].held)
      BY DEF ReservesNone, Cancelled
    <2>1. Reserving(r) /\ actor[r].at \in ApiContainers
      BY ModalPlaces DEF Reserving
    <2> QED BY <2>1 DEF CancelInv, ReservesNone
  <1> QED BY <1>1, <1>2 DEF CancelInv

\* A request writes a status that stands for a job, or fails.
LEMMA RequestWrites ==
  ASSUME OneApi, Typed, ReservationInv, Exclusive', deployment' = deployment, CancelInv,
         deployment.modal, NEW r \in Requests, actor[r].pc \notin Resting,
         NEW f, NEW pc, WriteStatus(actor[r].at, f), Goto(r, pc),
         \/ Fresh(f) /\ pc \in Unpublished
         \/ ~Fresh(f) /\ ~Cancelled(volume.file) /\ pc = "failed",
         pc \in {"upload", "send"} => ~Cancelled(f) /\ ~Cancelled(volume.file)
  PROVE  CancelInv'
  <1> DEFINE at == actor[r].at
  <1>0. /\ at \in ApiContainers /\ at \in Containers /\ "runner" # at
        /\ (\A v \in ApiContainers : v = at) /\ "runner" \in Containers
        /\ (\A file : Cancelled(file) => Fresh(file)) /\ r \in Actors
    BY ModalPlaces DEF Resting, Actors
  <1>1. view'[at].file = f /\ OthersSame(at) /\ volume' = volume
    BY <1>0, WriteFiles DEF Typed
  <1>2. /\ actor'[r].pc = pc /\ ~actor'[r].read
        /\ \A q \in Requests \ {r} : actor'[q] = actor[q]
        /\ \A run \in Runs : actor'[run] = actor[run]
    BY GoesOn
  <1>a. actor'[r].at = at
    BY <1>0, Pieces DEF Typed, Goto, ActorStates
  <1>3. view'["runner"] = view["runner"]
    BY <1>0, <1>1 DEF OthersSame
  <1>4. RunnerClean' /\ EndWritten'
    BY <1>2, <1>3 DEF CancelInv, RunnerClean, EndWritten
  <1>5. CancelSeen'
    BY <1>0, <1>1 DEF CancelSeen, Cancelled, Fresh
  <1>6. \A q \in Requests : Reserving(q)' => q = r
    <2>1. \A q \in Requests \ {r} : Reserving(q) => Busy(q) /\ Busy(r)
      BY DEF Reserving, Busy, Resting
    <2> QED BY <1>2, <2>1 DEF ReservationInv, Exclusive, Reserving
  <1>7. ReservesNone'
    BY <1>1, <1>2, <1>6, <1>a DEF ReservesNone, Reserving, Cancelled
  <1>8. WrittenBy'
    BY <1>0, <1>1, <1>2 DEF WrittenBy, Fresh
  <1> QED BY <1>4, <1>5, <1>7, <1>8 DEF CancelInv

\* A request reads, is answered, or stops a run that has not begun.
LEMMA RequestReads ==
  ASSUME OneApi, Typed, CancelInv, deployment.modal, UNCHANGED <<volume, view>>, NEW r \in Requests,
         \A q \in Requests \ {r} : actor'[q] = actor[q],
         \/ /\ actor'[r].pc = actor[r].pc /\ actor'[r].at = actor[r].at
            /\ Reserving(r) => actor'[r].held = view[actor[r].at].file
         \/ actor[r].pc = "entered" /\ actor'[r].pc \notin {"upload", "send"},
         \A run \in Runs : \/ actor'[run] = actor[run]
                           \/ actor[run].pc \in Resting /\ actor'[run].pc = "stopped"
  PROVE  CancelInv'
  <1>1. RunnerClean' /\ EndWritten'
    BY DEF CancelInv, RunnerClean, EndWritten, Resting
  <1>2. CancelSeen'
    BY DEF CancelInv, CancelSeen, Cancelled, Fresh
  <1>3. WrittenBy'
    <2>1. \A q \in Requests : actor[q].pc \in Unpublished => actor'[q].pc \in Unpublished
      BY DEF Unpublished
    <2> QED BY <2>1 DEF CancelInv, WrittenBy, Fresh
  <1>4. ReservesNone'
    <2> SUFFICES ASSUME NEW q \in Requests, Reserving(q)'
                 PROVE  /\ ~Cancelled(volume'.file) /\ ~Cancelled(view'[actor'[q].at].file)
                        /\ actor'[q].read => ~Cancelled(actor'[q].held)
      BY DEF ReservesNone, Cancelled
    <2>1. Reserving(q) /\ actor'[q].at = actor[q].at
      BY DEF Reserving
    <2>2. /\ ~Cancelled(volume.file) /\ ~Cancelled(view[actor[q].at].file)
          /\ actor[q].read => ~Cancelled(actor[q].held)
      BY <2>1 DEF CancelInv, ReservesNone
    <2>3. actor'[q] = actor[q] \/ actor'[q].held = view[actor[q].at].file
      BY <2>1 DEF Reserving
    <2> QED BY <2>1, <2>2, <2>3
  <1> QED BY <1>1, <1>2, <1>3, <1>4 DEF CancelInv

LEMMA RequestCancels ==
  ASSUME OneApi, Typed, ReservationInv, CancelInv, Exclusive', deployment.modal, deployment' = deployment,
         NEW r \in Requests, RequestStep(r)
  PROVE  CancelInv'
  <1> DEFINE at == actor[r].at
             held == actor[r].held
  <1>0. /\ r \in Actors /\ \A run \in Runs : run # r /\ run \in Actors
        /\ held \in [status : REPLAYABLE_JOB_STATES \cup {"none", "error", "torn"}, call : Runs \cup {NoCall}, stems : SUBSET Roles]
    BY CallsAssumption, HeldTyped DEF Actors, StatusFiles, Typed
  <1>a. actor[r].pc # "new" => at \in ApiContainers
    BY ModalPlaces
  <1>g. ASSUME NEW pc, Goto(r, pc)
        PROVE  /\ actor'[r].pc = pc /\ ~actor'[r].read
               /\ \A q \in Requests \ {r} : actor'[q] = actor[q]
               /\ \A run \in Runs : actor'[run] = actor[run]
    BY <1>g, GoesOn
  <1>r. ASSUME Reserving(r)
        PROVE  ~Cancelled(volume.file) /\ ~Cancelled(view[at].file) /\ (actor[r].read => ~Cancelled(held) /\ Fresh(held))
    BY <1>r DEF CancelInv, ReservesNone, ReservationInv, ReservedFresh
  <1>1. CASE actor[r].pc \in {"upload", "record", "confirm"} /\ LoadStatus(r)
    <2>1. /\ actor' = [actor EXCEPT ![r] = [actor[r] EXCEPT !.read = TRUE, !.held = File(r)]]
          /\ UNCHANGED <<volume, view>>
      BY <1>0, <1>1, Pieces DEF LoadStatus, ActorStates, Typed
    <2>2. /\ actor'[r].pc = actor[r].pc /\ actor'[r].at = at /\ actor'[r].held = view[at].file
          /\ \A a \in Actors \ {r} : actor'[a] = actor[a]
      BY <1>0, <2>1, Pieces DEF ActorStates, Typed, File
    <2> QED BY <1>0, <2>1, <2>2, RequestReads DEF Actors
  <1>2. CASE ReserveJob(r)
    <2>1. CASE \E pc \in {"answered", "failed"} : Goto(r, pc) /\ UNCHANGED <<volume, view>>
      BY <1>2, <1>g, <2>1, RequestReads DEF ReserveJob
    <2>2. CASE ~Fresh(File(r)) /\ WriteStatus(at, NewStatus) /\ \E next \in {"upload", "send"} : Goto(r, next)
      <3>1. ~Cancelled(volume.file)
        BY <1>2, <1>a, <2>2 DEF ReserveJob, File, CancelInv, CancelSeen
      <3>2. Fresh(NewStatus) /\ ~Cancelled(NewStatus)
        BY DEF Fresh, NewStatus, REPLAYABLE_JOB_STATES, Cancelled
      <3>3. PICK next \in {"upload", "send"} : Goto(r, next)
        BY <2>2
      <3> QED BY <1>2, <2>2, <3>1, <3>2, <3>3, RequestWrites DEF ReserveJob, Resting, Unpublished
    <2> QED BY <1>2, <2>1, <2>2 DEF ReserveJob, Fresh
  <1>3. CASE ReceiveUpload(r)
    <2> DEFINE failed == [held EXCEPT !.status = "error"]
    <2>1. ~Fresh(failed) /\ failed.status = "error"
      BY <1>0 DEF Fresh, REPLAYABLE_JOB_STATES
    <2>2. \/ WriteStatus(at, held) /\ Goto(r, "send")
          \/ WriteStatus(at, failed) /\ Goto(r, "failed")
      BY <1>3 DEF ReceiveUpload, UpdateStatus
    <2>3. actor[r].pc = "upload" /\ actor[r].read
      BY <1>3 DEF ReceiveUpload, UpdateStatus
    <2>4. ~Cancelled(volume.file) /\ ~Cancelled(held) /\ Fresh(held)
      BY <1>r, <2>3 DEF Reserving
    <2> HIDE DEF failed, held, at
    <2>5. CASE WriteStatus(at, held) /\ Goto(r, "send")
      BY <2>3, <2>4, <2>5, RequestWrites DEF Resting, Unpublished, at
    <2>6. CASE WriteStatus(at, failed) /\ Goto(r, "failed")
      BY <2>1, <2>3, <2>4, <2>6, RequestWrites DEF Resting, Unpublished, at
    <2> QED BY <2>2, <2>5, <2>6
  <1>4. CASE DispatchJob(r)
    <2>1. at \in ApiContainers /\ at \in Containers /\ Settled(at) /\ Stays(at)
      BY <1>4, <1>a, CommitFiles, ModalPlaces DEF DispatchJob, Typed
    <2>2. CASE Goto(r, "failed")
      BY <1>g, <2>1, <2>2, ApiSettles DEF Reserving
    <2>3. CASE actor' = [actor EXCEPT ![r].pc = "record", ![RunOf(r)].pc = "pending"]
      <3>1. r \in Submissions /\ RunOf(r) \in Runs /\ actor[RunOf(r)].pc = "none"
        <4>1. r \in Submissions /\ RunOf(r) \in Runs
          BY <1>4, CallsAssumption DEF DispatchJob, Typed, Placed, Requests, Runs, Actors
        <4> QED BY <1>4, <4>1 DEF DispatchJob, Typed, Unstarted, Undispatched
      <3>2. /\ actor'[r].pc = "record" /\ actor'[RunOf(r)].pc = "pending"
            /\ \A a \in Actors \ {r, RunOf(r)} : actor'[a] = actor[a]
        BY <1>0, <2>3, <3>1, Pieces DEF ActorStates, Typed
      <3>3. \A q \in Requests : q \in Actors /\ q \notin Runs
        BY CallsAssumption DEF Actors
      <3>4. \A q \in Requests : Reserving(q)' => actor'[q] = actor[q]
        BY <3>1, <3>2, <3>3 DEF Reserving
      <3>5. \A run \in Runs : actor'[run] = actor[run] \/ (actor[run].pc = "none" /\ actor'[run].pc = "pending")
        BY <1>0, <3>1, <3>2
      <3> QED BY <2>1, <3>4, <3>5, ApiSettles
    <2> QED BY <1>4, <2>2, <2>3 DEF DispatchJob
  <1>5. CASE RecordDispatch(r)
    <2> DEFINE recorded == [held EXCEPT !.call = IF deployment.modal THEN RunOf(r) ELSE NoCall]
    <2>1. WriteStatus(at, recorded) /\ Goto(r, "publish") /\ actor[r].pc = "record" /\ actor[r].read
      BY <1>5 DEF RecordDispatch, UpdateStatus
    <2>2. Fresh(held)
      BY <2>1 DEF ReservationInv, RecordFresh
    <2>3. Fresh(recorded)
      BY <1>0, <2>2 DEF Fresh
    <2> HIDE DEF recorded
    <2> QED BY <2>1, <2>3, RequestWrites DEF Resting, Unpublished
  <1>6. CASE Publish(r)
    <2>1. at \in ApiContainers /\ at \in Containers /\ Settled(at) /\ Stays(at) /\ Goto(r, "answered")
      BY <1>6, <1>a, CommitFiles, ModalPlaces DEF Publish, Typed
    <2> QED BY <1>g, <2>1, ApiSettles DEF Reserving
  <1>7. CASE CancelJob(r)
    <2>0. actor[r].pc = "entered" /\ File(r).call \in Runs \cup {NoCall}
      BY <1>0, <1>7, HeldTyped DEF CancelJob, StatusFiles, Typed
    <2>1. ASSUME NEW pc \in {"answered", "failed"}, Goto(r, pc), UNCHANGED <<volume, view>> PROVE CancelInv'
      BY <1>g, <2>0, <2>1, RequestReads
    <2>2. CASE StopFuture(r)
      <3>1. /\ actor'[r].pc = "confirm" /\ (\A a \in Actors \ {r} : actor'[a] = actor[a])
            /\ UNCHANGED <<volume, view>>
        BY <1>0, <2>2, Pieces DEF StopFuture, ActorStates, Typed
      <3> QED BY <1>0, <2>0, <3>1, RequestReads DEF Actors
    <2>3. ASSUME NEW run \in Runs, StopRun(r, run), actor[run].pc \in Resting PROVE CancelInv'
      <3>1. /\ actor' = [actor EXCEPT ![run].pc = IF @ = "pending" THEN "stopped" ELSE @, ![r].pc = "confirm"]
            /\ UNCHANGED <<volume, view>>
        BY <2>3 DEF StopRun
      <3>2. /\ actor'[r].pc = "confirm" /\ \A a \in Actors \ {r, run} : actor'[a] = actor[a]
            /\ actor'[run] = actor[run] \/ actor'[run].pc = "stopped"
        BY <1>0, <3>1, Pieces DEF ActorStates, Typed
      <3>3. \A q \in Requests : q \in Actors /\ q \notin Runs
        BY CallsAssumption DEF Actors
      <3> QED BY <1>0, <2>0, <2>3, <3>1, <3>2, <3>3, RequestReads
    <2>4. ASSUME NEW run \in Runs, StopRun(r, run), actor[run].pc \notin Resting PROVE CancelInv'
      <3>1. /\ actor' = [actor EXCEPT ![run].pc = "stopped", ![run].read = FALSE, ![r].pc = "confirm"]
            /\ Terminate("runner", Writing(run))
        BY <2>4 DEF StopRun
      <3>2. /\ actor'[r].pc = "confirm" /\ \A a \in Actors \ {r, run} : actor'[a] = actor[a]
            /\ actor'[run].pc = "stopped"
        BY <1>0, <3>1, Pieces DEF ActorStates, Typed
      <3>3. \A q \in Requests : q \in Actors /\ q \notin Runs
        BY CallsAssumption DEF Actors
      <3>4. Settled("runner") \/ Tore("runner")
        BY <3>1, LostFiles, ModalPlaces DEF Typed
      <3>5. \A other \in Runs : actor'[other].pc # "committing"
        BY <1>0, <2>4, <3>2 DEF Typed, OneActive, Resting
      <3> QED BY <2>0, <3>2, <3>3, <3>4, <3>5, RunnerSettles, RunnerTorn
    <2> QED BY <1>7, <2>0, <2>1, <2>2, <2>3, <2>4 DEF CancelJob
  <1>8. CASE ConfirmCancel(r)
    <2> DEFINE cancelled == [held EXCEPT !.status = "cancelled"]
    <2>1. WriteStatus(at, cancelled) /\ Goto(r, "publish") /\ actor[r].pc = "confirm"
      BY <1>8 DEF ConfirmCancel, UpdateStatus
    <2>2. Fresh(cancelled)
      BY <1>0 DEF Fresh, REPLAYABLE_JOB_STATES
    <2> HIDE DEF cancelled
    <2> QED BY <2>1, <2>2, RequestWrites DEF Resting, Unpublished
  <1> QED BY <1>1, <1>2, <1>3, <1>4, <1>5, <1>6, <1>7, <1>8 DEF RequestStep

LEMMA EnterCancels ==
  ASSUME OneApi, Typed, CancelInv, deployment.modal, NEW r \in Requests, NEW c \in Containers,
         EnterContainer(r, c)
  PROVE  CancelInv'
  <1>1. c \in ApiContainers /\ Settled(c) /\ Shows(c)
    BY FetchFiles DEF EnterContainer, Containers, Typed
  <1>2. r \in Actors /\ \A run \in Runs : run # r /\ run \in Actors
    BY CallsAssumption DEF Actors
  <1>3. actor'[r].pc = "entered" /\ \A a \in Actors \ {r} : actor'[a] = actor[a]
    BY <1>2, Pieces DEF EnterContainer, ActorStates, Typed
  <1>4. \A q \in Requests : actor[q].pc # "new" => actor[q].at = c
    BY <1>1, ModalPlaces
  <1>5. NoneReserves'
    BY <1>3, <1>4 DEF EnterContainer, NoneReserves, Reserving, Resting, Actors
  <1> QED BY <1>1, <1>2, <1>3, <1>5, ApiSettles DEF NoneReserves

LEMMA RunCancels ==
  ASSUME OneApi, Typed, ReservationInv, CancelInv, deployment.modal, deployment' = deployment,
         NEW run \in Runs, RunWorks(run) \/ RunDies(run)
  PROVE  CancelInv'
  <1> DEFINE held == actor[run].held
  <1>0. /\ run \in Actors /\ actor[run].at = "runner" /\ "runner" \in Containers \ ApiContainers /\ ApiContainers \subseteq Containers
        /\ held \in [status : REPLAYABLE_JOB_STATES \cup {"none", "error", "torn"}, call : Runs \cup {NoCall}, stems : SUBSET Roles]
    BY ModalPlaces, HeldTyped DEF Actors, Placed, Typed, StatusFiles
  <1>1. /\ \A r \in Requests : actor'[r] = actor[r]
        /\ \A other \in Runs \ {run} : actor'[other] = actor[other]
    BY RunsLeaveOthers, CallsAssumption DEF OthersStay, Actors, Typed
  <1>2. \A other \in Runs \ {run} : actor'[other].pc \in Resting
    <2>1. actor[run].pc \notin Resting \/ OthersRest(run)
      BY 
      DEF RunWorks, RunDies, StartRun, LoadsStatus, ExecuteModelTask, MergeArtifacts, AllTasksRun,
          RecordInput, SkipInput, MarkRunning,
             SpawnBranches, CollectBranch, CollectedAll, ExceedBudget, FinalizeJob, PublishObjects, CompleteJob,
             FailWorkerJob, EndRun, Resting
    <2> QED BY <1>1, <2>1 DEF Typed, OneActive, OthersRest
  <1>g. ASSUME NEW pc, Goto(run, pc) PROVE actor'[run].pc = pc
    BY <1>0, <1>g, Pieces DEF Goto, ActorStates, Typed
  \* It commits or fetches.
  <1>c. ASSUME NEW pc, Goto(run, pc), pc # "committing",
               Commit("runner") \/ Reload("runner") \/ \E writing : Terminate("runner", writing)
        PROVE  CancelInv'
    <2>1. Settled("runner") \/ Tore("runner")
      BY <1>0, <1>c, CommitFiles, FetchFiles, LostFiles DEF Typed
    <2>2. \A other \in Runs : actor'[other].pc # "committing"
      BY <1>2, <1>c, <1>g DEF Resting
    <2> QED BY <1>1, <2>1, <2>2, RunnerSettles, RunnerTorn
  \* It writes, or does nothing to the files.
  <1>w. ASSUME volume'.file = volume.file, OthersSame("runner"), actor'[run].pc \notin Resting,
               actor'[run].pc = "committing" => ~Cancelled(view'["runner"].file)
        PROVE  CancelInv'
    <2>1. RunnerClean'
      BY <1>w DEF RunnerClean
    <2>2. EndWritten'
      BY <1>2, <1>w DEF EndWritten, Resting, Cancelled
    <2>3. \A v \in ApiContainers : view'[v] = view[v]
      BY <1>0, <1>w DEF OthersSame
    <2> QED BY <1>1, <1>w, <2>1, <2>2, <2>3, RunnerWrites
  <1>u. ASSUME UNCHANGED <<volume, view>>, actor'[run].pc \notin Resting, actor'[run].pc # "committing"
        PROVE  CancelInv'
    BY <1>u, <1>w DEF OthersSame
  <1>f. ASSUME NEW f, NEW pc, WriteStatus("runner", f), Goto(run, pc), pc \notin Resting,
               pc = "committing" => ~Cancelled(f)
        PROVE  CancelInv'
    <2>1. view'["runner"].file = f /\ OthersSame("runner") /\ volume' = volume
      BY <1>0, <1>f, WriteFiles DEF Typed
    <2> QED BY <1>f, <1>g, <1>w, <2>1
  <1>3. CASE StartRun(run)
    <2>1. PICK pc \in Begun(view'["runner"].file.status) : Goto(run, pc)
      BY <1>3 DEF StartRun
    <2>2. CASE pc # "committing"
      BY <1>3, <1>c, <2>1, <2>2 DEF StartRun
    <2>3. CASE pc = "committing"
      <3>1. Settled("runner") /\ Shows("runner")
        BY <1>0, <1>3, FetchFiles DEF StartRun, Typed
      <3>2. ~Cancelled(view'["runner"].file)
        BY <2>1, <2>3 DEF Begun, Cancelled
      <3> QED BY <1>1, <1>2, <3>1, <3>2, RunnerSettles DEF Resting
    <2> QED BY <2>2, <2>3
  <1>4. CASE LoadsStatus(run) /\ LoadStatus(run)
    <2>1. actor[run].pc \notin Resting /\ actor[run].pc # "committing" /\ UNCHANGED <<volume, view>>
      BY <1>4 DEF LoadsStatus, LoadStatus, Resting
    <2>2. actor'[run].pc = actor[run].pc
      BY <1>0, <1>4, Pieces DEF LoadStatus, ActorStates, Typed
    <2> QED BY <1>u, <2>1, <2>2
  <1>5. CASE ExecuteModelTask(run)
    <2>1. Goto(run, "merging") /\ volume' = volume
      BY <1>5 DEF ExecuteModelTask
    <2>2. PICK new : view' = [view EXCEPT !["runner"] = new]
      BY <1>5 DEF ExecuteModelTask
    <2>3. OthersSame("runner")
      BY <1>0, <2>2, Pieces DEF OthersSame, Typed
    <2> QED BY <1>g, <1>w, <2>1, <2>3 DEF Resting
  <1>6. CASE MergeArtifacts(run)
    BY <1>0, <1>6, <1>f DEF MergeArtifacts, UpdateStatus, Resting
  <1>7. CASE MarkRunning(run) \/ RecordInput(run)
    BY <1>0, <1>7, <1>f DEF RecordInput, MarkRunning, UpdateStatus, Resting
  <1>8. CASE CompleteJob(run)
    <2> DEFINE completed == [held EXCEPT !.status = "completed"]
    <2>1. ~Cancelled(completed)
      BY <1>0 DEF Cancelled
    <2>2. WriteStatus("runner", completed) /\ Goto(run, "committing")
      BY <1>0, <1>8 DEF CompleteJob, UpdateStatus
    <2> HIDE DEF completed
    <2> QED BY <1>f, <2>1, <2>2 DEF Resting
  <1>9. CASE FailWorkerJob(run)
    <2> DEFINE failed == [held EXCEPT !.status = "error"]
    <2>1. ~Cancelled(failed)
      BY <1>0 DEF Cancelled
    <2>2. WriteStatus("runner", failed) /\ Goto(run, "committing")
      BY <1>0, <1>9 DEF FailWorkerJob, UpdateStatus
    <2> HIDE DEF failed
    <2> QED BY <1>f, <2>1, <2>2 DEF Resting
  <1>10. CASE AllTasksRun(run) \/ ExceedBudget(run) \/ SkipInput(run)
    <2>1. PICK pc \in {"finalizing", "overbudget", "marking", "failing"} : Goto(run, pc)
      BY <1>10 DEF AllTasksRun, ExceedBudget, SkipInput
    <2>2. UNCHANGED <<volume, view>>
      BY <1>10 DEF AllTasksRun, ExceedBudget, SkipInput
    <2> QED BY <1>g, <1>u, <2>1, <2>2 DEF Resting
  <1>11. CASE SpawnBranches(run)
    BY <1>11, <1>c DEF SpawnBranches
  <1>12. CASE CollectBranch(run)
    <2>1. actor' = actor /\ actor[run].pc = "collecting"
      BY <1>12 DEF CollectBranch
    <2>2. PICK role \in Roles : \/ MaterializeBranchObjects(role) \/ ValidateBranchArtifacts(role)
                                \/ UNCHANGED <<volume, view>>
      BY <1>12 DEF CollectBranch
    <2>3. CASE ValidateBranchArtifacts(role)
      <3>1. Settled("runner")
        BY <1>0, <2>3, FetchFiles DEF ValidateBranchArtifacts, Typed
      <3>2. \A other \in Runs : actor'[other].pc # "committing"
        BY <1>2, <2>1 DEF Resting
      <3> QED BY <1>1, <3>1, <3>2, RunnerSettles
    <2>4. CASE MaterializeBranchObjects(role)
      <3>1. OthersSame("runner") /\ volume' = volume
        BY <1>0, <2>4, Pieces DEF OthersSame, MaterializeBranchObjects, Typed
      <3> QED BY <1>w, <2>1, <3>1 DEF Resting
    <2> QED BY <1>u, <2>1, <2>2, <2>3, <2>4 DEF Resting
  <1>13. CASE CollectedAll(run)
    BY <1>13, <1>c DEF CollectedAll
  <1>14. CASE FinalizeJob(run)
    <2> DEFINE merged == [held EXCEPT !.stems = @ \cup OutcomeStems]
    <2>1. WriteStatus("runner", merged)
      BY <1>14 DEF FinalizeJob
    <2>2. actor' = [actor EXCEPT ![run].pc = "publishing", ![run].held = merged]
      BY <1>14 DEF FinalizeJob
    <2>3. actor'[run].pc = "publishing"
      BY <1>0, <2>2, Pieces DEF ActorStates, Typed
    <2> HIDE DEF merged
    <2>4. OthersSame("runner") /\ volume' = volume
      BY <1>0, <2>1, WriteFiles DEF Typed
    <2> QED BY <1>w, <2>3, <2>4 DEF Resting
  <1>15. CASE PublishObjects(run)
    <2>1. PICK pc \in {"failing", "completing"} : Goto(run, pc)
      BY <1>15 DEF PublishObjects
    <2> QED BY <1>15, <1>f, <2>1 DEF PublishObjects, Resting
  <1>16. CASE EndRun(run)
    BY <1>16, <1>c DEF EndRun
  <1>17. CASE RunDies(run)
    BY <1>17, <1>c DEF RunDies
  <1> QED BY <1>3, <1>4, <1>5, <1>6, <1>7, <1>8, <1>9, <1>10, <1>11, <1>12, <1>13, <1>14, <1>15, <1>16,
             <1>17
          DEF RunWorks

LEMMA OtherCancels ==
  ASSUME OneApi, Typed, ReservationInv, CancelInv, deployment.modal, deployment' = deployment,
         \/ \E role \in Roles : BranchEnds(role)
         \/ \E c \in ApiContainers : JobStatus(c)
         \/ \E v \in Containers : BackgroundCommit(v)
  PROVE  CancelInv'
  <1>1. actor' = actor
    BY OtherTyped DEF Typed
  <1>2. ASSUME NEW role \in Roles, BranchEnds(role) PROVE CancelInv'
    <2>1. volume'.file = volume.file /\ view' = view
      BY <1>2, Pieces DEF BranchEnds, Dirs, Typed
    <2>2. RunnerClean' /\ EndWritten'
      BY <1>1, <2>1 DEF CancelInv, RunnerClean, EndWritten
    <2> QED BY <1>1, <2>1, <2>2, RunnerWrites
  <1>3. ASSUME NEW c \in ApiContainers, JobStatus(c) PROVE CancelInv'
    <2>1. Settled(c) /\ Shows(c)
      BY <1>3, FetchFiles, ModalPlaces DEF JobStatus, Typed
    <2>2. \A r \in Requests : actor[r].pc # "new" => actor[r].at = c
      BY ModalPlaces
    <2>3. NoneReserves'
      BY <1>1, <1>3, <2>2 DEF JobStatus, NoneReserves, Reserving, Resting
    <2> QED BY <1>1, <2>1, <2>3, ApiSettles
  <1>4. ASSUME NEW v \in Containers, BackgroundCommit(v) PROVE CancelInv'
    <2>1. Settled(v) /\ Stays(v)
      BY <1>4, CommitFiles DEF BackgroundCommit, Typed
    <2>2. CASE v = "runner"
      BY <1>1, <2>1, <2>2, RunnerSettles
    <2>3. CASE v \in ApiContainers
      BY <1>1, <2>1, <2>3, ApiSettles
    <2> QED BY <2>2, <2>3 DEF Containers
  <1> QED BY <1>2, <1>3, <1>4

\* A step from rest leaves a cancelled job cancelled: nobody has anything else to commit.
LEMMA RestKeepsCancelled ==
  ASSUME OneApi, Typed, ReservationInv, deployment.modal => CancelInv, GpuWorkerNext,
         Cancelled(Durable), \A a \in Actors : actor[a].pc \in Resting \ {"pending"}
  PROVE  Cancelled(Durable')
  <1>0. deployment' = deployment
    BY NextDeployment DEF Typed
  <1>1. ASSUME NEW r \in Requests, RequestStep(r) PROVE FALSE
    <2>1. actor[r].pc \in Resting
      BY DEF Actors
    <2> QED BY <1>1, <2>1
            DEF RequestStep, LoadStatus, ReserveJob, ReceiveUpload, DispatchJob, RecordDispatch,
                Publish,
                    CancelJob, ConfirmCancel, Resting
  <1>2. ASSUME NEW run \in Runs, RunWorks(run) \/ RunDies(run) PROVE FALSE
    <2>1. actor[run].pc \in Resting \ {"pending"}
      BY DEF Actors
    <2> QED BY <1>2, <2>1
            DEF RunWorks, RunDies, StartRun, LoadsStatus, ExecuteModelTask, MergeArtifacts, AllTasksRun,
                RecordInput, SkipInput, MarkRunning,
                SpawnBranches, CollectBranch, CollectedAll, ExceedBudget, FinalizeJob, PublishObjects, CompleteJob,
                FailWorkerJob, EndRun, Resting
  <1>3. CASE ~deployment.modal
    <2>1. view' = view
      BY <1>1, <1>2, <1>3 DEF GpuWorkerNext, EnterContainer, Reload, BranchEnds, JobStatus, BackgroundCommit
    <2> QED BY <1>0, <1>3, <2>1 DEF Durable
  <1>4. CASE deployment.modal
    <2>1. ASSUME NEW v \in Containers, view[v].dirty PROVE FALSE
      <3>1. v \in ApiContainers
        BY <1>4, <2>1 DEF CancelInv, RunnerClean, Containers, Actors
      <3>2. ~Fresh(view[v].file)
        BY <1>4, <2>1, <3>1 DEF CancelInv, WrittenBy, Unpublished, Resting, Actors
      <3> QED BY <1>4, <3>1, <3>2 DEF CancelInv, CancelSeen, Durable
    <2>2. ASSUME NEW v \in Containers, Settled(v) PROVE volume'.file = volume.file
      BY <1>4, <2>1, <2>2 DEF Settled
    <2>3. ASSUME NEW v \in Containers, Commit(v) \/ Reload(v) PROVE volume'.file = volume.file
      BY <2>2, <2>3, CommitFiles, FetchFiles DEF Typed
    <2>4. ASSUME NEW role \in Roles, BranchEnds(role) PROVE volume'.file = volume.file
      BY <2>4, Pieces DEF BranchEnds, Dirs, Typed
    <2>5. volume'.file = volume.file
      BY <1>1, <1>2, <2>3, <2>4 DEF GpuWorkerNext, EnterContainer, JobStatus, BackgroundCommit, Containers
    <2> QED BY <1>0, <1>4, <2>5 DEF Durable
  <1> QED BY <1>3, <1>4

\* Once a job is cancelled and nothing of it is left to run or to dispatch, it stays cancelled, whatever is
\* submitted, read or committed in the background later (_reserve_job, _reload_jobs_volume): with one
\* API container.
THEOREM CancelledIsFinal ==
    ASSUME Cardinality(ApiContainers) = 1 PROVE GpuWorkerSpec => CancelledStays
  <1> DEFINE Inv == OneActive /\ ReservationInv /\ (deployment.modal => CancelInv)
  <1>0. OneApi
    BY ContainersAssumption, FS_Singleton DEF OneApi
  <1>1. GpuWorkerInit => Inv
    <2> SUFFICES ASSUME GpuWorkerInit PROVE Inv
      OBVIOUS
    <2>1. /\ \A r \in Requests : actor[r].pc = "new" /\ ~actor[r].read
          /\ \A run \in Runs : actor[run].pc = "none"
      BY CallsAssumption DEF GpuWorkerInit
    <2>2. \A v \in Containers : ~view[v].dirty /\ volume.file.status = "none"
      BY DEF GpuWorkerInit, Containers, NoStatus
    <2>3. OneActive /\ ReservationInv
      BY <2>1, ReservationBegins
    <2>4. CancelInv
      BY <2>1, <2>2
      DEF CancelInv, RunnerClean, EndWritten, CancelSeen, ReservesNone, WrittenBy, Reserving, Cancelled,
          Containers
    <2> QED BY <2>3, <2>4
  <1>2. /\ GpuWorkerTypeOK /\ GpuWorkerTypeOK' /\ Placed /\ Unstarted /\ Inv /\ [GpuWorkerNext]_workerVars
        => Inv' /\ [Durable.status = "cancelled" /\ (\A a \in Requests \cup Runs : actor[a].pc \in Resting \ {"pending"})
                       => Durable'.status = "cancelled"]_workerVars
    <2> SUFFICES ASSUME GpuWorkerTypeOK, GpuWorkerTypeOK', Placed, Unstarted, Inv,
                        [GpuWorkerNext]_workerVars
                 PROVE  /\ Inv'
                        /\ \/ Durable.status = "cancelled" /\ (\A a \in Actors : actor[a].pc \in Resting \ {"pending"})
                                => Durable'.status = "cancelled"
                           \/ UNCHANGED workerVars
      BY DEF Actors
    <2>1. OneActive' /\ ReservationInv'
      BY <1>0, ReservationKept
    <2>2. CASE UNCHANGED workerVars
      <3>1. CancelInv' = CancelInv /\ deployment' = deployment
        BY <2>2
        DEF workerVars, CancelInv, RunnerClean, EndWritten, CancelSeen, ReservesNone, WrittenBy,
            Reserving, Cancelled, Fresh
      <3> QED BY <2>1, <2>2, <3>1
    <2>3. CASE GpuWorkerNext
      <3>1. deployment' = deployment
        BY <2>3, NextDeployment
      <3>2. ASSUME deployment.modal PROVE CancelInv'
        <4>1. ASSUME NEW r \in Requests, RequestStep(r) PROVE CancelInv'
          BY <1>0, <2>1, <3>1, <3>2, <4>1, RequestCancels DEF Typed, ReservationInv
        <4>2. ASSUME NEW r \in Requests, NEW c \in Containers, EnterContainer(r, c) PROVE CancelInv'
          BY <1>0, <3>2, <4>2, EnterCancels DEF Typed
        <4>3. ASSUME NEW run \in Runs, RunWorks(run) \/ RunDies(run) PROVE CancelInv'
          BY <1>0, <3>1, <3>2, <4>3, RunCancels DEF Typed
        <4>4. CASE \/ \E role \in Roles : BranchEnds(role)
                   \/ \E c \in ApiContainers : JobStatus(c)
                   \/ \E v \in Containers : BackgroundCommit(v)
          BY <1>0, <3>1, <3>2, <4>4, OtherCancels DEF Typed
        <4> QED BY <2>3, <4>1, <4>2, <4>3, <4>4 DEF GpuWorkerNext, Containers
      <3>3. Cancelled(Durable) /\ (\A a \in Actors : actor[a].pc \in Resting \ {"pending"}) => Cancelled(Durable')
        BY <1>0, <2>3, RestKeepsCancelled DEF Typed
      <3> QED BY <2>1, <3>1, <3>2, <3>3 DEF Cancelled
    <2> QED BY <2>2, <2>3
  <1> QED BY <1>1, <1>2, WorkerTyping, PTL DEF GpuWorkerSpec, CancelledStays

=============================================================================
