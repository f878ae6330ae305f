-------------------------- MODULE AdmissionProofs --------------------------
(***************************************************************************)
(* Theorems of Admission, for any jobs, tenants, keys, requests and        *)
(* limits: the transaction is as good as one step, limits are kept, keys   *)
(* are unique, and uploads are there.                                      *)
(***************************************************************************)
EXTENDS Admission, FiniteSetTheorems, TLAPS

TableType == jobs \in [Jobs -> JobRow]

----------------------------------------------------------------------------
(* The table.                                                               *)

LEMMA RowTypes ==
  ASSUME NEW o \in Owners, NEW k \in Keys \union {None}
  PROVE  NoJob \in JobRow /\ NewJob(o, k) \in JobRow
  BY DEF NoJob, NewJob, JobRow

\* A smaller set of jobs has no more jobs.
LEMMA Fewer ==
  ASSUME NEW T \in SUBSET Jobs, NEW S \in SUBSET T
  PROVE  Cardinality(S) \in Nat /\ Cardinality(T) \in Nat /\ Cardinality(S) <= Cardinality(T)
  <1>1. IsFiniteSet(T)
    BY FS_Subset, AdmissionAssumption
  <1>2. IsFiniteSet(S) /\ Cardinality(S) <= Cardinality(T)
    BY <1>1, FS_Subset
  <1> QED BY <1>1, <1>2, FS_CardinalityType

\* A job that ends, is reopened or is deleted is no longer one that was in progress
\* since it was accepted, and gives no job a key.
LEMMA Leaves ==
  ASSUME TableType, NEW j \in Jobs, End(j) \/ Reopen(j) \/ Delete(j)
  PROVE  /\ TableType' /\ Admitted' \subseteq Admitted
         /\ \A o : OwnerAdmitted(o)' \subseteq OwnerAdmitted(o)
         /\ \A o, k : Existing(o, k)' \subseteq Existing(o, k)
         /\ \A i \in Jobs : InJobs(i)' => InJobs(i)
  <1>1. \A i \in Jobs : i # j => jobs'[i] = jobs[i]
    BY DEF TableType, End, Reopen, Delete
  <1>2. j \notin Admitted'
    <2>1. CASE End(j)
      BY <2>1 DEF End, TableType, JobRow, Admitted, Active
    <2>2. CASE Reopen(j)
      <3>1. jobs'[j].reopened = TRUE
        BY <2>2 DEF Reopen, TableType, JobRow
      <3> QED BY <3>1, Zenon DEF Admitted
    <2>3. CASE Delete(j)
      BY <2>3 DEF Delete, TableType, NoJob, Admitted, Active
    <2> QED BY <2>1, <2>2, <2>3
  <1>3. InJobs(j)' => InJobs(j) /\ jobs'[j].owner = jobs[j].owner /\ jobs'[j].key = jobs[j].key
    <2>1. CASE End(j)
      BY <2>1 DEF End, TableType, JobRow, InJobs
    <2>2. CASE Reopen(j)
      BY <2>2 DEF Reopen, TableType, JobRow, InJobs
    <2>3. CASE Delete(j)
      BY <2>3 DEF Delete, TableType, NoJob, InJobs
    <2> QED BY <2>1, <2>2, <2>3
  <1>4. TableType'
    <2>1. CASE End(j)
      <3>1. [jobs[j] EXCEPT !.state = "ended"] \in JobRow
        BY DEF TableType, JobRow
      <3> QED BY <2>1, <3>1 DEF End, TableType
    <2>2. CASE Reopen(j)
      <3>1. [jobs[j] EXCEPT !.state = "active", !.reopened = TRUE] \in JobRow
        BY DEF TableType, JobRow
      <3> QED BY <2>2, <3>1 DEF Reopen, TableType
    <2>3. CASE Delete(j)
      BY <2>3 DEF Delete, TableType, NoJob, JobRow
    <2> QED BY <2>1, <2>2, <2>3
  <1>5. Admitted' \subseteq Admitted /\ \A o : OwnerAdmitted(o)' \subseteq OwnerAdmitted(o)
    BY <1>1, <1>2, Zenon DEF Admitted, Active, OwnerAdmitted
  <1>6. /\ \A o, k : Existing(o, k)' \subseteq Existing(o, k)
        /\ \A i \in Jobs : InJobs(i)' => InJobs(i)
    BY <1>1, <1>3, Zenon DEF Existing, InJobs
  <1> QED BY <1>4, <1>5, <1>6

\* Where there was room it stays.
LEMMA RoomStays ==
  ASSUME TableType, Admitted' \subseteq Admitted,
         \A o : OwnerAdmitted(o)' \subseteq OwnerAdmitted(o)
  PROVE  /\ ServiceRoom => ServiceRoom'
         /\ \A o : Room(o) => Room(o)'
         /\ WithinCapacity => WithinCapacity'
  <1>1. Admitted \subseteq Jobs /\ \A o : OwnerAdmitted(o) \subseteq Jobs
    BY DEF Admitted, Active, OwnerAdmitted
  <1>2. /\ Cardinality(Admitted) \in Nat /\ Cardinality(Admitted') \in Nat
        /\ Cardinality(Admitted') <= Cardinality(Admitted)
    BY <1>1, Fewer
  <1>3. \A o : /\ Cardinality(OwnerAdmitted(o)) \in Nat /\ Cardinality(OwnerAdmitted(o)') \in Nat
               /\ Cardinality(OwnerAdmitted(o)') <= Cardinality(OwnerAdmitted(o))
    BY <1>1, Fewer
  <1>4. ServiceRoom => ServiceRoom'
    BY <1>2, AdmissionAssumption DEF ServiceRoom
  <1>5. \A o : Room(o) => Room(o)'
    BY <1>3, <1>4, AdmissionAssumption DEF Room
  <1>6. WithinCapacity => WithinCapacity'
    BY <1>2, <1>3, AdmissionAssumption DEF WithinCapacity
  <1> QED BY <1>4, <1>5, <1>6

\* A job that is accepted is one more of the service and of its tenant.
LEMMA Accepts ==
  ASSUME TableType, NEW j \in Jobs, NEW o \in Owners, NEW k \in Keys \union {None},
         Accept(j, o, k)
  PROVE  /\ TableType'
         /\ \A i \in Jobs : i # j => jobs'[i] = jobs[i]
         /\ jobs'[j] = NewJob(o, k)
         /\ Admitted' = Admitted \union {j}
         /\ \A x : OwnerAdmitted(x)' = IF x = o THEN OwnerAdmitted(x) \union {j}
                                       ELSE OwnerAdmitted(x)
  <1>1. /\ \A i \in Jobs : i # j => jobs'[i] = jobs[i]
        /\ jobs'[j] = NewJob(o, k) /\ jobs[j].state # "active"
    BY DEF Accept, TableType, InJobs
  <1>2. TableType'
    BY RowTypes DEF Accept, TableType
  <1>3. /\ NewJob(o, k).state = "active" /\ ~NewJob(o, k).reopened
        /\ NewJob(o, k).owner = o
    BY DEF NewJob
  <1>4. Admitted' = Admitted \union {j}
    BY <1>1, <1>3, Zenon DEF Admitted, Active
  <1>5. \A x : OwnerAdmitted(x)' = IF x = o THEN OwnerAdmitted(x) \union {j}
                                   ELSE OwnerAdmitted(x)
    <2>1. j \notin Admitted
      BY <1>1 DEF Admitted, Active
    <2>2. \A i \in Admitted : jobs'[i] = jobs[i]
      BY <1>1, <2>1 DEF Admitted, Active
    <2>3. \A x : OwnerAdmitted(x)' = {i \in Admitted \union {j} : jobs'[i].owner = x}
      BY <1>4 DEF OwnerAdmitted
    <2> QED BY <1>1, <1>3, <2>2, <2>3 DEF OwnerAdmitted
  <1> QED BY <1>1, <1>2, <1>4, <1>5

LEMMA OneMore ==
  ASSUME NEW S \in SUBSET Jobs, NEW j, NEW n \in Nat, Cardinality(S) < n
  PROVE  Cardinality(S \union {j}) <= n
  <1>1. IsFiniteSet(S) /\ Cardinality(S) \in Nat
    BY FS_Subset, FS_CardinalityType, AdmissionAssumption
  <1>2. Cardinality(S \union {j}) <= Cardinality(S) + 1
    BY <1>1, FS_AddElement
  <1>3. Cardinality(S \union {j}) \in Nat
    BY <1>1, FS_AddElement, FS_CardinalityType
  <1> QED BY <1>1, <1>2, <1>3

\* What AdmissionPromise promises keeps the limits and the keys.
LEMMA ServeKeeps ==
  ASSUME TableType, WithinCapacity, KeyIsUnique, [Serve]_jobs
  PROVE  TableType' /\ WithinCapacity' /\ KeyIsUnique'
  <1>1. CASE UNCHANGED jobs
    BY <1>1 DEF TableType, WithinCapacity, KeyIsUnique, Admitted, OwnerAdmitted, Active, InJobs
  <1>2. ASSUME NEW j \in Jobs, End(j) \/ Reopen(j) \/ Delete(j)
        PROVE  TableType' /\ WithinCapacity' /\ KeyIsUnique'
    <2>1. TableType' /\ WithinCapacity'
      BY <1>2, Leaves, RoomStays
    <2>2. \A i \in Jobs : InJobs(i)' =>
            InJobs(i) /\ jobs'[i].owner = jobs[i].owner /\ jobs'[i].key = jobs[i].key
      BY <1>2 DEF End, Reopen, Delete, TableType, JobRow, NoJob, InJobs
    <2> QED BY <2>1, <2>2 DEF KeyIsUnique
  <1>3. ASSUME NEW j \in Jobs, NEW o \in Owners, NEW k \in Keys \union {None}, Accept(j, o, k)
        PROVE  TableType' /\ WithinCapacity' /\ KeyIsUnique'
    <2>1. /\ TableType' /\ Admitted' = Admitted \union {j} /\ jobs'[j] = NewJob(o, k)
          /\ \A i \in Jobs : i # j => jobs'[i] = jobs[i]
          /\ \A x : OwnerAdmitted(x)' = IF x = o THEN OwnerAdmitted(x) \union {j}
                                        ELSE OwnerAdmitted(x)
      BY <1>3, Accepts
    <2>2. Admitted \subseteq Jobs /\ \A x : OwnerAdmitted(x) \subseteq Jobs
      BY DEF Admitted, Active, OwnerAdmitted
    <2>3. JOB_MAX_ACTIVE > 0 => Cardinality(Admitted') <= JOB_MAX_ACTIVE
      BY <1>3, <2>1, <2>2, OneMore, AdmissionAssumption DEF Accept, Room, ServiceRoom
    <2>4. ASSUME JOB_MAX_ACTIVE_PER_OWNER > 0, NEW x \in Owners
          PROVE  Cardinality(OwnerAdmitted(x)') <= JOB_MAX_ACTIVE_PER_OWNER
      <3>1. CASE x = o
        BY <1>3, <2>1, <2>2, <2>4, <3>1, OneMore, AdmissionAssumption DEF Accept, Room
      <3>2. CASE x # o
        BY <2>1, <2>4, <3>2 DEF WithinCapacity
      <3> QED BY <3>1, <3>2
    <2>5. WithinCapacity'
      BY <2>3, <2>4 DEF WithinCapacity
    <2>6. KeyIsUnique'
      <3>1. \A i \in Jobs : InJobs(i) /\ jobs[i].owner = o /\ jobs[i].key = k => k = None
        BY <1>3 DEF Accept, Existing
      <3>2. jobs'[j].owner = o /\ jobs'[j].key = k
        BY <2>1 DEF NewJob
      <3> QED BY <2>1, <3>1, <3>2 DEF KeyIsUnique, InJobs
    <2> QED BY <2>1, <2>5, <2>6
  <1> QED BY <1>1, <1>2, <1>3 DEF Serve

LEMMA EmptyKeeps == Empty => TableType /\ WithinCapacity /\ KeyIsUnique
  <1> SUFFICES ASSUME Empty PROVE TableType /\ WithinCapacity /\ KeyIsUnique
    OBVIOUS
  <1>1. TableType /\ KeyIsUnique
    BY DEF Empty, TableType, NoJob, JobRow, KeyIsUnique, InJobs
  <1>2. Admitted = {} /\ \A o : OwnerAdmitted(o) = {}
    BY DEF Empty, NoJob, Admitted, Active, OwnerAdmitted
  <1>3. WithinCapacity
    BY <1>2, FS_EmptySet, AdmissionAssumption DEF WithinCapacity
  <1> QED BY <1>1, <1>3

----------------------------------------------------------------------------
(* The transaction.                                                         *)

\* Every variable keeps its type.
LEMMA AdmissionTypes == TypeOK /\ AdmissionInv /\ [Next]_avars => TypeOK'
  <1> SUFFICES ASSUME TypeOK, AdmissionInv, [Next]_avars PROVE TypeOK'
    OBVIOUS
  <1> USE DEF TypeOK
  <1>0. NoRequest \in Request
    BY DEF NoRequest, Request
  <1>1. \A p \in Requests : \A from, to :
          Moves(p, from, to) /\ to \in {"idle", "lock", "discard"} \union InTransaction
            => req' \in [Requests -> Request]
    BY DEF Moves, Request
  <1>2. ASSUME NEW p \in Requests, RequestStep(p) PROVE TypeOK'
    <2> USE DEF ReadsOnly
    <2>0. Found(p) \in Jobs \union {None}
      BY DEF Found, Existing, Request
    <2>1. ASSUME Abandon(p)
          PROVE  req' \in [Requests -> Request] /\ advisory' \in Requests \union {None}
      BY <2>1 DEF Abandon, Request
    <2>2. ASSUME Committed(p)
          PROVE  advisory' \in Requests \union {None} /\ (jobs' \in [Jobs -> JobRow])
      <3>1. CASE req[p].found = req[p].job /\ req[p].job \in Jobs
        <4>1. NewJob(req[p].owner, req[p].key) \in JobRow
          BY DEF NewJob, JobRow, Request
        <4> QED BY <2>2, <3>1, <4>1 DEF Committed
      <3>2. CASE ~(req[p].found = req[p].job /\ req[p].job \in Jobs)
        BY <2>2, <3>2 DEF Committed, Request
      <3> QED BY <3>1, <3>2
    <2>3. ASSUME Begin(p) PROVE TypeOK'
      BY <2>3 DEF Begin, Request
    <2>4. ASSUME Lock(p) PROVE TypeOK'
      BY <1>1, <2>4 DEF Lock, InTransaction
    <2>5. ASSUME LookUp(p) PROVE TypeOK'
      <3>1. [req EXCEPT ![p].pc = "countActive"] \in [Requests -> Request]
        BY DEF Request, InTransaction
      <3>2. [req EXCEPT ![p].pc = "commit", ![p].found = Found(p)] \in [Requests -> Request]
        BY <2>0, ZenonT(30) DEF Request, InTransaction
      <3> QED BY <2>5, <3>1, <3>2 DEF LookUp
    <2>6. ASSUME CountActive(p) PROVE TypeOK'
      BY <1>1, <2>1, <2>6 DEF CountActive, InTransaction
    <2>7. ASSUME CountOwner(p) PROVE TypeOK'
      BY <1>1, <2>1, <2>7 DEF CountOwner, InTransaction
    <2>8. ASSUME Insert(p) PROVE TypeOK'
      <3>1. [req EXCEPT ![p].pc = "commit", ![p].found = Found(p)] \in [Requests -> Request]
        BY <2>0, ZenonT(30) DEF Request, InTransaction
      <3> QED BY <2>8, <3>1 DEF Insert
    <2>9. ASSUME Commit(p) PROVE TypeOK'
      BY <1>0, <2>2, <2>9 DEF Commit, Request
    <2>10. ASSUME Discard(p) PROVE TypeOK'
      BY <1>0, <2>10 DEF Discard
    <2>11. ASSUME TransactionFails(p) PROVE TypeOK'
      BY <2>1, <2>11 DEF TransactionFails, Fault
    <2>12. ASSUME CommitUnanswered(p) PROVE TypeOK'
      <3>1. req[p].job \in Jobs
        BY <2>12 DEF CommitUnanswered, Committed, AdmissionInv, OwnJob
      <3> QED BY <2>2, <2>12, <3>1 DEF CommitUnanswered, Fault, Request
    <2>13. ASSUME RequestCrashes(p) PROVE TypeOK'
      BY <1>0, <2>13 DEF RequestCrashes, Fault
    <2> QED BY <1>2, <2>3, <2>4, <2>5, <2>6, <2>7, <2>8, <2>9, <2>10, <2>11, <2>12, <2>13
            DEF RequestStep
  <1>3. ASSUME NEW j \in Jobs, EndJob(j) \/ ReopenJob(j) \/ DeleteRow(j) PROVE TypeOK'
    <2>1. jobs' \in [Jobs -> JobRow]
      BY <1>3, Leaves DEF EndJob, ReopenJob, DeleteRow, TableType
    <2> QED BY <1>3, <2>1 DEF EndJob, ReopenJob, DeleteRow
  <1>4. CASE UNCHANGED avars
    BY <1>4 DEF avars
  <1> QED BY <1>2, <1>3, <1>4 DEF Next

\* A COMMIT that creates a job does so as AdmissionPromise allows; any other leaves the
\* table alone.
LEMMA CommitAccepts ==
  ASSUME TypeOK, AdmissionInv, NEW p \in Requests, Committed(p)
  PROVE  /\ Inserting(p) => /\ req[p].job \in Jobs /\ req[p].owner \in Owners
                            /\ req[p].key \in Keys \union {None}
                            /\ Accept(req[p].job, req[p].owner, req[p].key)
         /\ ~Inserting(p) => jobs' = jobs
  <1>1. CASE Inserting(p)
    <2>1. /\ req[p].job \in Jobs /\ req[p].owner \in Owners /\ ~InJobs(req[p].job)
      BY <1>1 DEF Inserting, InTransaction, AdmissionInv, OwnJob
    <2>2. req[p].key \in Keys \union {None}
      BY DEF TypeOK, Request
    <2>3. Existing(req[p].owner, req[p].key) = {} /\ Room(req[p].owner)
      BY <1>1 DEF AdmissionInv, Checked
    <2> QED BY <1>1, <2>1, <2>2, <2>3 DEF Committed, Inserting, Accept
  <1>2. CASE ~Inserting(p)
    BY <1>2 DEF Committed, Inserting
  <1> QED BY <1>1, <1>2

\* Every step is one of AdmissionPromise, or leaves the table alone.
LEMMA StepServes == TypeOK /\ AdmissionInv /\ [Next]_avars => [Serve]_jobs
  <1> SUFFICES ASSUME TypeOK, AdmissionInv, [Next]_avars PROVE [Serve]_jobs
    OBVIOUS
  <1>1. ASSUME NEW p \in Requests, Commit(p) \/ CommitUnanswered(p) PROVE [Serve]_jobs
    BY <1>1, CommitAccepts DEF Commit, CommitUnanswered, Serve
  <1>2. ASSUME NEW p \in Requests, RequestStep(p), ~Commit(p), ~CommitUnanswered(p)
        PROVE  UNCHANGED jobs
    BY <1>2 DEF RequestStep, Begin, Lock, LookUp, CountActive, CountOwner, Insert, Discard,
                TransactionFails, RequestCrashes, ReadsOnly
  <1>3. ASSUME NEW j \in Jobs, EndJob(j) \/ ReopenJob(j) \/ DeleteRow(j) PROVE Serve
    BY <1>3 DEF EndJob, ReopenJob, DeleteRow, Serve
  <1> QED BY <1>1, <1>2, <1>3 DEF Next, avars

\* The uuids: a request's own is its own, has its upload and no row until it commits;
\* after it was reported as failed it may have a row, which is then unanswered.
LEMMA KeepsOwnJob == TypeOK /\ AdmissionInv /\ [Next]_avars => OwnJob'
  <1> SUFFICES ASSUME TypeOK, OwnJob, [Next]_avars PROVE OwnJob'
    BY DEF AdmissionInv
  <1> DEFINE Open(p) == req[p].pc \in {"lock"} \union InTransaction
  <1>0. \A p \in Requests : req[p].pc \in {"idle", "lock", "discard"} \union InTransaction
    BY DEF TypeOK, Request
  <1>1. ASSUME NEW p \in Requests, jobs' = jobs, inputs' = inputs, fresh' = fresh,
               unanswered' = unanswered,
               \A q \in Requests : q # p => req'[q] = req[q],
               req'[p].pc = "idle"
                 \/ /\ Open(p) /\ req'[p].pc # "idle" /\ req'[p].job = req[p].job
                    /\ req'[p].owner = req[p].owner
        PROVE  OwnJob'
    BY <1>1 DEF OwnJob, InJobs, InTransaction
  <1>2. ASSUME NEW p \in Requests, Begin(p) PROVE OwnJob'
    <2>1. PICK j \in fresh, o \in Owners, k \in Keys \union {None} :
            req' = [req EXCEPT ![p] = [pc |-> "lock", job |-> j, owner |-> o, key |-> k,
                                       found |-> None]]
            /\ fresh' = fresh \ {j} /\ inputs' = inputs \union {j}
      BY <1>2 DEF Begin
    <2>2. /\ j \in Jobs /\ req'[p].pc = "lock" /\ req'[p].job = j /\ req'[p].owner = o
          /\ \A q \in Requests : q # p => req'[q] = req[q]
      BY <2>1 DEF TypeOK
    <2> QED BY <1>2, <2>1, <2>2 DEF Begin, OwnJob, InJobs, InTransaction
  <1>3. ASSUME NEW p \in Requests,
               Lock(p) \/ LookUp(p) \/ CountActive(p) \/ CountOwner(p) \/ Insert(p)
                 \/ TransactionFails(p)
        PROVE  OwnJob'
    <2>0. \A to : Moves(p, req[p].pc, to) \/ Abandon(p) =>
            /\ req'[p].job = req[p].job /\ req'[p].owner = req[p].owner
            /\ req'[p].pc = to \/ req'[p].pc = "discard"
            /\ \A q \in Requests : q # p => req'[q] = req[q]
      BY DEF Moves, Abandon, TypeOK, Request
    <2>1. /\ Open(p) /\ req'[p].job = req[p].job /\ req'[p].owner = req[p].owner
          /\ req'[p].pc # "idle" /\ \A q \in Requests : q # p => req'[q] = req[q]
      <3>1. CASE Lock(p)
        BY <2>0, <3>1 DEF Lock, Moves
      <3>2. CASE LookUp(p)
        BY <3>2 DEF LookUp, InTransaction, TypeOK, Request
      <3>3. CASE CountActive(p)
        BY <2>0, <3>3 DEF CountActive, Moves, InTransaction
      <3>4. CASE CountOwner(p)
        BY <2>0, <3>4 DEF CountOwner, Moves, InTransaction
      <3>5. CASE Insert(p)
        BY <3>5 DEF Insert, InTransaction, TypeOK, Request
      <3>6. CASE TransactionFails(p)
        BY <2>0, <3>6 DEF TransactionFails, Abandon
      <3> QED BY <1>3, <3>1, <3>2, <3>3, <3>4, <3>5, <3>6
    <2>2. /\ jobs' = jobs /\ inputs' = inputs /\ fresh' = fresh /\ unanswered' = unanswered
      BY <1>3 DEF Lock, LookUp, CountActive, CountOwner, Insert, TransactionFails, ReadsOnly
    <2> QED BY <1>1, <2>1, <2>2
  <1>4. ASSUME NEW p \in Requests, RequestCrashes(p) PROVE OwnJob'
    <2>1. req'[p].pc = "idle" /\ \A q \in Requests : q # p => req'[q] = req[q]
      BY <1>4 DEF RequestCrashes, TypeOK, NoRequest
    <2> QED BY <1>1, <1>4, <2>1 DEF RequestCrashes
  <1>5. ASSUME NEW p \in Requests, Commit(p) \/ CommitUnanswered(p) PROVE OwnJob'
    <2>1. /\ Open(p) /\ req[p].pc # "idle" /\ req[p].job \in Jobs
          /\ \A i \in Jobs : i # req[p].job => jobs'[i] = jobs[i]
          /\ fresh' = fresh /\ inputs' = inputs
      BY <1>5 DEF Commit, CommitUnanswered, Committed, InTransaction, OwnJob, TypeOK
    <2>2. /\ \A q \in Requests : q # p => req'[q] = req[q]
          /\ unanswered \subseteq unanswered'
      BY <1>5 DEF Commit, CommitUnanswered, TypeOK
    <2>3. \/ req'[p].pc = "idle"
          \/ /\ req'[p].pc = "discard" /\ req'[p].job = req[p].job /\ req'[p].owner = req[p].owner
             /\ req[p].job \in unanswered' \/ jobs' = jobs
      BY <1>5 DEF Commit, CommitUnanswered, Committed, TypeOK, NoRequest, Request
    <2>4. \A i \in fresh : i # req[p].job /\ i \in Jobs
      BY <2>1 DEF OwnJob, TypeOK
    <2>5. \A q \in Requests : q # p /\ req[q].pc # "idle" =>
            req[q].job # req[p].job /\ req[q].job \in Jobs
      BY <2>1 DEF OwnJob
    <2>6. \A i \in fresh : ~InJobs(i)'
      BY <2>1, <2>4 DEF OwnJob, InJobs
    <2>7. \A q \in Requests : q # p =>
            /\ req[q].pc \in {"lock"} \union InTransaction =>
                 ~InJobs(req[q].job)' /\ req[q].job \in inputs
            /\ req[q].pc = "discard" /\ InJobs(req[q].job)' => req[q].job \in unanswered'
      BY <2>1, <2>2, <2>5 DEF OwnJob, InJobs, InTransaction
    <2>8. req'[p].pc = "discard" /\ InJobs(req[p].job)' => req[p].job \in unanswered'
      BY <2>1, <2>3 DEF OwnJob, InJobs
    <2> QED BY <2>1, <2>2, <2>3, <2>5, <2>6, <2>7, <2>8 DEF OwnJob, InJobs, InTransaction
  <1>6. ASSUME NEW p \in Requests, Discard(p) PROVE OwnJob'
    <2>1. /\ req[p].pc = "discard" /\ req'[p].pc = "idle"
          /\ \A q \in Requests : q # p => req'[q] = req[q]
          /\ jobs' = jobs /\ fresh' = fresh /\ unanswered' = unanswered
          /\ inputs' = inputs \ {req[p].job}
      BY <1>6 DEF Discard, TypeOK, NoRequest
    <2> QED BY <2>1 DEF OwnJob, InJobs, InTransaction
  <1>7. ASSUME NEW j \in Jobs, EndJob(j) \/ ReopenJob(j) \/ DeleteRow(j) PROVE OwnJob'
    <2>1. \A i \in Jobs : InJobs(i)' => InJobs(i)
      BY <1>7, Leaves DEF EndJob, ReopenJob, DeleteRow, TableType, TypeOK
    <2>2. /\ req' = req /\ fresh' = fresh /\ unanswered' = unanswered
          /\ \A i : i \in inputs /\ ~InJobs(i) => i \in inputs'
      BY <1>7 DEF EndJob, ReopenJob, DeleteRow, Delete
    <2>3. fresh \subseteq Jobs
      BY DEF TypeOK
    <2> QED BY <1>0, <2>1, <2>2, <2>3 DEF OwnJob, InTransaction
  <1>8. CASE UNCHANGED avars
    BY <1>8 DEF avars, OwnJob, InJobs
  <1> QED BY <1>2, <1>3, <1>4, <1>5, <1>6, <1>7, <1>8 DEF Next, RequestStep

\* The lock, and what was found out under it: a step of a request is that of the only
\* transaction past the lock, and the rest of the service takes no key and no room.
LEMMA KeepsChecks ==
  TypeOK /\ AdmissionInv /\ [Next]_avars => OneAtATime' /\ Checked'
  <1> SUFFICES ASSUME TypeOK, OneAtATime, OwnJob, Checked, [Next]_avars
               PROVE  OneAtATime' /\ Checked'
    BY DEF AdmissionInv
  <1> DEFINE Checks(p) ==
        /\ req[p].pc \in {"countActive", "countOwner", "insert"} \/ Inserting(p)
             => Existing(req[p].owner, req[p].key) = {}
        /\ req[p].pc \in {"countOwner", "insert"} \/ Inserting(p) => ServiceRoom
        /\ req[p].pc = "insert" \/ Inserting(p) => Room(req[p].owner)
  <1>0. \A p \in Requests : Checks(p)
    BY DEF Checked
  <1>1. (\A p \in Requests : Checks(p)') => Checked'
    BY DEF Checked
  <1>2. ASSUME jobs' = jobs
        PROVE  /\ \A o, k : Existing(o, k)' = Existing(o, k)
               /\ ServiceRoom' <=> ServiceRoom
               /\ \A o : Room(o)' <=> Room(o)
    BY <1>2 DEF Existing, InJobs, ServiceRoom, Room, Admitted, OwnerAdmitted, Active
  <1> HIDE DEF Checks
  \* The frame: the request that moves is alone, and stays so or leaves.
  <1>3. ASSUME NEW p \in Requests, \A q \in Requests : q # p => req'[q] = req[q],
               jobs' = jobs \/ req[p].pc \in InTransaction,
               req'[p].pc \in InTransaction => advisory' = p,
               advisory' = advisory \/ advisory = p \/ advisory = None,
               Checks(p)'
        PROVE  OneAtATime' /\ Checked'
    <2>1. \A q \in Requests : req[q].pc \in InTransaction => advisory = q
      BY DEF OneAtATime
    <2>2. OneAtATime'
      BY <1>3, <2>1, RequestsAssumption DEF OneAtATime
    <2>3. ASSUME NEW q \in Requests, q # p PROVE Checks(q)'
      <3>1. CASE jobs' = jobs
        BY <1>0, <1>2, <1>3, <2>3, <3>1 DEF Inserting, Checks
      <3>2. CASE req[p].pc \in InTransaction
        BY <1>3, <2>1, <2>3, <3>2 DEF Inserting, InTransaction, Checks
      <3> QED BY <1>3, <3>1, <3>2
    <2> QED BY <1>1, <1>3, <2>2, <2>3
  \* A request that leaves the transaction has nothing more to check.
  <1>4. ASSUME NEW p \in Requests, \A q \in Requests : q # p => req'[q] = req[q],
               jobs' = jobs \/ req[p].pc \in InTransaction,
               advisory' = IF advisory = p THEN None ELSE advisory,
               req'[p].pc \in {"idle", "lock", "discard"}
        PROVE  OneAtATime' /\ Checked'
    <2>1. Checks(p)'
      BY <1>4 DEF Checks, Inserting
    <2>2. req'[p].pc \notin InTransaction
      BY <1>4 DEF InTransaction
    <2> QED BY <1>3, <1>4, <2>1, <2>2
  <1>5. ASSUME NEW p \in Requests, Begin(p) PROVE OneAtATime' /\ Checked'
    <2>1. /\ \A q \in Requests : q # p => req'[q] = req[q]
          /\ req[p].pc = "idle" /\ req'[p].pc = "lock" /\ jobs' = jobs /\ advisory' = advisory
      BY <1>5 DEF Begin, TypeOK
    <2>2. Checks(p)' /\ req'[p].pc \notin InTransaction
      BY <2>1 DEF Checks, Inserting, InTransaction
    <2> QED BY <1>3, <2>1, <2>2
  <1>6. ASSUME NEW p \in Requests, Lock(p) PROVE OneAtATime' /\ Checked'
    <2>1. /\ \A q \in Requests : q # p => req'[q] = req[q]
          /\ jobs' = jobs /\ advisory = None /\ advisory' = p
          /\ req'[p].key = req[p].key /\ req'[p].owner = req[p].owner
          /\ req'[p].pc = IF req[p].key = None THEN "countActive" ELSE "lookUp"
      BY <1>6 DEF Lock, Moves, ReadsOnly, TypeOK, Request
    <2>2. Checks(p)'
      BY <2>1 DEF Existing, Inserting, Checks
    <2> QED BY <1>3, <2>1, <2>2
  <1>7. ASSUME NEW p \in Requests, LookUp(p) PROVE OneAtATime' /\ Checked'
    <2>1. /\ req[p].pc \in InTransaction /\ ~InJobs(req[p].job) /\ advisory = p
          /\ jobs' = jobs /\ advisory' = advisory
          /\ \A q \in Requests : q # p => req'[q] = req[q]
      BY <1>7 DEF LookUp, InTransaction, OwnJob, OneAtATime, ReadsOnly, TypeOK
    <2>2. CASE Found(p) = req[p].job
      <3>1. Existing(req[p].owner, req[p].key) = {}
        BY <2>1, <2>2 DEF Found, Existing
      <3>2. /\ req'[p].pc = "countActive" /\ req'[p].owner = req[p].owner
            /\ req'[p].key = req[p].key
        BY <1>7, <2>2 DEF LookUp, TypeOK, Request
      <3>3. Checks(p)'
        BY <1>2, <2>1, <3>1, <3>2 DEF Inserting, Checks
      <3> QED BY <1>3, <2>1, <3>3
    <2>3. CASE Found(p) # req[p].job
      <3>1. req'[p].pc = "commit" /\ req'[p].found # req'[p].job
        BY <1>7, <2>3 DEF LookUp, TypeOK, Request
      <3>2. Checks(p)'
        BY <3>1 DEF Inserting, Checks
      <3> QED BY <1>3, <2>1, <3>2
    <2> QED BY <2>2, <2>3
  \* The counts are of at least the jobs admitted.
  <1>8. \A p \in Requests : \A to : Moves(p, req[p].pc, to) =>
          /\ \A q \in Requests : q # p => req'[q] = req[q]
          /\ req'[p].pc = to /\ req'[p].owner = req[p].owner /\ req'[p].key = req[p].key
    BY DEF Moves, TypeOK, Request
  <1>9. \A p \in Requests : Abandon(p) =>
          /\ \A q \in Requests : q # p => req'[q] = req[q]
          /\ req'[p].pc = "discard"
          /\ advisory' = IF advisory = p THEN None ELSE advisory
    BY DEF Abandon, TypeOK, Request
  <1>10. ASSUME NEW p \in Requests, CountActive(p) PROVE OneAtATime' /\ Checked'
    <2>1. /\ req[p].pc \in InTransaction /\ advisory = p /\ jobs' = jobs
          /\ Existing(req[p].owner, req[p].key) = {}
      BY <1>10 DEF CountActive, InTransaction, OneAtATime, ReadsOnly, Checked
    <2>2. CASE Full(JOB_MAX_ACTIVE, Active)
      BY <1>4, <1>9, <1>10, <2>1, <2>2 DEF CountActive
    <2>3. CASE ~Full(JOB_MAX_ACTIVE, Active)
      <3>1. ServiceRoom
        <4>1. Cardinality(Admitted) \in Nat /\ Cardinality(Active) \in Nat
              /\ Cardinality(Admitted) <= Cardinality(Active)
          BY Fewer DEF Admitted, Active
        <4> QED BY <2>3, <4>1, AdmissionAssumption DEF Full, ServiceRoom
      <3>2. advisory' = advisory /\ Moves(p, req[p].pc, "countOwner")
        BY <1>10, <2>3 DEF CountActive
      <3>3. Checks(p)'
        BY <1>2, <1>8, <2>1, <3>1, <3>2 DEF Inserting, Checks
      <3> QED BY <1>3, <1>8, <2>1, <3>2, <3>3
    <2> QED BY <2>2, <2>3
  <1>11. ASSUME NEW p \in Requests, CountOwner(p) PROVE OneAtATime' /\ Checked'
    <2>1. /\ req[p].pc \in InTransaction /\ advisory = p /\ jobs' = jobs
          /\ Existing(req[p].owner, req[p].key) = {} /\ ServiceRoom
      BY <1>11 DEF CountOwner, InTransaction, OneAtATime, ReadsOnly, Checked
    <2>2. CASE Full(JOB_MAX_ACTIVE_PER_OWNER, OwnerActive(req[p].owner))
      BY <1>4, <1>9, <1>11, <2>1, <2>2 DEF CountOwner
    <2>3. CASE ~Full(JOB_MAX_ACTIVE_PER_OWNER, OwnerActive(req[p].owner))
      <3>1. Room(req[p].owner)
        <4>1. \A o : /\ Cardinality(OwnerAdmitted(o)) \in Nat
                     /\ Cardinality(OwnerActive(o)) \in Nat
                     /\ Cardinality(OwnerAdmitted(o)) <= Cardinality(OwnerActive(o))
          BY Fewer DEF OwnerAdmitted, Admitted, OwnerActive, Active
        <4> QED BY <2>1, <2>3, <4>1, AdmissionAssumption DEF Full, Room
      <3>2. advisory' = advisory /\ Moves(p, req[p].pc, "insert")
        BY <1>11, <2>3 DEF CountOwner
      <3>3. /\ req'[p].pc = "insert" /\ req'[p].owner = req[p].owner
            /\ req'[p].key = req[p].key
        BY <1>8, <3>2
      <3>4. Existing(req[p].owner, req[p].key)' = {}
        BY <2>1, <3>3 DEF Existing, InJobs
      <3>5. ServiceRoom'
        BY <1>2, <2>1
      <3>6. \A o : o = req[p].owner => Room(o)'
        BY <1>2, <2>1, <3>1
      <3>7. Room(req[p].owner)'
        BY <3>3, <3>6 DEF Room, OwnerAdmitted
      <3>8. Checks(p)'
        BY <3>3, <3>4, <3>5, <3>7 DEF Inserting, Checks
      <3> QED BY <1>3, <1>8, <2>1, <3>2, <3>8
    <2> QED BY <2>2, <2>3
  <1>12. ASSUME NEW p \in Requests, Insert(p) PROVE OneAtATime' /\ Checked'
    <2>1. /\ req[p].pc \in InTransaction /\ advisory = p /\ jobs' = jobs
          /\ advisory' = advisory
          /\ Existing(req[p].owner, req[p].key) = {} /\ Room(req[p].owner) /\ ServiceRoom
      BY <1>12 DEF Insert, InTransaction, OneAtATime, ReadsOnly, Checked
    <2>2. /\ \A q \in Requests : q # p => req'[q] = req[q]
          /\ req'[p].owner = req[p].owner /\ req'[p].key = req[p].key
      BY <1>12 DEF Insert, TypeOK, Request
    <2>3. Checks(p)'
      BY <1>2, <2>1, <2>2 DEF Checks
    <2> QED BY <1>3, <2>1, <2>2, <2>3
  <1>13. ASSUME NEW p \in Requests, Commit(p) \/ CommitUnanswered(p)
         PROVE  OneAtATime' /\ Checked'
    <2>1. /\ req[p].pc \in InTransaction /\ req'[p].pc \in {"idle", "discard"}
          /\ advisory' = IF advisory = p THEN None ELSE advisory
          /\ \A q \in Requests : q # p => req'[q] = req[q]
      BY <1>13 DEF Commit, CommitUnanswered, Committed, InTransaction, TypeOK, Request, NoRequest
    <2> QED BY <1>4, <2>1
  <1>14. ASSUME NEW p \in Requests, TransactionFails(p) \/ RequestCrashes(p)
         PROVE  OneAtATime' /\ Checked'
    <2>1. /\ jobs' = jobs /\ req'[p].pc \in {"idle", "discard"}
          /\ advisory' = IF advisory = p THEN None ELSE advisory
          /\ \A q \in Requests : q # p => req'[q] = req[q]
      BY <1>9, <1>14 DEF TransactionFails, RequestCrashes, TypeOK, NoRequest
    <2> QED BY <1>4, <2>1
  <1>15. ASSUME NEW p \in Requests, Discard(p) PROVE OneAtATime' /\ Checked'
    <2>1. /\ jobs' = jobs /\ req'[p].pc = "idle" /\ advisory' = advisory
          /\ \A q \in Requests : q # p => req'[q] = req[q]
      BY <1>15 DEF Discard, TypeOK, NoRequest
    <2>2. Checks(p)' /\ req'[p].pc \notin InTransaction
      BY <2>1 DEF Checks, Inserting, InTransaction
    <2> QED BY <1>3, <2>1, <2>2
  <1>16. ASSUME NEW j \in Jobs, EndJob(j) \/ ReopenJob(j) \/ DeleteRow(j)
         PROVE  OneAtATime' /\ Checked'
    <2>1. /\ Admitted' \subseteq Admitted
          /\ \A o : OwnerAdmitted(o)' \subseteq OwnerAdmitted(o)
          /\ \A o, k : Existing(o, k)' \subseteq Existing(o, k)
      BY <1>16, Leaves DEF EndJob, ReopenJob, DeleteRow, TableType, TypeOK
    <2>2. (ServiceRoom => ServiceRoom') /\ \A o : Room(o) => Room(o)'
      BY <2>1, RoomStays DEF TableType, TypeOK
    <2>3. req' = req /\ advisory' = advisory
      BY <1>16 DEF EndJob, ReopenJob, DeleteRow
    <2>4. \A p \in Requests : Checks(p)'
      BY <1>0, <2>1, <2>2, <2>3 DEF Inserting, Checks
    <2> QED BY <1>1, <2>3, <2>4 DEF OneAtATime
  <1>17. CASE UNCHANGED avars
    <2>1. \A p \in Requests : Checks(p)'
      BY <1>0, <1>2, <1>17 DEF avars, Inserting, Checks
    <2> QED BY <1>1, <1>17, <2>1 DEF avars, OneAtATime
  <1> QED
    BY <1>5, <1>6, <1>7, <1>10, <1>11, <1>12, <1>13, <1>14, <1>15, <1>16, <1>17
    DEF Next, RequestStep

\* An upload goes with its row, or while there is none, or where COMMIT was unanswered.
LEMMA KeepsInputs ==
  TypeOK /\ AdmissionInv /\ InputKept /\ [Next]_avars => InputKept'
  <1> SUFFICES ASSUME TypeOK, OwnJob, InputKept, [Next]_avars PROVE InputKept'
    BY DEF AdmissionInv
  <1>1. ASSUME NEW p \in Requests, RequestStep(p), ~Commit(p), ~CommitUnanswered(p), ~Discard(p)
        PROVE  InputKept'
    <2>1. jobs' = jobs /\ inputs \subseteq inputs' /\ unanswered' = unanswered
      BY <1>1 DEF RequestStep, Begin, Lock, LookUp, CountActive, CountOwner, Insert,
                  TransactionFails, RequestCrashes, ReadsOnly
    <2> QED BY <2>1 DEF InputKept, InJobs
  <1>2. ASSUME NEW p \in Requests, Commit(p) \/ CommitUnanswered(p) PROVE InputKept'
    <2>1. /\ req[p].job \in Jobs /\ req[p].job \in inputs
          /\ \A i \in Jobs : i # req[p].job => jobs'[i] = jobs[i]
          /\ inputs' = inputs /\ unanswered \subseteq unanswered'
      BY <1>2 DEF Commit, CommitUnanswered, Committed, InTransaction, OwnJob, TypeOK
    <2> QED BY <2>1 DEF InputKept, InJobs
  <1>3. ASSUME NEW p \in Requests, Discard(p) PROVE InputKept'
    BY <1>3 DEF Discard, OwnJob, InputKept, InJobs
  <1>4. ASSUME NEW j \in Jobs, EndJob(j) \/ ReopenJob(j) PROVE InputKept'
    <2>1. \A i \in Jobs : InJobs(i)' => InJobs(i)
      BY <1>4, Leaves DEF EndJob, ReopenJob, TableType, TypeOK
    <2> QED BY <1>4, <2>1 DEF EndJob, ReopenJob, InputKept
  <1>5. ASSUME NEW j \in Jobs, DeleteRow(j) PROVE InputKept'
    <2>1. /\ ~InJobs(j)' /\ \A i \in Jobs : i # j => jobs'[i] = jobs[i]
          /\ inputs' = inputs \ {j} /\ unanswered' = unanswered
      BY <1>5 DEF DeleteRow, Delete, TypeOK, InJobs, NoJob
    <2> QED BY <2>1 DEF InputKept, InJobs
  <1>6. CASE UNCHANGED avars
    BY <1>6 DEF avars, InputKept, InJobs
  <1> QED BY <1>1, <1>2, <1>3, <1>4, <1>5, <1>6 DEF Next

LEMMA AdmissionInit == Init => TypeOK /\ AdmissionInv /\ InputKept
  <1> SUFFICES ASSUME Init PROVE TypeOK /\ AdmissionInv /\ InputKept
    OBVIOUS
  <1>1. TypeOK
    BY EmptyKeeps DEF Init, TypeOK, TableType, NoRequest, Request
  <1>2. AdmissionInv /\ InputKept
    BY DEF Init, Empty, NoJob, InJobs, NoRequest, InTransaction, Inserting, AdmissionInv,
           OneAtATime, OwnJob, Checked, InputKept
  <1> QED BY <1>1, <1>2

----------------------------------------------------------------------------
(* The theorems.                                                            *)

\* One transaction at a time is past the lock, and the keys and the room it found are
\* still free when it commits, whatever the rest of the service does without the lock
\* (PostgresJobStore.create).
THEOREM ChecksHold == Spec => []AdmissionInv
  <1>1. TypeOK /\ AdmissionInv /\ [Next]_avars => TypeOK' /\ AdmissionInv'
    BY AdmissionTypes, KeepsOwnJob, KeepsChecks DEF AdmissionInv
  <1> QED BY <1>1, AdmissionInit, PTL DEF Spec

\* The transaction of several statements, with everything that happens between them,
\* serves each request in one step (PostgresJobStore.create).
THEOREM ServesOneByOne == Spec => Promised
  <1>1. TypeOK /\ AdmissionInv /\ [Next]_avars => TypeOK' /\ AdmissionInv'
    BY AdmissionTypes, KeepsOwnJob, KeepsChecks DEF AdmissionInv
  <1>2. Init => Empty
    BY DEF Init
  <1> QED BY <1>1, <1>2, AdmissionInit, StepServes, PTL DEF Spec, Promised

\* The limits of the service and of each tenant are kept by admission: only reopened
\* jobs exceed them (JOB_MAX_ACTIVE, JOB_MAX_ACTIVE_PER_OWNER).
THEOREM LimitsAreKept == Spec => []WithinCapacity
  <1>1. Promised => []WithinCapacity
    BY EmptyKeeps, ServeKeeps, PTL DEF Promised
  <1> QED BY <1>1, ServesOneByOne, PTL

\* An idempotency key of a tenant names one job (jobs_owner_idempotency_key_idx is
\* never in the way).
THEOREM KeysAreUnique == Spec => []KeyIsUnique
  <1>1. Promised => []KeyIsUnique
    BY EmptyKeeps, ServeKeeps, PTL DEF Promised
  <1> QED BY <1>1, ServesOneByOne, PTL

\* A job that was accepted keeps its upload, unless its COMMIT was reported as failed.
THEOREM UploadsAreKept == Spec => []InputKept
  <1>1. /\ TypeOK /\ AdmissionInv /\ InputKept /\ [Next]_avars
             => TypeOK' /\ AdmissionInv' /\ InputKept'
    BY AdmissionTypes, KeepsOwnJob, KeepsChecks, KeepsInputs DEF AdmissionInv
  <1> QED BY <1>1, AdmissionInit, PTL DEF Spec

=============================================================================
