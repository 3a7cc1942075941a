----------------------------- MODULE TenantProofs -----------------------------
(***************************************************************************)
(* Proofs about the tenant databases: TenantProvisioning, TenantProjection  *)
(* and TenantPoolCache, for any number of workers, projectors, goroutines,  *)
(* topologies, changes and places in the cache, and any bound on attempts.  *)
(*                                                                          *)
(* The invariants speak of what a worker, a projector and a caller of the   *)
(* cache have done so far, so that each step of theirs is checked against   *)
(* the rows, or the cache's entries, alone.                                 *)
(***************************************************************************)
EXTENDS TenantProjection, TenantPoolCache, FiniteSetTheorems, TLAPS

LEMMA HomeIsTopology == Home \in Topologies
<1>1. \E t \in Topologies : TRUE
  BY ProvisioningAssumption
<1>2. QED
  BY <1>1, Zenon DEF Home

\* The row keeps its type, and is archived if it was.
LEMMA UpsertedRow ==
    ASSUME NEW row \in TargetRows, NEW topology \in Topologies,
           NEW status \in {"provisioning", "provisioned", "failed"}
    PROVE  LET r == upsertTenantDatabaseTarget(row, status, topology) IN
           /\ r \in TargetRows
           /\ r.topology = topology
           /\ r.status = "archived" <=> row.status = "archived"
           /\ r.status = "provisioned" =>
                 status = "provisioned" \/ (row.status = "provisioned" /\ row.topology = topology)
<1> DEFINE r == upsertTenantDatabaseTarget(row, status, topology)
<1>1. CASE row.status = "archived" \/ (row.status = "provisioned" /\ row.topology = topology)
  BY <1>1 DEF upsertTenantDatabaseTarget, TargetRows
<1>2. CASE ~(row.status = "archived" \/ (row.status = "provisioned" /\ row.topology = topology))
  BY <1>2 DEF upsertTenantDatabaseTarget, TargetRows
<1>3. QED
  BY <1>1, <1>2

------------------------------------------------------------------------------
(* Types of the provisioning *)

LEMMA ProvisioningInitType == ProvisioningInit => ProvisioningTypeOK
BY HomeIsTopology, ProvisioningAssumption
   DEF ProvisioningInit, ProvisioningTypeOK, TargetRows, JobRows, WorkerRows, IdleWorker

LEMMA IdleWorkerType == IdleWorker \in WorkerRows
BY HomeIsTopology, ProvisioningAssumption DEF IdleWorker, WorkerRows

LEMMA SetUpType ==
    ASSUME ProvisioningTypeOK, NEW t \in Topologies, SetUp(t), reruns' \in 0..MaxReruns
    PROVE  ProvisioningTypeOK'
<1> DEFINE row == upsertTenantDatabaseTarget(target, "provisioning", t)
<1>1. row \in TargetRows
  BY UpsertedRow DEF ProvisioningTypeOK
<1>2. enqueue(row, t) \in [Topologies -> JobRows]
  <2>1. [status |-> "pending", attempts |-> 0, owner |-> NoWorker, expired |-> FALSE] \in JobRows
    BY ProvisioningAssumption DEF JobRows
  <2>2. QED
    BY <2>1 DEF enqueue, ProvisioningTypeOK
<1>3. target' = row /\ job' = enqueue(row, t) /\ UNCHANGED <<worker, database>>
  BY DEF SetUp
<1>4. QED
  BY <1>1, <1>2, <1>3 DEF ProvisioningTypeOK

LEMMA SweptTypes ==
    ASSUME ProvisioningTypeOK
    PROVE  SweptJobs \in [Topologies -> JobRows] /\ SweptTarget \in TargetRows
<1>1. ASSUME NEW t \in Topologies
      PROVE  [job[t] EXCEPT !.status = "failed", !.owner = NoWorker, !.expired = FALSE] \in JobRows
  BY ProvisioningAssumption DEF ProvisioningTypeOK, JobRows
<1>2. SweptJobs \in [Topologies -> JobRows]
  BY <1>1 DEF SweptJobs, ProvisioningTypeOK
<1>3. SweptTarget \in TargetRows
  BY DEF SweptTarget, ProvisioningTypeOK, TargetRows
<1>4. QED
  BY <1>2, <1>3

LEMMA ClaimType ==
    ASSUME ProvisioningTypeOK, NEW w \in Workers, Claim(w)
    PROVE  ProvisioningTypeOK'
<1>1. PICK t \in Claimable :
        /\ job' = [SweptJobs EXCEPT ![t] = [status |-> "running", attempts |-> @.attempts + 1,
                                            owner |-> w, expired |-> FALSE]]
        /\ worker' = [worker EXCEPT ![w] = [at |-> "provision", job |-> t,
                                            topology |-> target.topology,
                                            attempt |-> job[t].attempts + 1]]
  BY DEF Claim
<1>2. t \in Topologies /\ job[t].attempts < MaxAttempts
  BY DEF Claimable
<1>3. /\ job[t].attempts + 1 \in 0..MaxAttempts
      /\ SweptJobs[t].attempts = job[t].attempts
  <2>1. job[t] \in JobRows
    BY <1>2 DEF ProvisioningTypeOK
  <2>2. job[t].attempts + 1 \in 0..MaxAttempts
    BY <1>2, <2>1, ProvisioningAssumption DEF JobRows
  <2>3. SweptJobs[t].attempts = job[t].attempts
    BY <1>2, <2>1 DEF SweptJobs, JobRows
  <2>4. QED
    BY <2>2, <2>3
<1>4. job' \in [Topologies -> JobRows]
  <2>1. [status |-> "running", attempts |-> SweptJobs[t].attempts + 1, owner |-> w,
         expired |-> FALSE] \in JobRows
    BY <1>3 DEF JobRows
  <2>2. QED
    BY <1>1, <2>1, SweptTypes
<1>5. worker' \in [Workers -> WorkerRows]
  <2>1. target.topology \in Topologies
    BY DEF ProvisioningTypeOK, TargetRows
  <2>2. [at |-> "provision", job |-> t, topology |-> target.topology,
         attempt |-> job[t].attempts + 1] \in WorkerRows
    BY <1>2, <1>3, <2>1 DEF WorkerRows, Tasks
  <2>3. QED
    BY <1>1, <2>2 DEF ProvisioningTypeOK
<1>6. QED
  BY <1>4, <1>5, SweptTypes DEF Claim, ProvisioningTypeOK

LEMMA WorkType ==
    ASSUME ProvisioningTypeOK, NEW w \in Workers, Work(w)
    PROVE  ProvisioningTypeOK'
<1> DEFINE done == [database EXCEPT ![worker[w].topology] = @ \cup {worker[w].at}]
<1>1. worker[w] \in WorkerRows /\ worker[w].at \in Tasks
  BY DEF ProvisioningTypeOK, Work
<1>2. done \in [Topologies -> SUBSET Tasks]
  BY <1>1 DEF ProvisioningTypeOK, WorkerRows
<1>3. database' \in {database, done}
  BY DEF Work
<1>4. PICK at \in {"bootstrap", "done", "broken"} : worker' = [worker EXCEPT ![w].at = at]
  BY DEF Work
<1>5. [worker[w] EXCEPT !.at = at] \in WorkerRows
  BY <1>1 DEF WorkerRows, Tasks
<1>6. worker' \in [Workers -> WorkerRows]
  BY <1>4, <1>5 DEF ProvisioningTypeOK
<1>7. QED
  BY <1>2, <1>3, <1>6 DEF Work, ProvisioningTypeOK

LEMMA ReportType ==
    ASSUME ProvisioningTypeOK, NEW w \in Workers,
           NEW jobStatus \in {"succeeded", "failed", "retry_scheduled"},
           NEW targetStatus \in {"provisioning", "provisioned", "failed"},
           Report(w, jobStatus, targetStatus)
    PROVE  target' \in TargetRows /\ job' \in [Topologies -> JobRows]
<1>1. worker[w].topology \in Topologies /\ worker[w].job \in Topologies
  BY DEF ProvisioningTypeOK, WorkerRows
<1>2. upsertTenantDatabaseTarget(target, targetStatus, worker[w].topology) \in TargetRows
  BY <1>1, UpsertedRow DEF ProvisioningTypeOK
<1>3. [job[worker[w].job] EXCEPT !.status = jobStatus, !.owner = NoWorker, !.expired = FALSE]
         \in JobRows
  <2>1. job[worker[w].job] \in JobRows
    BY <1>1 DEF ProvisioningTypeOK
  <2>2. QED
    BY <2>1 DEF JobRows
<1>4. [job EXCEPT ![worker[w].job].status = jobStatus, ![worker[w].job].owner = NoWorker,
                  ![worker[w].job].expired = FALSE] \in [Topologies -> JobRows]
  BY <1>1, <1>3 DEF ProvisioningTypeOK
<1>5. QED
  BY <1>2, <1>4 DEF Report, ProvisioningTypeOK

\* The two ends of a worker's job, told apart by the statuses they report.
LEMMA EndReports ==
    ASSUME NEW w \in Workers, Complete(w) \/ Fail(w)
    PROVE  /\ worker' = [worker EXCEPT ![w] = IdleWorker]
           /\ UNCHANGED <<database, reruns>>
           /\ \/ worker[w].at = "done" /\ Report(w, "succeeded", "provisioned")
              \/ Report(w, "failed", "failed")
              \/ Report(w, "retry_scheduled", "provisioning")
BY DEF Complete, Fail

LEMMA EndType ==
    ASSUME ProvisioningTypeOK, NEW w \in Workers, Complete(w) \/ Fail(w)
    PROVE  ProvisioningTypeOK'
<1>1. target' \in TargetRows /\ job' \in [Topologies -> JobRows]
  <2>1. CASE Report(w, "succeeded", "provisioned")
    BY <2>1, ReportType
  <2>2. CASE Report(w, "failed", "failed")
    BY <2>2, ReportType
  <2>3. CASE Report(w, "retry_scheduled", "provisioning")
    BY <2>3, ReportType
  <2>4. QED
    BY <2>1, <2>2, <2>3, EndReports
<1>2. worker' \in [Workers -> WorkerRows]
  BY EndReports, IdleWorkerType DEF ProvisioningTypeOK
<1>3. QED
  BY <1>1, <1>2, EndReports DEF ProvisioningTypeOK

LEMMA ProvisioningTypeStep ==
    ASSUME ProvisioningTypeOK, [ProvisioningNext]_provisioningVars
    PROVE  ProvisioningTypeOK'
<1>1. CASE completeOnboarding
  <2>1. target.topology \in Topologies
    BY DEF ProvisioningTypeOK, TargetRows
  <2>2. QED
    BY <1>1, <2>1, SetUpType DEF completeOnboarding, ProvisioningTypeOK
<1>2. CASE CloseOrganization
  BY <1>2 DEF CloseOrganization, ProvisioningTypeOK, TargetRows
<1>3. ASSUME NEW t \in Topologies, RepeatSampleTenant(t) PROVE ProvisioningTypeOK'
  <2>1. reruns' \in 0..MaxReruns
    BY <1>3, ProvisioningAssumption DEF RepeatSampleTenant, ProvisioningTypeOK
  <2>2. QED
    BY <1>3, <2>1, SetUpType DEF RepeatSampleTenant
<1>4. ASSUME NEW t \in Topologies, LeaseEnds(t) PROVE ProvisioningTypeOK'
  <2>1. [job[t] EXCEPT !.expired = TRUE] \in JobRows
    BY DEF ProvisioningTypeOK, JobRows
  <2>2. QED
    BY <1>4, <2>1 DEF LeaseEnds, ProvisioningTypeOK
<1>5. ASSUME NEW w \in Workers, SweepOnly(w) PROVE ProvisioningTypeOK'
  BY <1>5, SweptTypes DEF SweepOnly, ProvisioningTypeOK
<1>6. ASSUME NEW w \in Workers, Abandon(w) PROVE ProvisioningTypeOK'
  BY <1>6, IdleWorkerType DEF Abandon, ProvisioningTypeOK
<1>7. CASE UNCHANGED provisioningVars
  BY <1>7 DEF provisioningVars, ProvisioningTypeOK
<1>8. QED
  BY <1>1, <1>2, <1>3, <1>4, <1>5, <1>6, <1>7, ClaimType, WorkType, EndType DEF ProvisioningNext

------------------------------------------------------------------------------
(* Types of the projection *)

LEMMA IdleProjectorType == IdleProjector \in ProjectorRows
BY HomeIsTopology DEF IdleProjector, ProjectorRows

LEMMA PlaneInitType == PlaneInit => PlaneTypeOK
BY ProvisioningInitType, IdleProjectorType, HomeIsTopology, ProjectionAssumption
   DEF PlaneInit, PlaneTypeOK, EventRows

\* The provisioning's variables keep their type when the projection leaves them alone.
LEMMA ProvisioningUntouched ==
    ASSUME ProvisioningTypeOK, UNCHANGED provisioningVars
    PROVE  ProvisioningTypeOK'
BY DEF ProvisioningTypeOK, provisioningVars

\* A projector that only moves on keeps its type.
LEMMA ProjectorMoves ==
    ASSUME PlaneTypeOK, NEW p \in Projectors,
           NEW at \in {"idle", "listed", "ready", "claimed", "loaded", "failing", "applied"}
    PROVE  [projector EXCEPT ![p].at = at] \in [Projectors -> ProjectorRows]
<1>1. [projector[p] EXCEPT !.at = at] \in ProjectorRows
  BY DEF PlaneTypeOK, ProjectorRows
<1>2. QED
  BY <1>1 DEF PlaneTypeOK

LEMMA ProjectorIdles ==
    ASSUME PlaneTypeOK, NEW p \in Projectors
    PROVE  [projector EXCEPT ![p] = IdleProjector] \in [Projectors -> ProjectorRows]
BY IdleProjectorType DEF PlaneTypeOK

LEMMA ProjectorOf ==
    ASSUME PlaneTypeOK, NEW p \in Projectors
    PROVE  /\ projector[p].topology \in Topologies
           /\ projector[p].batch \subseteq Changes
           /\ projector[p].snapshot \subseteq Changes
BY DEF PlaneTypeOK, ProjectorRows

LEMMA MarkType ==
    ASSUME PlaneTypeOK, NEW p \in Projectors, NEW status \in {"failed", "published"},
           MarkOwned(p, status)
    PROVE  event' \in [Changes -> EventRows]
<1>1. ASSUME NEW c \in Changes
      PROVE  [event[c] EXCEPT !.status = status, !.owner = NoProjector, !.expired = FALSE]
                \in EventRows
  <2>1. event[c] \in EventRows
    BY DEF PlaneTypeOK
  <2>2. QED
    BY <2>1 DEF EventRows
<1>2. QED
  BY <1>1 DEF MarkOwned, PlaneTypeOK

\* What ClaimEvents does, without its abbreviations.
LEMMA ClaimedBatch ==
    ASSUME NEW p \in Projectors, ClaimEvents(p)
    PROVE  \E batch \in SUBSET {c \in Changes : /\ event[c].topology = projector[p].topology
                                                /\ event[c].attempts < MaxEventAttempts
                                                /\ event[c].status # "none"} :
             /\ event' = [c \in Changes |->
                             IF c \in batch
                             THEN [event[c] EXCEPT !.status = "running", !.expired = FALSE,
                                                   !.attempts = @ + 1, !.owner = p]
                             ELSE event[c]]
             /\ \/ projector' = [projector EXCEPT ![p] = IdleProjector]
                \/ projector' = [projector EXCEPT ![p] = [@ EXCEPT !.at = "claimed",
                                                                   !.batch = batch]]
             /\ UNCHANGED <<provisioningVars, migrated, inbox, projection>>
<1> DEFINE of(status) == {c \in Changes : /\ event[c].topology = projector[p].topology
                                          /\ event[c].attempts < MaxEventAttempts
                                          /\ event[c].status = status}
           due == of("pending") \cup {c \in of("running") : event[c].expired}
<1>1. PICK retried \in SUBSET of("failed") :
        /\ event' = [c \in Changes |->
                        IF c \in due \cup retried
                        THEN [event[c] EXCEPT !.status = "running", !.expired = FALSE,
                                              !.attempts = @ + 1, !.owner = p]
                        ELSE event[c]]
        /\ projector' = [projector EXCEPT
                            ![p] = IF due \cup retried = {} THEN IdleProjector
                                   ELSE [@ EXCEPT !.at = "claimed", !.batch = due \cup retried]]
  BY DEF ClaimEvents
<1>2. due \cup retried \subseteq {c \in Changes : /\ event[c].topology = projector[p].topology
                                                /\ event[c].attempts < MaxEventAttempts
                                                /\ event[c].status # "none"}
  OBVIOUS
<1>3. \/ projector' = [projector EXCEPT ![p] = IdleProjector]
      \/ projector' = [projector EXCEPT ![p] = [@ EXCEPT !.at = "claimed",
                                                         !.batch = due \cup retried]]
  <2>1. CASE due \cup retried = {}
    BY <1>1, <2>1
  <2>2. CASE due \cup retried # {}
    BY <1>1, <2>2
  <2>3. QED
    BY <2>1, <2>2
<1>4. UNCHANGED <<provisioningVars, migrated, inbox, projection>>
  BY DEF ClaimEvents
<1> HIDE DEF due
<1>5. QED
  BY <1>1, <1>2, <1>3, <1>4

LEMMA ClaimEventsType ==
    ASSUME PlaneTypeOK, NEW p \in Projectors, ClaimEvents(p)
    PROVE  PlaneTypeOK'
<1>1. PICK batch \in SUBSET {c \in Changes : /\ event[c].topology = projector[p].topology
                                             /\ event[c].attempts < MaxEventAttempts
                                             /\ event[c].status # "none"} :
         /\ event' = [c \in Changes |->
                         IF c \in batch
                         THEN [event[c] EXCEPT !.status = "running", !.expired = FALSE,
                                               !.attempts = @ + 1, !.owner = p]
                         ELSE event[c]]
         /\ \/ projector' = [projector EXCEPT ![p] = IdleProjector]
            \/ projector' = [projector EXCEPT ![p] = [@ EXCEPT !.at = "claimed",
                                                               !.batch = batch]]
         /\ UNCHANGED <<provisioningVars, migrated, inbox, projection>>
  BY ClaimedBatch
<1>2. ASSUME NEW c \in batch
      PROVE  [event[c] EXCEPT !.status = "running", !.expired = FALSE, !.attempts = @ + 1,
                              !.owner = p] \in EventRows
  <2>1. event[c] \in EventRows /\ event[c].attempts < MaxEventAttempts
    BY DEF PlaneTypeOK
  <2>2. event[c].attempts + 1 \in 0..MaxEventAttempts
    BY <2>1, ProjectionAssumption DEF EventRows
  <2>3. QED
    BY <2>1, <2>2 DEF EventRows
<1>3. event' \in [Changes -> EventRows]
  BY <1>1, <1>2 DEF PlaneTypeOK
<1>4. [projector[p] EXCEPT !.at = "claimed", !.batch = batch] \in ProjectorRows
  BY DEF PlaneTypeOK, ProjectorRows
<1>5. projector' \in [Projectors -> ProjectorRows]
  BY <1>1, <1>4, ProjectorIdles DEF PlaneTypeOK
<1>6. QED
  BY <1>1, <1>3, <1>5, ProvisioningUntouched DEF PlaneTypeOK

LEMMA ProjectionTypeStep ==
    ASSUME PlaneTypeOK, ProjectionNext
    PROVE  PlaneTypeOK'
<1>1. ASSUME NEW c \in Changes, ChangeTenantData(c) PROVE PlaneTypeOK'
  <2>1. event[c] \in EventRows /\ target.topology \in Topologies
    BY DEF PlaneTypeOK, ProvisioningTypeOK, TargetRows
  <2>2. [event[c] EXCEPT !.status = "pending", !.topology = target.topology] \in EventRows
    BY <2>1 DEF EventRows
  <2>3. event' \in [Changes -> EventRows]
    BY <1>1, <2>2 DEF ChangeTenantData, PlaneTypeOK
  <2>4. QED
    BY <1>1, <2>3, ProvisioningUntouched DEF ChangeTenantData, PlaneTypeOK
<1>2. ASSUME NEW c \in Changes, EventLeaseEnds(c) PROVE PlaneTypeOK'
  <2>1. event[c] \in EventRows
    BY DEF PlaneTypeOK
  <2>2. [event[c] EXCEPT !.expired = TRUE] \in EventRows
    BY <2>1 DEF EventRows
  <2>3. event' \in [Changes -> EventRows]
    BY <1>2, <2>2 DEF EventLeaseEnds, PlaneTypeOK
  <2>4. QED
    BY <1>2, <2>3, ProvisioningUntouched DEF EventLeaseEnds, PlaneTypeOK
<1>3. ASSUME NEW p \in Projectors, ListProvisionedTargets(p) PROVE PlaneTypeOK'
  <2>1. projector[p] \in ProjectorRows /\ target.topology \in Topologies
    BY DEF PlaneTypeOK, ProvisioningTypeOK, TargetRows
  <2>2. [projector[p] EXCEPT !.at = "listed", !.topology = target.topology] \in ProjectorRows
    BY <2>1 DEF ProjectorRows
  <2>3. projector' \in [Projectors -> ProjectorRows]
    BY <1>3, <2>2 DEF ListProvisionedTargets, PlaneTypeOK
  <2>4. QED
    BY <1>3, <2>3, ProvisioningUntouched DEF ListProvisionedTargets, PlaneTypeOK
<1>4. ASSUME NEW p \in Projectors, ensureMigrated(p) PROVE PlaneTypeOK'
  <2>1. projector' \in [Projectors -> ProjectorRows]
    BY <1>4, ProjectorMoves DEF ensureMigrated
  <2>2. migrated' \in [Projectors -> SUBSET Topologies]
    BY <1>4, ProjectorOf DEF ensureMigrated, PlaneTypeOK
  <2>3. target' \in TargetRows
    BY <1>4, ProjectorOf, UpsertedRow DEF ensureMigrated, PlaneTypeOK, ProvisioningTypeOK
  <2>4. ProvisioningTypeOK'
    BY <1>4, <2>3 DEF ensureMigrated, PlaneTypeOK, ProvisioningTypeOK
  <2>5. QED
    BY <1>4, <2>1, <2>2, <2>4 DEF ensureMigrated, PlaneTypeOK
<1>5. ASSUME NEW p \in Projectors, LoadSnapshot(p) PROVE PlaneTypeOK'
  <2>1. Held(projector[p].topology) \subseteq Changes
    BY DEF Held
  <2>2. [projector[p] EXCEPT !.at = "loaded", !.snapshot = Held(projector[p].topology)]
           \in ProjectorRows
    <3>1. projector[p] \in ProjectorRows
      BY DEF PlaneTypeOK
    <3>2. QED
      BY <2>1, <3>1 DEF ProjectorRows
  <2>3. projector' \in [Projectors -> ProjectorRows]
    BY <1>5, <2>2 DEF LoadSnapshot, PlaneTypeOK
  <2>4. QED
    BY <1>5, <2>3, ProvisioningUntouched DEF LoadSnapshot, PlaneTypeOK
<1>6. ASSUME NEW p \in Projectors, ApplyProjection(p) \/ ProjectionFails(p) PROVE PlaneTypeOK'
  <2>1. projector' \in [Projectors -> ProjectorRows]
    <3>1. PICK at \in {"applied", "failing"} : projector' = [projector EXCEPT ![p].at = at]
      BY <1>6 DEF ApplyProjection, ProjectionFails
    <3>2. QED
      BY <3>1, ProjectorMoves
  <2>2. inbox' \subseteq Changes /\ projection' \subseteq Changes
    BY <1>6, ProjectorOf DEF ApplyProjection, ProjectionFails, PlaneTypeOK
  <2>3. UNCHANGED <<provisioningVars, event, migrated>>
    BY <1>6 DEF ApplyProjection, ProjectionFails
  <2>4. QED
    BY <2>1, <2>2, <2>3, ProvisioningUntouched DEF PlaneTypeOK
<1>7. ASSUME NEW p \in Projectors, MarkEventsFailed(p) \/ MarkEventsPublished(p)
      PROVE  PlaneTypeOK'
  <2>1. event' \in [Changes -> EventRows]
    BY <1>7, MarkType DEF MarkEventsFailed, MarkEventsPublished
  <2>2. projector' \in [Projectors -> ProjectorRows]
    BY <1>7, ProjectorIdles DEF MarkEventsFailed, MarkEventsPublished
  <2>3. UNCHANGED <<provisioningVars, migrated, inbox, projection>>
    BY <1>7 DEF MarkEventsFailed, MarkEventsPublished
  <2>4. QED
    BY <2>1, <2>2, <2>3, ProvisioningUntouched DEF PlaneTypeOK
<1>8. ASSUME NEW p \in Projectors, AbandonCycle(p) PROVE PlaneTypeOK'
  <2>1. migrated' \in [Projectors -> SUBSET Topologies]
    BY <1>8 DEF AbandonCycle, PlaneTypeOK
  <2>2. projector' \in [Projectors -> ProjectorRows]
    BY <1>8, ProjectorIdles DEF AbandonCycle
  <2>3. QED
    BY <1>8, <2>1, <2>2, ProvisioningUntouched DEF AbandonCycle, PlaneTypeOK
<1>9. QED
  BY <1>1, <1>2, <1>3, <1>4, <1>5, <1>6, <1>7, <1>8, ClaimEventsType DEF ProjectionNext

LEMMA PlaneTypeStep == PlaneTypeOK /\ [PlaneNext]_planeVars => PlaneTypeOK'
<1> SUFFICES ASSUME PlaneTypeOK, [PlaneNext]_planeVars PROVE PlaneTypeOK'
  OBVIOUS
<1>1. CASE ProvisioningNext /\ UNCHANGED projectionVars
  <2>1. ProvisioningTypeOK'
    BY <1>1, ProvisioningTypeStep DEF PlaneTypeOK
  <2>2. QED
    BY <1>1, <2>1 DEF PlaneTypeOK, projectionVars
<1>2. CASE UNCHANGED planeVars
  <2>1. ProvisioningTypeOK'
    BY <1>2, ProvisioningUntouched DEF planeVars, PlaneTypeOK
  <2>2. QED
    BY <1>2, <2>1 DEF PlaneTypeOK, planeVars, projectionVars
<1>3. QED
  BY <1>1, <1>2, ProjectionTypeStep DEF PlaneNext

\* The rows and what every worker and projector remembers have their types, and no
\* counter of attempts passes its limit, however often leases end and workers die.
THEOREM PlaneTypeCorrect == PlaneSpec => []PlaneTypeOK
BY PlaneInitType, PlaneTypeStep, PTL DEF PlaneSpec

------------------------------------------------------------------------------
(* A provisioned target's database was prepared *)

\* What a worker has reached, its database shows; a projector only ever works on a
\* topology that was provisioned.
PreparedInv ==
    /\ ProvisionedIsUsable
    /\ \A w \in Workers :
        /\ worker[w].at = "bootstrap" => "provision" \in database[worker[w].topology]
        /\ worker[w].at = "done" => database[worker[w].topology] = Tasks
    /\ \A p \in Projectors :
        projector[p].at # "idle" => database[projector[p].topology] = Tasks

\* A row that was written over keeps the promise, if it held of the old row and the
\* caller only says "provisioned" of a prepared database.
LEMMA UpsertedIsUsable ==
    ASSUME ProvisioningTypeOK, ProvisionedIsUsable, NEW topology \in Topologies,
           NEW status \in {"provisioning", "provisioned", "failed"},
           status = "provisioned" => database[topology] = Tasks,
           target' = upsertTenantDatabaseTarget(target, status, topology),
           UNCHANGED database
    PROVE  ProvisionedIsUsable'
BY UpsertedRow DEF ProvisioningTypeOK, ProvisionedIsUsable

LEMMA WorkPrepares ==
    ASSUME PlaneTypeOK, PreparedInv, NEW w \in Workers, Work(w), UNCHANGED projectionVars
    PROVE  PreparedInv'
<1>1. /\ worker[w].topology \in Topologies
      /\ worker[w].at \in Tasks
      /\ database \in [Topologies -> SUBSET Tasks]
      /\ worker \in [Workers -> WorkerRows]
  BY DEF PlaneTypeOK, ProvisioningTypeOK, WorkerRows, Work
<1>2. \A t \in Topologies : database[t] \subseteq database'[t] /\ database'[t] \subseteq Tasks
  BY <1>1 DEF Work
<1>3. \A t \in Topologies : /\ database[t] = Tasks => database'[t] = Tasks
                            /\ "provision" \in database[t] => "provision" \in database'[t]
  <2>1. ASSUME NEW t \in Topologies, database[t] = Tasks PROVE database'[t] = Tasks
    <3>1. Tasks \subseteq database'[t] /\ database'[t] \subseteq Tasks
      BY <1>2, <2>1
    <3>2. QED
      BY <3>1
  <2>2. QED
    BY <1>2, <2>1
<1>4. ProvisionedIsUsable'
  <2>1. target.topology \in Topologies /\ UNCHANGED target
    BY DEF PlaneTypeOK, ProvisioningTypeOK, TargetRows, Work
  <2>2. QED
    BY <1>3, <2>1 DEF PreparedInv, ProvisionedIsUsable
<1>5. ASSUME NEW v \in Workers
      PROVE  /\ worker'[v].at = "bootstrap" => "provision" \in database'[worker'[v].topology]
             /\ worker'[v].at = "done" => database'[worker'[v].topology] = Tasks
  <2>1. CASE v # w
    <3>1. worker'[v] = worker[v] /\ worker[v].topology \in Topologies
      BY <1>1, <2>1 DEF Work, WorkerRows
    <3>2. QED
      BY <1>3, <3>1 DEF PreparedInv
  <2>2. CASE v = w /\ worker'[w].at \in {"bootstrap", "done"}
    <3>1. /\ database' = [database EXCEPT ![worker[w].topology] = @ \cup {worker[w].at}]
          /\ worker' = [worker EXCEPT ![w].at = IF worker[w].at = "provision"
                                                THEN "bootstrap" ELSE "done"]
      BY <1>1, <2>2 DEF Work, WorkerRows
    <3>2. worker'[w].topology = worker[w].topology
      BY <1>1, <3>1 DEF WorkerRows
    <3>3. database'[worker[w].topology] = database[worker[w].topology] \cup {worker[w].at}
      BY <1>1, <3>1
    <3>4. CASE worker[w].at = "provision"
      <4>1. worker'[w].at = "bootstrap"
        BY <1>1, <3>1, <3>4 DEF WorkerRows
      <4>2. QED
        BY <2>2, <3>2, <3>3, <3>4, <4>1
    <3>5. CASE worker[w].at = "bootstrap"
      <4>1. worker'[w].at = "done"
        BY <1>1, <3>1, <3>5 DEF WorkerRows
      <4>2. "provision" \in database[worker[w].topology]
        BY <3>5 DEF PreparedInv
      <4>3. database'[worker[w].topology] = Tasks
        BY <1>1, <1>2, <3>3, <3>5, <4>2 DEF Tasks
      <4>4. QED
        BY <2>2, <3>2, <4>1, <4>3
    <3>6. QED
      BY <1>1, <3>4, <3>5 DEF Tasks
  <2>3. QED
    BY <2>1, <2>2
<1>6. ASSUME NEW p \in Projectors, projector'[p].at # "idle"
      PROVE  database'[projector'[p].topology] = Tasks
  <2>1. projector'[p] = projector[p] /\ projector[p].topology \in Topologies
    BY ProjectorOf DEF projectionVars
  <2>2. QED
    BY <1>3, <1>6, <2>1 DEF PreparedInv
<1>7. QED
  BY <1>4, <1>5, <1>6 DEF PreparedInv

LEMMA ProvisioningPrepares ==
    ASSUME PlaneTypeOK, PreparedInv, ProvisioningNext, UNCHANGED projectionVars
    PROVE  PreparedInv'
<1>1. projector' = projector
  BY DEF projectionVars
<1>2. target \in TargetRows /\ target.topology \in Topologies /\ ProvisioningTypeOK
  BY DEF PlaneTypeOK, ProvisioningTypeOK, TargetRows
<1>3. ASSUME NEW t \in Topologies, SetUp(t) PROVE PreparedInv'
  <2>1. UNCHANGED <<worker, database>>
    BY <1>3 DEF SetUp
  <2>2. ProvisionedIsUsable'
    BY <1>2, <1>3, UpsertedIsUsable DEF SetUp, PreparedInv
  <2>3. QED
    BY <1>1, <2>1, <2>2 DEF PreparedInv
<1>4. CASE completeOnboarding
  BY <1>2, <1>3, <1>4 DEF completeOnboarding
<1>5. CASE CloseOrganization
  BY <1>1, <1>2, <1>5 DEF CloseOrganization, PreparedInv, ProvisionedIsUsable, TargetRows
<1>6. ASSUME NEW t \in Topologies, RepeatSampleTenant(t) PROVE PreparedInv'
  BY <1>3, <1>6 DEF RepeatSampleTenant
<1>7. ASSUME NEW t \in Topologies, LeaseEnds(t) PROVE PreparedInv'
  BY <1>1, <1>7 DEF LeaseEnds, PreparedInv, ProvisionedIsUsable
<1>8. SweptTarget = target \/ SweptTarget.status = "failed"
  BY <1>2 DEF SweptTarget, TargetRows
<1>9. ASSUME NEW w \in Workers, SweepOnly(w) PROVE PreparedInv'
  BY <1>1, <1>8, <1>9 DEF SweepOnly, PreparedInv, ProvisionedIsUsable
<1>10. ASSUME NEW w \in Workers, Claim(w) PROVE PreparedInv'
  <2>1. ProvisionedIsUsable'
    BY <1>8, <1>10 DEF Claim, PreparedInv, ProvisionedIsUsable
  <2>2. worker \in [Workers -> WorkerRows]
    BY DEF PlaneTypeOK, ProvisioningTypeOK
  <2>3. UNCHANGED database
    BY <1>10 DEF Claim
  <2>4. \A v \in Workers : worker'[v].at = "provision" \/ worker'[v] = worker[v]
    BY <1>10, <2>2 DEF Claim
  <2>5. QED
    BY <1>1, <2>1, <2>3, <2>4 DEF PreparedInv
<1>11. ASSUME NEW w \in Workers, Complete(w) \/ Fail(w) PROVE PreparedInv'
  <2>1. worker[w].topology \in Topologies /\ worker \in [Workers -> WorkerRows]
    BY DEF PlaneTypeOK, ProvisioningTypeOK, WorkerRows
  <2>2. UNCHANGED database
    BY <1>11, EndReports
  <2>3. ProvisionedIsUsable'
    <3>1. CASE worker[w].at = "done" /\ Report(w, "succeeded", "provisioned")
      BY <1>2, <2>1, <2>2, <3>1, UpsertedIsUsable DEF Report, PreparedInv, ProvisionedIsUsable
    <3>2. CASE Report(w, "failed", "failed")
      BY <1>2, <2>1, <2>2, <3>2, UpsertedIsUsable DEF Report, PreparedInv, ProvisionedIsUsable
    <3>3. CASE Report(w, "retry_scheduled", "provisioning")
      BY <1>2, <2>1, <2>2, <3>3, UpsertedIsUsable DEF Report, PreparedInv, ProvisionedIsUsable
    <3>4. QED
      BY <1>11, <3>1, <3>2, <3>3, EndReports
  <2>4. \A v \in Workers : worker'[v].at = "idle" \/ worker'[v] = worker[v]
    BY <1>11, <2>1, EndReports DEF IdleWorker
  <2>5. QED
    BY <1>1, <2>2, <2>3, <2>4 DEF PreparedInv
<1>12. ASSUME NEW w \in Workers, Abandon(w) PROVE PreparedInv'
  <2>1. worker \in [Workers -> WorkerRows]
    BY DEF PlaneTypeOK, ProvisioningTypeOK
  <2>2. \A v \in Workers : worker'[v].at = "idle" \/ worker'[v] = worker[v]
    BY <1>12, <2>1 DEF Abandon, IdleWorker
  <2>3. QED
    BY <1>1, <1>12, <2>2 DEF Abandon, PreparedInv, ProvisionedIsUsable
<1>13. QED
  BY <1>4, <1>5, <1>6, <1>7, <1>9, <1>10, <1>11, <1>12, WorkPrepares DEF ProvisioningNext

LEMMA ProjectionPrepares ==
    ASSUME PlaneTypeOK, PreparedInv, ProjectionNext
    PROVE  PreparedInv'
<1>1. projector \in [Projectors -> ProjectorRows]
  BY DEF PlaneTypeOK
<1>2. ASSUME UNCHANGED provisioningVars,
             \A p \in Projectors : \/ projector'[p].at = "idle"
                                   \/ /\ projector[p].at # "idle"
                                      /\ projector'[p].topology = projector[p].topology
      PROVE  PreparedInv'
  BY <1>2 DEF provisioningVars, PreparedInv, ProvisionedIsUsable
<1>3. ASSUME NEW c \in Changes, ChangeTenantData(c) \/ EventLeaseEnds(c) PROVE PreparedInv'
  BY <1>2, <1>3 DEF ChangeTenantData, EventLeaseEnds
<1>4. ASSUME NEW p \in Projectors, ListProvisionedTargets(p) PROVE PreparedInv'
  <2>1. UNCHANGED provisioningVars
    BY <1>4 DEF ListProvisionedTargets
  <2>2. \A q \in Projectors : \/ projector'[q] = projector[q]
                              \/ projector'[q].topology = target.topology
    BY <1>1, <1>4 DEF ListProvisionedTargets, ProjectorRows
  <2>3. database[target.topology] = Tasks
    BY <1>4 DEF ListProvisionedTargets, PreparedInv, ProvisionedIsUsable
  <2>4. QED
    BY <2>1, <2>2, <2>3 DEF provisioningVars, PreparedInv, ProvisionedIsUsable
<1>5. ASSUME NEW p \in Projectors, ensureMigrated(p) PROVE PreparedInv'
  <2>1. projector[p].topology \in Topologies /\ database[projector[p].topology] = Tasks
    BY <1>5, ProjectorOf DEF ensureMigrated, PreparedInv
  <2>2. UNCHANGED <<worker, database>>
    BY <1>5 DEF ensureMigrated
  <2>3. ProvisionedIsUsable'
    <3>1. CASE target' = target
      BY <2>2, <3>1 DEF PreparedInv, ProvisionedIsUsable
    <3>2. CASE target' = upsertTenantDatabaseTarget(target, "provisioned", projector[p].topology)
      BY <2>1, <2>2, <3>2, UpsertedIsUsable DEF PreparedInv, PlaneTypeOK
    <3>3. QED
      BY <1>5, <3>1, <3>2 DEF ensureMigrated
  <2>4. \A q \in Projectors : \/ projector'[q] = projector[q]
                              \/ projector'[q].topology = projector[p].topology
    BY <1>1, <1>5 DEF ensureMigrated, ProjectorRows
  <2>5. QED
    BY <2>1, <2>2, <2>3, <2>4 DEF PreparedInv
<1>6. ASSUME NEW p \in Projectors, NEW at, UNCHANGED provisioningVars,
             projector[p].at # "idle", projector' = [projector EXCEPT ![p].at = at]
      PROVE  PreparedInv'
  <2>1. \A q \in Projectors : /\ projector'[q].topology = projector[q].topology
                              /\ projector'[q].at # "idle" => projector[q].at # "idle"
    BY <1>1, <1>6 DEF ProjectorRows
  <2>2. QED
    BY <1>2, <1>6, <2>1
<1>7. ASSUME NEW p \in Projectors, UNCHANGED provisioningVars,
             projector' = [projector EXCEPT ![p] = IdleProjector]
      PROVE  PreparedInv'
  <2>1. \A q \in Projectors : projector'[q].at = "idle" \/ projector'[q] = projector[q]
    BY <1>1, <1>7 DEF IdleProjector
  <2>2. QED
    BY <1>2, <1>7, <2>1
<1>8. ASSUME NEW p \in Projectors, ApplyProjection(p) \/ ProjectionFails(p) PROVE PreparedInv'
  <2>1. /\ UNCHANGED provisioningVars
        /\ projector[p].at # "idle"
        /\ \E at \in {"applied", "failing"} : projector' = [projector EXCEPT ![p].at = at]
    BY <1>8 DEF ApplyProjection, ProjectionFails
  <2>2. QED
    BY <1>6, <2>1
<1>9. ASSUME NEW p \in Projectors, MarkEventsFailed(p) \/ MarkEventsPublished(p) \/ AbandonCycle(p)
      PROVE  PreparedInv'
  BY <1>7, <1>9 DEF MarkEventsFailed, MarkEventsPublished, AbandonCycle
<1>10. ASSUME NEW p \in Projectors, ClaimEvents(p) PROVE PreparedInv'
  <2>1. PICK batch :
          /\ UNCHANGED provisioningVars
          /\ \/ projector' = [projector EXCEPT ![p] = IdleProjector]
             \/ projector' = [projector EXCEPT ![p] = [@ EXCEPT !.at = "claimed",
                                                                !.batch = batch]]
    BY <1>10, ClaimedBatch
  <2>2. projector[p].at # "idle"
    BY <1>10 DEF ClaimEvents
  <2>3. CASE projector' = [projector EXCEPT ![p] = [@ EXCEPT !.at = "claimed", !.batch = batch]]
    <3>1. \A q \in Projectors : /\ projector'[q].topology = projector[q].topology
                                /\ projector'[q].at # "idle" => projector[q].at # "idle"
      BY <1>1, <2>2, <2>3 DEF ProjectorRows
    <3>2. QED
      BY <1>2, <2>1, <3>1
  <2>4. QED
    BY <1>7, <2>1, <2>3
<1>11. ASSUME NEW p \in Projectors, LoadSnapshot(p) PROVE PreparedInv'
  <2>1. \A q \in Projectors : /\ projector'[q].topology = projector[q].topology
                              /\ projector'[q].at # "idle" => projector[q].at # "idle"
    BY <1>1, <1>11 DEF LoadSnapshot, ProjectorRows
  <2>2. QED
    BY <1>2, <1>11, <2>1 DEF LoadSnapshot
<1>12. QED
  BY <1>3, <1>4, <1>5, <1>8, <1>9, <1>10, <1>11 DEF ProjectionNext

LEMMA PreparedInit == PlaneInit => PreparedInv
BY DEF PlaneInit, ProvisioningInit, PreparedInv, ProvisionedIsUsable, IdleWorker, IdleProjector

LEMMA PreparedStep == PlaneTypeOK /\ PreparedInv /\ [PlaneNext]_planeVars => PreparedInv'
<1> SUFFICES ASSUME PlaneTypeOK, PreparedInv, [PlaneNext]_planeVars PROVE PreparedInv'
  OBVIOUS
<1>1. CASE UNCHANGED planeVars
  BY <1>1 DEF planeVars, provisioningVars, projectionVars, PreparedInv, ProvisionedIsUsable
<1>2. QED
  BY <1>1, ProvisioningPrepares, ProjectionPrepares DEF PlaneNext

\* Requests are never routed to a database that is not created, migrated and
\* bootstrapped, whatever late worker or projector wrote the target last.
THEOREM ProvisionedDatabaseIsUsable == PlaneSpec => []ProvisionedIsUsable
<1>1. PreparedInv => ProvisionedIsUsable
  BY DEF PreparedInv
<1>2. QED
  BY <1>1, PlaneTypeCorrect, PreparedInit, PreparedStep, PTL DEF PlaneSpec

------------------------------------------------------------------------------
(* A closed organization stays closed *)

LEMMA ArchivedStep ==
    ASSUME PlaneTypeOK, PlaneNext, target.status = "archived"
    PROVE  target'.status = "archived"
<1>1. target \in TargetRows /\ ProvisioningTypeOK
  BY DEF PlaneTypeOK, ProvisioningTypeOK
<1>2. CASE ProvisioningNext
  <2>1. CASE completeOnboarding \/ \E t \in Topologies : RepeatSampleTenant(t) \/ LeaseEnds(t)
    BY <2>1 DEF completeOnboarding, RepeatSampleTenant, LeaseEnds
  <2>2. CASE CloseOrganization
    BY <1>1, <2>2 DEF CloseOrganization, TargetRows
  <2>3. ASSUME NEW w \in Workers, SweepOnly(w) \/ Claim(w) PROVE target'.status = "archived"
    BY <2>3 DEF SweepOnly, Claim, SweptTarget
  <2>4. ASSUME NEW w \in Workers, Work(w) \/ Abandon(w) PROVE target'.status = "archived"
    BY <2>4 DEF Work, Abandon
  <2>5. ASSUME NEW w \in Workers, Complete(w) \/ Fail(w) PROVE target'.status = "archived"
    <3>1. worker[w].topology \in Topologies
      BY <1>1 DEF ProvisioningTypeOK, WorkerRows
    <3>2. ASSUME NEW jobStatus, NEW status \in {"provisioning", "provisioned", "failed"},
                 Report(w, jobStatus, status)
          PROVE  target'.status = "archived"
      BY <1>1, <3>1, <3>2, UpsertedRow DEF Report
    <3>3. QED
      BY <2>5, <3>2, EndReports
  <2>6. QED
    BY <1>2, <2>1, <2>2, <2>3, <2>4, <2>5 DEF ProvisioningNext
<1>3. CASE ProjectionNext
  <2>1. ASSUME NEW p \in Projectors, ensureMigrated(p) PROVE target'.status = "archived"
    BY <1>1, <2>1, ProjectorOf, UpsertedRow DEF ensureMigrated
  <2>2. ASSUME UNCHANGED provisioningVars PROVE target'.status = "archived"
    BY <2>2 DEF provisioningVars
  <2>3. QED
    BY <1>3, <2>1, <2>2
       DEF ProjectionNext, ChangeTenantData, EventLeaseEnds, ListProvisionedTargets, ClaimEvents,
           LoadSnapshot, ApplyProjection, ProjectionFails, MarkEventsFailed,
           MarkEventsPublished, AbandonCycle
<1>4. QED
  BY <1>2, <1>3 DEF PlaneNext

\* The database of a closed organization is never opened again, by any number of
\* workers and projectors that read its target before it was closed.
THEOREM ClosedStaysClosed == PlaneSpec => ArchivedStaysArchived
<1>1. PlaneTypeOK /\ [PlaneNext]_planeVars
         => [target.status = "archived" => target'.status = "archived"]_target
  BY ArchivedStep DEF planeVars, provisioningVars
<1>2. QED
  BY <1>1, PlaneTypeCorrect, PTL DEF PlaneSpec, ArchivedStaysArchived

------------------------------------------------------------------------------
(* What is published was projected *)

\* A projector's batch is of changes its database holds; once it has loaded, its
\* snapshot shows them, and once it has applied, the inbox has them.
ProjectedInv ==
    /\ PublishedIsProjected
    /\ \A p \in Projectors :
        /\ projector[p].at = "claimed" => projector[p].batch \subseteq Held(projector[p].topology)
        /\ projector[p].at = "applied" => projector[p].batch \subseteq inbox

LEMMA ProjectedInit == PlaneInit => ProjectedInv
BY DEF PlaneInit, ProjectedInv, PublishedIsProjected, IdleProjector

\* An event never returns to nothing, and belongs to one database.
LEMMA EventsStay ==
    ASSUME PlaneTypeOK, [PlaneNext]_planeVars, NEW c \in Changes, event[c].status # "none"
    PROVE  event'[c].status # "none" /\ event'[c].topology = event[c].topology
<1>1. event \in [Changes -> EventRows] /\ event[c] \in EventRows
  BY DEF PlaneTypeOK
<1>2. CASE UNCHANGED event
  BY <1>2
<1>3. ASSUME NEW d \in Changes, ChangeTenantData(d) \/ EventLeaseEnds(d)
      PROVE  event'[c].status # "none" /\ event'[c].topology = event[c].topology
  BY <1>1, <1>3 DEF ChangeTenantData, EventLeaseEnds, EventRows
<1>4. ASSUME NEW p \in Projectors, ClaimEvents(p)
      PROVE  event'[c].status # "none" /\ event'[c].topology = event[c].topology
  <2>1. PICK batch : event' = [d \in Changes |->
                        IF d \in batch
                        THEN [event[d] EXCEPT !.status = "running", !.expired = FALSE,
                                              !.attempts = @ + 1, !.owner = p]
                        ELSE event[d]]
    BY <1>4, ClaimedBatch
  <2>2. QED
    BY <1>1, <2>1 DEF EventRows
<1>5. ASSUME NEW p \in Projectors, NEW status \in {"failed", "published"}, MarkOwned(p, status)
      PROVE  event'[c].status # "none" /\ event'[c].topology = event[c].topology
  BY <1>1, <1>5 DEF MarkOwned, EventRows
<1>6. QED
  BY <1>2, <1>3, <1>4, <1>5
     DEF planeVars, projectionVars, PlaneNext, ProjectionNext, ListProvisionedTargets,
         ensureMigrated, LoadSnapshot, ApplyProjection, ProjectionFails, MarkEventsFailed,
         MarkEventsPublished, AbandonCycle

LEMMA HeldGrows ==
    ASSUME PlaneTypeOK, [PlaneNext]_planeVars, NEW t \in Topologies
    PROVE  Held(t) \subseteq Held(t)'
BY EventsStay DEF Held

\* The parts of the invariant that are about one projector.
ProjectorOK(p) ==
    /\ projector[p].at = "claimed" => projector[p].batch \subseteq Held(projector[p].topology)
    /\ projector[p].at \in {"loaded", "applied"} => projector[p].batch \subseteq projector[p].snapshot
    /\ projector[p].at = "applied" => projector[p].batch \subseteq inbox

LEMMA ProjectedParts ==
    ProjectedInv <=> /\ \A c \in Changes : event[c].status = "published" => c \in inbox
                     /\ \A p \in Projectors : ProjectorOK(p)
BY DEF ProjectedInv, PublishedIsProjected, ProjectorOK

\* A projector that did not move, or became idle, is as good as it was.
LEMMA ProjectorKept ==
    ASSUME PlaneTypeOK, [PlaneNext]_planeVars, NEW p \in Projectors, ProjectorOK(p),
           projector'[p] = projector[p] \/ projector'[p].at = "idle",
           inbox \subseteq inbox'
    PROVE  ProjectorOK(p)'
<1>1. PICK t \in Topologies : t = projector[p].topology
  BY ProjectorOf
<1>2. CASE projector'[p].at = "idle"
  BY <1>2 DEF ProjectorOK
<1>3. CASE projector'[p] = projector[p]
  <2>1. Held(t) \subseteq Held(t)'
    BY <1>1, HeldGrows
  <2>2. Held(projector[p].topology) = Held(t) /\ Held(projector[p].topology)' = Held(t)'
    BY <1>1, <1>3 DEF Held
  <2>3. QED
    BY <1>3, <2>1, <2>2 DEF ProjectorOK
<1>4. QED
  BY <1>2, <1>3

LEMMA InboxGrows == ASSUME [PlaneNext]_planeVars PROVE inbox \subseteq inbox'
BY DEF planeVars, projectionVars, PlaneNext, ProjectionNext, ChangeTenantData, EventLeaseEnds,
       ListProvisionedTargets, ensureMigrated, ClaimEvents, LoadSnapshot, ApplyProjection,
       ProjectionFails, MarkEventsFailed, MarkEventsPublished, AbandonCycle

\* Each projector after a step is as the invariant wants it.
LEMMA ProjectorsStep ==
    ASSUME PlaneTypeOK, ProjectedInv, [PlaneNext]_planeVars, NEW p \in Projectors
    PROVE  ProjectorOK(p)'
<1>1. projector \in [Projectors -> ProjectorRows] /\ projector[p] \in ProjectorRows
  BY DEF PlaneTypeOK
<1>2. ProjectorOK(p)
  BY ProjectedParts
<1>3. ASSUME projector'[p] = projector[p] \/ projector'[p].at = "idle" PROVE ProjectorOK(p)'
  BY <1>2, <1>3, ProjectorKept, InboxGrows
<1>4. CASE UNCHANGED projector
  BY <1>3, <1>4
<1>5. ASSUME NEW q \in Projectors, ListProvisionedTargets(q) \/ ensureMigrated(q)
      PROVE  ProjectorOK(p)'
  <2>1. CASE p = q
    <3>1. projector'[p].at \in {"listed", "ready"}
      BY <1>1, <1>5, <2>1 DEF ListProvisionedTargets, ensureMigrated, ProjectorRows
    <3>2. QED
      BY <3>1 DEF ProjectorOK
  <2>2. CASE p # q
    <3>1. projector'[p] = projector[p]
      BY <1>1, <1>5, <2>2 DEF ListProvisionedTargets, ensureMigrated
    <3>2. QED
      BY <1>3, <3>1
  <2>3. QED
    BY <2>1, <2>2
<1>6. ASSUME NEW q \in Projectors, ClaimEvents(q) PROVE ProjectorOK(p)'
  <2>1. PICK batch \in SUBSET {c \in Changes : /\ event[c].topology = projector[q].topology
                                               /\ event[c].attempts < MaxEventAttempts
                                               /\ event[c].status # "none"} :
          \/ projector' = [projector EXCEPT ![q] = IdleProjector]
          \/ projector' = [projector EXCEPT ![q] = [@ EXCEPT !.at = "claimed", !.batch = batch]]
    BY <1>6, ClaimedBatch
  <2>2. CASE p = q /\ projector' = [projector EXCEPT ![q] = [@ EXCEPT !.at = "claimed",
                                                                      !.batch = batch]]
    <3>1. /\ projector'[p].at = "claimed" /\ projector'[p].batch = batch
          /\ projector'[p].topology = projector[p].topology
      BY <1>1, <2>2 DEF ProjectorRows
    <3>2. PICK t \in Topologies : t = projector[p].topology
      BY ProjectorOf
    <3>3. batch \subseteq Held(t) /\ Held(t) \subseteq Held(t)'
      BY <2>2, <3>2, HeldGrows DEF Held
    <3>4. Held(projector[p].topology)' = Held(t)'
      BY <3>1, <3>2 DEF Held
    <3>5. QED
      BY <3>1, <3>3, <3>4 DEF ProjectorOK
  <2>3. CASE p = q /\ projector' = [projector EXCEPT ![q] = IdleProjector]
    BY <1>1, <1>3, <2>3 DEF IdleProjector
  <2>4. CASE p # q
    <3>1. projector'[p] = projector[p]
      BY <1>1, <2>1, <2>4
    <3>2. QED
      BY <1>3, <3>1
  <2>5. QED
    BY <2>1, <2>2, <2>3, <2>4
<1>7. ASSUME NEW q \in Projectors, LoadSnapshot(q) PROVE ProjectorOK(p)'
  <2>1. CASE p = q
    <3>1. /\ projector[p].at = "claimed"
          /\ projector'[p].at = "loaded" /\ projector'[p].batch = projector[p].batch
          /\ projector'[p].snapshot = Held(projector[p].topology)
      BY <1>1, <1>7, <2>1 DEF LoadSnapshot, ProjectorRows
    <3>2. QED
      BY <1>2, <3>1 DEF ProjectorOK
  <2>2. CASE p # q
    <3>1. projector'[p] = projector[p]
      BY <1>1, <1>7, <2>2 DEF LoadSnapshot
    <3>2. QED
      BY <1>3, <3>1
  <2>3. QED
    BY <2>1, <2>2
<1>8. ASSUME NEW q \in Projectors, ApplyProjection(q) PROVE ProjectorOK(p)'
  <2>1. CASE p = q
    <3>1. /\ projector[p].at = "loaded"
          /\ projector'[p].at = "applied" /\ projector'[p].batch = projector[p].batch
          /\ projector'[p].snapshot = projector[p].snapshot
          /\ inbox' = inbox \cup projector[p].batch
      BY <1>1, <1>8, <2>1 DEF ApplyProjection, ProjectorRows
    <3>2. QED
      BY <1>2, <3>1 DEF ProjectorOK
  <2>2. CASE p # q
    <3>1. projector'[p] = projector[p]
      BY <1>1, <1>8, <2>2 DEF ApplyProjection
    <3>2. QED
      BY <1>3, <3>1
  <2>3. QED
    BY <2>1, <2>2
<1>9. ASSUME NEW q \in Projectors, ProjectionFails(q) PROVE ProjectorOK(p)'
  <2>1. CASE p = q
    <3>1. projector'[p].at = "failing"
      BY <1>1, <1>9, <2>1 DEF ProjectionFails, ProjectorRows
    <3>2. QED
      BY <3>1 DEF ProjectorOK
  <2>2. CASE p # q
    <3>1. projector'[p] = projector[p]
      BY <1>1, <1>9, <2>2 DEF ProjectionFails
    <3>2. QED
      BY <1>3, <3>1
  <2>3. QED
    BY <2>1, <2>2
<1>10. ASSUME NEW q \in Projectors,
              MarkEventsFailed(q) \/ MarkEventsPublished(q) \/ AbandonCycle(q)
       PROVE  ProjectorOK(p)'
  <2>1. projector' = [projector EXCEPT ![q] = IdleProjector]
    BY <1>10 DEF MarkEventsFailed, MarkEventsPublished, AbandonCycle
  <2>2. projector'[p] = projector[p] \/ projector'[p].at = "idle"
    BY <1>1, <2>1 DEF IdleProjector
  <2>3. QED
    BY <1>3, <2>2
<1>11. QED
  BY <1>4, <1>5, <1>6, <1>7, <1>8, <1>9, <1>10
     DEF planeVars, projectionVars, PlaneNext, ProjectionNext, ChangeTenantData, EventLeaseEnds

\* An event becomes published only in the hands of a projector that has applied it.
LEMMA PublishedStep ==
    ASSUME PlaneTypeOK, ProjectedInv, [PlaneNext]_planeVars,
           NEW c \in Changes, event'[c].status = "published"
    PROVE  c \in inbox'
<1>1. event \in [Changes -> EventRows] /\ event[c] \in EventRows
  BY DEF PlaneTypeOK
<1>2. ASSUME event[c].status = "published" PROVE c \in inbox'
  BY <1>2, InboxGrows, ProjectedParts
<1>3. CASE UNCHANGED event
  BY <1>2, <1>3
<1>4. ASSUME NEW d \in Changes, ChangeTenantData(d) \/ EventLeaseEnds(d) PROVE c \in inbox'
  <2>1. event'[c].status \in {event[c].status, "pending"}
    BY <1>1, <1>4 DEF ChangeTenantData, EventLeaseEnds, EventRows
  <2>2. QED
    BY <1>2, <2>1
<1>5. ASSUME NEW p \in Projectors, ClaimEvents(p) PROVE c \in inbox'
  <2>1. PICK batch : event' = [d \in Changes |->
                        IF d \in batch
                        THEN [event[d] EXCEPT !.status = "running", !.expired = FALSE,
                                              !.attempts = @ + 1, !.owner = p]
                        ELSE event[d]]
    BY <1>5, ClaimedBatch
  <2>2. event'[c].status \in {event[c].status, "running"}
    BY <1>1, <2>1 DEF EventRows
  <2>3. QED
    BY <1>2, <2>2
<1>6. ASSUME NEW p \in Projectors, MarkEventsFailed(p) PROVE c \in inbox'
  <2>1. event'[c].status \in {event[c].status, "failed"}
    BY <1>1, <1>6 DEF MarkEventsFailed, MarkOwned, EventRows
  <2>2. QED
    BY <1>2, <2>1
<1>7. ASSUME NEW p \in Projectors, MarkEventsPublished(p) PROVE c \in inbox'
  <2>1. event'[c].status = event[c].status \/ c \in projector[p].batch
    BY <1>1, <1>7 DEF MarkEventsPublished, MarkOwned
  <2>2. projector[p].batch \subseteq inbox
    BY <1>7, ProjectedParts DEF MarkEventsPublished, ProjectorOK
  <2>3. QED
    BY <1>2, <2>1, <2>2, InboxGrows
<1>8. QED
  BY <1>3, <1>4, <1>5, <1>6, <1>7
     DEF planeVars, projectionVars, PlaneNext, ProjectionNext, ListProvisionedTargets,
         ensureMigrated, LoadSnapshot, ApplyProjection, ProjectionFails, AbandonCycle

LEMMA ProjectedStep == PlaneTypeOK /\ ProjectedInv /\ [PlaneNext]_planeVars => ProjectedInv'
<1> SUFFICES ASSUME PlaneTypeOK, ProjectedInv, [PlaneNext]_planeVars PROVE ProjectedInv'
  OBVIOUS
<1>1. \A c \in Changes : event'[c].status = "published" => c \in inbox'
  BY PublishedStep
<1>2. \A p \in Projectors : ProjectorOK(p)'
  BY ProjectorsStep
<1>3. QED
  BY <1>1, <1>2 DEF ProjectedInv, PublishedIsProjected, ProjectorOK

\* No change is marked as told before the platform knew of it, with any number of
\* projectors whose leases end while they work.
THEOREM PublishedWasProjected == PlaneSpec => []PublishedIsProjected
<1>1. ProjectedInv => PublishedIsProjected
  BY DEF ProjectedInv
<1>2. QED
  BY <1>1, PlaneTypeCorrect, ProjectedInit, ProjectedStep, PTL DEF PlaneSpec

------------------------------------------------------------------------------
(* The pool cache *)

EntryRows == [made : BOOLEAN, pool : {"none", "open", "closing", "closed"},
              leases : Nat, ready : BOOLEAN, err : BOOLEAN]

CallerRows == [at : CallerSteps, entry : Entries \cup {NoEntry}]

Creating(p) == caller[p].at \in {"creating", "created", "refused"}

\* The caller has a lease that it did not give back.
Leasing(p) == caller[p].at \notin {"out", "released"}

\* Where an open pool is waiting to be used or closed.
Kept == Cached \cup reaping \cup closing

\* The life of an entry: it has no pool yet or never gets one; its pool is open and kept
\* by somebody who will close it; Close waits for its connections; or its pool was closed,
\* once, and nobody keeps it.
EntryOK(e) ==
    /\ ~entry[e].made => ~entry[e].ready /\ e \notin Kept
    /\ \/ /\ entry[e].pool = "none" /\ (entry[e].ready <=> entry[e].err)
          /\ closes[e] <= 1 /\ (~entry[e].ready => closes[e] = 0)
          /\ e \notin reaping \cup closing /\ (entry[e].ready => e \notin Cached)
       \/ /\ entry[e].pool = "open" /\ entry[e].ready /\ ~entry[e].err
          /\ closes[e] = 0 /\ e \in Kept
       \/ /\ entry[e].pool = "closing" /\ entry[e].ready /\ ~entry[e].err
          /\ closes[e] = 1 /\ e \in closing
       \/ /\ entry[e].pool = "closed" /\ entry[e].ready /\ ~entry[e].err
          /\ closes[e] = 1 /\ e \notin Kept

\* Only entries that nobody leases leave the cache while it is open, and an entry is in
\* one place at a time.
PlacesOK ==
    /\ \A e \in Cached : ~entry[e].ready => \E p \in Callers : Creating(p) /\ caller[p].entry = e
    /\ \A e \in reaping : entry[e].leases = 0
    /\ Cached \cap reaping = {} /\ closing \cap (Cached \cup reaping) = {}
    /\ closed => Cached = {}
    /\ ~closed => closing = {}

CallerOK(p) ==
    /\ caller[p].at = "out" <=> caller[p].entry = NoEntry
    /\ caller[p].at # "out" => entry[caller[p].entry].made
    /\ Leasing(p) => closed \/ entry[caller[p].entry].err \/ caller[p].entry \in Cached
    /\ Creating(p) =>
          /\ ~entry[caller[p].entry].ready
          /\ \A q \in Callers : Creating(q) /\ caller[q].entry = caller[p].entry => q = p
    /\ caller[p].at \in {"holding", "using"} =>
          entry[caller[p].entry].ready /\ ~entry[caller[p].entry].err
    /\ caller[p].at = "using" => entry[caller[p].entry].pool \in {"open", "closing"}

\* LeasesCountUsers with the finiteness it needs.
LeasesOK ==
    /\ \A e \in Entries : entry[e].leases = Cardinality(Users(e))
    /\ IsFiniteSet(Cached)
    /\ Cardinality(Cached) <= MaxCachedPools

PoolInv ==
    /\ PoolTypeOK
    /\ LeasesOK
    /\ PlacesOK
    /\ \A e \in Entries : EntryOK(e)
    /\ \A p \in Callers : CallerOK(p)

LEMMA EntryIsSome == \A e \in Entries : e # NoEntry
  BY PoolAssumption

LEMMA UsersAreFinite ==
    ASSUME NEW e
    PROVE  IsFiniteSet(Users(e)) /\ Cardinality(Users(e)) \in Nat
  BY PoolAssumption, FS_Subset, FS_CardinalityType DEF Users

\* Whoever uses an entry has a lease on it; whoever gave it back still knows the entry.
LEMMA CallerHasEntry ==
    ASSUME PoolInv, NEW p \in Callers, caller[p].at # "out"
    PROVE  caller[p].entry \in Entries
  BY DEF PoolInv, PoolTypeOK, CallerOK

LEMMA UserHasLease ==
    ASSUME PoolInv, NEW p \in Callers, Leasing(p)
    PROVE  /\ caller[p].entry \in Entries
           /\ entry[caller[p].entry].leases > 0
<1>. DEFINE e == caller[p].entry
<1>1. e \in Entries
  BY CallerHasEntry DEF Leasing
<1>2. Users(e) # {}
  BY DEF Users, Leasing
<1>3. Cardinality(Users(e)) # 0
  BY <1>2, UsersAreFinite, FS_EmptySet
<1>4. QED
  BY <1>1, <1>3, UsersAreFinite DEF PoolInv, LeasesOK

LEMMA WithoutCached ==
    ASSUME NEW S, pools' = Without(S)
    PROVE  Cached' = Cached \ S
  BY DEF Cached, Without

LEMMA PoolInvInit == PoolInit => PoolInv
<1>. SUFFICES ASSUME PoolInit PROVE PoolInv
  OBVIOUS
<1>1. Cached = {}
  BY DEF PoolInit, Cached
<1>2. PoolTypeOK
  BY DEF PoolInit, PoolTypeOK, CallerSteps
<1>3. LeasesOK
  <2>1. \A e \in Entries : Users(e) = {}
    BY EntryIsSome DEF PoolInit, Users
  <2>2. \A e \in Entries : entry[e].leases = Cardinality(Users(e))
    BY <2>1, FS_EmptySet DEF PoolInit
  <2>3. IsFiniteSet(Cached) /\ Cardinality(Cached) = 0
    BY <1>1, FS_EmptySet
  <2>4. QED
    BY <2>2, <2>3, PoolAssumption DEF LeasesOK
<1>4. PlacesOK
  BY <1>1 DEF PoolInit, PlacesOK
<1>5. ASSUME NEW e \in Entries PROVE EntryOK(e)
  BY <1>1 DEF PoolInit, EntryOK, Kept
<1>6. ASSUME NEW p \in Callers PROVE CallerOK(p)
  BY DEF PoolInit, CallerOK, Creating, Leasing
<1>7. QED
  BY <1>2, <1>3, <1>4, <1>5, <1>6 DEF PoolInv

\* A caller goes on with the entry it has.
LEMMA GoOnKeeps ==
    ASSUME PoolInv, NEW p \in Callers, Leasing(p),
           NEW at \in CallerSteps \ {"out", "released"}, GoOn(p, at),
           UNCHANGED <<pools, entry, closed, reaping, closing, closes>>,
           Creating(p) <=> at \in {"creating", "created", "refused"},
           at \in {"holding", "using"} =>
              entry[caller[p].entry].ready /\ ~entry[caller[p].entry].err,
           at = "using" => entry[caller[p].entry].pool \in {"open", "closing"}
    PROVE  PoolInv'
<1>1. /\ caller' \in [Callers -> CallerRows]
      /\ caller'[p].at = at
      /\ \A q \in Callers : caller'[q].entry = caller[q].entry
      /\ \A q \in Callers \ {p} : caller'[q] = caller[q]
  BY DEF PoolInv, PoolTypeOK, GoOn, CallerRows
<1>2. PoolTypeOK'
  BY <1>1 DEF PoolInv, PoolTypeOK, CallerRows
<1>3. Cached' = Cached /\ Kept' = Kept
  BY DEF Cached, Kept
<1>4. \A q \in Callers : Creating(q)' <=> Creating(q)
  BY <1>1 DEF Creating
<1>5. LeasesOK'
  <2>1. \A e \in Entries : Users(e)' = Users(e)
    BY <1>1 DEF Users, Leasing
  <2>2. QED
    BY <1>3, <2>1 DEF PoolInv, LeasesOK
<1>6. PlacesOK'
  BY <1>1, <1>3, <1>4 DEF PoolInv, PlacesOK
<1>7. \A e \in Entries : EntryOK(e)'
  BY <1>3 DEF PoolInv, EntryOK
<1>8. ASSUME NEW q \in Callers PROVE CallerOK(q)'
  <2>1. CASE q = p
    BY <1>1, <1>3, <1>4, <2>1 DEF PoolInv, CallerOK, Leasing
  <2>2. CASE q # p
    BY <1>1, <1>3, <1>4, <2>2 DEF PoolInv, CallerOK, Leasing
  <2>3. QED
    BY <2>1, <2>2
<1>9. QED
  BY <1>2, <1>5, <1>6, <1>7, <1>8 DEF PoolInv

LEMMA CallerGoesOn ==
    ASSUME PoolInv, NEW p \in Callers,
           CreatePool(p) \/ Wait(p) \/ CancelWait(p) \/ Connect(p) \/ Disconnect(p)
    PROVE  PoolInv'
<1>1. CallerOK(p)
  BY DEF PoolInv
<1>2. CASE CreatePool(p)
  BY <1>2, GoOnKeeps DEF CreatePool, Creating, Leasing, CallerSteps
<1>3. CASE Wait(p)
  BY <1>3, GoOnKeeps DEF Wait, Creating, Leasing, CallerSteps
<1>4. CASE CancelWait(p)
  BY <1>4, GoOnKeeps DEF CancelWait, Creating, Leasing, CallerSteps
<1>5. CASE Connect(p)
  BY <1>1, <1>5, GoOnKeeps DEF Connect, CallerOK, Creating, Leasing, CallerSteps
<1>6. CASE Disconnect(p)
  BY <1>6, GoOnKeeps DEF Disconnect, Creating, Leasing, CallerSteps
<1>7. QED
  BY <1>2, <1>3, <1>4, <1>5, <1>6

LEMMA AcquireCachedKeeps ==
    ASSUME PoolInv, NEW p \in Callers, NEW u \in Tenants, AcquireCached(p, u)
    PROVE  PoolInv'
<1>. PICK e \in Entries : e = pools[u]
  BY DEF AcquireCached, PoolInv, PoolTypeOK
<1>1. e \in Cached /\ entry[e].made /\ caller[p].entry = NoEntry /\ caller[p].at = "out"
  BY DEF AcquireCached, PoolInv, PoolTypeOK, Cached, EntryOK, Kept, CallerOK
<1>2. /\ entry' \in [Entries -> EntryRows]
      /\ entry'[e].leases = entry[e].leases + 1
      /\ \A d \in Entries \ {e} : entry'[d] = entry[d]
      /\ \A d \in Entries : /\ entry'[d].made = entry[d].made
                            /\ entry'[d].pool = entry[d].pool
                            /\ entry'[d].ready = entry[d].ready
                            /\ entry'[d].err = entry[d].err
  BY <1>1 DEF AcquireCached, PoolInv, PoolTypeOK, EntryRows
<1>3. /\ caller' \in [Callers -> CallerRows]
      /\ caller'[p] = [at |-> "waiting", entry |-> e]
      /\ \A q \in Callers \ {p} : caller'[q] = caller[q]
  BY <1>1 DEF AcquireCached, PoolInv, PoolTypeOK, CallerRows, CallerSteps
<1>4. PoolTypeOK'
  BY <1>2, <1>3 DEF AcquireCached, PoolInv, PoolTypeOK, EntryRows, CallerRows
<1>5. Cached' = Cached /\ Kept' = Kept
  BY DEF AcquireCached, Cached, Kept
<1>6. \A q \in Callers : Creating(q)' <=> Creating(q)
  BY <1>3 DEF AcquireCached, Creating
<1>7. LeasesOK'
  <2>1. Users(e)' = Users(e) \cup {p} /\ p \notin Users(e)
    BY <1>1, <1>3, EntryIsSome DEF Users
  <2>2. \A d \in Entries \ {e} : Users(d)' = Users(d)
    BY <1>1, <1>3, EntryIsSome DEF Users
  <2>3. Cardinality(Users(e)') = Cardinality(Users(e)) + 1
    BY <2>1, UsersAreFinite, FS_AddElement
  <2>4. ASSUME NEW d \in Entries PROVE entry'[d].leases = Cardinality(Users(d)')
    <3>1. CASE d = e
      BY <1>2, <2>3, <3>1 DEF PoolInv, LeasesOK
    <3>2. CASE d # e
      BY <1>2, <2>2, <3>2 DEF PoolInv, LeasesOK
    <3>3. QED
      BY <3>1, <3>2
  <2>5. QED
    BY <1>5, <2>4 DEF PoolInv, LeasesOK
<1>8. PlacesOK'
  <2>1. e \notin reaping
    BY <1>1 DEF PoolInv, PlacesOK
  <2>2. \A d \in reaping : entry'[d].leases = 0
    BY <1>2, <2>1 DEF PoolInv, PoolTypeOK, PlacesOK
  <2>3. ASSUME NEW d \in Cached, ~entry'[d].ready
        PROVE  \E q \in Callers : Creating(q)' /\ caller'[q].entry = d
    <3>1. d \in Entries
      BY DEF Cached, PoolInv, PoolTypeOK
    <3>2. PICK q \in Callers : Creating(q) /\ caller[q].entry = d
      BY <1>2, <2>3, <3>1 DEF PoolInv, PlacesOK
    <3>3. q # p
      BY <3>2 DEF AcquireCached, Creating
    <3>4. QED
      BY <1>3, <1>6, <3>2, <3>3
  <2>4. QED
    BY <1>5, <2>2, <2>3 DEF AcquireCached, PoolInv, PlacesOK
<1>9. \A d \in Entries : EntryOK(d)'
  BY <1>2, <1>5 DEF AcquireCached, PoolInv, EntryOK
<1>10. ASSUME NEW q \in Callers PROVE CallerOK(q)'
  <2>1. CASE q = p
    BY <1>1, <1>2, <1>3, <1>5, <2>1, EntryIsSome DEF CallerOK, Creating, Leasing
  <2>2. CASE q # p
    BY <1>1, <1>2, <1>3, <1>5, <1>6, <2>2, CallerHasEntry
       DEF AcquireCached, PoolInv, CallerOK, Creating, Leasing
  <2>3. QED
    BY <2>1, <2>2
<1>11. QED
  BY <1>4, <1>7, <1>8, <1>9, <1>10 DEF PoolInv

\* An entry that was never made has no user and is nowhere.
LEMMA AcquireNewKeeps ==
    ASSUME PoolInv, NEW p \in Callers, NEW u \in Tenants, AcquireNew(p, u)
    PROVE  PoolInv'
<1>1. PICK e \in Entries, evicted \in SUBSET Unleased :
         /\ ~entry[e].made
         /\ Cardinality(evicted) = IF Cardinality(Cached) >= MaxCachedPools THEN 1 ELSE 0
         /\ pools' = [Without(evicted) EXCEPT ![u] = e]
         /\ entry' = [d \in Entries |->
               IF d = e THEN [made |-> TRUE, pool |-> "none", leases |-> 1,
                              ready |-> FALSE, err |-> FALSE]
               ELSE IF d \in evicted /\ entry[d].pool # "none"
                    THEN [entry[d] EXCEPT !.pool = "closed"] ELSE entry[d]]
         /\ closes' = [d \in Entries |->
               IF d \in evicted /\ entry[d].pool # "none" THEN closes[d] + 1 ELSE closes[d]]
         /\ caller' = [caller EXCEPT ![p] = [at |-> "creating", entry |-> e]]
  BY Zenon DEF AcquireNew
<1>2. /\ caller[p].at = "out" /\ caller[p].entry = NoEntry
      /\ ~closed /\ pools[u] = NoEntry
      /\ UNCHANGED <<closed, reaping, closing>>
  BY DEF AcquireNew, PoolInv, CallerOK
<1>3. e # NoEntry /\ e \notin Kept /\ ~entry[e].ready /\ closes[e] = 0
  BY <1>1, EntryIsSome DEF PoolInv, EntryOK
<1>4. /\ evicted \subseteq Cached /\ evicted \subseteq Entries /\ e \notin evicted
      /\ \A d \in evicted : entry[d].leases = 0
  BY <1>1, <1>3 DEF Unleased, Cached, Kept, PoolInv, PoolTypeOK
<1>5. Cached' = (Cached \ evicted) \cup {e}
  BY <1>1, <1>2, <1>3 DEF Cached, Without, PoolInv, PoolTypeOK
<1>6. ASSUME NEW q \in Callers
      PROVE  /\ caller[q].entry # e
             /\ caller[q].entry \in evicted => caller[q].at = "released"
  <2>1. CASE caller[q].at = "out"
    BY <1>3, <1>4, <2>1, EntryIsSome DEF PoolInv, CallerOK
  <2>2. CASE caller[q].at # "out"
    <3>1. entry[caller[q].entry].made
      BY <2>2 DEF PoolInv, CallerOK
    <3>2. Leasing(q) => entry[caller[q].entry].leases > 0
      BY UserHasLease
    <3>3. QED
      BY <1>1, <1>4, <2>2, <3>1, <3>2 DEF Leasing
  <2>3. QED
    BY <2>1, <2>2
<1>7. ASSUME NEW d \in evicted
      PROVE  entry[d].pool = "open" /\ closes[d] = 0 /\ d \notin reaping \cup closing
  <2>1. d \in Cached /\ d \in Entries /\ entry[d].leases = 0
    BY <1>4
  <2>2. entry[d].ready
    BY <1>6, <2>1 DEF PoolInv, PlacesOK, Creating
  <2>3. QED
    BY <2>1, <2>2 DEF PoolInv, PlacesOK, EntryOK, Kept
<1>8. /\ entry' \in [Entries -> EntryRows]
      /\ entry'[e] = [made |-> TRUE, pool |-> "none", leases |-> 1, ready |-> FALSE, err |-> FALSE]
      /\ \A d \in evicted : entry'[d] = [entry[d] EXCEPT !.pool = "closed"] /\ closes'[d] = 1
      /\ \A d \in Entries \ (evicted \cup {e}) : entry'[d] = entry[d] /\ closes'[d] = closes[d]
      /\ closes' \in [Entries -> Nat] /\ closes'[e] = 0
  <2>1. entry \in [Entries -> EntryRows] /\ closes \in [Entries -> Nat]
    BY DEF PoolInv, PoolTypeOK, EntryRows
  <2>2. ASSUME NEW d \in Entries
        PROVE  /\ entry'[d] = IF d = e THEN [made |-> TRUE, pool |-> "none", leases |-> 1,
                                              ready |-> FALSE, err |-> FALSE]
                              ELSE IF d \in evicted THEN [entry[d] EXCEPT !.pool = "closed"]
                              ELSE entry[d]
               /\ closes'[d] = IF d \in evicted THEN 1 ELSE closes[d]
    BY <1>1, <1>7
  <2>3. \A d \in Entries : entry'[d] \in EntryRows
    <3>1. ASSUME NEW d \in Entries PROVE entry'[d] \in EntryRows
      <4>1. entry[d] \in EntryRows /\ [entry[d] EXCEPT !.pool = "closed"] \in EntryRows
        BY <2>1 DEF EntryRows
      <4>2. [made |-> TRUE, pool |-> "none", leases |-> 1, ready |-> FALSE, err |-> FALSE]
               \in EntryRows
        BY DEF EntryRows
      <4>3. QED
        BY <2>2, <4>1, <4>2
    <3>2. QED
      BY <3>1
  <2>4. entry' \in [Entries -> EntryRows]
    BY <1>1, <2>3, Zenon
  <2>5. closes' \in [Entries -> Nat]
    BY <1>1, <2>1
  <2>6. QED
    BY <1>3, <1>4, <2>2, <2>4, <2>5
<1>9. \A d \in Entries \ {e} : /\ entry'[d].made = entry[d].made
                               /\ entry'[d].leases = entry[d].leases
                               /\ entry'[d].ready = entry[d].ready
                               /\ entry'[d].err = entry[d].err
                               /\ d \in evicted => entry'[d].pool = "closed"
  <2>1. entry \in [Entries -> EntryRows]
    BY DEF PoolInv, PoolTypeOK, EntryRows
  <2>2. ASSUME NEW d \in evicted
        PROVE  /\ entry'[d].made = entry[d].made
               /\ entry'[d].leases = entry[d].leases
               /\ entry'[d].ready = entry[d].ready
               /\ entry'[d].err = entry[d].err
               /\ entry'[d].pool = "closed"
    <3>1. entry[d] \in EntryRows /\ entry'[d] = [entry[d] EXCEPT !.pool = "closed"]
      BY <1>4, <1>8, <2>1
    <3>2. QED
      BY <3>1 DEF EntryRows
  <2>3. QED
    BY <1>8, <2>2
<1>10. /\ caller' \in [Callers -> CallerRows]
       /\ caller'[p] = [at |-> "creating", entry |-> e]
       /\ \A q \in Callers \ {p} : caller'[q] = caller[q]
  BY <1>1 DEF PoolInv, PoolTypeOK, CallerRows, CallerSteps
<1>11. PoolTypeOK'
  <2>1. pools' \in [Tenants -> Entries \cup {NoEntry}]
    BY <1>1 DEF Without, PoolInv, PoolTypeOK
  <2>2. QED
    BY <1>2, <1>8, <1>10, <2>1 DEF PoolInv, PoolTypeOK, EntryRows, CallerRows
<1>12. LeasesOK'
  <2>1. ASSUME NEW d \in Entries PROVE entry'[d].leases = Cardinality(Users(d)')
    <3>1. CASE d = e
      <4>1. Users(e)' = {p}
        BY <1>6, <1>10 DEF Users
      <4>2. Cardinality({p}) = 1
        BY FS_Singleton
      <4>3. entry'[e].leases = 1
        BY <1>8
      <4>4. QED
        BY <3>1, <4>1, <4>2, <4>3
    <3>2. CASE d # e
      <4>1. Users(d)' = Users(d)
        BY <1>2, <1>10, <3>2, EntryIsSome DEF Users
      <4>2. QED
        BY <1>9, <3>2, <4>1 DEF PoolInv, LeasesOK
    <3>3. QED
      BY <3>1, <3>2
  <2>2. IsFiniteSet(Cached) /\ Cardinality(Cached) \in Nat /\ Cardinality(Cached) <= MaxCachedPools
    BY FS_CardinalityType DEF PoolInv, LeasesOK
  <2>3. IsFiniteSet(Cached \ evicted) /\ Cardinality(Cached \ evicted) \in Nat
    BY <2>2, FS_Subset, FS_CardinalityType
  <2>4. Cardinality(Cached \ evicted) < MaxCachedPools
    <3>1. CASE Cardinality(Cached) >= MaxCachedPools
      <4>1. IsFiniteSet(evicted)
        BY <1>4, <2>2, FS_Subset
      <4>2. PICK x : evicted = {x}
        BY <1>1, <3>1, <4>1, FS_Singleton
      <4>3. Cardinality(Cached \ {x}) = Cardinality(Cached) - 1
        BY <1>4, <2>2, <4>2, FS_RemoveElement
      <4>4. QED
        BY <2>2, <4>2, <4>3, PoolAssumption
    <3>2. CASE Cardinality(Cached) < MaxCachedPools
      <4>1. Cardinality(Cached \ evicted) <= Cardinality(Cached)
        BY <2>2, FS_Subset
      <4>2. QED
        BY <2>2, <2>3, <3>2, <4>1, PoolAssumption
    <3>3. QED
      BY <2>2, <3>1, <3>2, PoolAssumption
  <2>5. IsFiniteSet(Cached') /\ Cardinality(Cached') <= Cardinality(Cached \ evicted) + 1
    <3>. DEFINE rest == Cached \ evicted
    <3>1. IsFiniteSet(rest \cup {e}) /\ Cardinality(rest \cup {e}) <= Cardinality(rest) + 1
      <4>1. IsFiniteSet(rest) /\ Cardinality(rest) \in Nat
        BY <2>3
      <4>2. HIDE DEF rest
      <4>3. QED
        BY <4>1, FS_AddElement
    <3>2. QED
      BY <1>5, <3>1
  <2>6. IsFiniteSet(Cached') /\ Cardinality(Cached') <= MaxCachedPools
    BY <2>3, <2>4, <2>5, FS_CardinalityType, PoolAssumption
  <2>7. QED
    BY <2>1, <2>6 DEF LeasesOK
<1>13. PlacesOK'
  <2>1. ASSUME NEW d \in Cached', ~entry'[d].ready
        PROVE  \E q \in Callers : Creating(q)' /\ caller'[q].entry = d
    <3>1. CASE d = e
      BY <1>10, <3>1 DEF Creating
    <3>2. CASE d # e
      <4>1. d \in Cached
        BY <1>5, <3>2, <2>1
      <4>2. d \in Entries
        BY <4>1 DEF Cached, PoolInv, PoolTypeOK
      <4>3. PICK q \in Callers : Creating(q) /\ caller[q].entry = d
        BY <1>9, <2>1, <3>2, <4>1, <4>2 DEF PoolInv, PlacesOK
      <4>4. q # p
        BY <1>2, <4>3 DEF Creating
      <4>5. QED
        BY <1>10, <4>3, <4>4 DEF Creating
    <3>3. QED
      BY <3>1, <3>2
  <2>2. \A d \in reaping : entry'[d].leases = 0
    BY <1>3, <1>9 DEF PoolInv, PoolTypeOK, PlacesOK, Kept
  <2>3. QED
    BY <1>2, <1>3, <1>5, <2>1, <2>2 DEF PoolInv, PlacesOK, Kept
<1>14. ASSUME NEW d \in Entries PROVE EntryOK(d)'
  <2>1. CASE d = e
    BY <1>2, <1>3, <1>5, <1>8, <2>1 DEF EntryOK, Kept
  <2>2. CASE d \in evicted
    <3>1. entry'[d].pool = "closed" /\ entry'[d].made = entry[d].made
          /\ entry'[d].ready = entry[d].ready /\ entry'[d].err = entry[d].err
      BY <1>4, <1>9, <2>2
    <3>2. d \notin Kept'
      BY <1>2, <1>4, <1>5, <1>7, <2>2 DEF Kept
    <3>3. QED
      BY <1>7, <1>8, <2>2, <3>1, <3>2 DEF PoolInv, EntryOK
  <2>3. CASE d \notin evicted \cup {e}
    <3>1. (d \in Cached' <=> d \in Cached) /\ (d \in Kept' <=> d \in Kept)
      BY <1>2, <1>5, <2>3 DEF Kept
    <3>2. QED
      BY <1>2, <1>8, <2>3, <3>1 DEF PoolInv, EntryOK
  <2>4. QED
    BY <2>1, <2>2, <2>3
<1>15. ASSUME NEW q \in Callers PROVE CallerOK(q)'
  <2>1. CASE q = p
    BY <1>3, <1>5, <1>6, <1>8, <1>10, <2>1 DEF CallerOK, Creating, Leasing
  <2>2. CASE q # p
    <3>1. CASE caller[q].at = "out"
      BY <1>10, <2>2, <3>1 DEF PoolInv, CallerOK, Creating, Leasing
    <3>2. CASE caller[q].at # "out"
      <4>. DEFINE d == caller[q].entry
      <4>1. d \in Entries /\ d # e /\ (d \in evicted => caller[q].at = "released")
        BY <1>6, <3>2, CallerHasEntry
      <4>2. CallerOK(q) /\ caller'[q] = caller[q]
        BY <1>10, <2>2 DEF PoolInv
      <4>3. /\ Leasing(q)' <=> Leasing(q)
            /\ Leasing(q) => (d \in Cached' <=> d \in Cached)
            /\ caller[q].at = "using" => entry'[d].pool = entry[d].pool
        BY <1>5, <1>8, <4>1, <4>2 DEF Leasing
      <4>4. \A x \in Callers : Creating(x)' /\ caller'[x].entry = d => Creating(x) /\ caller[x].entry = d
        BY <1>10, <4>1 DEF Creating
      <4>5. Creating(q)' <=> Creating(q)
        BY <4>2 DEF Creating
      <4>6. entry'[d].made = entry[d].made /\ entry'[d].ready = entry[d].ready /\ entry'[d].err = entry[d].err
        BY <1>9, <4>1
      <4>7. QED
        BY <1>2, <4>2, <4>3, <4>4, <4>5, <4>6, <3>2 DEF CallerOK
    <3>3. QED
      BY <3>1, <3>2
  <2>3. QED
    BY <2>1, <2>2
<1>16. QED
  BY <1>11, <1>12, <1>13, <1>14, <1>15 DEF PoolInv

\* The creator is the only one: its entry has waited for it in the cache, or the cache
\* was closed.
LEMMA FinishCreationKeeps ==
    ASSUME PoolInv, NEW p \in Callers, FinishCreation(p)
    PROVE  PoolInv'
<1>. PICK e \in Entries : e = caller[p].entry
  BY CallerHasEntry DEF FinishCreation
<1>1. /\ Creating(p) /\ CallerOK(p) /\ EntryOK(e)
      /\ ~entry[e].ready /\ ~entry[e].err /\ entry[e].made /\ entry[e].pool = "none"
      /\ closes[e] = 0 /\ e \notin reaping \cup closing
      /\ closed \/ e \in Cached
  BY DEF FinishCreation, Creating, Leasing, PoolInv, CallerOK, EntryOK
<1>2. PICK at \in {"holding", "releasing"} :
         /\ GoOn(p, at)
         /\ at = "holding" => /\ entry' = [entry EXCEPT ![e].pool = "open", ![e].ready = TRUE]
                              /\ ~closed
                              /\ UNCHANGED <<pools, closes>>
         /\ at = "releasing" => /\ entry' = [entry EXCEPT ![e].err = TRUE, ![e].ready = TRUE]
                                /\ pools' = Without({e})
                                /\ closes' \in {closes, [closes EXCEPT ![e] = @ + 1]}
  BY DEF FinishCreation
<1>3. UNCHANGED <<closed, reaping, closing>>
  BY DEF FinishCreation
<1>4. /\ caller' \in [Callers -> CallerRows]
      /\ caller'[p].at = at
      /\ \A q \in Callers : caller'[q].entry = caller[q].entry
      /\ \A q \in Callers \ {p} : caller'[q] = caller[q]
  BY <1>2 DEF PoolInv, PoolTypeOK, GoOn, CallerRows, CallerSteps
<1>5. /\ entry' \in [Entries -> EntryRows]
      /\ entry'[e].made /\ entry'[e].ready
      /\ entry'[e].leases = entry[e].leases
      /\ at = "holding" => entry'[e].pool = "open" /\ ~entry'[e].err
      /\ at = "releasing" => entry'[e].pool = "none" /\ entry'[e].err
      /\ \A d \in Entries \ {e} : entry'[d] = entry[d]
  <2>1. entry \in [Entries -> EntryRows]
    BY DEF PoolInv, PoolTypeOK, EntryRows
  <2>2. CASE at = "holding"
    BY <1>1, <1>2, <2>1, <2>2 DEF EntryRows
  <2>3. CASE at = "releasing"
    BY <1>1, <1>2, <2>1, <2>3 DEF EntryRows
  <2>4. QED
    BY <2>2, <2>3
<1>6. /\ closes' \in [Entries -> Nat]
      /\ closes'[e] \in {0, 1} /\ (at = "holding" => closes'[e] = 0)
      /\ \A d \in Entries \ {e} : closes'[d] = closes[d]
  BY <1>1, <1>2 DEF PoolInv, PoolTypeOK
<1>7. /\ pools' \in [Tenants -> Entries \cup {NoEntry}]
      /\ at = "holding" => Cached' = Cached
      /\ at = "releasing" => Cached' = Cached \ {e}
  <2>1. CASE at = "holding"
    BY <1>2, <2>1 DEF Cached, PoolInv, PoolTypeOK
  <2>2. CASE at = "releasing"
    BY <1>2, <2>2, WithoutCached DEF Without, PoolInv, PoolTypeOK
  <2>3. QED
    BY <2>1, <2>2
<1>8. PoolTypeOK'
  BY <1>3, <1>4, <1>5, <1>6, <1>7 DEF PoolInv, PoolTypeOK, EntryRows, CallerRows
<1>9. \A d \in Entries \ {e} : (d \in Cached' <=> d \in Cached) /\ (d \in Kept' <=> d \in Kept)
  BY <1>3, <1>7 DEF Kept
<1>10. /\ \A q \in Callers : Creating(q)' <=> Creating(q) /\ q # p
       /\ \A q \in Callers \ {p} : Creating(q) => caller[q].entry # e
  BY <1>1, <1>4 DEF Creating, CallerOK
<1>11. LeasesOK'
  <2>1. \A d \in Entries : Users(d)' = Users(d)
    BY <1>1, <1>4 DEF Users, Creating
  <2>2. \A d \in Entries : entry'[d].leases = entry[d].leases
    BY <1>5
  <2>3. IsFiniteSet(Cached') /\ Cardinality(Cached') <= MaxCachedPools
    <3>1. IsFiniteSet(Cached) /\ Cardinality(Cached) \in Nat /\ Cardinality(Cached) <= MaxCachedPools
      BY FS_CardinalityType DEF PoolInv, LeasesOK
    <3>2. Cached' \in SUBSET Cached
      BY <1>7
    <3>3. IsFiniteSet(Cached') /\ Cardinality(Cached') <= Cardinality(Cached)
      BY <3>1, <3>2, FS_Subset
    <3>4. QED
      BY <3>1, <3>3, FS_CardinalityType, PoolAssumption
  <2>4. QED
    BY <2>1, <2>2, <2>3 DEF PoolInv, LeasesOK
<1>12. PlacesOK'
  <2>1. ASSUME NEW d \in Cached', ~entry'[d].ready
        PROVE  \E q \in Callers : Creating(q)' /\ caller'[q].entry = d
    <3>1. d \in Cached
      BY <1>7, <2>1
    <3>2. d \in Entries \ {e}
      BY <1>5, <2>1, <3>1 DEF Cached, PoolInv, PoolTypeOK
    <3>3. PICK q \in Callers : Creating(q) /\ caller[q].entry = d
      BY <1>5, <2>1, <3>1, <3>2 DEF PoolInv, PlacesOK
    <3>4. QED
      BY <1>4, <1>10, <3>2, <3>3
  <2>2. \A d \in reaping : entry'[d].leases = 0
    BY <1>1, <1>5 DEF PoolInv, PoolTypeOK, PlacesOK
  <2>3. Cached' \subseteq Cached
    BY <1>7
  <2>4. QED
    BY <1>3, <2>1, <2>2, <2>3 DEF PoolInv, PlacesOK
<1>13. ASSUME NEW d \in Entries PROVE EntryOK(d)'
  <2>1. CASE d = e
    <3>1. e \notin (reaping \cup closing)'
      BY <1>1, <1>3
    <3>2. CASE at = "holding"
      BY <1>1, <1>2, <1>5, <1>6, <1>7, <2>1, <3>1, <3>2 DEF EntryOK, Kept
    <3>3. CASE at = "releasing"
      BY <1>5, <1>6, <1>7, <2>1, <3>1, <3>3 DEF EntryOK
    <3>4. QED
      BY <3>2, <3>3
  <2>2. CASE d # e
    BY <1>3, <1>5, <1>6, <1>9, <2>2 DEF PoolInv, EntryOK
  <2>3. QED
    BY <2>1, <2>2
<1>14. ASSUME NEW q \in Callers PROVE CallerOK(q)'
  <2>1. CASE q = p
    BY <1>1, <1>2, <1>3, <1>4, <1>5, <1>7, <1>10, <2>1, EntryIsSome DEF CallerOK, Leasing
  <2>2. CASE q # p /\ caller[q].entry = e
    <3>1. CallerOK(q) /\ ~Creating(q) /\ caller[q].at \notin {"out", "holding", "using"}
      BY <1>1, <1>10, <2>2, EntryIsSome DEF PoolInv, CallerOK
    <3>2. QED
      BY <1>1, <1>2, <1>3, <1>4, <1>5, <1>7, <1>10, <2>2, <3>1, EntryIsSome DEF CallerOK, Leasing
  <2>3. CASE q # p /\ caller[q].entry # e
    <3>1. CASE caller[q].at = "out"
      BY <1>4, <1>10, <2>3, <3>1 DEF PoolInv, CallerOK, Creating, Leasing
    <3>2. CASE caller[q].at # "out"
      <4>1. caller[q].entry \in Entries \ {e}
        BY <2>3, <3>2, CallerHasEntry
      <4>2. QED
        BY <1>3, <1>4, <1>5, <1>9, <1>10, <2>3, <3>2, <4>1 DEF PoolInv, CallerOK, Leasing
    <3>3. QED
      BY <3>1, <3>2
  <2>4. QED
    BY <2>1, <2>2, <2>3
<1>15. QED
  BY <1>8, <1>11, <1>12, <1>13, <1>14 DEF PoolInv

\* A lease that was given back is not given back again: the second call changes nothing.
LEMMA ReleasedTwice ==
    ASSUME PoolInv, NEW p \in Callers, Release(p), caller[p].at = "released"
    PROVE  UNCHANGED poolVars
<1>1. caller' = caller
  BY DEF Release, GoOn, PoolInv, PoolTypeOK
<1>2. QED
  BY <1>1 DEF Release, poolVars

LEMMA ReleaseKeeps ==
    ASSUME PoolInv, NEW p \in Callers, Release(p), caller[p].at # "released"
    PROVE  PoolInv'
<1>. PICK e \in Entries : e = caller[p].entry /\ entry[e].leases > 0
  BY UserHasLease DEF Release, Leasing
<1>1. /\ entry' = [entry EXCEPT ![e].leases = entry[e].leases - 1]
      /\ caller' = [caller EXCEPT ![p].at = "released"]
      /\ UNCHANGED <<pools, closed, reaping, closing, closes>>
      /\ caller[p].at = "releasing"
  BY DEF Release, GoOn
<1>2. /\ entry' \in [Entries -> EntryRows]
      /\ entry'[e].leases = entry[e].leases - 1
      /\ \A d \in Entries \ {e} : entry'[d] = entry[d]
      /\ \A d \in Entries : /\ entry'[d].made = entry[d].made
                            /\ entry'[d].pool = entry[d].pool
                            /\ entry'[d].ready = entry[d].ready
                            /\ entry'[d].err = entry[d].err
  BY <1>1 DEF PoolInv, PoolTypeOK, EntryRows
<1>3. /\ caller' \in [Callers -> CallerRows]
      /\ caller'[p].at = "released" /\ caller'[p].entry = e
      /\ \A q \in Callers \ {p} : caller'[q] = caller[q]
  BY <1>1 DEF PoolInv, PoolTypeOK, CallerRows, CallerSteps
<1>4. PoolTypeOK'
  BY <1>1, <1>2, <1>3 DEF PoolInv, PoolTypeOK, EntryRows, CallerRows
<1>5. Cached' = Cached /\ Kept' = Kept
  BY <1>1 DEF Cached, Kept
<1>6. \A q \in Callers : Creating(q)' <=> Creating(q)
  BY <1>1, <1>3 DEF Creating
<1>7. LeasesOK'
  <2>1. Users(e)' = Users(e) \ {p} /\ p \in Users(e)
    BY <1>1, <1>3 DEF Users
  <2>2. \A d \in Entries \ {e} : Users(d)' = Users(d)
    BY <1>3 DEF Users
  <2>3. Cardinality(Users(e)') = Cardinality(Users(e)) - 1
    <3>1. Cardinality(Users(e) \ {p}) = Cardinality(Users(e)) - 1
      BY <2>1, UsersAreFinite, FS_RemoveElement, Zenon
    <3>2. QED
      BY <2>1, <3>1
  <2>4. ASSUME NEW d \in Entries PROVE entry'[d].leases = Cardinality(Users(d)')
    <3>1. CASE d = e
      BY <1>2, <2>3, <3>1 DEF PoolInv, LeasesOK
    <3>2. CASE d # e
      BY <1>2, <2>2, <3>2 DEF PoolInv, LeasesOK
    <3>3. QED
      BY <3>1, <3>2
  <2>5. QED
    BY <1>5, <2>4 DEF PoolInv, LeasesOK
<1>8. PlacesOK'
  <2>1. \A d \in reaping : entry'[d].leases = 0
    BY <1>2 DEF PoolInv, PoolTypeOK, PlacesOK
  <2>2. ASSUME NEW d \in Cached, ~entry'[d].ready
        PROVE  \E q \in Callers : Creating(q)' /\ caller'[q].entry = d
    <3>1. d \in Entries
      BY DEF Cached, PoolInv, PoolTypeOK
    <3>2. PICK q \in Callers : Creating(q) /\ caller[q].entry = d
      BY <1>2, <2>2, <3>1 DEF PoolInv, PlacesOK
    <3>3. q # p
      BY <1>1, <3>2 DEF Creating
    <3>4. QED
      BY <1>3, <1>6, <3>2, <3>3
  <2>3. QED
    BY <1>1, <1>5, <2>1, <2>2 DEF PoolInv, PlacesOK
<1>9. \A d \in Entries : EntryOK(d)'
  BY <1>1, <1>2, <1>5 DEF PoolInv, EntryOK
<1>10. ASSUME NEW q \in Callers PROVE CallerOK(q)'
  <2>1. CASE q = p
    <3>1. CallerOK(p)
      BY DEF PoolInv
    <3>2. QED
      BY <1>1, <1>2, <1>3, <2>1, <3>1, EntryIsSome DEF CallerOK, Creating, Leasing
  <2>2. CASE q # p
    <3>1. CallerOK(q) /\ caller'[q] = caller[q]
      BY <1>3, <2>2 DEF PoolInv
    <3>2. \A x \in Callers : Creating(x)' => Creating(x) /\ caller'[x] = caller[x]
      BY <1>1, <1>3 DEF Creating
    <3>3. CASE caller[q].at = "out"
      BY <3>1, <3>3 DEF CallerOK, Creating, Leasing
    <3>4. CASE caller[q].at # "out"
      BY <1>1, <1>2, <1>5, <1>6, <3>1, <3>2, <3>4, CallerHasEntry DEF CallerOK, Leasing
    <3>5. QED
      BY <3>3, <3>4
  <2>3. QED
    BY <2>1, <2>2
<1>11. QED
  BY <1>4, <1>7, <1>8, <1>9, <1>10 DEF PoolInv

LEMMA LeaveKeeps ==
    ASSUME PoolInv, NEW p \in Callers, Leave(p)
    PROVE  PoolInv'
<1>1. /\ caller' = [caller EXCEPT ![p] = [at |-> "out", entry |-> NoEntry]]
      /\ UNCHANGED <<pools, entry, closed, reaping, closing, closes>>
      /\ caller[p].at = "released"
  BY DEF Leave
<1>2. /\ caller' \in [Callers -> CallerRows]
      /\ caller'[p] = [at |-> "out", entry |-> NoEntry]
      /\ \A q \in Callers \ {p} : caller'[q] = caller[q]
  BY <1>1 DEF PoolInv, PoolTypeOK, CallerRows, CallerSteps
<1>3. PoolTypeOK'
  BY <1>1, <1>2 DEF PoolInv, PoolTypeOK, CallerRows
<1>4. Cached' = Cached /\ Kept' = Kept
  BY <1>1 DEF Cached, Kept
<1>5. \A q \in Callers : Creating(q)' <=> Creating(q)
  BY <1>1, <1>2 DEF Creating
<1>6. LeasesOK'
  <2>1. \A e \in Entries : Users(e)' = Users(e)
    BY <1>1, <1>2, EntryIsSome DEF Users
  <2>2. QED
    BY <1>1, <1>4, <2>1 DEF PoolInv, LeasesOK
<1>7. PlacesOK'
  <2>1. \A q \in Callers : Creating(q) => Creating(q)' /\ caller'[q] = caller[q]
    BY <1>1, <1>2 DEF Creating
  <2>2. QED
    BY <1>1, <1>4, <2>1 DEF PoolInv, PlacesOK
<1>8. \A e \in Entries : EntryOK(e)'
  BY <1>1, <1>4 DEF PoolInv, EntryOK
<1>9. ASSUME NEW q \in Callers PROVE CallerOK(q)'
  <2>1. CASE q = p
    BY <1>2, <2>1 DEF CallerOK, Creating, Leasing
  <2>2. CASE q # p
    <3>1. CallerOK(q) /\ caller'[q] = caller[q]
      BY <1>2, <2>2 DEF PoolInv
    <3>2. \A x \in Callers : Creating(x)' => Creating(x) /\ caller'[x] = caller[x]
      BY <1>1, <1>2 DEF Creating
    <3>3. QED
      BY <1>1, <1>4, <1>5, <3>1, <3>2 DEF CallerOK, Leasing
  <2>3. QED
    BY <2>1, <2>2
<1>10. QED
  BY <1>3, <1>6, <1>7, <1>8, <1>9 DEF PoolInv

\* Idle entries have an open pool, which moves from the cache to the sweeper.
LEMMA ReapIdleKeeps ==
    ASSUME PoolInv, ReapIdle
    PROVE  PoolInv'
<1>1. PICK idle \in SUBSET Unleased : pools' = Without(idle) /\ reaping' = idle
  BY Zenon DEF ReapIdle
<1>2. /\ ~closed /\ reaping = {} /\ closing = {}
      /\ UNCHANGED <<entry, caller, closed, closing, closes>>
  BY DEF ReapIdle, PoolInv, PlacesOK
<1>3. Cached' = Cached \ idle /\ idle \subseteq Cached
  BY <1>1, WithoutCached DEF Unleased
<1>4. Kept' = Kept
  BY <1>1, <1>2, <1>3 DEF Kept
<1>5. ASSUME NEW e \in idle
      PROVE  e \in Entries /\ entry[e].leases = 0 /\ entry[e].ready
  <2>1. e \in Cached /\ e \in Entries /\ entry[e].leases = 0
    BY <1>1 DEF Unleased, Cached, PoolInv, PoolTypeOK
  <2>2. \A p \in Callers : Creating(p) => caller[p].entry # e
    BY <2>1, UserHasLease DEF Creating, Leasing
  <2>3. QED
    BY <2>1, <2>2 DEF PoolInv, PlacesOK
<1>6. PoolTypeOK'
  BY <1>1, <1>2, <1>5 DEF PoolInv, PoolTypeOK, Without
<1>7. LeasesOK'
  <2>1. \A e \in Entries : Users(e)' = Users(e)
    BY <1>2 DEF Users
  <2>2. IsFiniteSet(Cached) /\ Cardinality(Cached) \in Nat /\ Cardinality(Cached) <= MaxCachedPools
    BY FS_CardinalityType DEF PoolInv, LeasesOK
  <2>3. Cached' \in SUBSET Cached
    BY <1>3
  <2>4. IsFiniteSet(Cached') /\ Cardinality(Cached') <= Cardinality(Cached)
    BY <2>2, <2>3, FS_Subset
  <2>5. IsFiniteSet(Cached') /\ Cardinality(Cached') <= MaxCachedPools
    BY <2>2, <2>4, FS_CardinalityType, PoolAssumption
  <2>6. QED
    BY <1>2, <2>1, <2>5 DEF PoolInv, LeasesOK
<1>8. PlacesOK'
  BY <1>1, <1>2, <1>3, <1>5 DEF PoolInv, PlacesOK, Creating
<1>9. ASSUME NEW e \in Entries PROVE EntryOK(e)'
  <2>1. CASE e \in idle
    BY <1>1, <1>2, <1>3, <1>4, <1>5, <2>1 DEF PoolInv, EntryOK
  <2>2. CASE e \notin idle
    <3>1. (e \in Cached' <=> e \in Cached) /\ (e \in Kept' <=> e \in Kept)
          /\ (e \in (reaping \cup closing)' <=> e \in reaping \cup closing)
      BY <1>1, <1>2, <1>3, <1>4, <2>2
    <3>2. QED
      BY <1>2, <3>1 DEF PoolInv, EntryOK
  <2>3. QED
    BY <2>1, <2>2
<1>10. ASSUME NEW p \in Callers PROVE CallerOK(p)'
  <2>1. Leasing(p) => caller[p].entry \notin idle
    BY <1>5, UserHasLease
  <2>2. QED
    BY <1>2, <1>3, <2>1 DEF PoolInv, CallerOK, Creating, Leasing
<1>11. QED
  BY <1>6, <1>7, <1>8, <1>9, <1>10 DEF PoolInv

\* A pool in the hands of the sweeper or of Close moves on while nobody else touches it.
LEMMA PoolMoves ==
    ASSUME PoolInv, NEW e \in reaping \cup closing, NEW to \in {"closing", "closed"},
           entry' = [entry EXCEPT ![e].pool = to],
           UNCHANGED <<pools, caller, closed>>,
           reaping' = reaping \ {e},
           closing' = IF to = "closed" THEN closing \ {e} ELSE closing,
           to = "closing" => e \in closing,
           to = "closed" => ~InUse(e),
           closes' \in [Entries -> Nat], closes'[e] = 1,
           \A d \in Entries \ {e} : closes'[d] = closes[d]
    PROVE  PoolInv'
<1>1. e \in Entries /\ e \notin Cached /\ EntryOK(e)
  BY DEF PoolInv, PoolTypeOK, PlacesOK
<1>2. entry[e].ready /\ ~entry[e].err /\ entry[e].made
  BY <1>1 DEF EntryOK, Kept
<1>3. /\ entry' \in [Entries -> EntryRows]
      /\ entry'[e].pool = to
      /\ \A d \in Entries \ {e} : entry'[d] = entry[d]
      /\ \A d \in Entries : /\ entry'[d].made = entry[d].made
                            /\ entry'[d].leases = entry[d].leases
                            /\ entry'[d].ready = entry[d].ready
                            /\ entry'[d].err = entry[d].err
  BY <1>1 DEF PoolInv, PoolTypeOK, EntryRows
<1>4. \A d \in Entries \ {e} : /\ d \in reaping' <=> d \in reaping
                               /\ d \in closing' <=> d \in closing
  OBVIOUS
<1>5. Cached' = Cached /\ \A d \in Entries \ {e} : d \in Kept' <=> d \in Kept
  BY <1>4 DEF Cached, Kept
<1>6. PoolTypeOK'
  BY <1>1, <1>3, <1>4 DEF PoolInv, PoolTypeOK, EntryRows
<1>7. LeasesOK'
  <2>1. \A d \in Entries : Users(d)' = Users(d)
    BY DEF Users
  <2>2. QED
    BY <1>3, <1>5, <2>1 DEF PoolInv, LeasesOK
<1>8. PlacesOK'
  <2>1. \A d \in Cached \cup reaping : d \in Entries
    BY DEF Cached, PoolInv, PoolTypeOK
  <2>2. QED
    BY <1>1, <1>3, <1>5, <2>1 DEF PoolInv, PlacesOK, Creating
<1>9. ASSUME NEW d \in Entries PROVE EntryOK(d)'
  <2>1. CASE d = e
    BY <1>1, <1>2, <1>3, <1>5, <2>1 DEF EntryOK, Kept
  <2>2. CASE d # e
    BY <1>3, <1>4, <1>5, <2>2 DEF PoolInv, EntryOK
  <2>3. QED
    BY <2>1, <2>2
<1>10. ASSUME NEW p \in Callers PROVE CallerOK(p)'
  <2>1. CASE caller[p].at = "out"
    BY <2>1 DEF PoolInv, CallerOK, Creating, Leasing
  <2>2. CASE caller[p].at # "out"
    <3>1. caller[p].entry \in Entries
      BY <2>2, CallerHasEntry
    <3>2. caller[p].at = "using" => entry'[caller[p].entry].pool \in {"open", "closing"}
      BY <1>3, <3>1 DEF InUse, PoolInv, CallerOK
    <3>3. QED
      BY <1>3, <1>5, <2>2, <3>1, <3>2 DEF PoolInv, CallerOK, Creating, Leasing
  <2>3. QED
    BY <2>1, <2>2
<1>11. QED
  BY <1>6, <1>7, <1>8, <1>9, <1>10 DEF PoolInv

\* The sweeper has only open pools that nobody uses, Close only open ones but for that
\* which it is closing.
LEMMA CloseOneKeeps ==
    ASSUME PoolInv, NEW e \in Entries, CloseReaped(e) \/ CloseNext(e) \/ CloseEnds(e)
    PROVE  PoolInv'
<1>1. EntryOK(e) /\ closes \in [Entries -> Nat] /\ entry \in [Entries -> EntryRows]
  BY DEF PoolInv, PoolTypeOK, EntryRows
<1>2. CASE CloseReaped(e)
  <2>1. e \in reaping /\ e \notin closing /\ entry[e].leases = 0
    BY <1>2 DEF CloseReaped, PoolInv, PlacesOK
  <2>2. closes[e] = 0
    BY <1>1, <2>1 DEF EntryOK, Kept
  <2>3. ~InUse(e)
    BY <2>1, UserHasLease DEF InUse, Leasing
  <2>4. /\ entry' = [entry EXCEPT ![e].pool = "closed"]
        /\ reaping' = reaping \ {e} /\ closing' = closing \ {e}
        /\ UNCHANGED <<pools, caller, closed>>
    BY <1>2, <2>1 DEF CloseReaped
  <2>5. /\ closes' \in [Entries -> Nat] /\ closes'[e] = 1
        /\ \A d \in Entries \ {e} : closes'[d] = closes[d]
    BY <1>1, <1>2, <2>2 DEF CloseReaped
  <2>6. QED
    BY <2>1, <2>3, <2>4, <2>5, PoolMoves
<1>3. CASE CloseNext(e)
  <2>1. e \in closing /\ entry[e].pool = "open" /\ reaping = {}
    BY <1>3 DEF CloseNext
  <2>2. closes[e] = 0
    BY <1>1, <2>1 DEF EntryOK
  <2>3. /\ entry' = [entry EXCEPT ![e].pool = "closing"]
        /\ reaping' = reaping \ {e} /\ closing' = closing
        /\ UNCHANGED <<pools, caller, closed>>
    BY <1>3, <2>1 DEF CloseNext
  <2>4. /\ closes' \in [Entries -> Nat] /\ closes'[e] = 1
        /\ \A d \in Entries \ {e} : closes'[d] = closes[d]
    BY <1>1, <1>3, <2>2 DEF CloseNext
  <2>5. QED
    BY <2>1, <2>3, <2>4, PoolMoves
<1>4. CASE CloseEnds(e)
  <2>1. e \in closing /\ e \notin reaping /\ closes[e] = 1
    BY <1>1, <1>4 DEF CloseEnds, EntryOK, PoolInv, PlacesOK
  <2>2. QED
    BY <1>1, <1>4, <2>1, PoolMoves DEF CloseEnds
<1>5. QED
  BY <1>2, <1>3, <1>4

LEMMA CloseKeeps ==
    ASSUME PoolInv, Close
    PROVE  PoolInv'
<1>1. /\ ~closed /\ closed' = TRUE /\ closing = {}
      /\ closing' = {e \in Cached : entry[e].pool # "none"}
      /\ UNCHANGED <<entry, caller, reaping, closes>>
  BY DEF Close, PoolInv, PlacesOK
<1>2. Cached' = {} /\ Cached \subseteq Entries
  BY DEF Close, Cached, PoolInv, PoolTypeOK
<1>3. PoolTypeOK'
  BY <1>1, <1>2 DEF Close, PoolInv, PoolTypeOK
<1>4. LeasesOK'
  <2>1. \A e \in Entries : Users(e)' = Users(e)
    BY <1>1 DEF Users
  <2>2. IsFiniteSet(Cached') /\ Cardinality(Cached') <= MaxCachedPools
    BY <1>2, FS_EmptySet, PoolAssumption
  <2>3. QED
    BY <1>1, <2>1, <2>2 DEF PoolInv, LeasesOK
<1>5. PlacesOK'
  BY <1>1, <1>2 DEF PoolInv, PlacesOK
<1>6. ASSUME NEW e \in Entries PROVE EntryOK(e)'
  BY <1>1, <1>2 DEF PoolInv, EntryOK, Kept
<1>7. ASSUME NEW p \in Callers PROVE CallerOK(p)'
  BY <1>1 DEF PoolInv, CallerOK, Creating, Leasing
<1>8. QED
  BY <1>3, <1>4, <1>5, <1>6, <1>7 DEF PoolInv

LEMMA PoolInvStep == PoolInv /\ [PoolNext]_poolVars => PoolInv'
<1>. SUFFICES ASSUME PoolInv, [PoolNext]_poolVars PROVE PoolInv'
  OBVIOUS
<1>1. ASSUME UNCHANGED poolVars PROVE PoolInv'
  <2>1. PoolTypeOK'
    BY <1>1 DEF poolVars, PoolInv, PoolTypeOK
  <2>2. LeasesOK'
    BY <1>1 DEF poolVars, PoolInv, LeasesOK, Users, Cached
  <2>3. PlacesOK'
    BY <1>1 DEF poolVars, PoolInv, PlacesOK, Creating, Cached
  <2>4. \A e \in Entries : EntryOK(e)'
    BY <1>1 DEF poolVars, PoolInv, EntryOK, Kept, Cached
  <2>5. \A p \in Callers : CallerOK(p)'
    BY <1>1 DEF poolVars, PoolInv, CallerOK, Creating, Leasing, Cached
  <2>6. QED
    BY <2>1, <2>2, <2>3, <2>4, <2>5 DEF PoolInv
<1>2. ASSUME NEW p \in Callers, CallerStep(p) PROVE PoolInv'
  <2>1. CASE Release(p)
    BY <1>1, <2>1, ReleaseKeeps, ReleasedTwice
  <2>2. CASE CreatePool(p) \/ Wait(p) \/ CancelWait(p) \/ Connect(p) \/ Disconnect(p)
    BY <2>2, CallerGoesOn
  <2>3. QED
    BY <1>2, <2>1, <2>2, AcquireCachedKeeps, AcquireNewKeeps, FinishCreationKeeps, LeaveKeeps
       DEF CallerStep
<1>3. CASE PoolNext
  BY <1>2, <1>3, ReapIdleKeeps, CloseOneKeeps, CloseKeeps DEF PoolNext
<1>4. QED
  BY <1>1, <1>3

\* The cache's rows have their types in every reachable state.
THEOREM PoolTypeCorrect == PoolSpec => []PoolTypeOK
<1>1. PoolInv => PoolTypeOK
  BY DEF PoolInv
<1>2. QED
  BY <1>1, PoolInvInit, PoolInvStep, PTL DEF PoolSpec

\* Leases are counted exactly and the cache keeps its limit, for any number of goroutines,
\* tenants and places (acquire, the release functions, evictIdle of pool_cache.go).
THEOREM LeasesAreCounted == PoolSpec => []LeasesCountUsers
<1>1. PoolInv => LeasesCountUsers
  BY DEF PoolInv, LeasesOK, LeasesCountUsers
<1>2. QED
  BY <1>1, PoolInvInit, PoolInvStep, PTL DEF PoolSpec

\* No pool is closed under its user, twice, or never handed to somebody who closes it,
\* for any number of goroutines, tenants and places.
THEOREM PoolsAreClosedInTime == PoolSpec => []PoolIsClosedInTime
<1>1. PoolInv => PoolIsClosedInTime
  <2>. SUFFICES ASSUME PoolInv PROVE PoolIsClosedInTime
    OBVIOUS
  <2>1. ASSUME ~closed, NEW p \in Callers, caller[p].at \in {"holding", "using"}
        PROVE  entry[caller[p].entry].pool = "open"
    <3>1. caller[p].entry \in Entries /\ caller[p].entry \in Cached
          /\ entry[caller[p].entry].ready /\ ~entry[caller[p].entry].err
      BY <2>1, CallerHasEntry DEF PoolInv, CallerOK, Leasing
    <3>2. caller[p].entry \notin closing
      BY <3>1 DEF PoolInv, PlacesOK
    <3>3. QED
      BY <3>1, <3>2 DEF PoolInv, EntryOK, Kept
  <2>2. ASSUME NEW p \in Callers, caller[p].at = "using"
        PROVE  entry[caller[p].entry].pool \in {"open", "closing"}
    BY <2>2 DEF PoolInv, CallerOK
  <2>3. ASSUME NEW e \in Entries
        PROVE  /\ entry[e].pool \in {"open", "closing"} => e \in Cached \cup reaping \cup closing
               /\ closes[e] <= 1
    BY DEF PoolInv, EntryOK, Kept
  <2>4. QED
    BY <2>1, <2>2, <2>3 DEF PoolIsClosedInTime
<1>2. QED
  BY <1>1, PoolInvInit, PoolInvStep, PTL DEF PoolSpec
===============================================================================
