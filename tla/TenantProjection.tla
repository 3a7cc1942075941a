-------------------------- MODULE TenantProjection --------------------------
(***************************************************************************)
(* How what happens in a tenant's database reaches the platform.  A trigger *)
(* writes an outbox event in the transaction of each change; the projection *)
(* worker of each process lists the provisioned targets, migrates a         *)
(* database it has not seen (and writes the target it listed back), claims  *)
(* the events under a lease, loads a snapshot, applies it to the platform's *)
(* database and marks the events published, in the tenant's.                *)
(*                                                                          *)
(* A snapshot is the set of changes it shows; the three queries that load   *)
(* it are one, since the first is the oldest.  A batch takes every event    *)
(* there is (BatchSize is 100).  The module composes with the provisioning  *)
(* of the same organization: PlaneNext interleaves both.                    *)
(*                                                                          *)
(* Not modelled: the contents of snapshots, and the pool the tenant's       *)
(* database is reached through (TenantPoolCache).                           *)
(***************************************************************************)
EXTENDS TenantProvisioning

CONSTANTS
    Projectors,       \* projection workers, one for each backend process
    NoProjector,      \* an empty lease_owner
    Changes,          \* changes of the tenant's data, with their events
    MaxEventAttempts  \* config.MaxAttempts of the projection worker

ASSUME ProjectionAssumption ==
    /\ NoProjector \notin Projectors
    /\ MaxEventAttempts \in Nat \ {0}

VARIABLES
    event,      \* tenant_integration_outbox: the event of each change
    projector,  \* what each projection worker does, with what it has read
    migrated,   \* databases each projection worker has migrated (its sync.Map)
    inbox,      \* tenant_integration_inbox: the events that are projected
    projection  \* the platform's projection: the changes it shows

projectionVars == <<event, projector, migrated, inbox, projection>>
planeVars == <<provisioningVars, projectionVars>>

EventRows == [status : {"none", "pending", "running", "failed", "published"},
              topology : Topologies, attempts : 0..MaxEventAttempts,
              owner : Projectors \cup {NoProjector}, expired : BOOLEAN]
ProjectorRows == [at : {"idle", "listed", "ready", "claimed", "loaded", "failing", "applied"},
                  topology : Topologies, batch : SUBSET Changes, snapshot : SUBSET Changes]

PlaneTypeOK ==
    /\ ProvisioningTypeOK
    /\ event \in [Changes -> EventRows]
    /\ projector \in [Projectors -> ProjectorRows]
    /\ migrated \in [Projectors -> SUBSET Topologies]
    /\ inbox \subseteq Changes
    /\ projection \subseteq Changes

\* A worker between two cycles.
IdleProjector == [at |-> "idle", topology |-> Home, batch |-> {}, snapshot |-> {}]

PlaneInit ==
    /\ ProvisioningInit
    /\ event = [c \in Changes |-> [status |-> "none", topology |-> Home,
                                   attempts |-> 0, owner |-> NoProjector, expired |-> FALSE]]
    /\ projector = [p \in Projectors |-> IdleProjector]
    /\ migrated = [p \in Projectors |-> {}]
    /\ inbox = {}
    /\ projection = {}

-----------------------------------------------------------------------------
\* A request changes the tenant's data; the trigger writes the event.
ChangeTenantData(c) ==
    /\ target.status = "provisioned"
    /\ event[c].status = "none"
    /\ event' = [event EXCEPT ![c].status = "pending", ![c].topology = target.topology]
    /\ UNCHANGED <<provisioningVars, projector, migrated, inbox, projection>>

EventLeaseEnds(c) ==
    /\ event[c].status = "running"
    /\ ~event[c].expired
    /\ event' = [event EXCEPT ![c].expired = TRUE]
    /\ UNCHANGED <<provisioningVars, projector, migrated, inbox, projection>>

ListProvisionedTargets(p) ==
    /\ projector[p].at = "idle"
    /\ target.status = "provisioned"
    /\ projector' = [projector EXCEPT ![p].at = "listed", ![p].topology = target.topology]
    /\ UNCHANGED <<provisioningVars, event, migrated, inbox, projection>>

\* A database not seen before is migrated, and the target that was listed is
\* written back, whatever became of it since.
ensureMigrated(p) ==
    LET t == projector[p].topology
    IN  /\ projector[p].at = "listed"
        /\ projector' = [projector EXCEPT ![p].at = "ready"]
        /\ migrated' = [migrated EXCEPT ![p] = @ \cup {t}]
        /\ target' = IF t \in migrated[p] THEN target
                     ELSE upsertTenantDatabaseTarget(target, "provisioned", t)
        /\ UNCHANGED <<job, worker, database, reruns, event, inbox, projection>>

\* Events that failed are available again after a delay, the others at once.
ClaimEvents(p) ==
    LET of(status) == {c \in Changes : /\ event[c].topology = projector[p].topology
                                       /\ event[c].attempts < MaxEventAttempts
                                       /\ event[c].status = status}
        due == of("pending") \cup {c \in of("running") : event[c].expired}
    IN  /\ projector[p].at = "ready"
        /\ \E retried \in SUBSET of("failed") :
            /\ event' = [c \in Changes |->
                            IF c \in due \cup retried
                            THEN [event[c] EXCEPT !.status = "running", !.expired = FALSE,
                                                  !.attempts = @ + 1, !.owner = p]
                            ELSE event[c]]
            /\ projector' = [projector EXCEPT
                                ![p] = IF due \cup retried = {} THEN IdleProjector
                                       ELSE [@ EXCEPT !.at = "claimed", !.batch = due \cup retried]]
        /\ UNCHANGED <<provisioningVars, migrated, inbox, projection>>

\* The changes that the database of a topology holds.
Held(topology) == {c \in Changes : event[c].status # "none" /\ event[c].topology = topology}

LoadSnapshot(p) ==
    /\ projector[p].at = "claimed"
    /\ projector' = [projector EXCEPT ![p].at = "loaded",
                                      ![p].snapshot = Held(projector[p].topology)]
    /\ UNCHANGED <<provisioningVars, event, migrated, inbox, projection>>

\* One transaction of the platform's database: the inbox and the projections.
ApplyProjection(p) ==
    /\ projector[p].at = "loaded"
    /\ inbox' = inbox \cup projector[p].batch
    /\ projection' = projector[p].snapshot
    /\ projector' = [projector EXCEPT ![p].at = "applied"]
    /\ UNCHANGED <<provisioningVars, event, migrated>>

\* Mutant: the error is logged and the cycle goes on.
ProjectionFailsQuietly(p) ==
    /\ projector[p].at \in {"claimed", "loaded"}
    /\ projector' = [projector EXCEPT ![p].at = "applied"]
    /\ UNCHANGED <<provisioningVars, event, migrated, inbox, projection>>

\* Loading fails, or applying (the commit may have gone through).
ProjectionFails(p) ==
    /\ projector[p].at \in {"claimed", "loaded"}
    /\ \/ UNCHANGED <<inbox, projection>>
       \/ /\ projector[p].at = "loaded"
          /\ inbox' = inbox \cup projector[p].batch
          /\ projection' = projector[p].snapshot
    /\ projector' = [projector EXCEPT ![p].at = "failing"]
    /\ UNCHANGED <<provisioningVars, event, migrated>>

\* The events of the batch that this worker still owns get the status.
MarkOwned(p, status) ==
    event' = [c \in Changes |->
                 IF c \in projector[p].batch /\ event[c].status = "running" /\ event[c].owner = p
                 THEN [event[c] EXCEPT !.status = status, !.owner = NoProjector,
                                       !.expired = FALSE]
                 ELSE event[c]]

MarkEventsFailed(p) ==
    /\ projector[p].at = "failing"
    /\ MarkOwned(p, "failed")
    /\ projector' = [projector EXCEPT ![p] = IdleProjector]
    /\ UNCHANGED <<provisioningVars, migrated, inbox, projection>>

MarkEventsPublished(p) ==
    /\ projector[p].at = "applied"
    /\ MarkOwned(p, "published")
    /\ projector' = [projector EXCEPT ![p] = IdleProjector]
    /\ UNCHANGED <<provisioningVars, migrated, inbox, projection>>

\* The cycle ends early: the process dies (and forgets what it migrated), it
\* panics, or one of its statements fails.
AbandonCycle(p) ==
    /\ projector[p].at # "idle"
    /\ projector' = [projector EXCEPT ![p] = IdleProjector]
    /\ migrated' \in {migrated, [migrated EXCEPT ![p] = {}]}
    /\ UNCHANGED <<provisioningVars, event, inbox, projection>>

-----------------------------------------------------------------------------
ProjectionNext ==
    \/ \E c \in Changes : ChangeTenantData(c) \/ EventLeaseEnds(c)
    \/ \E p \in Projectors :
        \/ ListProvisionedTargets(p) \/ ensureMigrated(p) \/ ClaimEvents(p) \/ LoadSnapshot(p)
        \/ ApplyProjection(p) \/ ProjectionFails(p) \/ MarkEventsFailed(p)
        \/ MarkEventsPublished(p) \/ AbandonCycle(p)

PlaneNext ==
    \/ ProvisioningNext /\ UNCHANGED projectionVars
    \/ ProjectionNext

\* Only the provisioning is assumed to go on: no property needs a projection
\* worker to.
PlaneSpec == PlaneInit /\ [][PlaneNext]_planeVars /\ ProvisioningFairness

-----------------------------------------------------------------------------
\* An event is published in the tenant's database only when the platform's has
\* recorded it, and the snapshot a worker is about to apply or has applied
\* shows every change it claimed: no change is marked as told before it was.
PublishedIsProjected ==
    /\ \A c \in Changes : event[c].status = "published" => c \in inbox
    /\ \A p \in Projectors :
        projector[p].at \in {"loaded", "applied"} => projector[p].batch \subseteq projector[p].snapshot
=============================================================================
