------------------------- MODULE TenantProvisioning -------------------------
(***************************************************************************)
(* How one organization gets its database.  Onboarding writes the target    *)
(* and a job in one transaction; the worker of each backend process claims  *)
(* jobs under a lease, creates, migrates and bootstraps the database, and   *)
(* reports.  A worker may die, panic or lose its database at any step, and  *)
(* a slow one outlives its lease.                                           *)
(*                                                                          *)
(* A topology stands for the placement a deployment gives an organization   *)
(* (cluster, region, database and schema); it is also what the key of a job *)
(* is made of.  A process that restarts has a new worker id, and a lease    *)
(* that nobody living owns is what Abandon leaves.                          *)
(*                                                                          *)
(* Not modelled: shared schemas (no job is made for them), the backoff's    *)
(* length, the name search of a new database, and what is bootstrapped.     *)
(***************************************************************************)
EXTENDS Integers, FiniteSets

CONSTANTS
    Workers,      \* provisioning workers, one for each backend process
    NoWorker,     \* an empty lease_owner
    Topologies,   \* placements
    MaxAttempts,  \* max_attempts of a job
    MaxReruns     \* bound: repeated set-ups of the organization

ASSUME ProvisioningAssumption ==
    /\ NoWorker \notin Workers
    /\ Topologies # {}
    /\ MaxAttempts \in Nat \ {0}
    /\ MaxReruns \in Nat

VARIABLES
    target,    \* the organization's row of tenant_database_targets
    job,       \* tenant_database_provisioning_jobs, by topology
    worker,    \* what each worker does, with the rows it has read
    database,  \* what was done to the database of each topology
    reruns     \* set-ups repeated so far

provisioningVars == <<target, job, worker, database, reruns>>

TargetRows == [status : {"none", "provisioning", "provisioned", "failed", "archived"},
               topology : Topologies]
JobRows == [status : {"none", "pending", "running", "retry_scheduled", "succeeded", "failed"},
            attempts : 0..MaxAttempts, owner : Workers \cup {NoWorker}, expired : BOOLEAN]
Tasks == {"provision", "bootstrap"}
WorkerRows == [at : Tasks \cup {"idle", "done", "broken"},
               job : Topologies, topology : Topologies, attempt : 0..MaxAttempts]

ProvisioningTypeOK ==
    /\ target \in TargetRows
    /\ job \in [Topologies -> JobRows]
    /\ worker \in [Workers -> WorkerRows]
    /\ database \in [Topologies -> SUBSET Tasks]
    /\ reruns \in 0..MaxReruns

\* The topology of the first deployment.
Home == CHOOSE t \in Topologies : TRUE

\* A worker between two jobs; its topologies and attempt mean nothing.
IdleWorker == [at |-> "idle", job |-> Home, topology |-> Home, attempt |-> 0]

ProvisioningInit ==
    /\ target = [status |-> "none", topology |-> Home]
    /\ job = [t \in Topologies |->
                 [status |-> "none", attempts |-> 0, owner |-> NoWorker, expired |-> FALSE]]
    /\ worker = [w \in Workers |-> IdleWorker]
    /\ database = [t \in Topologies |-> {}]
    /\ reruns = 0

-----------------------------------------------------------------------------
\* Mutant: the row takes what is written to it, archived or not.
UpsertOverArchived(row, status, topology) ==
    [status |-> IF row.status = "provisioned" /\ row.topology = topology
                THEN "provisioned" ELSE status,
     topology |-> topology]

\* The row after a status was written for a topology: an archived target stays
\* archived, and a provisioned one whose topology is the same provisioned.
upsertTenantDatabaseTarget(row, status, topology) ==
    [status |-> IF \/ row.status = "archived"
                   \/ row.status = "provisioned" /\ row.topology = topology
                THEN row.status ELSE status,
     topology |-> topology]

\* The jobs after a topology was asked for, when the target needs one.
enqueue(row, topology) ==
    IF /\ row.status \in {"provisioning", "failed"}
       /\ job[topology].status \in {"none", "failed", "succeeded"}
    THEN [job EXCEPT ![topology] =
             [status |-> "pending", attempts |-> 0, owner |-> NoWorker, expired |-> FALSE]]
    ELSE job

SetUp(topology) ==
    LET row == upsertTenantDatabaseTarget(target, "provisioning", topology)
    IN  /\ target' = row
        /\ job' = enqueue(row, topology)
        /\ UNCHANGED <<worker, database>>

\* The first set-up of the organization, by its owner or as a sample tenant.
completeOnboarding ==
    /\ target.status = "none"
    /\ SetUp(target.topology)
    /\ UNCHANGED reruns

\* The sample tenant is set up again while its organization is active, perhaps
\* by a deployment whose defaults have changed.
RepeatSampleTenant(topology) ==
    /\ target.status \notin {"none", "archived"}
    /\ reruns < MaxReruns
    /\ SetUp(topology)
    /\ reruns' = reruns + 1

CloseOrganization ==
    /\ target.status # "none"
    /\ target' = [target EXCEPT !.status = "archived"]
    /\ UNCHANGED <<job, worker, database, reruns>>

-----------------------------------------------------------------------------
LeaseEnds(t) ==
    /\ job[t].status = "running"
    /\ ~job[t].expired
    /\ job' = [job EXCEPT ![t].expired = TRUE]
    /\ UNCHANGED <<target, worker, database, reruns>>

\* Mutant: a job's last worker is never missed.
ExhaustedAfterLast == {t \in Topologies : /\ job[t].status = "running"
                                          /\ job[t].expired
                                          /\ job[t].attempts > MaxAttempts}

Exhausted == {t \in Topologies : /\ job[t].status = "running"
                                 /\ job[t].expired
                                 /\ job[t].attempts >= MaxAttempts}

\* The jobs whose last worker has disappeared are failed, and the target.
SweptJobs == [t \in Topologies |->
                 IF t \in Exhausted
                 THEN [job[t] EXCEPT !.status = "failed", !.owner = NoWorker, !.expired = FALSE]
                 ELSE job[t]]
SweptTarget == IF Exhausted # {} /\ target.status # "archived"
               THEN [target EXCEPT !.status = "failed"] ELSE target

\* Mutant: a job whose lease has ended is claimed however often it was.
ClaimableForEver == {t \in Topologies : \/ /\ job[t].attempts < MaxAttempts
                                           /\ job[t].status \in {"pending", "retry_scheduled"}
                                        \/ job[t].status = "running" /\ job[t].expired}

Claimable == {t \in Topologies : /\ job[t].attempts < MaxAttempts
                                 /\ \/ job[t].status \in {"pending", "retry_scheduled"}
                                    \/ job[t].status = "running" /\ job[t].expired}

\* Nothing can be claimed: the transaction commits the sweep alone.
SweepOnly(w) ==
    /\ worker[w].at = "idle"
    /\ Claimable = {}
    /\ Exhausted # {}
    /\ job' = SweptJobs
    /\ target' = SweptTarget
    /\ UNCHANGED <<worker, database, reruns>>

\* The sweep, and the claim of a job, which reads the target as it is now.
Claim(w) ==
    /\ worker[w].at = "idle"
    /\ \E t \in Claimable :
        /\ job' = [SweptJobs EXCEPT ![t] = [status |-> "running", attempts |-> @.attempts + 1,
                                            owner |-> w, expired |-> FALSE]]
        /\ worker' = [worker EXCEPT ![w] = [at |-> "provision", job |-> t,
                                            topology |-> target.topology,
                                            attempt |-> job[t].attempts + 1]]
    /\ target' = SweptTarget
    /\ UNCHANGED <<database, reruns>>

-----------------------------------------------------------------------------
\* Mutant: a database that was migrated is reported, bootstrapped or not.
WorkUntilMigrated(w) ==
    /\ worker[w].at \in Tasks
    /\ database' = [database EXCEPT ![worker[w].topology] = @ \cup {worker[w].at}]
    /\ worker' = [worker EXCEPT ![w].at = "done"]
    /\ UNCHANGED <<target, job, reruns>>

\* One task on the tenant's database: to create and migrate it, or to bootstrap
\* it.  Each can be repeated, and one that reports an error may have been done.
Work(w) ==
    LET task == worker[w].at
        done == [database EXCEPT ![worker[w].topology] = @ \cup {task}]
    IN  /\ task \in Tasks
        /\ \/ /\ database' = done
              /\ worker' = [worker EXCEPT ![w].at = IF task = "provision" THEN "bootstrap" ELSE "done"]
           \/ /\ database' \in {database, done}
              /\ worker' = [worker EXCEPT ![w].at = "broken"]
        /\ UNCHANGED <<target, job, reruns>>

\* Target and job are written together, or not at all when the lease is lost.
Report(w, jobStatus, targetStatus) ==
    LET t == worker[w].job
    IN  IF job[t].status = "running" /\ job[t].owner = w
        THEN /\ target' = upsertTenantDatabaseTarget(target, targetStatus, worker[w].topology)
             /\ job' = [job EXCEPT ![t].status = jobStatus, ![t].owner = NoWorker,
                                   ![t].expired = FALSE]
        ELSE UNCHANGED <<target, job>>

Complete(w) ==
    /\ worker[w].at = "done"
    /\ Report(w, "succeeded", "provisioned")
    /\ worker' = [worker EXCEPT ![w] = IdleWorker]
    /\ UNCHANGED <<database, reruns>>

Fail(w) ==
    /\ worker[w].at = "broken"
    /\ IF worker[w].attempt >= MaxAttempts
       THEN Report(w, "failed", "failed")
       ELSE Report(w, "retry_scheduled", "provisioning")
    /\ worker' = [worker EXCEPT ![w] = IdleWorker]
    /\ UNCHANGED <<database, reruns>>

\* The process dies, the job panics, or the report cannot be written: the job
\* stays running until its lease ends.
Abandon(w) ==
    /\ worker[w].at # "idle"
    /\ worker' = [worker EXCEPT ![w] = IdleWorker]
    /\ UNCHANGED <<target, job, database, reruns>>

-----------------------------------------------------------------------------
ProvisioningNext ==
    \/ completeOnboarding
    \/ CloseOrganization
    \/ \E t \in Topologies : RepeatSampleTenant(t) \/ LeaseEnds(t)
    \/ \E w \in Workers : SweepOnly(w) \/ Claim(w) \/ Work(w) \/ Complete(w) \/ Fail(w) \/ Abandon(w)

\* Leases end, and the loop of every worker goes on (Start polls for ever, and
\* the tasks run under a context that ends with the lease).
ProvisioningFairness ==
    /\ \A t \in Topologies : WF_provisioningVars(LeaseEnds(t))
    /\ \A w \in Workers :
        /\ WF_provisioningVars(SweepOnly(w) \/ Claim(w))
        /\ WF_provisioningVars(Work(w))
        /\ WF_provisioningVars(Complete(w) \/ Fail(w))

-----------------------------------------------------------------------------
\* A target that the router may send requests to names a database that was
\* created, migrated and bootstrapped: whichever worker reported, late or
\* superseded, and whatever topology was asked for in between.
ProvisionedIsUsable == target.status = "provisioned" => database[target.topology] = Tasks

\* The database of a closed organization is never opened again, though workers
\* go on with its job and write the target they read before it was closed.
ArchivedStaysArchived == [][target.status = "archived" => target'.status = "archived"]_target

\* An organization does not wait for its database for ever: whatever workers
\* crash, the last attempt too, the target becomes provisioned, failed or
\* archived.
TargetSettles == target.status = "provisioning" ~> target.status # "provisioning"
=============================================================================
