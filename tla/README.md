# Formal models of meta-org-saas

TLA+ specifications of the parts of meta-org-saas in which concurrent actors, or
long sequences of requests, share state: the AI gateway, the cache of tenant
database pools, document import, tenant provisioning and projection, the tool
runtime with the ERP's actions, the ERP's documents and books, the SMT shop
floor, and the cost ledger with its exports to accounting. TLC checks them on small instances; TLAPS proves the most important
results for every instance. `PROJECT.json` lists the components, the runs, the
mutants that show each property to bite, the lines of code behind each
definition, the hazards, and the theorems.

    tlc -config GatewaySafety.cfg MCAIGateway     # one run
    tlapm AIGatewayProofs.tla                     # one proof module

## 1. The system

The backend (`src/backend`, Go) is one server binary over PostgreSQL: a platform
database, and one database per tenant reached through a pool router. Several
server processes may run at once. A security kernel (`src/security-kernel`, Rust)
answers policy questions, and a web frontend (`src/frontend`) talks to the
backend. `src/backend/cmd/server/main.go` builds the services and starts the
background workers.

| Component | State | Operations | Interacts with | What makes it correct |
|---|---|---|---|---|
| AI gateway, balances (`domain/aigateway/repository.go`) | balance and reserved amount of an organization, used quota of a token, reserve/settle/refund rows | reserve, settle, refund, adjust | handlers, recovery, operators | totals are the sums of the rows; one finish for each reservation; overdraft only by wrong estimates |
| AI gateway, channels (same file) | status, slots in flight, used quota, failures, circuit of a channel row | admit, release with outcome, test, switch | handlers, recovery, operators | slots are counted; the circuit agrees with the failures; one probe |
| AI gateway, invocations (`service.go`) | invocation row, usage ledger | synchronous and streaming call: eight database calls and one provider call on the main path, with a compensation for each failure | all of the above, security kernel, provider, client | usage is paid, what was not used is given back, slots are returned |
| AI gateway, recovery (`reservation_recovery.go`) | lease on a reserve row | claim a batch, recover each, give the lease back | balances, channels, invocations | every reservation is finished, once, whatever crashed |
| Tenant pool cache (`pkg/tenantdb/pool_cache.go`) | map of pools with leases, sweeper | acquire, release, evict, sweep, close | every tenant request, projection worker | no pool closed under its user, none leaked, none closed twice |
| Document import (`domain/documentimport`) | import with version, status, draft, recognition lease | upload, recognize, review, reject, confirm | people, AI gateway, ERP | decisions are about the draft that was seen; one document for one confirmed import |
| Tenant provisioning (`domain/saas/provisioning_worker.go`) | job with lease and attempts, target | enqueue, claim, complete, fail, close organization | tenant databases, projection | job and target agree; no database is given up half-made; a closed organization stays closed |
| Tenant event projection (`domain/tenantprojection`) | outbox, inbox, projections | migrate, claim events, load a snapshot, apply, mark | tenant databases, platform, provisioning's target | an event is published only after it was projected |
| ERP actions (`domain/erp/service.go`) | audit row of each idempotency key | run an action, record a failure | API, tool runtime, document import, edges | an action takes effect once for a key, and the audit says so |
| ERP documents and books (`domain/erp/commerce.go`, `ledger.go`) | orders, fulfillments, invoices, payments, allocations, stock, journals | type in, approve, convert, post, allocate, delete | ERP actions | books agree with the documents, stock with its value; what others rely on is not changed |
| Tool runtime (`domain/toolruntime`) with the bridge of the business AI (`domain/businessai`) | executions, approvals, proposals | request, decide, run, link, tell | ERP actions, people, governance | nothing under approval happens without it; a reported success happened |
| SMT floor (`domain/erp/smt_*.go`) | work orders, machines, feeder slots, reels, first articles, boards, panels | bind, load, splice, unload, verify, sign off, inspect, pass, fail, repair, scrap | ERP actions, edge instances | reels are where they are on record; boards are placed by verified feeders; defects hold a board |
| SMT edges (`domain/smtmes`, `smt_edge.go`) | inbox of events, log of pushes | webhook, pull, push | edge instances, SMT floor | events are neither lost nor applied twice |
| Assistant (`domain/assistant`) | runs, steps, messages, proposals | start, step, confirm a proposal | AI gateway, tool runtime | a proposal is applied when confirmed |
| Cost ledger and exports (`domain/costing`, `domain/finance`) | ledger rows, export batches and lines, import records, cost entries of projects | post, correct, void, export, post to projects, submit, webhook, import | AI gateway, projects, accounting systems, people | a cost is exported once and posted once, whoever repeats or stops |
| Rest of finance, projects | settlement orders, vouchers, project records | one transaction for each request | people | status machines, balanced vouchers |
| Payables, receivables, payments and receipts of finance; sales, procurement, inventory | retired: routes answer 410 or are not mounted | | replaced by the ERP | |
| Workflow, runtime, verification, evolution, governance | instances, tasks, decisions | one update for each decision | people | status machines |
| Organization, identity, meta-organization, SaaS accounts, industry, system administration, ontology, dashboard | administrative records, read models | CRUD | all | referential rules in the database |
| Audit retention, observability, monitoring | logs and metrics | bounded deletes, inserts | all | nothing is lost before its time |
| Rate limits, middleware, security kernel, configuration, migrations | buckets, nonces, applied versions | one upsert for each request; start-up | all | limits hold, a nonce is used once |
| Frontend | none that is authoritative | | backend | |

Behaviours that are hard to get right here: an invocation is a chain of separate
database calls in which any call may fail, take effect without an answer, or be
cut off by a disconnected client, while a recovery worker in another process may
pick up the same reservation; SQL updates take the place of locks, so every race
is decided by the `WHERE` of one statement; leases expire by wall clock under
owners that still work; the pool cache creates and closes pools outside its
mutex; recognition of a document runs outside any transaction and may come back
to an import that has moved on; a tool's approval, its run and the notice of its
result are statements of different requests that read rows long before they
write them; and in the ERP, where one advisory lock orders all requests of a
tenant, the order itself is the difficulty: documents refer to each other from
both ends and may be approved, edited, deleted and typed in again. The list in
`PROJECT.json` ("hazards") gives the line of each.

## 2. The modules

| Module | Models | Refines or uses |
|---|---|---|
| `PrepaidAccount` | what an account promises: deposits, and for each call a hold and how it ended; every total is a sum | |
| `BalanceLedger` | the balance, token and transaction rows with the operations that move money | implements `PrepaidAccount` |
| `ProviderChannel` | one channel row and the SQL statements on it | |
| `ChannelCircuit` | calls, tests, switches and cooldowns on one channel | `ProviderChannel` |
| `CostExports` | the cost ledger, export batches, their posting to projects, imported expenses | |
| `GatewayRows` | the rows of `BalanceLedger`, `ChannelCircuit` and `CostExports` side by side | all three |
| `AIGateway` | handlers, clients, crashes, faults, recovery workers | `BalanceLedger`, `ProviderChannel` |
| `TenantPoolCache` | the pool cache, its callers, sweeper and `Close` | |
| `DocumentImport` | imports, people, recognition attempts, business documents | |
| `TenantProvisioning` | target, jobs, workers and databases of one organization | |
| `TenantProjection` | its outbox, projection workers, inbox and projection, with the provisioning of the same target | `TenantProvisioning` |
| `ErpActions` | running an action once per key: transaction, audit, lost answers, retries | |
| `ToolRuntime` | tool requests, approvals, handlers and the proposals of the business AI | `ErpActions` |
| `ErpLedger` | purchase and sales documents, stock, postings and allocations | |
| `SmtFloor` | reels, feeders, machines, first articles, boards and panels | |
| `MC...` | instances for TLC | |
| `...Proofs` | theorems | |

### Balances

A call reserves at most once, so `resv[c]` is its reserve row together with the row
that finished it. Each operation of `repository.go` is one transaction with row
locks, hence one action. Totals (`balance`, `reserved`, `quotaUsed`) are changed by
increments exactly as the statements do, the clamps `GREATEST(..., 0)` included
(`AtLeastZero`); the invariants say that they are the sums over `resv`, which also
means that no clamp ever hides a difference. Sums are written as cardinalities:
an amount `n` of call `c` is the set `<<c, 1>> .. <<c, n>>`, so that no recursive sum
is needed and the library's facts on finite sets apply.

### Channels

`circuit` abstracts `circuit_open_until`: NULL, in the future, past. `CooldownElapses`
is the passing of time. The failure counter is compared with the threshold only
and stops there. Calls hold a slot from `Admit` to `Release`; a call remembers
whether it was admitted through an elapsed circuit (`role = "probe"`). Tests and
switches by operators change the row at any time.

### Costs and their exports

`CostExports` starts where a call has ended: its cost is a row of the cost ledger, told
by its source. `request[q]` is an HTTP request with the step it is about to take and
what it remembers. Creating a batch is one transaction, of which `ClaimRows` is the
statement that inserts the batch and locks the rows it selects (`FOR UPDATE SKIP
LOCKED`; the locks are the `rows` of requests that are `claimed`) and `CommitBatch` the
rest; the look-ups, inserts and updates by which AI costs are then posted to their
projects are one action each, as are the reading, the marking and the answering of a
batch that is sent. `Stop` loses a request at any of them. Corrections by people and
webhooks of the accounting system come at any time; unique indexes are guards.

The ledger and the lines of batches keep eight decimals (`NUMERIC(18,8)`), the cost entries
of projects two (`NUMERIC(14,2)`). So amounts are counted in the unit of the ledger, of which
`Cent` make a cent, and `cost[e].amount` in cents: `Cents` rounds what is inserted, halves
upwards, and `recordCostEntry` works with what the database returns and writes no ledger row
for an entry that has become 0.00. Amounts are positive, as the code demands of people
and `recordCostLedger` of usage.

`GatewayRows` puts balances, channel and costs into one state: no statement touches two
of them, so it lets a history move one of the three, and one run answers for all.

### Invocations and recovery

`request[c].todo` is the list of database calls a handler still has to make. It is
set to the main path (`Opening`, `AfterSuccess`), and replaced by the compensation
when a call fails (`OnError`) or by one of the ends of a stream. A database call
(`DatabaseCall`) has its effect, or fails without it, or fails although it had it.
Calls that use the request's context fail once the client is gone
(`UsesRequestContext`); those that use `context.Background()` do not, and that
difference is kept call by call as in `service.go`. The provider is external: it
returns a result with its cost, or ends a stream in each of the ways the code
tells apart. The recovery worker is modelled statement by statement: the claim of
a batch under a lease, the check of the owner, the reading of the invocation, the
cancellation, the release, the settlement or refund, and the return of the lease.
`slot[c]` is a history variable: the slots a call took less those given back for it.

### Pool cache

Each critical section of `pool_cache.go` is one action; creation, waiting and most
closing happen outside the mutex and are actions of their own. The eviction and
the sweep may take any pool without a lease: the code takes the least recently
used and those idle long enough, which are among these. `closes` counts how often a
pool was closed.

A caller with a lease may take a connection (`Connect`: `Exec`, `Query`, `QueryRow`,
`Begin`), gives it back when its rows or transaction end (`Disconnect`), and then calls
the release function, which `leasedRows` and `leasedTx` may do again (`Release` in the
steps "releasing" and "released"; `sync.Once` makes the second call do nothing). `Close`
waits for the sweeper and then closes one pool at a time: `CloseNext` calls
`pgxpool.Pool.Close`, from which on the pool gives no connection, and `CloseEnds` is its
return, once no connection of the pool is in use (`InUse`, an external of the model).

### Document import

Every write is a transaction under the tenant's advisory lock, so each is one
action, and a recognition is two (start and finish) with a lease between them. A
client acts on the version and the draft of an answer it got earlier (`view`). The
answer to a confirmation may be lost (`accepted` records the confirmations somebody
was told have succeeded). Drafts are a key and a content; the confirmation hash is
the draft itself. Documents that are written to the ERP by other ways than imports
are left out: they only add refusals.

### Tenant provisioning and projection

`TenantProvisioning` follows one organization: its row of
`tenant_database_targets`, its jobs by topology (the placement a deployment gives an
organization, which is also a job's key), the workers of several processes, and
what was done to each database. `SetUp` is the onboarding transaction, also repeated
by another deployment. `Claim` first sweeps the jobs whose last attempt ended with
nobody to report it, in the same transaction, as the code does; `Work` is the work
outside any transaction; `Complete` and `Fail` look at the lease again (`Report`); and
`Abandon` is every way a worker ends without reporting. `TenantProjection` adds the
trigger's outbox events and the cycle of the projection worker, one action for each
statement or transaction in either database. The two meet in the target's row:
`ensureMigrated` writes back, as provisioned, the target that was listed before.

### ERP actions and tool runtime

`ErpActions` is `RunAction`: one transaction with the action's effect and its audit row
under the key, and a second one that records a failure. In between, and after a
commit whose answer is lost (`Effect`), other calls of the same key run. `ToolRuntime`
extends it. `handler[h]` is one request of the API with what it has read (`seen`,
`pending`, `late`), and each of its statements is an action: `CreateExecution` (the first
request makes the row), `Dispatch`, `Review` (reads both rows) and then `Approve` or
`Reject` (writes them without looking again), the adapter, `Complete`, the notice to the
business AI (`ToolExecutionUpdated`) and the link (`LinkProposalExecution`). A handler may
be lost at any of them. An adapter of the ERP is a call of `ErpActions` under the
execution's key; any other adapter is an effect that counts in `ran`.

### ERP documents and books

Every write is a transaction under the tenant's ledger lock, so it is one action; a
refused request rolls back and has none. A document is a record with its state, its
partner, one line, the document it was made from (`base`) and the one made from it
(`link`), and what was settled on it. Purchase and sale run the same code over different
tables, so that a document belongs to one side (`Purchases`). `stock` is quantity and
value at weighted average cost with the code's rounding (`IssueAmount`), `books` the
balance of each account over all generated journals; `postJournal` refuses an entry that
does not balance. `ensureEditable` is the rule that protects documents, read off four
fields as in the code.

### SMT floor

Every scan or operator action is a transaction under the same lock. `slot` holds the
two loadings a feeder slot can have (main and spliced), `reel` the reel's own record,
which the code keeps in another table: `smtLoad`, `TakeOff` and `smtReelTransition` have to
keep them together. `machine` is what a board's placement is judged by: the bound order,
the verification, the sign-off. A load is judged by the parts list (`MayLoad`), a
verification by the feeder table (`Matches`), as in the code, and they may disagree.
`smtValidateUnitStep` is the common judgement of passing and failing boards; a panel scan
(`smtPassPanel`) judges all its boards first and then goes through them one by one, the
failing ones under a second judgement. Three history variables say what the
properties are about: reels spliced to themselves (`doubled`), machines that were verified
when an article passed (`inspected`), and boards placed on feeders that differed from the
table (`misplaced`).

## 3. The runs

| Run | Configuration | States | Shows |
|---|---|---|---|
| `gateway_rows` | three calls, two tokens, one with a quota of 3, amounts up to 2, adjustments -1 and 3, balance up to 4; three calls on a channel with two slots, quota 3, threshold 2; one call in a project that costs less than half a cent or nearly two, two cost entries, two imports, two batches, two requests | 422,388 | totals, overdraft and quota bounds, refinement of `PrepaidAccount`, finishing once; slots, circuit and health, quota overrun; exports and postings happen once, and what is posted is the exported amount but for the rounding |
| `channel_probe` | the channel alone | | violation: two probes |
| `gateway_safety` | a synchronous and a streaming call, one worker, one fault, one crash, one lease lost | 1,522,005 | usage is paid, completed means charged (`UsageIsPaid`), slots |
| `gateway_recovery` | one call, two workers, one fault, one crash, one lease lost; recovery also while the call runs | 286,554 | every reservation is finished |
| `gateway_disconnect` | one call whose client may leave | | violation: the slot is not released |
| `gateway_double_release` | the same | | violation: a slot is released twice |
| `pool_cache` | three callers, three tenants, two pools, three entries | 768,174 | leases and limit, closing, waiters; `Close` ends if connections come back |
| `document_import` | two uploads, two people, two attempts, five versions, symmetric | 2,450,555 | versions, corrections, documents, idempotent confirmation |
| `erp_ledger` | one item, one order for each side, two receipts and a delivery, three invoices, two payments, two stock papers, three lines, two partners, three drafts | 406,420 | books, stock value, one fulfillment, immutability |
| `tool_runtime` | two handlers, a proposal of an ERP tool, another tool, a direct ERP call, four requests | 2,170,269 | audit, approvals, reported success |
| `tenant_plane` | two workers, two topologies, two attempts, one repeated set-up, a projector, a change | 1,436,996 | provisioned is usable, archived stays archived, set-ups settle, published is projected |
| `smt_floor` | one machine with one slot, three reels of different parts, one order, two boards, a panel, a plan of one board | 1,595,610 | reels, placement, plan, defects |

Why the bounds are enough. Ledger: with three calls two can race on one token and
on one balance while the third shows that a token's quota is its own; amounts of 0,
1 and 2 let a cost be below, at and above its estimate, and a balance of 4 lets
the balance, the quota or neither be what refuses. Channel: two slots and three
calls make the limit bind, and a threshold of two distinguishes a first failure
from the opening one. Gateway: one metered call of each kind covers every path of
both handlers; one fault at any database call, one crash at any point and one
disconnect at any point combine, and a second fault adds no new kind of state
because the compensations do not compensate each other. The channel of that run
has two slots and a threshold of one, so that a call's outcome can shut the other
out. Exports: two requests are any race of two statements, with one key or two; a second
cost entry and a second import are what a double posting would need; the one AI call has
a project, since only such calls are posted; a cent is four units and its cost one or seven of
them, so that it is rounded down to nothing or up to two cents, and rounding that
truncates would be seen. What people enter is rounded to nothing in this run, so that the
ledger rows of entries are those of AI costs, which no statement tells from the others.
Pool cache: three tenants on two places force evictions while the others
create, wait and release; three entries are enough for a place to be reused while
somebody still holds a pointer to the entry that was there before. Import: two
uploads that can claim the same key, two people who race, two attempts of which one
takes over from the other; five versions allow a recognition to start and finish, a
review and a confirmation, or two recognitions in place of the first and the last two.

ERP ledger: three drafts are what two purchases and a sale, or an order, a receipt
typed in under its key and a payment need; the lines have a price that does not divide
evenly, a tax that has to be rounded, and one that is free. Tool runtime: two handlers
are any race of two statements, four requests let a request be sent again, approved
twice, or approved and rejected; one tool is under a key of the ERP, the other is not,
and a direct call competes for the ERP. Tenant plane: two workers, of which one is late,
and two attempts, so that the last one can be lost; the second topology and the
repeated set-up make a job that is superseded. One projection worker: with two the state
space is beyond a run, and the theorems of `TenantProofs` hold for any number. SMT floor:
the second reel is an alternate by the parts list and not by the feeder table, so that a
slot can be loaded and not verified; the third is wrong and locks the slot; two boards on
a panel exceed a plan of one, and one of them may fail while the other passes; the order
can be changed over to itself, which is what voids a first article. Several machines,
slots and orders multiply the states beyond a run; what depends on them, a reel between
two slots and a machine between two orders, is proved for any number in `SmtFloorProofs`.

The bounds are the constants named as such in the modules: `MaxBalance`, `MaxFaults`,
`MaxCrashes`, `MaxSlow`, `MaxVersion`, `Entries`, `MaxReruns`, `MaxDrafts`, `MaxCalls`,
`MaxPanel`, `MaxDefects`, `MaxEntries`, `MaxImports`, `Reposted` (which costs people post
again), and in `GatewayRows` the rule that a history moves one of the three. `MaxAttempts` and `MaxEventAttempts` are limits of the code. The
channel's `used` needs no bound: `ChannelCircuit` admits nobody once the quota is used up,
and in `AIGateway` each call is made once.

Deadlock checking is off where the system really ends: when every call is over
(gateway), after `Close` or when the entries are used up (pool cache), when the drafts
are used and settled (ERP ledger), when a denied tool's handlers are gone (tool runtime),
when the organization is closed and its jobs are over (tenant plane), and when the
order is closed and boards and reels are used up (SMT floor). Symmetry is used where the
properties are invariants or speak of single steps, never with liveness: batches and
requests (`gateway_rows`) and the people and attempts of `document_import` are told apart
only from each other.

### Assumptions of the properties

`UsageIsPaid` and `CapacityIsExact` are stated for `LiveRecovery = FALSE`: a
reservation becomes stale only when its call is over. This is what
`config/validation.go:158` is for (the cutoff exceeds the stream timeout). Otherwise
the recovery refunds what the call is about to use, and it and the call both release
the slot. `gateway_recovery` drops the assumption and checks that even then each
reservation is finished. The part of `UsageIsPaid` about refunds excludes faults, because a usage row
whose insertion took effect and was reported as failed is refunded by the code.
`CapacityIsExact` excludes faults and crashes, because the code restores a slot lost to
them only through a reservation, and the two disconnects of the findings (`KeptContext`).
`PlacedAsVerified` speaks of tenants with the settings that require ready machines and
verified first articles, and `PlanOverrunIsOnePanel` of those that limit boards to the
plan. `ReelIsWhereItIsLoaded` excepts a reel that was spliced to itself until it has left
every slot (see below).

### Fairness

Gateway: a handler that can go on goes on (a goroutine is not suspended for ever,
and each of its calls returns by a timeout), time passes (`Age`, `LeaseExpires`), and
each worker polls for ever (`Start` is a loop around a ticker). No fairness is given
to clients, crashes, faults or operators. Faults are finitely many: a database that
never answers recovers nothing. Pool cache: a factory returns, because it takes a
context and `pgxpool` connects with a timeout; a goroutine that is not blocked gets the
mutex; the sweeper's loop ends, and the one loop of `Close` goes on unless the pool it is
closing waits for a connection. Nothing is assumed of holders of a lease or of a
connection: they may keep them for ever, and a connection that is kept leaves every later
pool of that loop open. `PoolProgress` therefore promises the end of `Close` only under
`ConnectionsComeBack`, the one assumption on callers, which is part of the property and
not of the specification; that waiters are answered it promises without it. The code has
reason to expect connections back, since queries run under the context of a request and
rows and transactions are closed by deferred calls, but nothing in `Close` enforces it.
Provisioning: leases end, each worker polls (`Start` again),
its work ends because its context has the lease's deadline, and it then reports; crashes
(`Abandon`) are limited by the attempts. Projection workers get no fairness, since no
property needs one to go on. The other models are checked for safety only and have no
fairness.

### Findings

1. `channel_probe`. The migration notes (`BASELINE_RESTRUCTURE.md:555-557`) promise one
   probe after a cooldown. An admission moves `circuit_open_until` one cooldown ahead
   and does not look at `health_status`, so a probe slower than that is joined by
   another.
2. `gateway_disconnect`. The same notes promise that a disconnect releases capacity.
   `recordFailedInvocation` uses the request's context, which is the one that was
   cancelled, and the deferred release has been switched off: the slot of a
   synchronous call stays taken and its invocation stays `started`.
3. `gateway_double_release`. The notes say that the recovery releases channels held by
   abandoned calls. A call whose client left between its usage row and its settlement
   has released its channel and still looks `started`; the recovery releases the channel
   a second time and charges its quota again.

### Behaviour the models show and no property judges

- Gateway: `CompleteInvocation` and `FailInvocation` do not look at the status
  (`repository.go:586`), so a handler that outlives the stale cutoff overwrites the
  recovery's `cancelled`.
- Exports: the cost of an AI call in a project enters the ledger twice, as the call and as
  the cost entry it is posted as, and a later batch exports it again, rounded to the cent.
  A call that costs less than half a cent becomes an entry of 0.00 without a ledger row,
  linked and counted as posted: a project of many small calls is charged nothing. Posting a cost with
  its source overwrites a row that was exported, its status included, which correcting
  and voiding refuse (`costing/repository.go:455`). A batch whose rows another one holds
  is left an empty draft whose key is used up. An answer or a failed posting that comes
  late overwrites `reconciled`.
- Settlement orders (read, not modelled): voiding looks at the status and then writes without
  looking (`finance/repository.go:893`), so that an order posted in between is void although
  its receivable exists; and posting does not ask whether an order is void.
- Projection: of two workers that load snapshots at different times, the one that
  applies last wins, and its snapshot may be the older one (`repository.go:134`). An event whose last attempt
  was lost with its worker stays `running`.
- Provisioning: the sweep of a job for an earlier topology marks a target failed that
  was provisioned for a later one (`provisioning_worker.go:205`).
- Tool runtime: two approvals at once run a tool outside the ERP twice (the ERP's key
  protects the others; `TestApproveRunsApprovedToolOnce` approves one after the other).
  An approval that is decided and run before the submitter has linked its execution
  leaves the proposal at `approval_required` (`BASELINE_RESTRUCTURE.md:500-503` promises
  the result). An execution whose approval could not be created waits for ever.
- ERP: a sales order may be edited after it was confirmed and is approved as it then is.
- SMT: a reel may be spliced to itself; when the main position is unloaded its record says
  it is in stock although the spliced position is still active, so it can be issued and
  loaded elsewhere (`SMT-MES-SOLUTION.md` forbids transitions of a reel that is
  actively loaded). Where sign-offs are required, a later verification keeps the
  sign-off, so the verifier and the signer may end up the same person. A panel scan is
  called all-or-nothing (`smt_production.go:860`), but a board with an unknown defect
  code, or refused on its second judgement, is rejected alone. A panel of new boards may
  exceed the plan. A repair may close a defect of another board.
- SMT edges (read, not modelled): `processEvent` makes the row of an event `pending`,
  applies the event and marks the row (`smtmes/service.go:454`), and only `failed` rows are
  claimed again (`repository.go:187`). A replay of a pending row is answered with success,
  so that the edge stops sending it, also when the first delivery fails afterwards or has
  died. A pull passes events that failed, with its cursor (`service.go:541`).
  `docs/SMT-MES-SOLUTION.md:106` speaks of a tenant transaction, but `ApplyEdgeEvent` runs
  in none (`erp/smt_edge.go:30`): a retry after a partial failure appends history lines
  again, and one of `loading.ok` finds its own loading and ends before it has recorded the
  scan.

## 4. The proofs

All theorems hold for every value of the constants (calls, tokens, documents,
handlers, workers ..., where sums or counts are involved finite sets of them) under the
assumptions stated beside them (`CallsAssumption`, `TokensAssumption`,
`AmountsAssumption`, `ChannelAssumption`, `CircuitAssumption`, `GatewayAssumption`,
`CostAssumption`, `ProvisioningAssumption`, `ProjectionAssumption`, `ToolAssumption`, `ErpAssumption`,
`FloorAssumption`, `PoolAssumption`, `ImportAssumption`), which the runs evaluate.

`BalanceLedgerProofs`. `LedgerInv` is the type invariant with `LedgerSums` and
`OverrunOnly`. The parts need each other: that a finish subtracts exactly the held
amount (and the clamp does nothing) follows from the reserved amount being a sum that
contains it, and the overdraft bound after an admission follows from the balance check
together with the exact totals. The lemmas say how each sum changes when one
reservation changes (`SpanCount`, `AmountCount`, `DisjointSum` and those built on them).
`LedgerImplementsAccount` maps `funds` to `deposits` and `entries` to `resv`: under
`LedgerInv` the checks on totals are the account's checks on sums.

`GatewayRowsProofs`, the channel. `RowInv` (the row agrees with itself) is inductive alone and gives
`HealthIsTrue`. `CapacityInv` adds the count of holders, and the clamp at zero is shown to
be idle because the releasing call is one of them. The quota bound rests on both: used
plus what the calls in flight may still cost.

`GatewayRowsProofs`, the exports. `ExportInv` says of open transactions that the rows and the
key they hold are free and nobody else's (`ClaimsInv`), which every correction and every
other claim has to leave so until the commit, and of requests that they send or post only
batches that are there (`SendersInv`). `PostInv` adds what a request that posts knows: that
its usage is on a line of its batch, and which entry it goes on with (`PostersInv`), and that
an entry has the amount of the line, rounded (`EntriesMatchLines`, from the lemma
`CentsRound`: half a cent at most either way); together these make the second
look-up, the repeated posting and the late link harmless. `RowsTypeCorrect` puts the types
of the three parts together.

`AIGatewayProofs`. `GatewayInv` keeps just enough of handlers and workers (the cost
they carry is an amount, and a worker that is not idle has a reservation in hand)
to show that each step of the gateway is a step of `LedgerNext` or leaves the
ledger's variables alone. Everything proved of the ledger then holds of the gateway
with any number of calls, workers, faults and crashes (`GatewayKeepsTotals`,
`GatewayImplementsAccount`, `GatewayFinishesOnce`), without a second induction.

What relates a handler to the rows needs one, `CallsInv`. A call is always in one of 18
stages (`StageOK`). Each names the list of database calls that its handler has left and
says what then holds of the rows: at `Settling`, for instance, the reservation is open, the
invocation still runs, and the slot is taken. One lemma for each step, with its outcomes
(done, refused because the client left, failed with or without effect), leads from stage to
stage. `MoneyOK` is what the rows of a call say of each other in every stage; it contains
`UsageIsPaid`. `BatchOK` is what a worker has read of its batch and relies on: these calls
have ended, and only writes of the recovery change them (`StaleKept`). What is said of slots
is said while nothing has failed and no call ended with its client lost (`Quiet`); there
`CapacityOK` counts the slots that are out, and the clamp of a release at zero is idle
because the releasing call is one of them. Which lists of steps occur is part of the stages,
so that `GatewayTypeCorrect` follows without reasoning about how `SelectSeq` filters lists
in general.

`TenantProofs`. `PreparedInv` says what a worker has done to the database it works on and
what a projector may write back: a listed target was provisioned, and what was prepared
stays prepared. `ProjectedInv` relates each projector's batch and snapshot to inbox and
outbox. Both hold for any number of workers and projectors, the case the run leaves out.

The same module proves the pool cache, for any number of goroutines and places. `PoolInv`
is the life of an entry (`EntryOK`: no pool, an open pool that somebody keeps, the pool
that `Close` is closing, or a pool closed once that nobody keeps), what a caller may rely
on (`CallerOK`: its entry was made, is cached while he has a lease unless creation failed
or the cache was closed, and has its pool while he has a connection), and where entries
can be (`PlacesOK`). The count of users turns "a caller uses this entry" into "its leases
are not zero" (`UserHasLease`), which is why neither sweeper nor eviction takes it.

`DocumentImportProofs`. Every change of an import is a `Save` of one row, and `RowSaved` says
what that does to rows and views. `ImportInv` adds to `VersionIdentifiesDraft` that nobody
holds a version that is still to come, which is what makes a new version safe, and carries
`ConfirmedHasItsDocument`, which is inductive with it. It also gives the action property:
`CorrectionsSurvive` needs that a late recognition of a reviewed import writes the draft back.

`ToolProofs`. `ToolInv` has a part for each request (`RequestOK`: its status agrees with its
policy and approval), each handler (`HandlerOK`: why it may run the adapter, what it is
about to tell), each call of the ERP (`CallOK`) and what was told (`ToldOK`). They stay true
because effects, approvals and policies only grow (`Grows`); every action is shown to grow
and to set up its own handler's part. `AuditTellsEffects` is inductive by itself.
`ToolTypeOK` bounds how often the adapter of a request runs. Its invariant is a count
(`Counted`): the runs so far and the handlers that may still run it are no more than the
requests that came in; a handler that has been at the adapter does not get back to it
(`Moves`).

`ErpLedgerProofs`. `ErpInv` is a part for each document (`PaperOK`: the states it can be in,
what may be settled on it) and one for each order and fulfillment (`PairOK`: what their two
links have to do with each other). It gives `OrderFulfilledOnce` and, action by action
(`GoodStep`), `BindingIsImmutable`; with `Books` it gives the types, which need that an issue
never takes more value than there is.

`LedgerInv` adds one part for each account and for the stock: `InventoryOK`, `AccruedOK`,
`OpenBalancesOK`, `CashOK`, `QuantityOK`, and `WorthOK` for the rule that the last of an item
takes all its value along. They lean on `LinksOK` (a posted fulfillment has its own invoice
with the same line, which is why the invoice takes back what the receipt accrued, and only
that), `SettledOK` (what is settled on either side is the sum of its allocations) and
`OpenOK` (nothing is settled beyond its amount). Each posting moves one term of a few sums
(`SumMoves`) and none of the others (`Aside`, `PlainStep`). That a step moves a sum by the
change of one term has to be derived from the sum's definition, a fold over an element chosen
at each turn; the theorems on induction over finite sets take an operator and cannot be
used, so it is derived from the minimality theorem for well-founded relations, which takes a
set: a smallest set on which it failed would contain a smaller one.

`SmtFloorProofs`. `FloorCases` sorts the steps by what they do to feeders and machines, so
that boards and panels do not enter. `ReelsInv` adds to `ReelIsWhereItIsLoaded`
why the exception is enough: only a reel on both positions of a slot is `doubled`, and it
stays so while it is on one. `VerifyInv` adds to `PlacedAsVerified` that a verified machine is
fed as its table says (`VerifiedFits`), which each load, splice, replacement, unload and
changeover has to keep or give up.

`BoardCases` does the same for boards, where feeders do not enter, and `BoardsInv` has what
a scan relies on. A scan, of a board or a panel, lets on only boards that have no open
defect, which gives `DefectHoldsBoard`. For the plan, a new board is let in only while its
order is below it, so that one more does not exceed it, and of the boards of one panel,
which are all let in after one look, the order without them is still below
(`BoardsMove`). A panel scan judges its boards one after the other, and whether a bad one
is failed or refused may depend on those before it; the proof needs only that each passes,
fails or stays (`Judged`). The types also need that a slot with a spliced reel has a main one, and that a
board fails only when it has no defect open, which bounds the defects it can have.

Only model-checked: the three liveness properties, `OpenReservationIsFinished`,
`PoolProgress` and `TargetSettles`, which with fairness and `ENABLED` are beyond the
prover. Every invariant, action property and refinement that a run checks is stated by a
theorem. No module declares a RECURSIVE operator, which would take the SMT prover away
from the proofs.

## 5. What is not modelled, and what is next

Inside the modelled parts: the choice among several channels, model patterns, prices
and cost arithmetic, several currencies, tracing and metrics, provider retries (they
change no stored state), calls for which no channel is configured, and new limits
that an operator gives a channel (`aigateway/repository.go:840`); costs of zero, which write
no row; statistics and URL
lookup of the pool router; file formats, evidence and access checks of imports; shared
schemas and what is bootstrapped; the contents of projections; tool definitions,
governance rules and reviewer tiers (inputs of the tool runtime); master data, project
actions, hand-made journals and trial balance of the ERP; on the SMT floor quantities,
requisition lines, low-material alerts, andon calls, downtimes, receipt and owner policy.
The connection pool of the platform database, which `applyChannel` uses twice at a time,
is not modelled either. The other components of the table are left out because they are
pure input and output, or change state by one statement for each request; they are most
of the code by lines (the rest of finance, projects, system administration, the
assistant), so that the share of lines the map covers is small although the concurrent
core is covered. Of finance that is settlement orders and vouchers.

Some code is out of use and is not worth a model: payables, receivables, payments and
receipts of `domain/finance` (their routes answer 410, `finance/handler.go:78`), and
`domain/sales`, `domain/procurement` and `domain/inventory` (the server constructs none of
them, a test forbids their routes, and no migration creates their tables). Had they been
in use, stock would be a hazard: the first receipts of an item have no balance row to lock
(`inventory/repository.go:190`) and the later one overwrites the earlier.

Next, in this order:

1. SMT edges: inbox, webhook and pull, crashes between the statements of an event, and the
   mirror of the floor that events update. What the code keeps there is little (one
   delivery at a time works on an event); what the document promises needs a decision
   first about the divergences listed above.
2. The connection pool under `applyChannel`, where each candidate channel takes a second
   connection while the first is still in use.
3. Settlement orders and vouchers of the finance domain; proposals of the assistant.
