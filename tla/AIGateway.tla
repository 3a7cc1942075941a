------------------------------- MODULE AIGateway -------------------------------
(***************************************************************************)
(* Invocations of the AI gateway and the recovery of their reservations.    *)
(* A call is one request handler: it takes a slot of the provider channel,  *)
(* reserves balance, records the invocation, asks the provider, then writes *)
(* usage, settlement, release and result, each in a database call of its    *)
(* own.  request[c].todo holds the database calls still ahead; an error     *)
(* replaces them by the compensation the code runs on that path.  Recovery  *)
(* workers (one per server) finish reservations that stayed open.           *)
(*                                                                          *)
(* A database call has its effect, or fails without it, or fails although   *)
(* it had it (a lost acknowledgement, or the request cancelled while it     *)
(* ran).  Calls made with the request's context fail once the client has    *)
(* disconnected; those made with context.Background() do not.               *)
(*                                                                          *)
(* Not modelled: calls that no channel is configured for, the cost of the   *)
(* zero ledger row of a failed call (it adds nothing), tracing and metrics, *)
(* and retries towards the provider (they change no stored state).          *)
(***************************************************************************)
EXTENDS BalanceLedger, ProviderChannel, Sequences

CONSTANTS
    MeteredCalls,  \* calls made with an access token: they reserve and settle
    StreamCalls,   \* streaming calls, the others are synchronous
    Workers,       \* recovery workers
    NoWorker,      \* the owner of a reservation nobody recovers
    BatchSize,     \* reservations claimed in one recovery run
    Estimates,     \* what a call may reserve
    Costs,         \* what a call may turn out to cost
    MaxFaults,     \* bound: database calls that fail
    MaxCrashes,    \* bound: calls and workers cut off by a crash
    MaxSlow,       \* bound: leases that expire while their owner is still at work
    Disconnects,   \* whether clients may go away
    LiveRecovery   \* whether a reservation may count as stale while its call still runs

ASSUME GatewayAssumption ==
    /\ MeteredCalls \subseteq Calls
    /\ StreamCalls \subseteq Calls
    /\ NoWorker \notin Workers
    /\ BatchSize \in Nat \ {0}
    /\ Estimates \subseteq 0..MaxAmount
    /\ Costs \subseteq 0..MaxAmount
    /\ MaxFaults \in Nat
    /\ MaxCrashes \in Nat
    /\ MaxSlow \in Nat
    /\ Disconnects \in BOOLEAN
    /\ LiveRecovery \in BOOLEAN

VARIABLES
    invocation,  \* ai_invocations: status, cost_amount, and the usage in ai_usage_ledger
    claim,       \* of each reserve row: attached invocation, staleness, recovery lease
    request,     \* the handler of each call
    worker,      \* each recovery worker
    slot,        \* history: slots a call took less those given back for it
    faults,      \* history: database calls that failed
    crashes,     \* history: crashes
    slow         \* history: leases that expired under their owner

gatewayVars == <<invocation, claim, request, worker, slot, faults, crashes, slow>>

vars == <<ledgerVars, channel, gatewayVars>>

Statuses == {"none", "started", "streaming", "completed", "failed", "cancelled"}

Steps == {"resolve", "reserve", "authorize", "create", "attach", "provider", "ledger",
          "settle", "release", "releaseReq", "complete", "fail", "failReq", "cancel", "refund"}

WorkerSteps == {"idle", "verify", "load", "cancel", "release", "settle", "refund", "unlease"}

GatewayTypeOK ==
    /\ LedgerTypeOK
    /\ channel \in Channel
    /\ invocation \in [Calls -> [status : Statuses, cost : 0..MaxAmount, usage : 0..MaxAmount]]
    /\ claim \in [Calls -> [attached : BOOLEAN, stale : BOOLEAN,
                            owner : Workers \cup {NoWorker}, live : BOOLEAN]]
    /\ \A c \in Calls :
          /\ request[c].todo \in Seq(Steps)
          /\ request[c].cost \in 0..MaxAmount
          /\ request[c].outcome \in Outcomes
          /\ request[c].gone \in BOOLEAN /\ request[c].opened \in BOOLEAN
    /\ worker \in [Workers -> [batch : Seq(Calls), linked : SUBSET Calls, at : WorkerSteps,
                               cost : 0..MaxAmount]]
    /\ slot \in [Calls -> Int]
    /\ faults \in 0..MaxFaults
    /\ crashes \in 0..MaxCrashes
    /\ slow \in 0..MaxSlow

------------------------------------------------------------------------------
(* The database calls of a handler, on its main path and on its error paths *)

\* A call without an access token has no reservation to deal with.
For(c, metered, plain) == IF c \in MeteredCalls THEN metered ELSE plain

Opening(c) ==
    For(c, <<"resolve", "reserve", "authorize", "create", "attach", "provider">>,
           <<"resolve", "authorize", "create", "provider">>)

AfterSuccess(c) ==
    IF c \in StreamCalls
    THEN For(c, <<"ledger", "settle", "release", "complete">>, <<"ledger", "release", "complete">>)
    ELSE For(c, <<"ledger", "settle", "releaseReq", "complete">>,
                <<"ledger", "releaseReq", "complete">>)

AfterStreamError(c) ==
    For(c, <<"ledger", "settle", "fail", "release">>, <<"ledger", "fail", "release">>)

AfterStreamCancelled(c) ==
    For(c, <<"ledger", "settle", "cancel", "release">>, <<"ledger", "cancel", "release">>)

\* recordFailedInvocation with the request's context, then the refund.
AfterProviderError(c) == For(c, <<"releaseReq", "failReq", "refund">>, <<"releaseReq", "failReq">>)

\* A handler that gives up refunds; its deferred function releases.
Compensation(c) == For(c, <<"refund", "release">>, <<"release">>)

\* Mutants of OnError: no release after a refused reservation, and a refund of
\* what could not be settled.
KeepSlotOnRefusal(c, step, rest) == IF step = "reserve" THEN <<>> ELSE rest

RefundUnsettled(c, step, rest) ==
    IF step = "settle" /\ c \notin StreamCalls THEN <<"refund", "release">> ELSE rest

\* What is left to do when a step fails.  Failures of compensating writes are
\* logged and passed over, as are those of a cancelled or failed stream.
OnError(c, step, rest) ==
    LET stops == c \notin StreamCalls IN
    CASE step = "resolve" -> <<>>
      [] step = "reserve" -> <<"release">>
      [] step \in {"authorize", "create"} -> Compensation(c)
      [] step = "attach" -> <<"refund", "fail", "release">>
      [] step = "ledger" /\ stops -> Compensation(c)
      [] step = "settle" /\ stops -> <<"release">>
      [] step = "settle" /\ rest = <<"release", "complete">> -> <<"fail", "release">>
      [] OTHER -> rest

\* A stream that ended well but could not be settled counts as failed.  In one that
\* was cut off the error of the settlement takes the place of the cause, and with it
\* of a deadline, the only cause the channel is blamed for.
OutcomeOnError(c, step, rest) ==
    IF step # "settle" \/ c \notin StreamCalls THEN request[c].outcome
    ELSE IF rest = <<"release", "complete">> THEN "failure"
    ELSE IF rest = <<"cancel", "release">> THEN "neutral"
    ELSE request[c].outcome

UsesRequestContext(c, step) ==
    \/ step \in {"resolve", "reserve", "create", "attach", "releaseReq", "failReq"}
    \/ c \notin StreamCalls /\ step \in {"ledger", "settle", "complete"}

At(c, step) == request[c].todo # <<>> /\ Head(request[c].todo) = step

Ended(c) == request[c].todo = <<>>

IdleWorker ==
    [batch |-> <<>>, linked |-> {}, at |-> "idle", cost |-> 0]

GatewayInit ==
    /\ LedgerInit
    /\ channel = NewChannel
    /\ invocation = [c \in Calls |-> [status |-> "none", cost |-> 0, usage |-> 0]]
    /\ claim = [c \in Calls |->
                  [attached |-> FALSE, stale |-> FALSE, owner |-> NoWorker, live |-> FALSE]]
    /\ request = [c \in Calls |->
                    [todo |-> Opening(c), cost |-> 0, outcome |-> "neutral",
                     gone |-> FALSE, opened |-> FALSE]]
    /\ worker = [w \in Workers |-> IdleWorker]
    /\ slot = [c \in Calls |-> 0]
    /\ faults = 0
    /\ crashes = 0
    /\ slow = 0

Succeed(c) == request' = [request EXCEPT ![c].todo = Tail(@)]

GiveUp(c, step) ==
    LET rest == Tail(request[c].todo) IN
    request' = [request EXCEPT ![c].todo = OnError(c, step, rest),
                               ![c].outcome = OutcomeOnError(c, step, rest)]

stored == <<ledgerVars, channel, invocation, claim, slot>>

\* One database call of handler c: Effect says what it does when it works.
DatabaseCall(c, step, Effect) ==
    /\ At(c, step)
    /\ UNCHANGED <<worker, crashes, slow>>
    /\ \/ /\ ~(request[c].gone /\ UsesRequestContext(c, step))
          /\ Effect
          /\ Succeed(c)
          /\ UNCHANGED faults
       \/ /\ request[c].gone /\ UsesRequestContext(c, step)
          /\ UNCHANGED <<stored, faults>>
          /\ GiveUp(c, step)
       \/ /\ faults < MaxFaults
          /\ faults' = faults + 1
          /\ Effect \/ UNCHANGED stored
          /\ GiveUp(c, step)

ResolveInvocationTarget(c) ==
    DatabaseCall(c, "resolve",
        /\ AdmitCall
        /\ slot' = [slot EXCEPT ![c] = @ + 1]
        /\ UNCHANGED <<ledgerVars, invocation, claim>>)

\* No channel has capacity: the call ends with nothing taken.
NoTarget(c) ==
    /\ At(c, "resolve")
    /\ ~HasCapacity(channel)
    /\ GiveUp(c, "resolve")
    /\ UNCHANGED <<stored, worker, faults, crashes, slow>>

Reserve(c) ==
    DatabaseCall(c, "reserve",
        /\ \E amount \in Estimates : ReserveAccessTokenBalance(c, amount)
        /\ UNCHANGED <<channel, invocation, claim, slot>>)

\* The quota or the balance does not cover the estimate, or the token expired.
ReservationRefused(c) ==
    /\ At(c, "reserve")
    /\ GiveUp(c, "reserve")
    /\ UNCHANGED <<stored, worker, faults, crashes, slow>>

\* The security kernel decides, then the adapter is looked up.
Authorize(c) ==
    /\ At(c, "authorize")
    /\ Succeed(c) \/ GiveUp(c, "authorize")
    /\ UNCHANGED <<stored, worker, faults, crashes, slow>>

CreateInvocation(c) ==
    DatabaseCall(c, "create",
        /\ invocation' = [invocation EXCEPT
              ![c].status = IF c \in StreamCalls THEN "streaming" ELSE "started"]
        /\ UNCHANGED <<ledgerVars, channel, claim, slot>>)

AttachBalanceReservation(c) ==
    DatabaseCall(c, "attach",
        /\ claim' = [claim EXCEPT ![c].attached = TRUE]
        /\ UNCHANGED <<ledgerVars, channel, invocation, slot>>)

\* What the handler keeps of an answer, and what it does next.
Answer(c, cost, outcome, todo) ==
    request' = [request EXCEPT
        ![c].todo = todo, ![c].cost = cost, ![c].outcome = outcome,
        ![c].opened = c \in StreamCalls /\ todo # AfterProviderError(c)]

\* The answer of the provider: a result with its cost, a stream that ends, fails,
\* runs into its deadline or loses its client, or an error before any content.
InvokeProvider(c) ==
    /\ At(c, "provider")
    /\ \E cost \in Costs, outcome \in Outcomes, todo \in
            {AfterSuccess(c), AfterStreamError(c), AfterStreamCancelled(c), AfterProviderError(c)} :
          /\ \/ outcome = "success" /\ todo = AfterSuccess(c)
             \/ outcome = "failure" /\ todo = AfterStreamError(c) /\ c \in StreamCalls
             \/ /\ outcome = "failure" \/ (outcome = "neutral" /\ request[c].gone)
                /\ todo = AfterStreamCancelled(c) /\ c \in StreamCalls
             \/ outcome # "success" /\ cost = 0 /\ todo = AfterProviderError(c)
          /\ Answer(c, cost, outcome, todo)
    /\ UNCHANGED <<stored, worker, faults, crashes, slow>>

CreateUsageLedger(c) ==
    DatabaseCall(c, "ledger",
        /\ invocation' = [invocation EXCEPT ![c].usage = request[c].cost]
        /\ UNCHANGED <<ledgerVars, channel, claim, slot>>)

Settle(c) ==
    DatabaseCall(c, "settle",
        /\ SettleAccessTokenBalance(c, request[c].cost)
        /\ UNCHANGED <<channel, invocation, claim, slot>>)

Refund(c) ==
    DatabaseCall(c, "refund",
        /\ RefundAccessTokenBalance(c)
        /\ UNCHANGED <<channel, invocation, claim, slot>>)

\* releaseReq is the release made with the request's context, release the
\* deferred or stream release made with context.Background().
ReleaseSlot(c) ==
    \E step \in {"release", "releaseReq"} :
        DatabaseCall(c, step,
            /\ ReleaseChannel(request[c].cost, request[c].outcome)
            /\ slot' = [slot EXCEPT ![c] = @ - 1]
            /\ UNCHANGED <<ledgerVars, invocation, claim>>)

CompleteInvocation(c) ==
    DatabaseCall(c, "complete",
        /\ invocation' = [invocation EXCEPT ![c].status = "completed", ![c].cost = request[c].cost]
        /\ UNCHANGED <<ledgerVars, channel, claim, slot>>)

FailInvocation(c) ==
    \E step \in {"fail", "failReq", "cancel"} :
        DatabaseCall(c, step,
            /\ invocation' = [invocation EXCEPT
                  ![c].status = IF step = "cancel" THEN "cancelled" ELSE "failed"]
            /\ UNCHANGED <<ledgerVars, channel, claim, slot>>)

Handler(c) ==
    \/ ResolveInvocationTarget(c) \/ NoTarget(c)
    \/ Reserve(c) \/ ReservationRefused(c)
    \/ Authorize(c)
    \/ CreateInvocation(c)
    \/ AttachBalanceReservation(c)
    \/ InvokeProvider(c)
    \/ CreateUsageLedger(c)
    \/ Settle(c) \/ Refund(c)
    \/ ReleaseSlot(c)
    \/ CompleteInvocation(c) \/ FailInvocation(c)

------------------------------------------------------------------------------
(* Clients, operators, crashes and time *)

Disconnect(c) ==
    /\ Disconnects
    /\ ~Ended(c) /\ ~request[c].gone
    /\ request' = [request EXCEPT ![c].gone = TRUE]
    /\ UNCHANGED <<stored, worker, faults, crashes, slow>>

\* The server dies in the middle of a call: no deferred function runs.
Crash(c) ==
    /\ crashes < MaxCrashes
    /\ ~Ended(c) /\ ~At(c, "resolve")
    /\ request' = [request EXCEPT ![c].todo = <<>>]
    /\ crashes' = crashes + 1
    /\ UNCHANGED <<stored, worker, faults, slow>>

Adjust ==
    /\ \E a \in Adjustments : AdjustGatewayBalance(a)
    /\ UNCHANGED <<channel, gatewayVars>>

Cooldown ==
    /\ CooldownElapses
    /\ UNCHANGED <<ledgerVars, gatewayVars>>

\* The reservation becomes older than the recovery cutoff.
Age(c) ==
    /\ resv[c].state = "open" /\ ~claim[c].stale
    /\ LiveRecovery \/ Ended(c)
    /\ claim' = [claim EXCEPT ![c].stale = TRUE]
    /\ UNCHANGED <<ledgerVars, channel, invocation, request, worker, slot, faults, crashes, slow>>

\* An owner that crashed or is done lets its lease expire.  One that is still at
\* work (sixty seconds cover a batch, unless the database stalls) may lose it.
LeaseExpires(c) ==
    LET busy == \E w \in Workers :
                    claim[c].owner = w /\ \E i \in DOMAIN worker[w].batch : worker[w].batch[i] = c
    IN  /\ claim[c].live
        /\ busy => slow < MaxSlow
        /\ slow' = IF busy THEN slow + 1 ELSE slow
        /\ claim' = [claim EXCEPT ![c].live = FALSE]
        /\ UNCHANGED <<ledgerVars, channel, invocation, request, worker, slot, faults, crashes>>

------------------------------------------------------------------------------
(* The recovery worker *)

\* Mutant: a lease that ran out still keeps others from the reservation.
ClaimableUnowned ==
    {c \in Calls : resv[c].state = "open" /\ claim[c].stale /\ claim[c].owner = NoWorker}

Claimable == {c \in Calls : resv[c].state = "open" /\ claim[c].stale /\ ~claim[c].live}

\* The claimed rows, in the order the statement returns them.
Batches == {b \in UNION {[1..n -> Claimable] : n \in 1..BatchSize} :
                \A i, j \in DOMAIN b : b[i] = b[j] => i = j}

\* One statement leases the rows and reads which invocation each is attached to;
\* the recovery acts on that answer.
ClaimStaleBalanceReservations(w) ==
    /\ worker[w].at = "idle"
    /\ \E b \in Batches :
          LET claimed == {b[i] : i \in DOMAIN b} IN
          /\ claim' = [c \in Calls |->
                IF c \in claimed THEN [claim[c] EXCEPT !.owner = w, !.live = TRUE] ELSE claim[c]]
          /\ \/ /\ worker' = [worker EXCEPT ![w] =
                       [IdleWorker EXCEPT !.batch = b, !.at = "verify",
                                          !.linked = {c \in claimed : claim[c].attached}]]
                /\ UNCHANGED faults
             \/ /\ faults < MaxFaults
                /\ faults' = faults + 1
                /\ UNCHANGED worker
    /\ UNCHANGED <<ledgerVars, channel, invocation, request, slot, crashes, slow>>

Current(w) == Head(worker[w].batch)

GoTo(w, at) == worker' = [worker EXCEPT ![w].at = at]

\* On to the next reservation of the batch, or the end of the run.
NextReservation(w) ==
    LET row == worker[w] IN
    worker' = [worker EXCEPT ![w] =
        IF Len(row.batch) = 1 THEN IdleWorker
        ELSE [batch |-> Tail(row.batch), linked |-> row.linked, at |-> "verify", cost |-> 0]]

\* A database call of worker w; its failure ends the recovery of this reservation.
WorkerCall(w, at, Effect) ==
    /\ worker[w].at = at
    /\ UNCHANGED <<request, crashes, slow>>
    /\ \/ /\ Effect
          /\ UNCHANGED faults
       \/ /\ faults < MaxFaults
          /\ faults' = faults + 1
          /\ UNCHANGED stored
          /\ GoTo(w, "unlease")

\* The same for a write, which may fail after it took effect.
WorkerWrite(w, at, Effect, Then) ==
    \/ WorkerCall(w, at, Effect /\ Then)
    \/ /\ worker[w].at = at
       /\ faults < MaxFaults
       /\ faults' = faults + 1
       /\ Effect
       /\ GoTo(w, "unlease")
       /\ UNCHANGED <<request, crashes, slow>>

\* The lease is checked by its owner only: it may have expired long ago.
VerifyLease(w) ==
    WorkerCall(w, "verify",
        /\ GoTo(w, IF claim[Current(w)].owner # w THEN "unlease"
                   ELSE IF Current(w) \in worker[w].linked THEN "load" ELSE "refund")
        /\ UNCHANGED stored)

LoadInvocation(w) ==
    WorkerCall(w, "load",
        /\ LET inv == invocation[Current(w)]
               at == IF inv.status \in {"started", "streaming"} THEN "cancel" ELSE "settle"
               cost == IF inv.cost # 0 THEN inv.cost ELSE inv.usage
           IN  worker' = [worker EXCEPT ![w].at = at, ![w].cost = cost]
        /\ UNCHANGED stored)

\* Mutant: a status the table's check does not know.
MarkRecovered(w) ==
    LET c == Current(w) IN
    WorkerWrite(w, "cancel",
        /\ invocation' = [invocation EXCEPT ![c].status = "recovered"]
        /\ UNCHANGED <<ledgerVars, channel, claim, slot>>,
        GoTo(w, "release"))

CancelStaleInvocation(w) ==
    LET c == Current(w)
        active == invocation[c].status \in {"started", "streaming"}
    IN  WorkerWrite(w, "cancel",
            /\ invocation' = IF active THEN [invocation EXCEPT ![c].status = "cancelled"]
                             ELSE invocation
            /\ UNCHANGED <<ledgerVars, channel, claim, slot>>,
            GoTo(w, IF active THEN "release" ELSE "settle"))

ReleaseStaleSlot(w) ==
    WorkerWrite(w, "release",
        /\ ReleaseChannel(worker[w].cost, "neutral")
        /\ slot' = [slot EXCEPT ![Current(w)] = @ - 1]
        /\ UNCHANGED <<ledgerVars, invocation, claim>>,
        GoTo(w, "settle"))

SettleStale(w) ==
    WorkerWrite(w, "settle",
        /\ SettleAccessTokenBalance(Current(w), worker[w].cost)
        /\ UNCHANGED <<channel, invocation, claim, slot>>,
        NextReservation(w))

RefundStale(w) ==
    WorkerWrite(w, "refund",
        /\ RefundAccessTokenBalance(Current(w))
        /\ UNCHANGED <<channel, invocation, claim, slot>>,
        NextReservation(w))

\* The owner gives the lease back; whether that worked is only logged.
ReleaseLease(w) ==
    /\ worker[w].at = "unlease"
    /\ \/ /\ claim' = IF claim[Current(w)].owner = w
                      THEN [claim EXCEPT ![Current(w)].owner = NoWorker, ![Current(w)].live = FALSE]
                      ELSE claim
          /\ UNCHANGED faults
       \/ /\ faults < MaxFaults
          /\ faults' = faults + 1
          /\ UNCHANGED claim
    /\ NextReservation(w)
    /\ UNCHANGED <<ledgerVars, channel, invocation, request, slot, crashes, slow>>

WorkerCrash(w) ==
    /\ worker[w].at # "idle"
    /\ crashes < MaxCrashes
    /\ crashes' = crashes + 1
    /\ worker' = [worker EXCEPT ![w] = IdleWorker]
    /\ UNCHANGED <<stored, request, faults, slow>>

Recovery(w) ==
    \/ ClaimStaleBalanceReservations(w)
    \/ VerifyLease(w) \/ LoadInvocation(w)
    \/ CancelStaleInvocation(w) \/ ReleaseStaleSlot(w)
    \/ SettleStale(w) \/ RefundStale(w)
    \/ ReleaseLease(w)

GatewayNext ==
    \/ \E c \in Calls : Handler(c) \/ Disconnect(c) \/ Crash(c) \/ Age(c) \/ LeaseExpires(c)
    \/ \E w \in Workers : Recovery(w) \/ WorkerCrash(w)
    \/ Adjust
    \/ Cooldown

GatewaySpec == GatewayInit /\ [][GatewayNext]_vars

\* A handler runs on until it returns; time passes; the worker polls for ever.
GatewayFairness ==
    /\ \A c \in Calls : WF_vars(Handler(c)) /\ WF_vars(Age(c)) /\ WF_vars(LeaseExpires(c))
    /\ \A w \in Workers : WF_vars(Recovery(w))

FairGatewaySpec == GatewaySpec /\ GatewayFairness

------------------------------------------------------------------------------
\* Recorded usage is paid, and what is shown as charged was charged: a call that
\* crashed or lost its client between its usage row and its settlement is settled by
\* the recovery for no less; the refunds of the handlers and the recovery's refund
\* of unattached reservations come only where nothing was used, unless a database
\* call failed after it took effect; a completed call of a token was settled for
\* exactly the cost that its invocation shows.
UsageIsPaid ==
    ~LiveRecovery =>
        /\ \A c \in Calls :
              /\ resv[c].state = "settled" => resv[c].cost >= invocation[c].usage
              /\ (faults = 0 /\ resv[c].state = "refunded") => invocation[c].usage = 0
        /\ \A c \in MeteredCalls : invocation[c].status = "completed" =>
              resv[c].state = "settled" /\ resv[c].cost = invocation[c].cost

\* The client stayed, or left while the call was being set up, or left a stream
\* that had been opened: what is written then uses a context of its own.
KeptContext(c) ==
    \/ ~request[c].gone
    \/ request[c].opened
    \/ invocation[c].status \in {"none", "failed"}

\* Without faults and crashes inflight_requests counts the slots that are out, and
\* every way out of a handler (refusals, denials, provider errors, streams that
\* end, fail, time out or lose their client) gives the slot back, once.  A recovery of
\* a call that still runs would give it back as well (LiveRecovery).
CapacityIsExact ==
    (~LiveRecovery /\ faults = 0 /\ crashes = 0 /\ \A c \in Calls : KeptContext(c)) =>
        /\ channel.inflight = Cardinality({c \in Calls : slot[c] = 1})
        /\ \A c \in Calls : slot[c] \in (IF Ended(c) THEN {0} ELSE {0, 1})

\* A reservation does not stay open for ever, whatever crashed or failed.
OpenReservationIsFinished ==
    \A c \in Calls : resv[c].state = "open" ~> resv[c].state \in {"settled", "refunded"}

\* What BASELINE_RESTRUCTURE.md says of disconnects: "Client disconnects and
\* internal accounting failures release capacity".
DisconnectReleasesCapacity ==
    (faults = 0 /\ crashes = 0) =>
        \A c \in Calls : Ended(c) /\ request[c].gone => slot[c] <= 0

\* What it says of the recovery worker: it "releases channels held by
\* abandoned active calls".  The channel of a call whose handler released it is
\* not held any more, and releasing it again gives away the slot of another.
ReleasedSlotsWereHeld == (faults = 0 /\ crashes = 0) => \A c \in Calls : slot[c] >= 0
==============================================================================
