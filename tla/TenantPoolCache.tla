---------------------------- MODULE TenantPoolCache ----------------------------
(***************************************************************************)
(* The cache of tenant database pools behind the pool router.  Goroutines   *)
(* (callers) acquire the pool of a tenant under a lease; a mutex guards the *)
(* cache, but a pool is created, waited for and (when it was idle) closed   *)
(* outside of it.  Each critical section is one action.                     *)
(*                                                                          *)
(* A pool is "open" from its creation until Close() on it is called.  From  *)
(* then on it gives no connection to anybody, but it is "closed", and the   *)
(* call of Close() ends, only when the connections it gave are back.        *)
(*                                                                          *)
(* Which idle pools are old enough to go is left open: an eviction takes    *)
(* any pool without a lease, where the code takes the least recently used   *)
(* one, and the sweeper any set of them, where the code takes those past    *)
(* IdlePoolTimeout.  Nobody has a connection of theirs, as                  *)
(* PoolIsClosedInTime says, so that closing them does not wait.             *)
(*                                                                          *)
(* Not modelled: the statistics, and the resolution of a tenant's URL.      *)
(***************************************************************************)
EXTENDS Integers, FiniteSets

CONSTANTS
    Callers,         \* goroutines that acquire pools
    Tenants,         \* tenant database URLs
    MaxCachedPools,  \* config.MaxCachedPools
    Entries,         \* bound: the cache entries that are ever made
    NoEntry          \* no entry

ASSUME PoolAssumption ==
    /\ IsFiniteSet(Callers)
    /\ IsFiniteSet(Tenants)
    /\ MaxCachedPools \in Nat \ {0}
    /\ NoEntry \notin Entries

VARIABLES
    pools,    \* the map c.pools: the entry of each tenant
    entry,    \* every entry ever made: its pool, leases, and ready and err
    caller,   \* what each caller is doing, and with which entry
    closed,   \* c.closed
    reaping,  \* entries whose pools the sweeper has taken out and not closed yet
    closing,  \* the same for Close
    closes    \* history: how often the pool of each entry was closed

poolVars == <<pools, entry, caller, closed, reaping, closing, closes>>

Cached == {pools[u] : u \in Tenants} \ {NoEntry}

\* The map after the entries of S were deleted from it.
Without(S) == [u \in Tenants |-> IF pools[u] \in S THEN NoEntry ELSE pools[u]]

CallerSteps == {"out", "creating", "created", "refused", "waiting", "holding", "using",
                "releasing", "released"}

PoolTypeOK ==
    /\ pools \in [Tenants -> Entries \cup {NoEntry}]
    /\ entry \in [Entries -> [made : BOOLEAN, pool : {"none", "open", "closing", "closed"},
                              leases : Nat, ready : BOOLEAN, err : BOOLEAN]]
    /\ caller \in [Callers -> [at : CallerSteps, entry : Entries \cup {NoEntry}]]
    /\ closed \in BOOLEAN
    /\ reaping \subseteq Entries
    /\ closing \subseteq Entries
    /\ closes \in [Entries -> Nat]

PoolInit ==
    /\ pools = [u \in Tenants |-> NoEntry]
    /\ entry = [e \in Entries |-> [made |-> FALSE, pool |-> "none", leases |-> 0,
                                   ready |-> FALSE, err |-> FALSE]]
    /\ caller = [p \in Callers |-> [at |-> "out", entry |-> NoEntry]]
    /\ closed = FALSE
    /\ reaping = {}
    /\ closing = {}
    /\ closes = [e \in Entries |-> 0]

------------------------------------------------------------------------------
(* Acquire *)

\* The tenant has an entry: a lease keeps it in the cache while the caller
\* waits for its creator.
AcquireCached(p, u) ==
    /\ caller[p].at = "out"
    /\ ~closed
    /\ pools[u] # NoEntry
    /\ entry' = [entry EXCEPT ![pools[u]].leases = @ + 1]
    /\ caller' = [caller EXCEPT ![p] = [at |-> "waiting", entry |-> pools[u]]]
    /\ UNCHANGED <<pools, closed, reaping, closing, closes>>

Unleased == {e \in Cached : entry[e].leases = 0}

\* The caller becomes the creator of the tenant's entry and its first user; a full cache
\* gives up an entry nobody leases.  If all are leased the caller is turned away (a step
\* that changes nothing).
AcquireNew(p, u) ==
    /\ caller[p].at = "out"
    /\ ~closed
    /\ pools[u] = NoEntry
    /\ \E e \in Entries, evicted \in SUBSET Unleased :
          /\ ~entry[e].made
          /\ Cardinality(evicted) = IF Cardinality(Cached) >= MaxCachedPools THEN 1 ELSE 0
          /\ pools' = [Without(evicted) EXCEPT ![u] = e]
          /\ entry' = [d \in Entries |->
                IF d = e THEN [made |-> TRUE, pool |-> "none", leases |-> 1,
                               ready |-> FALSE, err |-> FALSE]
                ELSE IF d \in evicted /\ entry[d].pool # "none"
                     THEN [entry[d] EXCEPT !.pool = "closed"] ELSE entry[d]]
          /\ closes' = [d \in Entries |->
                IF d \in evicted /\ entry[d].pool # "none" THEN closes[d] + 1 ELSE closes[d]]
          /\ caller' = [caller EXCEPT ![p] = [at |-> "creating", entry |-> e]]
    /\ UNCHANGED <<closed, reaping, closing>>

GoOn(p, at) == caller' = [caller EXCEPT ![p].at = at]

\* The factory runs without the mutex: it returns a pool or an error.
CreatePool(p) ==
    /\ caller[p].at = "creating"
    /\ GoOn(p, "created") \/ GoOn(p, "refused")
    /\ UNCHANGED <<pools, entry, closed, reaping, closing, closes>>

\* Mutants: the cache is not asked again whether it was closed, and a creation that
\* failed does not wake up those who wait for it.
FinishUnasked(p) ==
    LET e == caller[p].entry IN
    /\ caller[p].at = "created"
    /\ entry' = [entry EXCEPT ![e].pool = "open", ![e].ready = TRUE]
    /\ GoOn(p, "holding")
    /\ UNCHANGED <<pools, closed, reaping, closing, closes>>

FinishSilently(p) ==
    LET e == caller[p].entry IN
    /\ caller[p].at = "refused"
    /\ entry' = [entry EXCEPT ![e].err = TRUE]
    /\ pools' = Without({e})
    /\ GoOn(p, "releasing")
    /\ UNCHANGED <<closed, reaping, closing, closes>>

\* Back under the mutex: the pool goes into the entry, or the entry leaves the
\* cache because there is no pool or the cache was closed in the meantime.
FinishCreation(p) ==
    LET e == caller[p].entry IN
    /\ caller[p].at \in {"created", "refused"}
    /\ IF caller[p].at = "created" /\ ~closed
       THEN /\ entry' = [entry EXCEPT ![e].pool = "open", ![e].ready = TRUE]
            /\ GoOn(p, "holding")
            /\ UNCHANGED <<pools, closes>>
       ELSE /\ entry' = [entry EXCEPT ![e].err = TRUE, ![e].ready = TRUE]
            /\ pools' = Without({e})
            /\ closes' = IF caller[p].at = "created"
                         THEN [closes EXCEPT ![e] = @ + 1] ELSE closes
            /\ GoOn(p, "releasing")
    /\ UNCHANGED <<closed, reaping, closing>>

\* Mutant: a waiter that gets its creator's error leaves its lease behind.
WaitAndForget(p) ==
    /\ caller[p].at = "waiting"
    /\ entry[caller[p].entry].ready
    /\ caller' = [caller EXCEPT ![p] =
          IF entry[@.entry].err THEN [at |-> "out", entry |-> NoEntry]
          ELSE [at |-> "holding", entry |-> @.entry]]
    /\ UNCHANGED <<pools, entry, closed, reaping, closing, closes>>

\* The creator is done: the waiter has a pool, or its creator's error.
Wait(p) ==
    /\ caller[p].at = "waiting"
    /\ entry[caller[p].entry].ready
    /\ GoOn(p, IF entry[caller[p].entry].err THEN "releasing" ELSE "holding")
    /\ UNCHANGED <<pools, entry, closed, reaping, closing, closes>>

\* The waiter's context ends first.
CancelWait(p) ==
    /\ caller[p].at = "waiting"
    /\ GoOn(p, "releasing")
    /\ UNCHANGED <<pools, entry, closed, reaping, closing, closes>>

\* The pool gives the caller a connection for a statement, rows or a transaction.  It has
\* none to give when it was closed; otherwise it may fail, or keep him waiting too long.
Connect(p) ==
    /\ caller[p].at = "holding"
    /\ \/ entry[caller[p].entry].pool = "open" /\ GoOn(p, "using")
       \/ GoOn(p, "releasing")
    /\ UNCHANGED <<pools, entry, closed, reaping, closing, closes>>

\* The rows end or are closed, or the transaction ends: first the connection goes back.
Disconnect(p) ==
    /\ caller[p].at = "using"
    /\ GoOn(p, "releasing")
    /\ UNCHANGED <<pools, entry, closed, reaping, closing, closes>>

\* Mutant: Commit releases, and so does the deferred Rollback.
ReleaseTwice(p) ==
    /\ caller[p].at \in {"releasing", "released"}
    /\ entry' = [entry EXCEPT ![caller[p].entry].leases = @ - 1]
    /\ GoOn(p, "released")
    /\ UNCHANGED <<pools, closed, reaping, closing, closes>>

\* The release function.  Rows and transactions may call it several times, at their end
\* and from Close or a deferred Rollback: only the first call has an effect.
Release(p) ==
    LET e == caller[p].entry IN
    /\ caller[p].at \in {"releasing", "released"}
    /\ entry' = IF caller[p].at = "released" THEN entry
                ELSE [entry EXCEPT ![e].leases = IF @ > 0 THEN @ - 1 ELSE @]
    /\ GoOn(p, "released")
    /\ UNCHANGED <<pools, closed, reaping, closing, closes>>

\* The caller forgets about rows, transaction and lease.
Leave(p) ==
    /\ caller[p].at = "released"
    /\ caller' = [caller EXCEPT ![p] = [at |-> "out", entry |-> NoEntry]]
    /\ UNCHANGED <<pools, entry, closed, reaping, closing, closes>>

------------------------------------------------------------------------------
(* The idle sweeper and Close *)

\* The sweeper takes idle entries out under the mutex.
ReapIdle ==
    /\ ~closed
    /\ reaping = {}
    /\ \E idle \in SUBSET Unleased :
          /\ idle # {}
          /\ pools' = Without(idle)
          /\ reaping' = idle
    /\ UNCHANGED <<entry, caller, closed, closing, closes>>

\* It closes their pools after it has given up the mutex.
CloseReaped(e) ==
    /\ e \in reaping
    /\ entry' = [entry EXCEPT ![e].pool = "closed"]
    /\ closes' = [closes EXCEPT ![e] = @ + 1]
    /\ reaping' = reaping \ {e}
    /\ UNCHANGED <<pools, caller, closed, closing>>

\* Entries that are still being created have no pool: their creators will see
\* that the cache is closed.
Close ==
    /\ ~closed
    /\ closed' = TRUE
    /\ closing' = {e \in Cached : entry[e].pool # "none"}
    /\ pools' = [u \in Tenants |-> NoEntry]
    /\ UNCHANGED <<entry, caller, reaping, closes>>

\* Close waits for the sweeper to end; then it closes the pools one after the other,
CloseNext(e) ==
    /\ reaping = {}
    /\ e \in closing
    /\ \A d \in closing : entry[d].pool = "open"
    /\ entry' = [entry EXCEPT ![e].pool = "closing"]
    /\ closes' = [closes EXCEPT ![e] = @ + 1]
    /\ UNCHANGED <<pools, caller, closed, reaping, closing>>

InUse(e) == \E p \in Callers : caller[p].at = "using" /\ caller[p].entry = e

\* and waits at each for the connections that are out.
CloseEnds(e) ==
    /\ entry[e].pool = "closing"
    /\ ~InUse(e)
    /\ entry' = [entry EXCEPT ![e].pool = "closed"]
    /\ closing' = closing \ {e}
    /\ UNCHANGED <<pools, caller, closed, reaping, closes>>

CallerStep(p) ==
    \/ \E u \in Tenants : AcquireCached(p, u) \/ AcquireNew(p, u)
    \/ CreatePool(p) \/ FinishCreation(p)
    \/ Wait(p) \/ CancelWait(p)
    \/ Connect(p) \/ Disconnect(p)
    \/ Release(p) \/ Leave(p)

PoolNext ==
    \/ \E p \in Callers : CallerStep(p)
    \/ ReapIdle
    \/ \E e \in Entries : CloseReaped(e) \/ CloseNext(e) \/ CloseEnds(e)
    \/ Close

PoolSpec == PoolInit /\ [][PoolNext]_poolVars

\* A factory returns, a goroutine that is not blocked enters its next critical
\* section, and the loops that close pools go on unless a pool waits for a connection.
\* Nothing is assumed of callers who have a lease or a connection.
PoolFairness ==
    /\ \A p \in Callers : WF_poolVars(CreatePool(p) \/ FinishCreation(p) \/ Wait(p))
    /\ \A e \in Entries : WF_poolVars(CloseReaped(e))
    /\ WF_poolVars(\E e \in Entries : CloseNext(e) \/ CloseEnds(e))

FairPoolSpec == PoolSpec /\ PoolFairness

------------------------------------------------------------------------------
\* Those who have a lease on an entry that they did not give back.
Users(e) == {p \in Callers : caller[p].entry = e /\ caller[p].at # "released"}

\* A lease is counted for every caller that has, waits for, or creates the pool
\* of an entry, in the cache or not, and for no one else, however often it is given
\* back; and the cache keeps to its limit, with the entries still being created
\* counted in.
LeasesCountUsers ==
    /\ \A e \in Entries : entry[e].leases = Cardinality(Users(e))
    /\ Cardinality(Cached) <= MaxCachedPools

\* A pool is closed once and in time.  Until the cache is closed nobody's pool is
\* closed under him or missing: not by an eviction or a sweep that overlaps his
\* wait for its creation.  And at no time does a connection in use lose its pool, nor is
\* a pool forgotten: one that is open is in the cache, or in the hands of the sweeper
\* or of Close, who will close it.
PoolIsClosedInTime ==
    /\ \A p \in Callers :
        /\ ~closed /\ caller[p].at \in {"holding", "using"} =>
              entry[caller[p].entry].pool = "open"
        /\ caller[p].at = "using" => entry[caller[p].entry].pool \in {"open", "closing"}
    /\ \A e \in Entries :
        /\ entry[e].pool \in {"open", "closing"} => e \in Cached \cup reaping \cup closing
        /\ closes[e] <= 1

\* Nobody keeps a connection for ever: queries end with their contexts, and rows and
\* transactions are closed by deferred calls.
ConnectionsComeBack == \A p \in Callers : []<>(caller[p].at # "using")

\* Whoever waits for a pool gets an answer, whatever its creator meets; and if
\* connections come back, no pool stays open after Close, not even one whose creation
\* was under way.  One connection that does not come back keeps all later pools open.
PoolProgress ==
    /\ \A p \in Callers : caller[p].at = "waiting" ~> caller[p].at \in {"holding", "releasing"}
    /\ ConnectionsComeBack =>
          (closed ~> /\ \A e \in Entries : entry[e].pool \in {"none", "closed"}
                     /\ \A p \in Callers : caller[p].at # "created")
==============================================================================
